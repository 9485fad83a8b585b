------------------------- MODULE LifecycleEvidence --------------------------
(***************************************************************************)
(* How the lifecycle ledger concludes: lifecycle_ingest.py (participants,  *)
(* disappearance candidates, registry markers), lifecycle_research.py (the *)
(* evidence profile) and lifecycle_adjudicate.py (rules R1-R7, edges).     *)
(* All of it is pure: the conclusion depends on the assertions and on the  *)
(* registry months alone.                                                  *)
(*                                                                         *)
(* Abstractions: a fund is its register number (the registry holds FI      *)
(* funds only); an assertion is what its participants and its type are     *)
(* computed from; texts, dates, documents and the correction targets,      *)
(* which only annotate a record, are left out.                             *)
(***************************************************************************)
EXTENDS Integers, FiniteSets

CONSTANTS Funds,       \* register numbers
          Months,      \* the registry months 1..Months
          None

ASSUME FundsAssumption == IsFiniteSet(Funds) /\ None \notin Funds
ASSUME MonthsAssumption == Months \in Nat

MergerTypes == {"MERGER_REQUESTED", "MERGER_PROPOSED", "MERGER_AUTHORIZED",
                "MERGER_REGISTERED", "MERGER_EXECUTED", "MERGER_RENOUNCED",
                "MERGER_REGISTRATION_RECORDED"}
Marker == "REGISTRY_NAME_IN_LIQUIDATION_MARKER"
OtherTypes == {"DISSOLUTION_AGREED", "LIQUIDATION_EXECUTED",
               "RECTIFICATION_REPORTED", "DEREGISTRATION_RECORDED", Marker}

Assertion == [type : MergerTypes \cup OtherTypes,
              family : {"weekly", "hr", "fondregistro"},
              regs : SUBSET Funds,    \* regnums_in_text
              succ : SUBSET Funds,    \* successor_regnums, the "por" clause
              subject : Funds \cup {None}, object : Funds \cup {None},
              named : BOOLEAN,        \* the object is a name without a number
              entity : Funds \cup {None}]     \* resolved_fund_key

(***************************************************************************)
(* assertion_participants                                                  *)
(***************************************************************************)
Party(role, S) == {[role |-> role, fund |-> f] : f \in S \ {None}}

MergerParties(a) ==
    LET covered == a.regs \cup a.succ
    IN  Party("ABSORBED", a.regs \ a.succ)
            \cup Party("ABSORBING", a.succ)
            \cup Party("SUBJECT", {a.subject} \ covered)
            \cup Party("TARGET", {a.object} \ covered)
            \cup Party("SUBJECT", {f \in {a.entity} : covered = {} /\ a.subject = None})

\* a verbatim name is a TARGET that is no fund, and takes the entity's place
OtherParties(a) ==
    LET named == Party("SUBJECT", {a.subject}) \cup Party("TARGET", {a.object})
                     \cup Party("UNKNOWN", a.regs \ {a.subject, a.object})
    IN  named \cup Party("SUBJECT", {f \in {a.entity} : named = {} /\ ~a.named})

Participants(a) == IF a.type \in MergerTypes THEN MergerParties(a) ELSE OtherParties(a)

(***************************************************************************)
(* evidence_profiles: what the assertions of ledger L say of fund f        *)
(***************************************************************************)
Mine(L, f) == {a \in L : \E p \in Participants(a) : p.fund = f}
Types(L, f) == {a.type : a \in Mine(L, f)}
HasMerger(L, f) == Types(L, f) \cap MergerTypes # {}

\* Mutant: the absorbing participants of every assertion about the fund,
\* whether or not it is the fund that is absorbed there.
AbsorbedInAny(f, a) == a.type \in MergerTypes /\ a \in Mine({a}, f)

AbsorbedIn(f, a) == [role |-> "ABSORBED", fund |-> f] \in Participants(a)
Absorbed(L, f) == \E a \in Mine(L, f) : AbsorbedIn(f, a)

\* Mutant: relevant-information pages are believed before the bulletins.
SuccessorsPreferringHr(L, f) ==
    LET by(S) == {g \in Funds : \E a \in Mine(S, f) :
            AbsorbedIn(f, a) /\ [role |-> "ABSORBING", fund |-> g] \in Participants(a)}
        hr == by({a \in L : a.family = "hr"})
    IN  IF hr # {} THEN hr ELSE by(L)

\* exact_successor_ids
Successors(L, f) ==
    {g \in Funds : \E a \in Mine(L, f) :
        AbsorbedIn(f, a) /\ [role |-> "ABSORBING", fund |-> g] \in Participants(a)}

\* contradiction flag MERGER_PLUS_DISSOLUTION
MergerPlusDissolution(L, f) ==
    HasMerger(L, f) /\ Types(L, f) \cap {"DISSOLUTION_AGREED", "LIQUIDATION_EXECUTED"} # {}

(***************************************************************************)
(* adjudicate: the first rule that applies                                 *)
(***************************************************************************)
Applies(L, f) == <<
    \/ "MERGER_RENOUNCED" \in Types(L, f) /\ HasMerger(L, f)
    \/ "RECTIFICATION_REPORTED" \in Types(L, f),
    MergerPlusDissolution(L, f),
    Absorbed(L, f) /\ Cardinality(Successors(L, f)) > 1,
    Absorbed(L, f) /\ Cardinality(Successors(L, f)) = 1 /\ HasMerger(L, f),
    HasMerger(L, f) /\ Successors(L, f) = {},
    Types(L, f) \cap {"LIQUIDATION_EXECUTED", Marker} # {},
    TRUE>>

\* Mutant: a contradiction is looked for only where absorption fails.
RuleAbsorbedFirst(L, f) ==
    LET holds == Applies(L, f)
    IN  IF holds[4] THEN 4
        ELSE CHOOSE n \in 1..7 : holds[n] /\ \A k \in 1..(n - 1) : ~holds[k]

Rule(L, f) ==
    LET holds == Applies(L, f)
    IN  CHOOSE n \in 1..7 : holds[n] /\ \A k \in 1..(n - 1) : ~holds[k]

Outcome == <<"INDETERMINATE_CORRECTION_OR_RENUNCIATION",
             "INDETERMINATE_CONFLICTING_EVIDENCE",
             "INDETERMINATE_MULTIPLE_SUCCESSORS",
             "ADJUDICATED_ABSORBED_BY",
             "INDETERMINATE_NO_SUCCESSOR",
             "ADJUDICATED_LIQUIDATED",
             "UNKNOWN_EXIT">>

\* _corroborated: the successor is absorbing in two source families
Corroborated(L, f, g) ==
    Cardinality({a.family : a \in {b \in Mine(L, f) :
        [role |-> "ABSORBING", fund |-> g] \in Participants(b)}}) >= 2

\* the record of candidate c, a pair <<fund, last month it was present>>
Record(L, c) ==
    LET f == c[1]
        rule == Rule(L, f)
        absorbed == rule = 4
        to == IF absorbed THEN CHOOSE g \in Successors(L, f) : TRUE ELSE None
    IN  [candidate |-> c,
         outcome |-> Outcome[rule],
         successor |-> to,
         corroborated |-> absorbed /\ Corroborated(L, f, to),
         evidence |-> Mine(L, f)]

\* derive_edges
Edges(records) ==
    {[candidate |-> r.candidate, from |-> r.candidate[1], to |-> r.successor] :
        r \in {s \in records : s.outcome = "ADJUDICATED_ABSORBED_BY"}}

(***************************************************************************)
(* The registry: what each stored month says of each fund                  *)
(***************************************************************************)
Status == {"absent", "listed", "in liquidation"}
Month == [Funds -> Status]
Registry == [1..Months -> Month \cup {None}]

\* a month counts when its funds table has rows
Observed(R, m) == R[m] # None /\ \E f \in Funds : R[m][f] # "absent"

\* disappearance_candidates: present in a month, absent from the next one
Candidates(R) ==
    {c \in Funds \X (1..(Months - 1)) :
        /\ Observed(R, c[2]) /\ Observed(R, c[2] + 1)
        /\ R[c[2]][c[1]] # "absent"
        /\ R[c[2] + 1][c[1]] = "absent"}

\* fondregistro_markers
Markers(R) ==
    {[type |-> Marker, family |-> "fondregistro", regs |-> {f}, succ |-> {},
      subject |-> f, object |-> None, named |-> FALSE, entity |-> f] :
        f \in {g \in Funds : \E m \in 1..Months :
                   Observed(R, m) /\ R[m][g] = "in liquidation"}}
=============================================================================
