-------------------------- MODULE LifecycleExport ---------------------------
(***************************************************************************)
(* lifecycle-export / sync over time: source assertions arrive (the store  *)
(* is append-only and every version is parsed, so they never go away),     *)
(* registry months are imported and corrected, and an export derives every *)
(* lifecycle table from what is stored and writes them one file after the  *)
(* other, the manifest last.  The export may die between two files.        *)
(*                                                                         *)
(* Abstractions: source_documents .. candidate_links are one table (they   *)
(* share one fingerprint) holding the assertions; assertion_participants,  *)
(* a function of them, is left out; a fingerprint is the content itself.   *)
(***************************************************************************)
EXTENDS LifecycleEvidence, Sequences

CONSTANTS Acts,            \* assertions the sources will ever make
          RegistryMonths,  \* what a registry month may say
          MaxImports,      \* bound: registry months imported
          MaxCrashes       \* bound: exports that die

ASSUME ActsAssumption == Acts \subseteq Assertion /\ IsFiniteSet(Acts)
ASSUME RegistryAssumption == RegistryMonths \subseteq Month
ASSUME ExportBounds == MaxImports \in Nat /\ MaxCrashes \in Nat

VARIABLES
    ledger,    \* assertions of the stored bulletins and HR pages
    registry,  \* the funds table of each month
    tables,    \* the four lifecycle tables on disk
    manifest,  \* lifecycle/manifest.json: the tables it was written with
    step,      \* the export's next file, "idle" when none runs
    rows,      \* what the running export derived
    imports, crashes

vars == <<ledger, registry, tables, manifest, step, rows, imports, crashes>>

WriteOrder == <<"assertions", "candidates", "adjudications", "edges">>
Empty == [assertions |-> {}, candidates |-> {}, adjudications |-> {}, edges |-> {}]

\* what one export computes, before it writes anything
Derive(L, R) ==
    LET asserts == L \cup Markers(R)
        records == {Record(asserts, c) : c \in Candidates(R)}
    IN  [assertions |-> asserts, candidates |-> Candidates(R),
         adjudications |-> records, edges |-> Edges(records)]

Init ==
    /\ ledger = {}
    /\ registry = [m \in 1..Months |-> None]
    /\ tables = Empty
    /\ manifest = None
    /\ step = "idle"
    /\ rows = Empty
    /\ imports = 0 /\ crashes = 0

Arrive(a) ==
    /\ a \notin ledger
    /\ ledger' = ledger \cup {a}
    /\ UNCHANGED <<registry, tables, manifest, step, rows, imports, crashes>>

\* a period is exported for the first time, or again from a correction
ImportMonth(m, r) ==
    /\ imports < MaxImports
    /\ registry[m] # r
    /\ registry' = [registry EXCEPT ![m] = r]
    /\ imports' = imports + 1
    /\ UNCHANGED <<ledger, tables, manifest, step, rows, crashes>>

StartExport ==
    /\ step = "idle"
    /\ step' = WriteOrder[1]
    /\ rows' = Derive(ledger, registry)
    /\ UNCHANGED <<ledger, registry, tables, manifest, imports, crashes>>

After(f) ==
    LET n == CHOOSE i \in 1..Len(WriteOrder) : WriteOrder[i] = f
    IN  IF n = Len(WriteOrder) THEN "manifest" ELSE WriteOrder[n + 1]

\* Mutant: the edges of earlier exports are kept.
WriteTableKeepingRows ==
    /\ step \in DOMAIN tables
    /\ tables' = [tables EXCEPT ![step] = @ \cup rows[step]]
    /\ step' = After(step)
    /\ UNCHANGED <<ledger, registry, manifest, rows, imports, crashes>>

\* the whole file is replaced
WriteTable ==
    /\ step \in DOMAIN tables
    /\ tables' = [tables EXCEPT ![step] = rows[step]]
    /\ step' = After(step)
    /\ UNCHANGED <<ledger, registry, manifest, rows, imports, crashes>>

WriteManifest ==
    /\ step = "manifest"
    /\ manifest' = rows
    /\ step' = "idle"
    /\ rows' = Empty
    /\ UNCHANGED <<ledger, registry, tables, imports, crashes>>

Crash ==
    /\ step # "idle"
    /\ crashes < MaxCrashes
    /\ crashes' = crashes + 1
    /\ step' = "idle"
    /\ rows' = Empty
    /\ UNCHANGED <<ledger, registry, tables, manifest, imports>>

Next ==
    \/ \E a \in Acts : Arrive(a)
    \/ \E m \in 1..Months, r \in RegistryMonths : ImportMonth(m, r)
    \/ StartExport
    \/ WriteTable
    \/ WriteManifest
    \/ Crash

Spec == Init /\ [][Next]_vars

\* An export runs to its end unless it dies, and is run again and again: only
\* its own steps change the next file without counting as a crash.
FairSpec ==
    Spec /\ WF_step(step' \in DOMAIN Empty \cup {"idle", "manifest"} /\ crashes' = crashes)

-----------------------------------------------------------------------------
(***************************************************************************)
(* verify_dataset, the lifecycle part: reads, never writes.                *)
(***************************************************************************)
\* Mutant: the candidates' fingerprint is left out of the comparison.
SameAsManifestButCandidates ==
    [tables EXCEPT !.candidates = manifest.candidates] = manifest

SameAsManifest == tables = manifest

\* the edge_invariants check: one edge per absorbed candidate at most
EdgeInvariants ==
    /\ {e.candidate : e \in tables.edges} \subseteq
           {r.candidate : r \in {s \in tables.adjudications :
                                   s.outcome = "ADJUDICATED_ABSORBED_BY"}}
    /\ \A d, e \in tables.edges : d.candidate = e.candidate => d = e

VerifyOk == manifest # None => SameAsManifest /\ EdgeInvariants

-----------------------------------------------------------------------------
(***************************************************************************)
(* Properties                                                              *)
(***************************************************************************)
Candidate == Funds \X (1..Months)
Row == [candidate : Candidate, outcome : {Outcome[n] : n \in 1..7},
        successor : Funds \cup {None}, corroborated : BOOLEAN,
        evidence : SUBSET Assertion]
Tables == [assertions : SUBSET Assertion, candidates : SUBSET Candidate,
           adjudications : SUBSET Row,
           edges : SUBSET [candidate : Candidate, from : Funds, to : Funds]]

\* Every variable keeps its shape.
TypeOK ==
    /\ ledger \subseteq Acts
    /\ registry \in Registry
    /\ tables \in Tables
    /\ manifest = None \/ manifest \in Tables
    /\ step \in DOMAIN Empty \cup {"idle", "manifest"}
    /\ rows \in Tables
    /\ imports \in 0..MaxImports /\ crashes \in 0..MaxCrashes

Merges(L, f, g) ==
    \E a \in L : /\ a.type \in MergerTypes
                 /\ [role |-> "ABSORBED", fund |-> f] \in Participants(a)
                 /\ [role |-> "ABSORBING", fund |-> g] \in Participants(a)

\* Every lineage edge on disk, also among the tables of an export that died,
\* rests on a stored assertion that names its source as absorbed and its
\* target as absorbing; no fund absorbs itself.
EdgesBacked ==
    \A e \in tables.edges : Merges(ledger, e.from, e.to) /\ e.from # e.to

\* What verify passes can be followed from an edge to its adjudication and to
\* its evidence: one adjudication per candidate, one edge per absorption, and
\* every piece of evidence in the assertions table.
VerifiedReadModel ==
    (manifest # None /\ VerifyOk) =>
        /\ tables.edges = Edges(tables.adjudications)
        /\ tables.candidates = {r.candidate : r \in tables.adjudications}
        /\ \A r, s \in tables.adjudications : r.candidate = s.candidate => r = s
        /\ \A r \in tables.adjudications : r.evidence \subseteq tables.assertions

\* However evidence comes in and wherever exports die, a fund that was
\* published as absorbed by one fund is never published as absorbed by
\* another one.
SuccessorNeverFlips ==
    [][\A d \in tables.edges, e \in tables'.edges :
        d.from = e.from => d.to = e.to]_vars

\* The outcomes R1 to R3 give: contradicted, corrected, several successors
Blocked == {Outcome[n] : n \in 1..3}

\* More evidence never talks a conflict away: a candidate that rules R1 to R3
\* left indeterminate is not adjudicated by any later export.
ConflictNeverResolved ==
    [][\A r \in tables.adjudications, s \in tables'.adjudications :
        (r.candidate = s.candidate /\ r.outcome \in Blocked)
            => s.outcome \in Blocked]_vars

\* Once sources and registry rest, the tables settle: verify passes them and
\* every further export derives just what is there, whatever exports died.
ExportCatchesUp ==
    <>[](manifest # None /\ VerifyOk /\ (step # "idle" => rows = tables))

\* The rules as docs/g9/adjudication-rules.md registers them: R1 asks for
\* another merger notice besides the renunciation, R2 for merger evidence with
\* any liquidation evidence, R4 for an authorised, registered or executed one.
Registered(L, f) ==
    LET types == Types(L, f)
        merger == types \cap MergerTypes
    IN  [Applies(L, f) EXCEPT
            ![1] = \/ "MERGER_RENOUNCED" \in types /\ merger # {"MERGER_RENOUNCED"}
                   \/ "RECTIFICATION_REPORTED" \in types,
            ![2] = /\ merger # {}
                   /\ types \cap {"DISSOLUTION_AGREED", "LIQUIDATION_EXECUTED", Marker} # {},
            ![4] = @ /\ merger \ {"MERGER_REQUESTED", "MERGER_PROPOSED",
                                  "MERGER_RENOUNCED"} # {}]

\* lifecycle_adjudicate.py:3, "Implements docs/g9/adjudication-rules.md
\* verbatim": every outcome is that of the first registered rule that applies.
OutcomeAsRegistered ==
    \A r \in tables.adjudications : \A n \in 1..7 :
        (/\ Registered(r.evidence, r.candidate[1])[n]
         /\ \A k \in 1..(n - 1) : ~Registered(r.evidence, r.candidate[1])[k])
        => r.outcome = Outcome[n]
=============================================================================
