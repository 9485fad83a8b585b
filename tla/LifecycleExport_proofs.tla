------------------------ MODULE LifecycleExport_proofs ------------------------
(***************************************************************************)
(* What an export concludes from a growing ledger.  The argument: profiles *)
(* are monotone in the assertions and blind to registry markers, so what   *)
(* an earlier export published was concluded from evidence that a later    *)
(* one has too.                                                            *)
(***************************************************************************)
EXTENDS LifecycleExport, FiniteSetTheorems, TLAPS

-----------------------------------------------------------------------------
(***************************************************************************)
(* The first rule that applies                                             *)
(***************************************************************************)
\* Among seven rules the last of which always applies there is a first one.
LEMMA FirstExists ==
    ASSUME NEW S, 7 \in S
    PROVE  \E n \in 1..7 : n \in S /\ \A k \in 1..(n - 1) : k \notin S
  OBVIOUS

\* Rule is the number of the first rule that applies.
LEMMA RuleFirst ==
    ASSUME NEW L, NEW f
    PROVE  /\ Rule(L, f) \in 1..7
           /\ Applies(L, f)[Rule(L, f)]
           /\ \A k \in 1..(Rule(L, f) - 1) : ~Applies(L, f)[k]
  <1> DEFINE h == Applies(L, f)
             P(n) == n \in 1..7 /\ h[n] /\ \A k \in 1..(n - 1) : ~h[k]
             S == {n \in 1..7 : h[n]}
  <1>1. h[7]
    BY DEF Applies
  <1>2. 7 \in S
    BY <1>1
  <1>3. PICK n \in 1..7 : n \in S /\ \A k \in 1..(n - 1) : k \notin S
    BY <1>2, FirstExists
  <1>4. P(n)
    <2>1. \A k \in 1..(n - 1) : k \in 1..7
      BY <1>3
    <2> QED  BY <1>3, <2>1
  <1> HIDE DEF h
  <1>5. P(CHOOSE m \in 1..7 : h[m] /\ \A k \in 1..(m - 1) : ~h[k])
    BY <1>4
  <1> QED  BY <1>5 DEF Rule, h

-----------------------------------------------------------------------------
(***************************************************************************)
(* Profiles                                                                *)
(***************************************************************************)
\* A set of assertions as an export derives from: ledger and markers
Grown(K, L) == \A a \in K : a \in L \/ a.type = Marker

\* Only a merger notice has absorbed and absorbing participants, and no fund
\* is both.
LEMMA MergerRoles ==
    ASSUME NEW a, NEW f, [role |-> "ABSORBED", fund |-> f] \in Participants(a)
    PROVE  /\ a.type \in MergerTypes
           /\ f # None /\ f \in a.regs \ a.succ
  <1>1. a.type \in MergerTypes
    BY DEF Participants, OtherParties, Party
  <1>2. [role |-> "ABSORBED", fund |-> f] \in MergerParties(a)
    BY <1>1 DEF Participants
  <1> QED  BY <1>1, <1>2 DEF MergerParties, Party

LEMMA AbsorbingRole ==
    ASSUME NEW a, NEW g, [role |-> "ABSORBING", fund |-> g] \in Participants(a)
    PROVE  a.type \in MergerTypes /\ g \in a.succ
  <1>1. a.type \in MergerTypes
    BY DEF Participants, OtherParties, Party
  <1>2. [role |-> "ABSORBING", fund |-> g] \in MergerParties(a)
    BY <1>1 DEF Participants
  <1> QED  BY <1>1, <1>2 DEF MergerParties, Party

\* A marker is no merger notice.
LEMMA MarkerType ==
    /\ Marker \notin MergerTypes
    /\ Marker \notin {"MERGER_RENOUNCED", "RECTIFICATION_REPORTED",
                      "DISSOLUTION_AGREED", "LIQUIDATION_EXECUTED"}
  BY DEF Marker, MergerTypes

\* More assertions name the same successors, and maybe more.
LEMMA SuccessorsMonotone ==
    ASSUME NEW K, NEW L, Grown(K, L), NEW f
    PROVE  Successors(K, f) \subseteq Successors(L, f)
  <1> SUFFICES ASSUME NEW g \in Successors(K, f)
               PROVE  g \in Successors(L, f)
    OBVIOUS
  <1>1. PICK a \in Mine(K, f) : /\ AbsorbedIn(f, a)
                                /\ [role |-> "ABSORBING", fund |-> g] \in Participants(a)
    BY DEF Successors
  <1>2. a.type \in MergerTypes
    BY <1>1, AbsorbingRole
  <1>3. a \in L
    BY <1>1, <1>2, MarkerType DEF Mine, Grown
  <1>4. a \in Mine(L, f)
    BY <1>1, <1>3 DEF Mine
  <1> QED  BY <1>1, <1>4 DEF Successors

\* More assertions are of the same types, and maybe more, markers apart.
LEMMA TypesMonotone ==
    ASSUME NEW K, NEW L, Grown(K, L), NEW f, NEW t \in Types(K, f), t # Marker
    PROVE  t \in Types(L, f)
  BY DEF Types, Mine, Grown

LEMMA SuccessorsFinite ==
    ASSUME NEW L, NEW f
    PROVE  IsFiniteSet(Successors(L, f)) /\ Cardinality(Successors(L, f)) \in Nat
  BY FS_Subset, FS_CardinalityType, FundsAssumption DEF Successors

LEMMA AbsorbedMonotone ==
    ASSUME NEW K, NEW L, Grown(K, L), NEW f, Absorbed(K, f)
    PROVE  Absorbed(L, f)
  <1>1. PICK a \in Mine(K, f) : AbsorbedIn(f, a)
    BY DEF Absorbed
  <1>2. a.type # Marker
    BY <1>1, MergerRoles, MarkerType DEF AbsorbedIn
  <1> QED  BY <1>1, <1>2 DEF Absorbed, Mine, Grown

-----------------------------------------------------------------------------
(***************************************************************************)
(* Rules R1 to R3: once one of them applies, one of them always will       *)
(***************************************************************************)
Stuck(L, f) == Applies(L, f)[1] \/ Applies(L, f)[2] \/ Applies(L, f)[3]

LEMMA StuckMonotone ==
    ASSUME NEW K, NEW L, Grown(K, L), NEW f, Stuck(K, f)
    PROVE  Stuck(L, f)
  <1>1. ASSUME NEW t \in MergerTypes, t \in Types(K, f)
        PROVE  t \in Types(L, f) /\ HasMerger(L, f)
    BY <1>1, TypesMonotone, MarkerType DEF HasMerger
  <1>2. CASE Applies(K, f)[1]
    <2>1. CASE "MERGER_RENOUNCED" \in Types(K, f)
      <3>1. "MERGER_RENOUNCED" \in MergerTypes
        BY DEF MergerTypes
      <3> QED  BY <2>1, <3>1, <1>1 DEF Stuck, Applies
    <2>2. CASE "RECTIFICATION_REPORTED" \in Types(K, f)
      <3>1. "RECTIFICATION_REPORTED" \in Types(L, f)
        BY <2>2, TypesMonotone, MarkerType
      <3> QED  BY <3>1 DEF Stuck, Applies
    <2> QED  BY <1>2, <2>1, <2>2 DEF Applies
  <1>3. CASE Applies(K, f)[2]
    <2>1. MergerPlusDissolution(K, f)
      BY <1>3 DEF Applies
    <2>2. PICK t \in MergerTypes : t \in Types(K, f)
      BY <2>1 DEF MergerPlusDissolution, HasMerger
    <2>3. HasMerger(L, f)
      BY <2>2, <1>1
    <2>4. PICK u \in {"DISSOLUTION_AGREED", "LIQUIDATION_EXECUTED"} : u \in Types(K, f)
      BY <2>1 DEF MergerPlusDissolution
    <2>5. u \in Types(L, f)
      BY <2>4, TypesMonotone, MarkerType
    <2>6. MergerPlusDissolution(L, f)
      BY <2>3, <2>4, <2>5 DEF MergerPlusDissolution
    <2> QED  BY <2>6 DEF Stuck, Applies
  <1>4. CASE Applies(K, f)[3]
    <2>1. Absorbed(K, f) /\ Cardinality(Successors(K, f)) > 1
      BY <1>4 DEF Applies
    <2>2. Absorbed(L, f)
      BY <2>1, AbsorbedMonotone
    <2>3. Cardinality(Successors(K, f)) <= Cardinality(Successors(L, f))
      BY SuccessorsMonotone, SuccessorsFinite, FS_Subset
    <2>4. Cardinality(Successors(L, f)) > 1
      BY <2>1, <2>3, SuccessorsFinite
    <2> QED  BY <2>2, <2>4 DEF Stuck, Applies
  <1> QED  BY <1>2, <1>3, <1>4 DEF Stuck

\* An adjudication is indeterminate by R1, R2 or R3 exactly when one of them
\* applies to its fund.
LEMMA BlockedIffStuck ==
    ASSUME NEW L, NEW c
    PROVE  Record(L, c).outcome \in Blocked <=> Stuck(L, c[1])
  <1> DEFINE n == Rule(L, c[1])
  <1>1. /\ n \in 1..7
        /\ Applies(L, c[1])[n]
        /\ \A k \in 1..(n - 1) : ~Applies(L, c[1])[k]
    BY RuleFirst
  <1>2. Record(L, c).outcome = Outcome[n]
    BY DEF Record
  <1> HIDE DEF n
  <1>3. Outcome[n] \in Blocked <=> n \in 1..3
    BY <1>1 DEF Blocked, Outcome
  <1>4. Stuck(L, c[1]) <=> n \in 1..3
    <2>1. ASSUME n \in 1..3
          PROVE  Stuck(L, c[1])
      <3>1. n = 1 \/ n = 2 \/ n = 3
        BY <2>1
      <3> QED  BY <1>1, <3>1 DEF Stuck
    <2>2. ASSUME Stuck(L, c[1]), n \notin 1..3
          PROVE  FALSE
      <3>1. 1 \in 1..(n - 1) /\ 2 \in 1..(n - 1) /\ 3 \in 1..(n - 1)
        BY <1>1, <2>2
      <3> QED  BY <1>1, <2>2, <3>1 DEF Stuck
    <2> QED  BY <2>1, <2>2
  <1> QED  BY <1>2, <1>3, <1>4

\* A fund that is adjudicated as absorbed has exactly one successor.
LEMMA AbsorbedByOne ==
    ASSUME NEW L, NEW c, Record(L, c).outcome = "ADJUDICATED_ABSORBED_BY"
    PROVE  Successors(L, c[1]) = {Record(L, c).successor}
  <1> DEFINE n == Rule(L, c[1])
             S == Successors(L, c[1])
  <1>1. n \in 1..7 /\ Applies(L, c[1])[n]
    BY RuleFirst
  <1>2. Record(L, c).outcome = Outcome[n]
    BY DEF Record
  <1>3. n = 4
    <2> HIDE DEF n
    <2> QED  BY <1>1, <1>2 DEF Outcome
  <1>4. Cardinality(S) = 1
    <2>1. Applies(L, c[1])[4]
      BY <1>1, <1>3
    <2> QED  BY <2>1 DEF Applies
  <1>5. Record(L, c).successor = CHOOSE g \in S : TRUE
    BY <1>3 DEF Record
  <1> HIDE DEF S
  <1>6. PICK g : S = {g}
    BY <1>4, SuccessorsFinite, FS_Singleton DEF S
  <1> QED  BY <1>5, <1>6 DEF S

-----------------------------------------------------------------------------
(***************************************************************************)
(* Edges.  What makes the invariant inductive is the running export: its   *)
(* assertions include those every published edge was concluded from, and   *)
(* have a single successor for every fund it is about to publish one of.   *)
(***************************************************************************)
Running == step # "idle"

PublishedEdges ==
    /\ \A d \in tables.edges : d.to \in Successors(ledger, d.from)
    /\ \A d, e \in tables.edges : d.from = e.from => d.to = e.to

DerivedEdges ==
    Running =>
        /\ Grown(rows.assertions, ledger)
        /\ \A d \in tables.edges : d.to \in Successors(rows.assertions, d.from)
        /\ \A e \in rows.edges : Successors(rows.assertions, e.from) = {e.to}

FourTables == DOMAIN tables = {"assertions", "candidates", "adjudications", "edges"}

EdgeInv == FourTables /\ PublishedEdges /\ DerivedEdges

\* A marker is typed as one.
LEMMA MarkersTyped ==
    ASSUME NEW R, NEW a \in Markers(R)
    PROVE  a.type = Marker
  <1> DEFINE S == {g \in Funds : \E m \in 1..Months :
                       Observed(R, m) /\ R[m][g] = "in liquidation"}
             M(f) == [type |-> Marker, family |-> "fondregistro", regs |-> {f},
                      succ |-> {}, subject |-> f, object |-> None,
                      named |-> FALSE, entity |-> f]
  <1>1. Markers(R) = {M(f) : f \in S}
    BY DEF Markers
  <1> HIDE DEF S, M
  <1>2. PICK f \in S : a = M(f)
    BY <1>1
  <1> QED  BY <1>2 DEF M

\* An edge is that of an absorbed candidate.
LEMMA EdgeOfRecord ==
    ASSUME NEW records, NEW e \in Edges(records)
    PROVE  \E r \in records :
               /\ r.outcome = "ADJUDICATED_ABSORBED_BY"
               /\ e.candidate = r.candidate
               /\ e.from = r.candidate[1]
               /\ e.to = r.successor
  <1> DEFINE S == {s \in records : s.outcome = "ADJUDICATED_ABSORBED_BY"}
             E(r) == [candidate |-> r.candidate, from |-> r.candidate[1],
                      to |-> r.successor]
  <1>1. Edges(records) = {E(r) : r \in S}
    BY DEF Edges
  <1> HIDE DEF E
  <1>2. PICK r \in S : e = E(r)
    BY <1>1
  <1> QED  BY <1>2 DEF E

\* What Derive returns, as far as edges are concerned.
LEMMA DeriveEdges ==
    ASSUME NEW L, NEW R
    PROVE  /\ Grown(Derive(L, R).assertions, L)
           /\ Grown(L, Derive(L, R).assertions)
           /\ \A e \in Derive(L, R).edges :
                  Successors(Derive(L, R).assertions, e.from) = {e.to}
  <1> DEFINE A == L \cup Markers(R)
             records == {Record(A, c) : c \in Candidates(R)}
  <1>1. Derive(L, R).assertions = A /\ Derive(L, R).edges = Edges(records)
    BY DEF Derive
  <1>2. \A a \in Markers(R) : a.type = Marker
    BY MarkersTyped
  <1>3. Grown(A, L) /\ Grown(L, A)
    BY <1>2 DEF Grown
  <1> HIDE DEF records
  <1>4. ASSUME NEW e \in Edges(records)
        PROVE  Successors(A, e.from) = {e.to}
    <2>1. PICK r \in records : /\ r.outcome = "ADJUDICATED_ABSORBED_BY"
                               /\ e.from = r.candidate[1] /\ e.to = r.successor
      BY EdgeOfRecord
    <2>2. PICK c \in Candidates(R) : r = Record(A, c)
      BY <2>1 DEF records
    <2>3. r.candidate = c
      BY <2>2 DEF Record
    <2>4. Successors(A, c[1]) = {r.successor}
      BY <2>1, <2>2, AbsorbedByOne
    <2> QED  BY <2>1, <2>3, <2>4
  <1> QED  BY <1>1, <1>3, <1>4

LEMMA EdgeInit == Init => EdgeInv
  BY DEF Init, EdgeInv, FourTables, PublishedEdges, DerivedEdges, Running, Empty

\* What a step does to the edges and to what the export holds.
LEMMA EdgeStep == EdgeInv /\ [Next]_vars => EdgeInv'
  <1> SUFFICES ASSUME EdgeInv, [Next]_vars
               PROVE  EdgeInv'
    OBVIOUS
  <1> USE DEF EdgeInv, FourTables, PublishedEdges, DerivedEdges, Running
  <1>1. ASSUME NEW a \in Acts, Arrive(a)
        PROVE  EdgeInv'
    <2>1. ledger' = ledger \cup {a} /\ tables' = tables /\ rows' = rows /\ step' = step
      BY <1>1 DEF Arrive
    <2>2. Grown(ledger, ledger')
      BY <2>1 DEF Grown
    <2>3. \A d \in tables.edges : d.to \in Successors(ledger', d.from)
      BY <2>2, SuccessorsMonotone
    <2>4. Running => Grown(rows.assertions, ledger')
      BY <2>1 DEF Grown
    <2> QED  BY <2>1, <2>3, <2>4
  <1>2. ASSUME NEW m \in 1..Months, NEW r \in RegistryMonths, ImportMonth(m, r)
        PROVE  EdgeInv'
    BY <1>2 DEF ImportMonth
  <1>3. ASSUME StartExport
        PROVE  EdgeInv'
    <2>1. rows' = Derive(ledger, registry) /\ tables' = tables /\ ledger' = ledger
      BY <1>3 DEF StartExport
    <2>2. /\ Grown(rows'.assertions, ledger)
          /\ Grown(ledger, rows'.assertions)
          /\ \A e \in rows'.edges : Successors(rows'.assertions, e.from) = {e.to}
      BY <2>1, DeriveEdges
    <2>3. \A d \in tables.edges : d.to \in Successors(rows'.assertions, d.from)
      BY <2>2, SuccessorsMonotone
    <2> QED  BY <2>1, <2>2, <2>3
  <1>4. ASSUME WriteTable
        PROVE  EdgeInv'
    <2>1. /\ step \in DOMAIN tables /\ rows' = rows /\ ledger' = ledger
          /\ tables' = [tables EXCEPT ![step] = rows[step]]
          /\ Running
      BY <1>4 DEF WriteTable
    <2>2. CASE step = "edges"
      <3>1. tables'.edges = rows.edges
        BY <2>1, <2>2
      <3>2. \A e \in rows.edges : e.to \in Successors(rows.assertions, e.from)
        BY <2>1
      <3>3. \A e \in rows.edges : e.to \in Successors(ledger, e.from)
        BY <2>1, <3>2, SuccessorsMonotone
      <3>4. \A d, e \in rows.edges : d.from = e.from => d.to = e.to
        BY <2>1
      <3> QED  BY <2>1, <3>1, <3>2, <3>3, <3>4
    <2>3. CASE step # "edges"
      <3>1. tables'.edges = tables.edges
        BY <2>1, <2>3
      <3> QED  BY <2>1, <3>1
    <2> QED  BY <2>2, <2>3
  <1>5. CASE WriteManifest
    BY <1>5 DEF WriteManifest
  <1>6. CASE Crash
    BY <1>6 DEF Crash
  <1>7. CASE UNCHANGED vars
    BY <1>7 DEF vars
  <1> QED  BY <1>1, <1>2, <1>3, <1>4, <1>5, <1>6, <1>7 DEF Next

LEMMA EdgesInvariant == Spec => []EdgeInv
  BY EdgeInit, EdgeStep, PTL DEF Spec

\* A successor is named as absorbing by an assertion that names the fund as
\* absorbed, and no assertion names a fund as both.
LEMMA SuccessorMerges ==
    ASSUME NEW L, NEW f, NEW g \in Successors(L, f)
    PROVE  Merges(L, f, g) /\ f # g
  <1>1. PICK a \in Mine(L, f) : /\ AbsorbedIn(f, a)
                                /\ [role |-> "ABSORBING", fund |-> g] \in Participants(a)
    BY DEF Successors
  <1>2. a.type \in MergerTypes /\ f \in a.regs \ a.succ /\ g \in a.succ
    BY <1>1, MergerRoles, AbsorbingRole DEF AbsorbedIn
  <1> QED  BY <1>1, <1>2 DEF Merges, Mine, AbsorbedIn

(***************************************************************************)
(* Every published edge rests on a stored assertion, at every moment of    *)
(* every export (lifecycle_adjudicate.py, derive_edges).                   *)
(***************************************************************************)
THEOREM EdgesAreBacked == Spec => []EdgesBacked
  <1>1. EdgeInv => EdgesBacked
    BY SuccessorMerges DEF EdgeInv, PublishedEdges, EdgesBacked
  <1> QED  BY <1>1, EdgesInvariant, PTL

(***************************************************************************)
(* No export ever gives a fund another successor than an earlier one did   *)
(* (lifecycle_adjudicate.py, rule R4).                                     *)
(***************************************************************************)
THEOREM SuccessorIsFinal == Spec => SuccessorNeverFlips
  <1> DEFINE NoFlip == \A d \in tables.edges, e \in tables'.edges :
                           d.from = e.from => d.to = e.to
  <1>1. EdgeInv /\ [Next]_vars => NoFlip
    <2> SUFFICES ASSUME EdgeInv, [Next]_vars
                 PROVE  NoFlip
      OBVIOUS
    <2>1. CASE WriteTable /\ step = "edges"
      <3>1. tables'.edges = rows.edges /\ Running
        BY <2>1 DEF WriteTable, EdgeInv, FourTables, Running
      <3>2. \A d \in tables.edges : d.to \in Successors(rows.assertions, d.from)
        BY <3>1 DEF EdgeInv, DerivedEdges
      <3>3. \A e \in rows.edges : Successors(rows.assertions, e.from) = {e.to}
        BY <3>1 DEF EdgeInv, DerivedEdges
      <3> QED  BY <3>1, <3>2, <3>3
    <2>2. CASE ~(WriteTable /\ step = "edges")
      <3>1. tables'.edges = tables.edges
        BY <2>2 DEF Next, Arrive, ImportMonth, StartExport, WriteTable,
                    WriteManifest, Crash, vars, EdgeInv, FourTables
      <3> QED  BY <3>1 DEF EdgeInv, PublishedEdges
    <2> QED  BY <2>1, <2>2
  <1>2. EdgeInv /\ [Next]_vars => [NoFlip]_vars
    BY <1>1
  <1> QED  BY <1>2, EdgesInvariant, PTL DEF Spec, SuccessorNeverFlips

-----------------------------------------------------------------------------
(***************************************************************************)
(* Conflicts.  The same argument with "stuck" in the place of "has this    *)
(* successor": a published conflict is one of the assertions stored and of *)
(* those the running export derives from.                                  *)
(***************************************************************************)
PublishedConflicts ==
    /\ \A r \in tables.adjudications :
           r.outcome \in Blocked => Stuck(ledger, r.candidate[1])
    /\ \A r, s \in tables.adjudications :
           (r.candidate = s.candidate /\ r.outcome \in Blocked) => s.outcome \in Blocked

DerivedConflicts ==
    Running =>
        /\ Grown(rows.assertions, ledger)
        /\ \A r \in tables.adjudications :
               r.outcome \in Blocked => Stuck(rows.assertions, r.candidate[1])
        /\ \A s \in rows.adjudications :
               s.outcome \in Blocked <=> Stuck(rows.assertions, s.candidate[1])

ConflictInv == FourTables /\ PublishedConflicts /\ DerivedConflicts

\* What Derive returns, as far as conflicts are concerned.
LEMMA DeriveConflicts ==
    ASSUME NEW L, NEW R
    PROVE  /\ Grown(Derive(L, R).assertions, L)
           /\ Grown(L, Derive(L, R).assertions)
           /\ \A s \in Derive(L, R).adjudications :
                  s.outcome \in Blocked
                      <=> Stuck(Derive(L, R).assertions, s.candidate[1])
  <1> DEFINE A == L \cup Markers(R)
             records == {Record(A, c) : c \in Candidates(R)}
  <1>1. Derive(L, R).assertions = A /\ Derive(L, R).adjudications = records
    BY DEF Derive
  <1>2. Grown(A, L) /\ Grown(L, A)
    BY MarkersTyped DEF Grown
  <1> HIDE DEF A
  <1>3. ASSUME NEW s \in records
        PROVE  s.outcome \in Blocked <=> Stuck(A, s.candidate[1])
    <2>1. PICK c \in Candidates(R) : s = Record(A, c)
      OBVIOUS
    <2>2. s.candidate = c
      BY <2>1 DEF Record
    <2> QED  BY <2>1, <2>2, BlockedIffStuck
  <1> HIDE DEF records
  <1> QED  BY <1>1, <1>2, <1>3

LEMMA ConflictInit == Init => ConflictInv
  BY DEF Init, ConflictInv, FourTables, PublishedConflicts, DerivedConflicts,
         Running, Empty

LEMMA ConflictStep == ConflictInv /\ [Next]_vars => ConflictInv'
  <1> SUFFICES ASSUME ConflictInv, [Next]_vars
               PROVE  ConflictInv'
    OBVIOUS
  <1> USE DEF ConflictInv, FourTables, PublishedConflicts, DerivedConflicts, Running
  <1>1. ASSUME NEW a \in Acts, Arrive(a)
        PROVE  ConflictInv'
    <2>1. ledger' = ledger \cup {a} /\ tables' = tables /\ rows' = rows /\ step' = step
      BY <1>1 DEF Arrive
    <2>2. Grown(ledger, ledger')
      BY <2>1 DEF Grown
    <2>3. \A r \in tables.adjudications :
              r.outcome \in Blocked => Stuck(ledger', r.candidate[1])
      BY <2>2, StuckMonotone
    <2>4. Running => Grown(rows.assertions, ledger')
      BY <2>1 DEF Grown
    <2> QED  BY <2>1, <2>3, <2>4
  <1>2. ASSUME NEW m \in 1..Months, NEW r \in RegistryMonths, ImportMonth(m, r)
        PROVE  ConflictInv'
    BY <1>2 DEF ImportMonth
  <1>3. ASSUME StartExport
        PROVE  ConflictInv'
    <2>1. rows' = Derive(ledger, registry) /\ tables' = tables /\ ledger' = ledger
      BY <1>3 DEF StartExport
    <2>2. /\ Grown(rows'.assertions, ledger)
          /\ Grown(ledger, rows'.assertions)
          /\ \A s \in rows'.adjudications :
                 s.outcome \in Blocked <=> Stuck(rows'.assertions, s.candidate[1])
      BY <2>1, DeriveConflicts
    <2>3. \A r \in tables.adjudications :
              r.outcome \in Blocked => Stuck(rows'.assertions, r.candidate[1])
      BY <2>2, StuckMonotone
    <2> QED  BY <2>1, <2>2, <2>3
  <1>4. ASSUME WriteTable
        PROVE  ConflictInv'
    <2>1. /\ step \in DOMAIN tables /\ rows' = rows /\ ledger' = ledger
          /\ tables' = [tables EXCEPT ![step] = rows[step]]
          /\ Running
      BY <1>4 DEF WriteTable
    <2>2. CASE step = "adjudications"
      <3>1. tables'.adjudications = rows.adjudications
        BY <2>1, <2>2
      <3>2. \A s \in rows.adjudications :
                s.outcome \in Blocked <=> Stuck(rows.assertions, s.candidate[1])
        BY <2>1
      <3>3. \A s \in rows.adjudications :
                s.outcome \in Blocked => Stuck(ledger, s.candidate[1])
        BY <2>1, <3>2, StuckMonotone
      <3>4. \A r, s \in rows.adjudications :
                (r.candidate = s.candidate /\ r.outcome \in Blocked)
                    => s.outcome \in Blocked
        BY <3>2
      <3> QED  BY <2>1, <3>1, <3>2, <3>3, <3>4
    <2>3. CASE step # "adjudications"
      <3>1. tables'.adjudications = tables.adjudications
        BY <2>1, <2>3
      <3> QED  BY <2>1, <3>1
    <2> QED  BY <2>2, <2>3
  <1>5. CASE WriteManifest
    BY <1>5 DEF WriteManifest
  <1>6. CASE Crash
    BY <1>6 DEF Crash
  <1>7. CASE UNCHANGED vars
    BY <1>7 DEF vars
  <1> QED  BY <1>1, <1>2, <1>3, <1>4, <1>5, <1>6, <1>7 DEF Next

LEMMA ConflictsInvariant == Spec => []ConflictInv
  BY ConflictInit, ConflictStep, PTL DEF Spec

(***************************************************************************)
(* A candidate that rules R1 to R3 left indeterminate is never adjudicated *)
(* by a later export, whatever evidence comes in                           *)
(* (lifecycle_adjudicate.py, adjudicate).                                  *)
(***************************************************************************)
THEOREM ConflictIsFinal == Spec => ConflictNeverResolved
  <1> DEFINE Stays == \A r \in tables.adjudications, s \in tables'.adjudications :
                          (r.candidate = s.candidate /\ r.outcome \in Blocked)
                              => s.outcome \in Blocked
  <1>1. ConflictInv /\ [Next]_vars => Stays
    <2> SUFFICES ASSUME ConflictInv, [Next]_vars
                 PROVE  Stays
      OBVIOUS
    <2>1. CASE WriteTable /\ step = "adjudications"
      <3>1. tables'.adjudications = rows.adjudications /\ Running
        BY <2>1 DEF WriteTable, ConflictInv, FourTables, Running
      <3> QED  BY <3>1 DEF ConflictInv, DerivedConflicts
    <2>2. CASE ~(WriteTable /\ step = "adjudications")
      <3>1. tables'.adjudications = tables.adjudications
        BY <2>2 DEF Next, Arrive, ImportMonth, StartExport, WriteTable,
                    WriteManifest, Crash, vars, ConflictInv, FourTables
      <3> QED  BY <3>1 DEF ConflictInv, PublishedConflicts
    <2> QED  BY <2>1, <2>2
  <1>2. ConflictInv /\ [Next]_vars => [Stays]_vars
    BY <1>1
  <1> QED  BY <1>2, ConflictsInvariant, PTL DEF Spec, ConflictNeverResolved

-----------------------------------------------------------------------------
(***************************************************************************)
(* Types                                                                   *)
(***************************************************************************)
LEMMA MarkersType ==
    ASSUME NEW R
    PROVE  Markers(R) \subseteq Assertion
  <1> SUFFICES ASSUME NEW a \in Markers(R)
               PROVE  a \in Assertion
    OBVIOUS
  <1> DEFINE M(f) == [type |-> Marker, family |-> "fondregistro", regs |-> {f},
                      succ |-> {}, subject |-> f, object |-> None,
                      named |-> FALSE, entity |-> f]
             S == {g \in Funds : \E m \in 1..Months :
                       Observed(R, m) /\ R[m][g] = "in liquidation"}
  <1>1. Markers(R) = {M(f) : f \in S}
    BY DEF Markers
  <1>2. S \subseteq Funds
    OBVIOUS
  <1> HIDE DEF S, M
  <1>3. PICK f \in Funds : a = M(f)
    BY <1>1, <1>2
  <1>4. Marker \in MergerTypes \cup OtherTypes
    BY DEF OtherTypes
  <1>5. M(f) \in Assertion
    BY <1>4 DEF M, Assertion
  <1> QED  BY <1>3, <1>5

LEMMA CandidatesType ==
    ASSUME NEW R
    PROVE  Candidates(R) \subseteq Candidate
  BY MonthsAssumption DEF Candidates, Candidate

\* A record names a registry candidate, one of the outcomes and, when it
\* names a successor at all, a fund.
LEMMA RecordType ==
    ASSUME NEW L \in SUBSET Assertion, NEW c \in Candidate
    PROVE  /\ Record(L, c) \in Row
           /\ Record(L, c).outcome = "ADJUDICATED_ABSORBED_BY"
                  => Record(L, c).successor \in Funds
  <1> DEFINE f == c[1]
             to == IF Rule(L, f) = 4 THEN CHOOSE g \in Successors(L, f) : TRUE ELSE None
  <1>1. Rule(L, f) \in 1..7
    BY RuleFirst
  <1>2. Mine(L, f) \subseteq Assertion
    BY DEF Mine
  <1>3. Rule(L, f) = 4 => to \in Funds
    <2> SUFFICES ASSUME Rule(L, f) = 4
                 PROVE  to \in Funds
      OBVIOUS
    <2>1. Applies(L, f)[4]
      BY RuleFirst
    <2>2. Cardinality(Successors(L, f)) = 1
      BY <2>1 DEF Applies
    <2>3. PICK g : Successors(L, f) = {g}
      BY <2>2, SuccessorsFinite, FS_Singleton
    <2>4. g \in Funds
      BY <2>3 DEF Successors
    <2> QED  BY <2>3, <2>4
  <1>4. (Rule(L, f) = 4 /\ Corroborated(L, f, to)) \in BOOLEAN
    OBVIOUS
  <1>5. Record(L, c) = [candidate |-> c, outcome |-> Outcome[Rule(L, f)],
                        successor |-> to,
                        corroborated |-> (Rule(L, f) = 4 /\ Corroborated(L, f, to)),
                        evidence |-> Mine(L, f)]
    BY DEF Record
  <1>6. to \in Funds \cup {None}
    BY <1>3
  <1>7. Outcome[Rule(L, f)] = "ADJUDICATED_ABSORBED_BY" => Rule(L, f) = 4
    BY <1>1 DEF Outcome
  <1> HIDE DEF f, to
  <1>8. Record(L, c) \in Row
    BY <1>1, <1>2, <1>4, <1>5, <1>6 DEF Row
  <1> QED  BY <1>3, <1>5, <1>7, <1>8

LEMMA DeriveType ==
    ASSUME NEW L \in SUBSET Assertion, NEW R
    PROVE  Derive(L, R) \in Tables
  <1> DEFINE A == L \cup Markers(R)
             records == {Record(A, c) : c \in Candidates(R)}
  <1>1. A \in SUBSET Assertion
    BY MarkersType
  <1>2. \A r \in records : /\ r \in Row
                           /\ r.outcome = "ADJUDICATED_ABSORBED_BY" => r.successor \in Funds
    BY <1>1, CandidatesType, RecordType
  <1>3. Derive(L, R) = [assertions |-> A, candidates |-> Candidates(R),
                        adjudications |-> records, edges |-> Edges(records)]
    BY DEF Derive
  <1> HIDE DEF A, records
  <1>4. Edges(records) \subseteq [candidate : Candidate, from : Funds, to : Funds]
    <2> DEFINE E(r) == [candidate |-> r.candidate, from |-> r.candidate[1],
                        to |-> r.successor]
               S == {s \in records : s.outcome = "ADJUDICATED_ABSORBED_BY"}
    <2>1. Edges(records) = {E(r) : r \in S}
      BY DEF Edges
    <2>2. ASSUME NEW r \in S
          PROVE  E(r) \in [candidate : Candidate, from : Funds, to : Funds]
      <3>1. r \in Row /\ r.successor \in Funds
        BY <1>2
      <3>2. r.candidate \in Candidate
        BY <3>1 DEF Row
      <3>3. r.candidate[1] \in Funds
        BY <3>2 DEF Candidate
      <3> QED  BY <3>1, <3>2, <3>3
    <2> HIDE DEF E, S
    <2> QED  BY <2>1, <2>2
  <1> QED  BY <1>1, <1>2, <1>3, <1>4, CandidatesType DEF Tables

\* A file is followed by another one or by the manifest.
LEMMA AfterType ==
    ASSUME NEW f \in DOMAIN Empty
    PROVE  After(f) \in DOMAIN Empty \cup {"manifest"}
  <1> DEFINE P(i) == i \in 1..4 /\ WriteOrder[i] = f
             n == CHOOSE i \in 1..Len(WriteOrder) : WriteOrder[i] = f
  <1>1. Len(WriteOrder) = 4
    BY DEF WriteOrder
  <1>2. P(1) \/ P(2) \/ P(3) \/ P(4)
    BY DEF WriteOrder, Empty
  <1>3. P(n)
    BY <1>1, <1>2
  <1>4. After(f) = IF n = 4 THEN "manifest" ELSE WriteOrder[n + 1]
    BY <1>1 DEF After
  <1> HIDE DEF n
  <1>5. n \in 1..3 => WriteOrder[n + 1] \in DOMAIN Empty
    BY DEF WriteOrder, Empty
  <1> QED  BY <1>3, <1>4, <1>5

LEMMA TypeInit == Init => TypeOK
  BY MonthsAssumption, ExportBounds DEF Init, TypeOK, Registry, Tables, Empty

LEMMA TypeStep == TypeOK /\ [Next]_vars => TypeOK'
  <1> SUFFICES ASSUME TypeOK, [Next]_vars
               PROVE  TypeOK'
    OBVIOUS
  <1> USE ExportBounds DEF TypeOK
  <1>1. ASSUME NEW a \in Acts, Arrive(a)
        PROVE  TypeOK'
    BY <1>1 DEF Arrive
  <1>2. ASSUME NEW m \in 1..Months, NEW r \in RegistryMonths, ImportMonth(m, r)
        PROVE  TypeOK'
    <2>1. registry' \in Registry
      BY <1>2, RegistryAssumption DEF ImportMonth, Registry
    <2> QED  BY <1>2, <2>1 DEF ImportMonth
  <1>3. CASE StartExport
    <2>1. rows' \in Tables
      BY <1>3, DeriveType, ActsAssumption DEF StartExport
    <2>2. step' \in DOMAIN Empty
      BY <1>3 DEF StartExport, WriteOrder, Empty
    <2> QED  BY <1>3, <2>1, <2>2 DEF StartExport
  <1>4. CASE WriteTable
    <2>1. step \in DOMAIN tables /\ tables' = [tables EXCEPT ![step] = rows[step]]
      BY <1>4 DEF WriteTable
    <2>2. step \in DOMAIN Empty
      BY <2>1 DEF Tables, Empty
    <2>3. tables' \in Tables
      BY <2>1 DEF Tables
    <2>4. step' \in DOMAIN Empty \cup {"manifest"}
      BY <1>4, <2>2, AfterType DEF WriteTable
    <2> QED  BY <1>4, <2>3, <2>4 DEF WriteTable
  <1>5. CASE WriteManifest
    <2>1. Empty \in Tables
      BY DEF Empty, Tables
    <2> QED  BY <1>5, <2>1 DEF WriteManifest
  <1>6. CASE Crash
    <2>1. Empty \in Tables
      BY DEF Empty, Tables
    <2> QED  BY <1>6, <2>1 DEF Crash
  <1>7. CASE UNCHANGED vars
    BY <1>7 DEF vars
  <1> QED  BY <1>1, <1>2, <1>3, <1>4, <1>5, <1>6, <1>7 DEF Next

(***************************************************************************)
(* Every variable keeps its shape: in particular an edge always joins two  *)
(* funds, so a successor is there whenever rule R4 applies.                *)
(***************************************************************************)
THEOREM TypeCorrect == Spec => []TypeOK
  BY TypeInit, TypeStep, PTL DEF Spec

-----------------------------------------------------------------------------
(***************************************************************************)
(* What verify passes.  Tables that equal the manifest equal what one      *)
(* single export derived, and what one export derives is coherent.         *)
(***************************************************************************)
Coherent(t) ==
    /\ t.edges = Edges(t.adjudications)
    /\ t.candidates = {r.candidate : r \in t.adjudications}
    /\ \A r, s \in t.adjudications : r.candidate = s.candidate => r = s
    /\ \A r \in t.adjudications : r.evidence \subseteq t.assertions

CoherentInv ==
    /\ FourTables
    /\ Running => Coherent(rows)
    /\ manifest # None => Coherent(manifest)

LEMMA DeriveCoherent ==
    ASSUME NEW L, NEW R
    PROVE  Coherent(Derive(L, R))
  <1> DEFINE A == L \cup Markers(R)
             records == {Record(A, c) : c \in Candidates(R)}
  <1>1. Derive(L, R) = [assertions |-> A, candidates |-> Candidates(R),
                        adjudications |-> records, edges |-> Edges(records)]
    BY DEF Derive
  <1> HIDE DEF A
  <1>2. \A c : Record(A, c).candidate = c /\ Record(A, c).evidence \subseteq A
    BY DEF Record, Mine
  <1>3. Candidates(R) = {r.candidate : r \in records}
    BY <1>2
  <1>4. \A r, s \in records : r.candidate = s.candidate => r = s
    BY <1>2
  <1>5. \A r \in records : r.evidence \subseteq A
    BY <1>2
  <1> HIDE DEF records
  <1> QED  BY <1>1, <1>3, <1>4, <1>5 DEF Coherent

LEMMA CoherentStep == CoherentInv /\ [Next]_vars => CoherentInv'
  <1> SUFFICES ASSUME CoherentInv, [Next]_vars
               PROVE  CoherentInv'
    OBVIOUS
  <1> USE DEF CoherentInv, FourTables, Running
  <1>1. ASSUME NEW a \in Acts, Arrive(a)
        PROVE  CoherentInv'
    BY <1>1 DEF Arrive
  <1>2. ASSUME NEW m \in 1..Months, NEW r \in RegistryMonths, ImportMonth(m, r)
        PROVE  CoherentInv'
    BY <1>2 DEF ImportMonth
  <1>3. CASE StartExport
    <2>1. Coherent(rows')
      BY <1>3, DeriveCoherent DEF StartExport
    <2> QED  BY <1>3, <2>1 DEF StartExport
  <1>4. CASE WriteTable
    <2>1. step # "idle" /\ DOMAIN tables' = DOMAIN tables
      BY <1>4 DEF WriteTable
    <2> QED  BY <1>4, <2>1 DEF WriteTable
  <1>5. CASE WriteManifest
    BY <1>5 DEF WriteManifest
  <1>6. CASE Crash
    BY <1>6 DEF Crash
  <1>7. CASE UNCHANGED vars
    BY <1>7 DEF vars
  <1> QED  BY <1>1, <1>2, <1>3, <1>4, <1>5, <1>6, <1>7 DEF Next

(***************************************************************************)
(* A reader of what verify passes can go from an edge to its adjudication  *)
(* and from there to its evidence (verify.py, the lifecycle checks).       *)
(***************************************************************************)
THEOREM VerifiedIsCoherent == Spec => []VerifiedReadModel
  <1>1. Init => CoherentInv
    BY DEF Init, CoherentInv, FourTables, Running, Empty
  <1>2. CoherentInv => VerifiedReadModel
    BY DEF CoherentInv, VerifiedReadModel, VerifyOk, SameAsManifest, Coherent
  <1> QED  BY <1>1, <1>2, CoherentStep, PTL DEF Spec
=============================================================================
