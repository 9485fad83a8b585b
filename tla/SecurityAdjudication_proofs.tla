--------------------- MODULE SecurityAdjudication_proofs ---------------------
(***************************************************************************)
(* What the partitions of an adjudication stand for, for any ISINs,        *)
(* issuers, files and number of dying commands, each of which may tear the *)
(* file that it was writing.  The argument: a partition is written at most *)
(* once per bundle, tables before the manifest, so that a bundle of which  *)
(* no adjudication died holds what its one run derived; and the rows of a  *)
(* bundle are those its fingerprints were taken over as long as the        *)
(* snapshots that it names still have the tables of their manifests.       *)
(***************************************************************************)
EXTENDS SecurityAdjudication, FiniteSetTheorems, WellFoundedInduction, TLAPS

-----------------------------------------------------------------------------
(***************************************************************************)
(* Types                                                                   *)
(***************************************************************************)
Adjudicating == {"securities", "families", "publish"}

VerdictRows == UNION {[S -> Verdicts] : S \in SUBSET Isins}

\* The running command's record: an ingestion is of a corpus that is not empty.
IngestRun ==
    /\ run.step \in Ingesting
    /\ run = [step |-> run.step, p |-> run.p, d |-> run.d, v |-> run.v,
              of |-> run.of, rows |-> run.rows]
    /\ run.p \in Providers /\ run.d \in Dates /\ run.v \in Nat /\ run.rows \in Rows
    /\ run.of = DOMAIN run.rows /\ run.of # {}

AdjudicateRun ==
    /\ run.step \in Adjudicating
    /\ run = [step |-> run.step, bundle |-> run.bundle, rows |-> run.rows]
    /\ run.rows \in VerdictRows

TablesInv ==
    /\ obs \in [Providers -> [Dates -> (SUBSET Isins) \cup {None, Torn}]]
    /\ cand \in [Providers -> [Dates -> Rows \cup {Torn}]]
    /\ manifest \in [Providers -> [Dates -> Manifests \cup {None, Torn}]]

TypeInv ==
    /\ universe # {} /\ universe \subseteq Isins
    /\ TablesInv
    /\ run = Idle \/ IngestRun \/ AdjudicateRun

LEMMA Kinds ==
    /\ TypeInv /\ run.step \in Ingesting => IngestRun
    /\ TypeInv /\ run.step \in Adjudicating => AdjudicateRun
    /\ TypeInv /\ run # Idle => run.step \in Ingesting \cup Adjudicating
    /\ Ingesting \cap Adjudicating = {}
    /\ run = Idle => run.step \notin Ingesting \cup Adjudicating
  BY DEF TypeInv, IngestRun, AdjudicateRun, Ingesting, Adjudicating, Idle

\* A cell of a table by provider and date
LEMMA Written ==
    ASSUME NEW S, NEW T \in [Providers -> [Dates -> S]], NEW p \in Providers, NEW d \in Dates,
           NEW x \in S
    PROVE  /\ [T EXCEPT ![p][d] = x] \in [Providers -> [Dates -> S]]
           /\ [T EXCEPT ![p][d] = x][p][d] = x
           /\ \A q \in Providers, e \in Dates :
                 q # p \/ e # d => [T EXCEPT ![p][d] = x][q][e] = T[q][e]
  OBVIOUS

\* A step that writes one cell of one table, or none
LEMMA TablesWritten ==
    ASSUME TablesInv, NEW p \in Providers, NEW d \in Dates,
           NEW o \in (SUBSET Isins) \cup {None, Torn},
           NEW r \in Rows \cup {Torn},
           NEW m \in Manifests \cup {None, Torn},
           \/ obs' = [obs EXCEPT ![p][d] = o] /\ UNCHANGED <<cand, manifest>>
           \/ cand' = [cand EXCEPT ![p][d] = r] /\ UNCHANGED <<obs, manifest>>
           \/ manifest' = [manifest EXCEPT ![p][d] = m] /\ UNCHANGED <<obs, cand>>
           \/ UNCHANGED <<obs, cand, manifest>>
    PROVE  TablesInv'
  <1>1. [obs EXCEPT ![p][d] = o] \in [Providers -> [Dates -> (SUBSET Isins) \cup {None, Torn}]]
    BY Written DEF TablesInv
  <1>2. [cand EXCEPT ![p][d] = r] \in [Providers -> [Dates -> Rows \cup {Torn}]]
    BY Written DEF TablesInv
  <1>3. [manifest EXCEPT ![p][d] = m]
            \in [Providers -> [Dates -> Manifests \cup {None, Torn}]]
    BY Written DEF TablesInv
  <1> QED  BY <1>1, <1>2, <1>3 DEF TablesInv

\* Rows that can be read are not None, not Torn.
LEMMA Readable ==
    /\ \A r \in Rows : r # Torn
    /\ \A r \in VerdictRows : r # Torn
    /\ \A m \in Manifests : m # None /\ m # Torn
    /\ \A S \in SUBSET Isins : S # None /\ S # Torn
    /\ None # Torn
  BY NoneAssumption, TornAssumption DEF Rows, VerdictRows

\* A row of a candidate table
LEMMA RowsOf ==
    ASSUME NEW r \in Rows
    PROVE  /\ DOMAIN r \in SUBSET Isins
           /\ \A i \in DOMAIN r : r[i] \in Seq(Leis)
  BY DEF Rows

LEMMA InitType == Init => TypeInv
  <1> SUFFICES ASSUME Init
               PROVE  TypeInv
    OBVIOUS
  <1>1. <<>> \in Rows
    <2>1. {} \in SUBSET Isins /\ <<>> \in [{} -> Seq(Leis)]
      OBVIOUS
    <2> QED  BY <2>1 DEF Rows
  <1>2. TablesInv
    BY <1>1 DEF Init, TablesInv
  <1> QED  BY <1>2, IsinsAssumption DEF Init, TypeInv

\* The file of an ingestion, joined with the corpus
LEMMA JoinType ==
    ASSUME TypeInv, NEW p \in Providers, NEW d \in Dates, NEW v \in DOMAIN File[p][d]
    PROVE  v \in Nat /\ [i \in universe |-> File[p][d][v][i]] \in Rows
  <1>1. File[p][d] \in Seq([Isins -> Seq(Leis)])
    BY FileAssumption
  <1>2. v \in Nat /\ File[p][d][v] \in [Isins -> Seq(Leis)]
    BY <1>1
  <1>3. [i \in universe |-> File[p][d][v][i]] \in [universe -> Seq(Leis)]
    BY <1>2 DEF TypeInv
  <1>4. universe \in SUBSET Isins
    BY DEF TypeInv
  <1> QED  BY <1>2, <1>3, <1>4 DEF Rows

\* A bounded set of dates that is not empty has a last one.
LEMMA LastDate ==
    ASSUME NEW T, T \subseteq Dates, T # {}
    PROVE  \E c \in T : \A o \in T : o <= c
  <1> DEFINE D == {MaxDate - c : c \in T}
  <1>1. D \subseteq Nat /\ D # {}
    <2>1. \A c \in T : MaxDate - c \in Nat
      BY DatesAssumption DEF Dates
    <2> QED  BY <2>1
  <1>2. PICK d \in D : \A e \in D : ~ (<<e, d>> \in OpToRel(<, Nat))
    <2> HIDE DEF D
    <2> QED  BY <1>1, NatLessThanWellFounded, WFMin
  <1>3. PICK c \in T : d = MaxDate - c
    OBVIOUS
  <1>4. ASSUME NEW o \in T
        PROVE  o <= c
    <2>1. MaxDate - o \in D
      OBVIOUS
    <2>2. ~ (MaxDate - o < d)
      BY <1>1, <1>2, <2>1 DEF OpToRel
    <2>3. o \in Int /\ c \in Int /\ MaxDate \in Int
      BY DatesAssumption DEF Dates
    <2> QED  BY <1>3, <2>2, <2>3
  <1> QED  BY <1>4

\* The date that is read has a manifest, if any has.
LEMMA LatestIs ==
    ASSUME NEW p \in Providers
    PROVE  \/ LatestOf(p) = None
           \/ /\ LatestOf(p) # None /\ LatestOf(p) \in Dates
              /\ manifest[p][LatestOf(p)] # None
  <1> DEFINE T == {d \in Dates : manifest[p][d] # None}
  <1>1. CASE T = {}
    BY <1>1 DEF LatestOf
  <1>2. CASE T # {}
    <2>1. \E c \in T : \A o \in T : o <= c
      <3>1. T \subseteq Dates
        OBVIOUS
      <3> HIDE DEF T
      <3> QED  BY <1>2, <3>1, LastDate
    <2>2. LatestOf(p) \in T
      BY <1>2, <2>1 DEF LatestOf
    <2>3. \A d \in Dates : d # None
      BY NoneAssumption, DatesAssumption DEF Dates
    <2> QED  BY <2>2, <2>3
  <1> QED  BY <1>1, <1>2

\* The candidates that an adjudication reads are sequences of issuers.
LEMMA CandidatesType ==
    ASSUME TypeInv, NEW p \in Providers, TablesReadable(p), NEW i
    PROVE  Candidates(p, i) \in Seq(Leis)
  <1>1. CASE LatestOf(p) = None
    BY <1>1 DEF Candidates
  <1>2. CASE LatestOf(p) # None
    <2>1. PICK d \in Dates : d = LatestOf(p)
      BY <1>2, LatestIs
    <2>2. cand[p][d] \in Rows
      BY <1>2, <2>1 DEF TypeInv, TablesInv, TablesReadable
    <2>3. \A j \in DOMAIN cand[p][d] : cand[p][d][j] \in Seq(Leis)
      BY <2>2, RowsOf
    <2> QED  BY <1>2, <2>1, <2>3 DEF Candidates
  <1> QED  BY <1>1, <1>2

LEMMA VerdictType ==
    ASSUME NEW g \in Seq(Leis), NEW f \in Seq(Leis)
    PROVE  Verdict(g, f) \in Verdicts
  <1> DEFINE m == Len(g)
             n == Len(f)
  <1>1. m \in Nat /\ n \in Nat
    OBVIOUS
  <1>2. State(g, f) = CASE m > 1 \/ n > 1 -> "multiple_candidates"
                        [] m = 0 /\ n = 0 -> "no_authoritative_match"
                        [] m = 1 /\ n = 0 -> "gleif_only"
                        [] m = 0 /\ n = 1 -> "firds_only"
                        [] m = 1 /\ n = 1 -> IF g = f THEN "corroborated" ELSE "conflict"
    BY DEF State
  <1> HIDE DEF m, n
  <1>3. \/ m > 1 \/ n > 1
        \/ m = 0 /\ n = 0
        \/ m = 1 /\ n = 0
        \/ m = 0 /\ n = 1
        \/ m = 1 /\ n = 1
    BY <1>1
  <1>4. /\ State(g, f) \in States
        /\ State(g, f) \in {"corroborated", "gleif_only"} => m = 1
        /\ State(g, f) = "firds_only" => n = 1
    <2>1. CASE m > 1 \/ n > 1
      BY <1>1, <1>2, <2>1 DEF States
    <2>2. CASE ~(m > 1 \/ n > 1)
      BY <1>1, <1>2, <1>3, <2>2 DEF States
    <2> QED  BY <2>1, <2>2
  <1> USE DEF m, n
  <1>5. Len(g) = 1 => g[1] \in Leis
    OBVIOUS
  <1>6. Len(f) = 1 => f[1] \in Leis
    OBVIOUS
  <1> QED  BY <1>4, <1>5, <1>6 DEF Verdict, Verdicts

LEMMA StepType == TypeInv /\ [Next]_vars => TypeInv'
  <1> SUFFICES ASSUME TypeInv, [Next]_vars
               PROVE  TypeInv'
    OBVIOUS
  <1> USE DEF evidence, verdicts
  <1>1. CASE UNCHANGED vars \/ IngestOpenFigi \/ \E i \in Isins : Grow(i)
    BY <1>1 DEF vars, IngestOpenFigi, Grow, TypeInv, TablesInv, IngestRun, AdjudicateRun
  <1>2. ASSUME NEW p \in Providers, NEW d \in Dates, NEW v \in DOMAIN File[p][d],
               StartIngest(p, d, v)
        PROVE  TypeInv'
    <2> DEFINE r == [i \in universe |-> File[p][d][v][i]]
    <2>1. v \in Nat /\ r \in Rows /\ DOMAIN r = universe
      BY JoinType
    <2>2. run' = [step |-> "observations", p |-> p, d |-> d, v |-> v, of |-> universe, rows |-> r]
      BY <1>2 DEF StartIngest
    <2> HIDE DEF r
    <2>3. IngestRun'
      BY <2>1, <2>2 DEF IngestRun, Ingesting, TypeInv
    <2> QED  BY <1>2, <2>3 DEF StartIngest, TypeInv, TablesInv
  <1>3. CASE StartAdjudicate
    <2> DEFINE r == [i \in universe |-> VerdictNow(i)]
    <2>1. \A i \in universe : VerdictNow(i) \in Verdicts
      BY <1>3, CandidatesType, VerdictType DEF VerdictNow, StartAdjudicate, Providers
    <2>2. r \in [universe -> Verdicts] /\ universe \in SUBSET Isins
      BY <2>1 DEF TypeInv
    <2>3. r \in VerdictRows
      BY <2>2 DEF VerdictRows
    <2>4. PICK b : run' = [step |-> "securities", bundle |-> b, rows |-> r]
      BY <1>3 DEF StartAdjudicate
    <2> HIDE DEF r
    <2>5. AdjudicateRun'
      BY <2>3, <2>4 DEF AdjudicateRun, Adjudicating
    <2> QED  BY <1>3, <2>5 DEF StartAdjudicate, TypeInv, TablesInv
  <1>4. CASE WriteObservations \/ WriteCandidates \/ WriteManifest
    <2>1. IngestRun
      BY <1>4, Kinds DEF WriteObservations, WriteCandidates, WriteManifest, Ingesting
    <2>2. PICK p, d, v, o, r :
            run = [step |-> run.step, p |-> p, d |-> d, v |-> v, of |-> o, rows |-> r]
      BY <2>1 DEF IngestRun
    <2>3. /\ p \in Providers /\ d \in Dates /\ v \in Nat /\ r \in Rows
          /\ o = DOMAIN r /\ o # {} /\ o \in SUBSET Isins
      BY <2>1, <2>2, RowsOf DEF IngestRun
    <2>4. run' = Idle \/ IngestRun'
      <3>1. CASE WriteManifest
        BY <3>1 DEF WriteManifest
      <3>2. CASE WriteObservations \/ WriteCandidates
        <4>1. PICK s \in Ingesting :
                run' = [step |-> s, p |-> p, d |-> d, v |-> v, of |-> o, rows |-> r]
          BY <2>2, <3>2 DEF WriteObservations, WriteCandidates, Ingesting
        <4> QED  BY <2>3, <4>1 DEF IngestRun
      <3> QED  BY <1>4, <3>1, <3>2
    <2>5. TablesInv'
      <3> DEFINE m == [version |-> v, rows |-> r]
      <3>1. m \in Manifests
        BY <2>3 DEF Manifests
      <3>2. \/ obs' = [obs EXCEPT ![p][d] = o] /\ UNCHANGED <<cand, manifest>>
            \/ cand' = [cand EXCEPT ![p][d] = r] /\ UNCHANGED <<obs, manifest>>
            \/ manifest' = [manifest EXCEPT ![p][d] = m] /\ UNCHANGED <<obs, cand>>
            \/ UNCHANGED <<obs, cand, manifest>>
        BY <1>4, <2>2 DEF WriteObservations, WriteCandidates, WriteManifest
      <3> HIDE DEF m
      <3> QED  BY <2>3, <3>1, <3>2, TablesWritten DEF TypeInv
    <2> QED
      BY <1>4, <2>4, <2>5 DEF WriteObservations, WriteCandidates, WriteManifest, TypeInv
  <1>5. CASE WriteSecurities \/ WriteFamilies \/ Publish
    <2>1. AdjudicateRun
      BY <1>5, Kinds DEF WriteSecurities, WriteFamilies, Publish, Adjudicating
    <2>2. PICK b, r : run = [step |-> run.step, bundle |-> b, rows |-> r] /\ r \in VerdictRows
      BY <2>1 DEF AdjudicateRun
    <2>3. run' = Idle \/ \E s \in Adjudicating : run' = [step |-> s, bundle |-> b, rows |-> r]
      BY <1>5, <2>2 DEF WriteSecurities, WriteFamilies, Publish, Adjudicating
    <2>4. run' = Idle \/ AdjudicateRun'
      BY <2>2, <2>3 DEF AdjudicateRun
    <2> QED
      BY <1>5, <2>4 DEF WriteSecurities, WriteFamilies, Publish, TypeInv, TablesInv
  <1>6. CASE Crash
    <2>1. run.step \in Ingesting => run.p \in Providers /\ run.d \in Dates
      BY Kinds DEF IngestRun
    <2>2. \/ UNCHANGED <<obs, cand, manifest>>
          \/ /\ run.step \in Ingesting
             /\ \/ obs' = [obs EXCEPT ![run.p][run.d] = Torn] /\ UNCHANGED <<cand, manifest>>
                \/ cand' = [cand EXCEPT ![run.p][run.d] = Torn] /\ UNCHANGED <<obs, manifest>>
                \/ manifest' = [manifest EXCEPT ![run.p][run.d] = Torn] /\ UNCHANGED <<obs, cand>>
      BY <1>6 DEF Crash, TearObservations, TearCandidates, TearManifest, TearSecurities,
                  TearFamilies, TearPublished, TearNone, Ingesting
    <2>3. TablesInv'
      <3>1. CASE UNCHANGED <<obs, cand, manifest>>
        BY <3>1 DEF TypeInv, TablesInv
      <3>2. CASE run.step \in Ingesting
        <4>1. PICK m : m \in {None, Torn}
          OBVIOUS
        <4> QED  BY <2>1, <2>2, <3>2, TablesWritten DEF TypeInv
      <3> QED  BY <2>2, <3>1, <3>2
    <2> QED  BY <1>6, <2>3 DEF Crash, TypeInv
  <1> QED  BY <1>1, <1>2, <1>3, <1>4, <1>5, <1>6 DEF Next, Work

LEMMA TypeInvariant == Spec => []TypeInv
  BY InitType, StepType, PTL DEF Spec

-----------------------------------------------------------------------------
(***************************************************************************)
(* Partitions                                                              *)
(***************************************************************************)
Secs == {sec[k] : k \in DOMAIN sec}

Filed(b) == b \in interrupted \/ \E m \in published : m.bundle = b

\* The running adjudication's bundle has no manifest, and its rows are of the corpus.
RunInv ==
    run.step \in Adjudicating =>
        /\ DOMAIN run.rows \subseteq universe
        /\ \A m \in published : m.bundle # run.bundle

\* One securities partition per bundle.  A bundle that has one has a manifest, or
\* lost a command, or is being adjudicated; what it counts is never more than a
\* later run of the bundle counts, and the same if none was lost.
SecInv ==
    /\ \E S : sec \in Seq(S)
    /\ \A j, k \in DOMAIN sec : sec[j].bundle = sec[k].bundle => j = k
    /\ \A x \in Secs : x.rows # Torn => DOMAIN x.rows \subseteq universe
    /\ \A x \in Secs :
          Filed(x.bundle) \/ (run.step \in {"families", "publish"} /\ run.bundle = x.bundle)
    /\ run.step \in Adjudicating => \A x \in Secs : x.bundle = run.bundle =>
          /\ x.rows # Torn => DOMAIN x.rows \subseteq DOMAIN run.rows
          /\ run.bundle \notin interrupted => x.rows = run.rows
    /\ run.step \in {"families", "publish"} => HasSec(run.bundle)
    /\ \A m \in published :
          /\ HasSec(m.bundle)
          /\ \A x \in Secs : x.bundle = m.bundle =>
                /\ m.rows # Torn /\ x.rows # Torn => DOMAIN x.rows \subseteq DOMAIN m.rows
                /\ m.bundle \notin interrupted => m.rows # Torn /\ x.rows = m.rows

\* The same of the families, which come second.
FamInv ==
    /\ \A x, y \in fam : x.bundle = y.bundle => x = y
    /\ \A x \in fam : x.isins # Torn => x.isins \subseteq universe
    /\ \A x \in fam : Filed(x.bundle) \/ (run.step = "publish" /\ run.bundle = x.bundle)
    /\ run.step \in Adjudicating => \A x \in fam : x.bundle = run.bundle =>
          /\ x.isins # Torn => x.isins \subseteq DOMAIN run.rows
          /\ run.bundle \notin interrupted => x.isins = DOMAIN run.rows
    /\ run.step = "publish" => HasFam(run.bundle)
    /\ \A m \in published :
          /\ HasFam(m.bundle)
          /\ \A x \in fam : x.bundle = m.bundle =>
                /\ m.rows # Torn /\ x.isins # Torn => x.isins \subseteq DOMAIN m.rows
                /\ m.bundle \notin interrupted => x.isins = DOMAIN m.rows

WholeInv == TypeInv /\ RunInv /\ SecInv /\ FamInv

LEMMA InitWhole == Init => WholeInv
  <1> SUFFICES ASSUME Init
               PROVE  WholeInv
    OBVIOUS
  <1>1. sec = <<>> /\ sec \in Seq({}) /\ Secs = {} /\ fam = {} /\ published = {}
    BY DEF Init, Secs
  <1>2. run.step \notin Adjudicating /\ run.step \notin {"families", "publish"}
    BY DEF Init, Idle, Adjudicating
  <1>3. RunInv /\ SecInv
    BY <1>1, <1>2 DEF RunInv, SecInv
  <1>4. FamInv
    BY <1>1, <1>2 DEF FamInv
  <1> QED  BY <1>3, <1>4, InitType DEF WholeInv

\* An append leaves the partitions before it alone.
LEMMA AppendSec ==
    ASSUME NEW S, NEW l \in Seq(S), NEW x
    PROVE  /\ Append(l, x) \in Seq(S \cup {x})
           /\ Len(l) \in Nat /\ DOMAIN l = 1..Len(l)
           /\ Len(Append(l, x)) = Len(l) + 1 /\ DOMAIN Append(l, x) = 1..(Len(l) + 1)
           /\ Append(l, x)[Len(l) + 1] = x
           /\ \A k \in 1..Len(l) : Append(l, x)[k] = l[k]
           /\ SubSeq(Append(l, x), 1, Len(l)) = l
  <1>1. l \in Seq(S \cup {x}) /\ Len(l) \in Nat /\ DOMAIN l = 1..Len(l)
    OBVIOUS
  <1> QED  BY <1>1

\* A first partition of a bundle
LEMMA NewSec ==
    ASSUME SecInv, NEW x, ~HasSec(x.bundle), sec' = Append(sec, x)
    PROVE  /\ \E S : sec' \in Seq(S)
           /\ \A j, k \in DOMAIN sec' : sec'[j].bundle = sec'[k].bundle => j = k
           /\ Secs' = Secs \cup {x}
           /\ \A b : HasSec(b)' <=> HasSec(b) \/ b = x.bundle
  <1> DEFINE n == Len(sec)
  <1>1. PICK S : sec \in Seq(S)
    BY DEF SecInv
  <1>2. /\ sec' \in Seq(S \cup {x}) /\ n \in Nat /\ DOMAIN sec = 1..n
        /\ DOMAIN sec' = 1..(n + 1) /\ sec'[n + 1] = x
        /\ \A k \in 1..n : sec'[k] = sec[k]
    BY <1>1, AppendSec
  <1> HIDE DEF n
  <1>3. \A j, k \in DOMAIN sec' : sec'[j].bundle = sec'[k].bundle => j = k
    <2> SUFFICES ASSUME NEW j \in 1..(n + 1), NEW k \in 1..(n + 1),
                        sec'[j].bundle = sec'[k].bundle
                 PROVE  j = k
      BY <1>2
    <2>1. \A m \in 1..n : sec'[m].bundle # x.bundle
      BY <1>2 DEF HasSec
    <2>2. CASE j \in 1..n /\ k \in 1..n
      BY <1>2, <2>2 DEF SecInv
    <2>3. CASE j = n + 1 \/ k = n + 1
      BY <1>2, <2>1, <2>3
    <2> QED  BY <1>2, <2>2, <2>3
  <1>4. \A k \in 1..(n + 1) : k \in 1..n \/ k = n + 1
    BY <1>2
  <1>5. Secs' = Secs \cup {x}
    BY <1>2, <1>4 DEF Secs
  <1>6. \A b : HasSec(b)' <=> HasSec(b) \/ b = x.bundle
    BY <1>2, <1>4 DEF HasSec
  <1> QED  BY <1>2, <1>3, <1>5, <1>6

LEMMA InSecs == \A b : HasSec(b) <=> \E x \in Secs : x.bundle = b
  BY DEF HasSec, Secs

\* A step that writes no partition and no manifest
LEMMA FrameWhole ==
    ASSUME WholeInv, TypeInv', UNCHANGED <<sec, fam, published, interrupted>>,
           universe \subseteq universe',
           \/ run' = run
           \/ run.step \notin Adjudicating /\ run'.step \notin Adjudicating
    PROVE  WholeInv'
  <1>1. RunInv'
    BY DEF WholeInv, RunInv
  <1>2. Secs' = Secs /\ \A b : (HasSec(b)' <=> HasSec(b)) /\ (HasFam(b)' <=> HasFam(b))
    BY DEF Secs, HasSec, HasFam
  <1>3. \A b : Filed(b)' <=> Filed(b)
    BY DEF Filed
  <1>4. CASE run' = run
    <2>1. SecInv'
      BY <1>2, <1>3, <1>4 DEF WholeInv, SecInv
    <2>2. FamInv'
      BY <1>2, <1>3, <1>4 DEF WholeInv, FamInv
    <2> QED  BY <1>1, <2>1, <2>2 DEF WholeInv
  <1>5. CASE run.step \notin Adjudicating /\ run'.step \notin Adjudicating
    <2>1. /\ run.step \notin {"families", "publish"} /\ run.step # "publish"
          /\ run'.step \notin {"families", "publish"} /\ run'.step # "publish"
      BY <1>5 DEF Adjudicating
    <2>2. SecInv'
      BY <1>2, <1>3, <1>5, <2>1 DEF WholeInv, SecInv
    <2>3. FamInv'
      BY <1>2, <1>3, <1>5, <2>1 DEF WholeInv, FamInv
    <2> QED  BY <1>1, <2>2, <2>3 DEF WholeInv
  <1> QED  BY <1>4, <1>5

\* A bundle that was never adjudicated to its end has only what a lost command
\* left, of a corpus that has grown since.
LEMMA StartWhole == WholeInv /\ TypeInv' /\ StartAdjudicate => WholeInv'
  <1> SUFFICES ASSUME WholeInv, TypeInv', StartAdjudicate
               PROVE  WholeInv'
    OBVIOUS
  <1>1. PICK b, r : /\ run' = [step |-> "securities", bundle |-> b, rows |-> r]
                    /\ b = Bundle /\ DOMAIN r = universe
    <2>1. DOMAIN [i \in universe |-> VerdictNow(i)] = universe
      OBVIOUS
    <2> QED  BY <2>1 DEF StartAdjudicate
  <1>2. /\ UNCHANGED <<universe, sec, fam, published, interrupted>>
        /\ \A m \in published : m.bundle # b
        /\ run.step \notin {"families", "publish"}
    BY <1>1 DEF StartAdjudicate, AlreadyAdjudicated, verdicts, deaths, Idle
  <1>3. /\ run'.step = "securities" /\ run'.bundle = b /\ run'.rows = r
    BY <1>1
  <1>4. RunInv'
    BY <1>1, <1>2, <1>3 DEF RunInv
  <1>5. Secs' = Secs /\ \A c : (HasSec(c)' <=> HasSec(c)) /\ (HasFam(c)' <=> HasFam(c))
    BY <1>2 DEF Secs, HasSec, HasFam
  <1>6. \A c : Filed(c)' <=> Filed(c)
    BY <1>2 DEF Filed
  <1>7. SecInv'
    <2>1. \A x \in Secs : x.bundle = b => b \in interrupted
      BY <1>2 DEF WholeInv, SecInv, Filed
    <2> QED  BY <1>1, <1>2, <1>3, <1>5, <1>6, <2>1 DEF WholeInv, SecInv
  <1>8. FamInv'
    <2>1. \A x \in fam : x.bundle = b => b \in interrupted
      BY <1>2 DEF WholeInv, FamInv, Filed
    <2> QED  BY <1>1, <1>2, <1>3, <1>5, <1>6, <2>1 DEF WholeInv, FamInv
  <1> QED  BY <1>4, <1>7, <1>8 DEF WholeInv

LEMMA SecuritiesWhole == WholeInv /\ TypeInv' /\ WriteSecurities => WholeInv'
  <1> SUFFICES ASSUME WholeInv, TypeInv', WriteSecurities
               PROVE  WholeInv'
    OBVIOUS
  <1>1. PICK b, r : run = [step |-> "securities", bundle |-> b, rows |-> r]
    BY Kinds DEF WriteSecurities, WholeInv, Adjudicating, AdjudicateRun
  <1>2. run' = [step |-> "families", bundle |-> b, rows |-> r]
    BY <1>1 DEF WriteSecurities
  <1>3. /\ run.step = "securities" /\ run.bundle = b /\ run.rows = r
        /\ run'.step = "families" /\ run'.bundle = b /\ run'.rows = r
    BY <1>1, <1>2
  <1>4. UNCHANGED <<universe, fam, published, interrupted>>
    BY DEF WriteSecurities, deaths
  <1>5. RunInv' /\ DOMAIN r \subseteq universe
    BY <1>3, <1>4 DEF RunInv, WholeInv, Adjudicating
  <1>6. \A c : (Filed(c)' <=> Filed(c)) /\ (HasFam(c)' <=> HasFam(c))
    BY <1>4 DEF Filed, HasFam
  <1>7. FamInv'
    BY <1>3, <1>4, <1>6 DEF WholeInv, FamInv, Adjudicating
  <1>8. SecInv'
    <2>1. CASE HasSec(b)
      <3>1. sec' = sec /\ Secs' = Secs /\ \A c : HasSec(c)' <=> HasSec(c)
        BY <1>3, <2>1 DEF WriteSecurities, Secs, HasSec
      <3> QED  BY <1>3, <1>4, <1>6, <2>1, <3>1 DEF WholeInv, SecInv, Adjudicating
    <2>2. CASE ~HasSec(b)
      <3> DEFINE x == [bundle |-> b, rows |-> r]
      <3>1. x.bundle = b /\ x.rows = r
        OBVIOUS
      <3>2. sec' = Append(sec, x)
        BY <1>3, <2>2 DEF WriteSecurities
      <3> HIDE DEF x
      <3>3. /\ \E S : sec' \in Seq(S)
            /\ \A j, k \in DOMAIN sec' : sec'[j].bundle = sec'[k].bundle => j = k
            /\ Secs' = Secs \cup {x}
            /\ \A c : HasSec(c)' <=> HasSec(c) \/ c = b
        BY <2>2, <3>1, <3>2, NewSec DEF WholeInv
      <3>4. \A m \in published : m.bundle # b
        BY <1>3 DEF WholeInv, RunInv, Adjudicating
      <3>5. \A y \in Secs : y.bundle # b
        BY <2>2, InSecs
      <3> QED  BY <1>3, <1>4, <1>5, <1>6, <3>1, <3>3, <3>4, <3>5 DEF WholeInv, SecInv
    <2> QED  BY <2>1, <2>2
  <1> QED  BY <1>5, <1>7, <1>8 DEF WholeInv

LEMMA FamiliesWhole == WholeInv /\ TypeInv' /\ WriteFamilies => WholeInv'
  <1> SUFFICES ASSUME WholeInv, TypeInv', WriteFamilies
               PROVE  WholeInv'
    OBVIOUS
  <1>1. PICK b, r : run = [step |-> "families", bundle |-> b, rows |-> r]
    BY Kinds DEF WriteFamilies, WholeInv, Adjudicating, AdjudicateRun
  <1>2. run' = [step |-> "publish", bundle |-> b, rows |-> r]
    BY <1>1 DEF WriteFamilies
  <1>3. /\ run.step = "families" /\ run.bundle = b /\ run.rows = r
        /\ run'.step = "publish" /\ run'.bundle = b /\ run'.rows = r
    BY <1>1, <1>2
  <1>4. UNCHANGED <<universe, sec, published, interrupted>>
    BY DEF WriteFamilies, deaths
  <1>5. RunInv' /\ DOMAIN r \subseteq universe
    BY <1>3, <1>4 DEF RunInv, WholeInv, Adjudicating
  <1>6. Secs' = Secs /\ \A c : (Filed(c)' <=> Filed(c)) /\ (HasSec(c)' <=> HasSec(c))
    BY <1>4 DEF Filed, HasSec, Secs
  <1>7. SecInv'
    BY <1>3, <1>4, <1>6 DEF WholeInv, SecInv, Adjudicating
  <1>8. FamInv'
    <2>1. CASE HasFam(b)
      <3>1. fam' = fam /\ \A c : HasFam(c)' <=> HasFam(c)
        BY <1>3, <2>1 DEF WriteFamilies, HasFam
      <3> QED  BY <1>3, <1>4, <1>6, <2>1, <3>1 DEF WholeInv, FamInv, Adjudicating
    <2>2. CASE ~HasFam(b)
      <3> DEFINE x == [bundle |-> b, isins |-> DOMAIN r]
      <3>1. x.bundle = b /\ x.isins = DOMAIN r
        OBVIOUS
      <3>2. fam' = fam \cup {x}
        BY <1>3, <2>2 DEF WriteFamilies
      <3> HIDE DEF x
      <3>3. \A c : HasFam(c)' <=> HasFam(c) \/ c = b
        BY <3>1, <3>2 DEF HasFam
      <3>4. \A m \in published : m.bundle # b
        BY <1>3 DEF WholeInv, RunInv, Adjudicating
      <3>5. \A y \in fam : y.bundle # b
        BY <2>2 DEF HasFam
      <3> QED  BY <1>3, <1>4, <1>5, <1>6, <3>1, <3>2, <3>3, <3>4, <3>5 DEF WholeInv, FamInv
    <2> QED  BY <2>1, <2>2
  <1> QED  BY <1>5, <1>7, <1>8 DEF WholeInv

LEMMA PublishWhole == WholeInv /\ TypeInv' /\ Publish => WholeInv'
  <1> SUFFICES ASSUME WholeInv, TypeInv', Publish
               PROVE  WholeInv'
    OBVIOUS
  <1>1. PICK b, r : /\ run = [step |-> "publish", bundle |-> b, rows |-> r]
                    /\ r \in VerdictRows
    BY Kinds DEF Publish, WholeInv, Adjudicating, AdjudicateRun
  <1>2. run.step = "publish" /\ run.bundle = b /\ run.rows = r /\ r # Torn
    BY <1>1, Readable
  <1> DEFINE m == [bundle |-> b, rows |-> r]
  <1>3. m.bundle = b /\ m.rows = r
    OBVIOUS
  <1>4. published' = published \cup {m} /\ UNCHANGED <<universe, sec, fam, interrupted>>
    BY <1>2 DEF Publish, deaths
  <1>5. run'.step \notin Adjudicating /\ run'.step \notin {"families", "publish"}
    BY DEF Publish, Idle, Adjudicating
  <1> HIDE DEF m
  <1>6. Secs' = Secs /\ \A c : /\ HasSec(c)' <=> HasSec(c)
                               /\ HasFam(c)' <=> HasFam(c)
                               /\ Filed(c)' <=> Filed(c) \/ c = b
    BY <1>3, <1>4 DEF Secs, HasSec, HasFam, Filed
  <1>7. RunInv'
    BY <1>5 DEF RunInv
  <1>8. SecInv'
    BY <1>2, <1>3, <1>4, <1>5, <1>6 DEF WholeInv, SecInv, Adjudicating
  <1>9. FamInv'
    BY <1>2, <1>3, <1>4, <1>5, <1>6 DEF WholeInv, FamInv, Adjudicating
  <1> QED  BY <1>7, <1>8, <1>9 DEF WholeInv

\* A partition or a manifest that an adjudication dies in is torn, and its bundle
\* counted among the interrupted ones.
LEMMA CrashWhole == WholeInv /\ TypeInv' /\ Crash => WholeInv'
  <1> SUFFICES ASSUME WholeInv, TypeInv', Crash
               PROVE  WholeInv'
    OBVIOUS
  <1>1. run' = Idle /\ run # Idle /\ UNCHANGED universe
    BY DEF Crash
  <1>2. run'.step \notin Adjudicating /\ run'.step \notin {"families", "publish"}
    BY <1>1 DEF Idle, Adjudicating
  <1>3. CASE run.step \in Ingesting
    <2>1. UNCHANGED <<sec, fam, published, interrupted>> /\ run.step \notin Adjudicating
      BY <1>3 DEF Crash, TearObservations, TearCandidates, TearManifest, TearSecurities,
                  TearFamilies, TearPublished, TearNone, verdicts, Ingesting, Adjudicating
    <2> QED  BY <1>1, <1>2, <2>1, FrameWhole
  <1>4. CASE run.step \in Adjudicating
    <2>1. PICK b, r : run = [step |-> run.step, bundle |-> b, rows |-> r] /\ run.bundle = b
      BY <1>4, Kinds DEF WholeInv, AdjudicateRun
    <2>2. interrupted' = interrupted \cup {b}
      BY <1>4, <2>1 DEF Crash, Ingesting, Adjudicating
    <2>3. RunInv'
      BY <1>2 DEF RunInv
    <2> DEFINE s == [bundle |-> b, rows |-> Torn]
               f == [bundle |-> b, isins |-> Torn]
    <2>4. s.bundle = b /\ s.rows = Torn /\ f.bundle = b /\ f.isins = Torn
      OBVIOUS
    <2>5. \/ UNCHANGED <<sec, fam, published>>
          \/ ~HasSec(b) /\ sec' = Append(sec, s) /\ UNCHANGED <<fam, published>>
          \/ ~HasFam(b) /\ fam' = fam \cup {f} /\ UNCHANGED <<sec, published>>
          \/ run.step = "publish" /\ published' = published \cup {s} /\ UNCHANGED <<sec, fam>>
      BY <1>4, <2>1 DEF Crash, TearObservations, TearCandidates, TearManifest, TearSecurities,
                        TearFamilies, TearPublished, TearNone, verdicts, Adjudicating
    <2> HIDE DEF s, f
    <2>6. /\ \E S : sec' \in Seq(S)
          /\ \A j, k \in DOMAIN sec' : sec'[j].bundle = sec'[k].bundle => j = k
          /\ Secs' = Secs \/ Secs' = Secs \cup {s}
          /\ \A c : HasSec(c) => HasSec(c)'
      <3>1. CASE UNCHANGED sec
        BY <3>1 DEF WholeInv, SecInv, Secs, HasSec
      <3>2. CASE ~HasSec(b) /\ sec' = Append(sec, s)
        BY <2>4, <3>2, NewSec DEF WholeInv
      <3> QED  BY <2>5, <3>1, <3>2
    <2>7. /\ fam' = fam \/ (fam' = fam \cup {f} /\ \A x \in fam : x.bundle # b)
          /\ \A c : HasFam(c) => HasFam(c)'
      <3>1. fam' = fam \/ (fam' = fam \cup {f} /\ \A x \in fam : x.bundle # b)
        BY <2>5 DEF HasFam
      <3> QED  BY <3>1 DEF HasFam
    <2>8. published' = published \/ (published' = published \cup {s} /\ HasSec(b) /\ HasFam(b))
      BY <2>1, <2>5 DEF WholeInv, SecInv, FamInv
    <2>9. \A c : /\ Filed(c) => Filed(c)'
                 /\ Filed(b)'
      BY <2>2, <2>8 DEF Filed
    <2>10. SecInv'
      <3>1. \A x \in Secs' : x.rows # Torn => DOMAIN x.rows \subseteq universe'
        BY <1>1, <2>4, <2>6 DEF WholeInv, SecInv
      <3>2. \A x \in Secs' : Filed(x.bundle)'
        BY <2>1, <2>4, <2>6, <2>9 DEF WholeInv, SecInv
      <3>3. ASSUME NEW m \in published'
            PROVE  /\ HasSec(m.bundle)'
                   /\ \A x \in Secs' : x.bundle = m.bundle =>
                        /\ m.rows # Torn /\ x.rows # Torn => DOMAIN x.rows \subseteq DOMAIN m.rows
                        /\ m.bundle \notin interrupted' => m.rows # Torn /\ x.rows = m.rows
        BY <2>2, <2>4, <2>6, <2>8 DEF WholeInv, SecInv
      <3> QED  BY <1>2, <2>6, <3>1, <3>2, <3>3 DEF SecInv
    <2>11. FamInv'
      <3>1. /\ \A x, y \in fam' : x.bundle = y.bundle => x = y
            /\ \A x \in fam' : x.isins # Torn => x.isins \subseteq universe'
        BY <1>1, <2>4, <2>7 DEF WholeInv, FamInv
      <3>2. \A x \in fam' : Filed(x.bundle)'
        BY <2>1, <2>4, <2>7, <2>9 DEF WholeInv, FamInv
      <3>3. ASSUME NEW m \in published'
            PROVE  /\ HasFam(m.bundle)'
                   /\ \A x \in fam' : x.bundle = m.bundle =>
                        /\ m.rows # Torn /\ x.isins # Torn => x.isins \subseteq DOMAIN m.rows
                        /\ m.bundle \notin interrupted' => x.isins = DOMAIN m.rows
        BY <2>2, <2>4, <2>7, <2>8 DEF WholeInv, FamInv
      <3> QED  BY <1>2, <3>1, <3>2, <3>3 DEF FamInv
    <2> QED  BY <2>3, <2>10, <2>11 DEF WholeInv
  <1> QED  BY <1>1, <1>3, <1>4, Kinds DEF WholeInv

LEMMA StepWhole == WholeInv /\ [Next]_vars => WholeInv'
  <1> SUFFICES ASSUME WholeInv, [Next]_vars
               PROVE  WholeInv'
    OBVIOUS
  <1> USE DEF evidence, verdicts, deaths
  <1>1. TypeInv'
    BY StepType DEF WholeInv
  <1>2. CASE UNCHANGED vars \/ IngestOpenFigi \/ \E i \in Isins : Grow(i)
    BY <1>1, <1>2, FrameWhole DEF vars, IngestOpenFigi, Grow
  <1>3. ASSUME NEW p \in Providers, NEW d \in Dates, NEW v \in DOMAIN File[p][d],
               StartIngest(p, d, v)
        PROVE  WholeInv'
    <2>1. run.step \notin Adjudicating /\ run'.step \notin Adjudicating
      BY <1>3 DEF StartIngest, Idle, Adjudicating
    <2> QED  BY <1>1, <1>3, <2>1, FrameWhole DEF StartIngest
  <1>4. CASE WriteObservations \/ WriteCandidates \/ WriteManifest
    <2>1. IngestRun
      BY <1>4, Kinds
      DEF WholeInv, WriteObservations, WriteCandidates, WriteManifest, Ingesting
    <2>2. run.step \notin Adjudicating
      BY <2>1, Kinds DEF IngestRun
    <2>3. run'.step \notin Adjudicating
      BY <1>4, <2>1 DEF WriteObservations, WriteCandidates, WriteManifest, IngestRun, Idle, Adjudicating
    <2> QED  BY <1>1, <1>4, <2>2, <2>3, FrameWhole
             DEF WriteObservations, WriteCandidates, WriteManifest
  <1> QED
    BY <1>1, <1>2, <1>3, <1>4, StartWhole, SecuritiesWhole, FamiliesWhole, PublishWhole, CrashWhole
    DEF Next, Work

LEMMA WholeInvariant == Spec => []WholeInv
  BY InitWhole, StepWhole, PTL DEF Spec

\* storage.write_adjudication: a manifest stands for one partition of each kind,
\* wherever runs of its bundle died, each of which counts no ISIN that it does not;
\* and where none died, for partitions that can be read and are what it counts.
THEOREM PublishedIsWhole == Spec => []PublishedWhole
  <1>1. WholeInv => PublishedWhole
    <2> SUFFICES ASSUME WholeInv, NEW m \in published
                 PROVE  /\ \E k \in DOMAIN sec :
                              /\ \A j \in DOMAIN sec : sec[j].bundle = m.bundle <=> j = k
                              /\ {sec[k].rows, m.rows} \cap {Torn} = {}
                                    => DOMAIN sec[k].rows \subseteq DOMAIN m.rows
                              /\ m.bundle \notin interrupted
                                    => m.rows # Torn /\ sec[k].rows = m.rows
                        /\ \E x \in fam :
                              /\ \A y \in fam : y.bundle = m.bundle <=> y = x
                              /\ {x.isins, m.rows} \cap {Torn} = {} => x.isins \subseteq DOMAIN m.rows
                              /\ m.bundle \notin interrupted => x.isins = DOMAIN m.rows
      BY DEF PublishedWhole
    <2>1. PICK k \in DOMAIN sec : sec[k].bundle = m.bundle
      BY DEF WholeInv, SecInv, HasSec
    <2>2. \A j \in DOMAIN sec : sec[j].bundle = m.bundle <=> j = k
      BY <2>1 DEF WholeInv, SecInv
    <2>3. /\ m.rows # Torn /\ sec[k].rows # Torn => DOMAIN sec[k].rows \subseteq DOMAIN m.rows
          /\ m.bundle \notin interrupted => m.rows # Torn /\ sec[k].rows = m.rows
      <3>1. sec[k] \in Secs
        BY DEF Secs
      <3> QED  BY <2>1, <3>1 DEF WholeInv, SecInv
    <2>4. PICK x \in fam : x.bundle = m.bundle
      BY DEF WholeInv, FamInv, HasFam
    <2>5. \A y \in fam : y.bundle = m.bundle <=> y = x
      BY <2>4 DEF WholeInv, FamInv
    <2>6. /\ m.rows # Torn /\ x.isins # Torn => x.isins \subseteq DOMAIN m.rows
          /\ m.bundle \notin interrupted => x.isins = DOMAIN m.rows
      BY <2>4 DEF WholeInv, FamInv
    <2> QED  BY <2>2, <2>3, <2>5, <2>6
  <1> QED  BY <1>1, WholeInvariant, PTL

\* "new partition, never overwrite": no step changes or removes a verdict, a
\* family or a manifest that is there, a torn one neither.
THEOREM VerdictsAreFinal == Spec => NeverRewritten
  <1> DEFINE Final == /\ Len(sec') >= Len(sec)
                      /\ SubSeq(sec', 1, Len(sec)) = sec
                      /\ fam \subseteq fam' /\ published \subseteq published'
  <1>1. WholeInv /\ [Next]_vars => [Final]_vars
    <2> SUFFICES ASSUME WholeInv, [Next]_vars
                 PROVE  Final
      OBVIOUS
    <2> USE DEF evidence, verdicts
    <2>1. PICK S : sec \in Seq(S)
      BY DEF WholeInv, SecInv
    <2>2. Len(sec) \in Nat /\ SubSeq(sec, 1, Len(sec)) = sec
      BY <2>1
    <2>3. /\ fam \subseteq fam' /\ published \subseteq published'
          /\ UNCHANGED sec \/ \E x : sec' = Append(sec, x)
      <3>1. CASE Crash
        BY <3>1 DEF Crash, TearObservations, TearCandidates, TearManifest, TearSecurities,
                    TearFamilies, TearPublished, TearNone
      <3>2. CASE [Next]_vars /\ ~Crash
        BY <3>2 DEF Next, Work, vars, Grow, StartIngest, IngestOpenFigi, StartAdjudicate,
               WriteObservations, WriteCandidates, WriteManifest, WriteSecurities,
               WriteFamilies, Publish
      <3> QED  BY <3>1, <3>2
    <2>4. CASE UNCHANGED sec
      BY <2>2, <2>3, <2>4
    <2>5. ASSUME NEW x, sec' = Append(sec, x)
          PROVE  Final
      BY <2>1, <2>3, <2>5, AppendSec
    <2> QED  BY <2>3, <2>4, <2>5
  <1> QED  BY <1>1, WholeInvariant, PTL DEF Spec, NeverRewritten

-----------------------------------------------------------------------------
(***************************************************************************)
(* Pinned rows.  The tables of a snapshot are those of its manifest unless *)
(* an ingestion died over them, and its candidates are unless the manifest *)
(* lists no issuer: the bundles that the property excepts, and no other.   *)
(***************************************************************************)
\* The tables of a snapshot are those its manifest fingerprints.
Coherent(p, d) ==
    /\ obs[p][d] = DOMAIN manifest[p][d].rows
    /\ Naming(manifest[p][d].rows) => cand[p][d] = manifest[p][d].rows

\* What the running command has written, and what it writes
WritingInv ==
    /\ run.step \in {"candidates", "manifest"} => obs[run.p][run.d] = run.of
    /\ run.step = "manifest" /\ Naming(run.rows) => cand[run.p][run.d] = run.rows
    /\ run.step \in Adjudicating /\ Undisturbed(run.bundle) => Pinned(run.bundle, run.rows)

\* Only the snapshot being written again, and those disturbed, may differ from
\* their manifest.
SnapshotsInv ==
    \A p \in Providers, d \in Dates :
        manifest[p][d] \notin {None, Torn} =>
            \/ Coherent(p, d)
            \/ <<p, IdAt(p, d)>> \in disturbed
            \/ run.step \in Ingesting /\ run.p = p /\ run.d = d

PinInv == WritingInv /\ SnapshotsInv /\ PinnedInput

\* Between commands, the tables read are those the evidence names.
LEMMA ReadsNamed ==
    ASSUME TypeInv, SnapshotsInv, run = Idle, NEW p \in Providers, NEW i, NameReadable(p),
           EvidenceId(p) # None =>
               Naming(EvidenceId(p).rows) /\ <<p, EvidenceId(p)>> \notin disturbed
    PROVE  Candidates(p, i) = Named(EvidenceId(p), i)
  <1>1. CASE LatestOf(p) = None
    BY <1>1 DEF Candidates, EvidenceId, Named
  <1>2. CASE LatestOf(p) # None
    <2>1. PICK d \in Dates : d = LatestOf(p) /\ manifest[p][d] \notin {None, Torn}
      BY <1>2, LatestIs DEF NameReadable
    <2> DEFINE r == manifest[p][d].rows
    <2>2. manifest[p][d].version \in Nat /\ r \in Rows /\ d \in Nat
      BY <2>1, DatesAssumption DEF TypeInv, TablesInv, Manifests, Dates
    <2>3. EvidenceId(p) = IdAt(p, d)
      BY <1>2, <2>1 DEF EvidenceId
    <2>4. IdAt(p, d).rows = r
      BY DEF IdAt
    <2>5. IdAt(p, d) # None
      BY <2>2, NoneAssumption DEF IdAt
    <2>6. obs[p][d] = DOMAIN r /\ cand[p][d] = r
      <3>1. Coherent(p, d)
        BY <2>1, <2>3, <2>5, Kinds DEF SnapshotsInv
      <3> QED  BY <2>3, <2>4, <2>5, <3>1 DEF Coherent
    <2> HIDE DEF r
    <2>7. Named(EvidenceId(p), i) = IF i \in DOMAIN r THEN r[i] ELSE <<>>
      BY <2>3, <2>4, <2>5 DEF Named
    <2>8. Candidates(p, i) = IF i \in DOMAIN r THEN r[i] ELSE <<>>
      BY <1>2, <2>1, <2>6 DEF Candidates
    <2> QED  BY <2>7, <2>8
  <1> QED  BY <1>1, <1>2

\* An adjudication starts from the rows that its bundle names.
LEMMA StartPinned ==
    TypeInv /\ PinInv /\ StartAdjudicate /\ Undisturbed(Bundle)
        => Pinned(Bundle, [i \in universe |-> VerdictNow(i)])
  <1> SUFFICES ASSUME TypeInv, PinInv, StartAdjudicate, Undisturbed(Bundle)
               PROVE  Pinned(Bundle, [i \in universe |-> VerdictNow(i)])
    OBVIOUS
  <1> DEFINE r == [i \in universe |-> VerdictNow(i)]
             b == Bundle
  <1>1. /\ b.gleif = EvidenceId("gleif") /\ b.firds = EvidenceId("firds")
        /\ b["gleif"] = EvidenceId("gleif") /\ b["firds"] = EvidenceId("firds")
    BY DEF Bundle
  <1> HIDE DEF b
  <1>2. ASSUME NEW i \in DOMAIN r
        PROVE  r[i] = Verdict(Named(b.gleif, i), Named(b.firds, i))
    <2>1. r[i] = VerdictNow(i)
      OBVIOUS
    <2>2. Undisturbed(b)
      BY DEF b
    <2>3. /\ Candidates("gleif", i) = Named(b.gleif, i)
          /\ Candidates("firds", i) = Named(b.firds, i)
      BY <1>1, <2>2, ReadsNamed DEF PinInv, StartAdjudicate, Providers, Undisturbed
    <2> QED  BY <2>1, <2>3 DEF VerdictNow
  <1>3. Pinned(b, r)
    BY <1>2 DEF Pinned
  <1> QED  BY <1>3 DEF b

LEMMA InitPin == Init => PinInv
  BY DEF Init, PinInv, WritingInv, SnapshotsInv, PinnedInput, Idle, Ingesting, Adjudicating

\* Evidence over which no ingestion has died had none die over it before.
LEMMA Disturbing == disturbed \subseteq disturbed' => \A b : Undisturbed(b)' => Undisturbed(b)
  BY DEF Undisturbed

\* A step that files no verdict that can be read
LEMMA FilesNone ==
    ASSUME PinInv, disturbed \subseteq disturbed', \E S : sec \in Seq(S),
           sec' = sec \/ \E x : sec' = Append(sec, x) /\ x.rows = Torn
    PROVE  PinnedInput'
  <1>1. CASE sec' = sec
    BY <1>1, Disturbing DEF PinInv, PinnedInput
  <1>2. ASSUME NEW x, sec' = Append(sec, x), x.rows = Torn
        PROVE  PinnedInput'
    <2>1. PICK S : sec \in Seq(S)
      OBVIOUS
    <2>2. /\ DOMAIN sec = 1..Len(sec) /\ DOMAIN sec' = 1..(Len(sec) + 1)
          /\ Len(sec) \in Nat /\ sec'[Len(sec) + 1] = x
          /\ \A k \in 1..Len(sec) : sec'[k] = sec[k]
      BY <1>2, <2>1, AppendSec
    <2>3. ASSUME NEW k \in 1..(Len(sec) + 1), sec'[k].rows # Torn,
                 NEW b, b = sec'[k].bundle, Undisturbed(b)'
          PROVE  Pinned(b, sec'[k].rows)
      <3>1. k \in 1..Len(sec)
        <4> DEFINE n == Len(sec)
        <4>1. n \in Nat /\ k \in 1..(n + 1) /\ sec'[n + 1] = x
          BY <2>2
        <4> HIDE DEF n
        <4>2. k # n + 1
          BY <1>2, <2>3, <4>1
        <4>3. k \in 1..n
          BY <4>1, <4>2
        <4> QED  BY <4>3 DEF n
      <3>2. Undisturbed(b) /\ sec[k].bundle = b /\ sec'[k] = sec[k]
        BY <2>2, <2>3, <3>1, Disturbing
      <3>3. Pinned(sec[k].bundle, sec[k].rows)
        BY <2>2, <2>3, <3>1, <3>2 DEF PinInv, PinnedInput
      <3> QED  BY <3>2, <3>3
    <2> QED  BY <2>2, <2>3 DEF PinnedInput, Pinned
  <1> QED  BY <1>1, <1>2

\* A step that leaves the snapshots alone, and starts or ends no ingestion
LEMMA KeepsSnapshots ==
    ASSUME SnapshotsInv, UNCHANGED <<obs, cand, manifest, disturbed>>,
           run' = run \/ run.step \notin Ingesting
    PROVE  SnapshotsInv'
  <1>1. \A p \in Providers, d \in Dates : Coherent(p, d)' <=> Coherent(p, d)
    BY DEF Coherent
  <1>2. \A p \in Providers, d \in Dates : IdAt(p, d)' = IdAt(p, d)
    BY DEF IdAt
  <1> QED  BY <1>1, <1>2 DEF SnapshotsInv

LEMMA StartIngestPin ==
    ASSUME WholeInv, PinInv, NEW p \in Providers, NEW d \in Dates,
           NEW v \in DOMAIN File[p][d], StartIngest(p, d, v)
    PROVE  PinInv'
  <1>1. /\ run'.step = "observations" /\ run.step \notin Ingesting
        /\ UNCHANGED <<obs, cand, manifest, sec, disturbed>>
    BY DEF StartIngest, verdicts, deaths, Idle, Ingesting
  <1>2. WritingInv'
    BY <1>1 DEF WritingInv, Adjudicating
  <1> QED  BY <1>1, <1>2, KeepsSnapshots, FilesNone DEF PinInv, WholeInv, SecInv

\* The three writes of an ingestion touch the snapshot that it writes only.
LEMMA IngestPin ==
    WholeInv /\ PinInv /\ (WriteObservations \/ WriteCandidates \/ WriteManifest) => PinInv'
  <1> SUFFICES ASSUME WholeInv, PinInv, WriteObservations \/ WriteCandidates \/ WriteManifest
               PROVE  PinInv'
    OBVIOUS
  <1>1. IngestRun
    BY Kinds DEF WholeInv, WriteObservations, WriteCandidates, WriteManifest, Ingesting
  <1>2. PICK p, d, v, o, r :
          /\ run = [step |-> run.step, p |-> p, d |-> d, v |-> v, of |-> o, rows |-> r]
          /\ p = run.p /\ d = run.d /\ v = run.v /\ o = run.of /\ r = run.rows
    BY <1>1 DEF IngestRun
  <1>3. /\ p \in Providers /\ d \in Dates /\ v \in Nat /\ r \in Rows
        /\ o = DOMAIN r /\ o \in SUBSET Isins
    BY <1>1, <1>2, RowsOf DEF IngestRun
  <1> DEFINE m == [version |-> v, rows |-> r]
  <1>4. m \in Manifests /\ m.rows = r
    BY <1>3 DEF Manifests
  <1>5. UNCHANGED <<sec, disturbed>>
    BY DEF WriteObservations, WriteCandidates, WriteManifest, verdicts, deaths
  <1>6. PinnedInput'
    BY <1>5, FilesNone DEF WholeInv, SecInv
  <1> DEFINE Else(T) == \A q \in Providers, e \in Dates : q # p \/ e # d => T'[q][e] = T[q][e]
  <1>7. ASSUME Else(obs), Else(cand), Else(manifest)
        PROVE  \A q \in Providers, e \in Dates : q # p \/ e # d =>
                   /\ manifest[q][e] \notin {None, Torn} =>
                        Coherent(q, e) \/ <<q, IdAt(q, e)>> \in disturbed
                   /\ Coherent(q, e)' <=> Coherent(q, e)
                   /\ IdAt(q, e)' = IdAt(q, e)
                   /\ manifest'[q][e] = manifest[q][e]
    <2> SUFFICES ASSUME NEW q \in Providers, NEW e \in Dates, q # p \/ e # d
                 PROVE  /\ manifest[q][e] \notin {None, Torn} =>
                             Coherent(q, e) \/ <<q, IdAt(q, e)>> \in disturbed
                        /\ Coherent(q, e)' <=> Coherent(q, e)
                        /\ IdAt(q, e)' = IdAt(q, e)
                        /\ manifest'[q][e] = manifest[q][e]
      OBVIOUS
    <2>1. manifest'[q][e] = manifest[q][e] /\ obs'[q][e] = obs[q][e] /\ cand'[q][e] = cand[q][e]
      BY <1>7
    <2> QED  BY <1>2, <2>1 DEF PinInv, SnapshotsInv, Coherent, IdAt
  <1> HIDE DEF m
  <1>8. CASE WriteObservations
    <2>1. obs' = [obs EXCEPT ![p][d] = o] /\ UNCHANGED <<cand, manifest>>
      BY <1>2, <1>8 DEF WriteObservations
    <2>2. obs'[p][d] = o /\ Else(obs) /\ Else(cand) /\ Else(manifest)
      BY <1>3, <2>1, Written DEF WholeInv, TypeInv, TablesInv
    <2>3. run' = [step |-> "candidates", p |-> p, d |-> d, v |-> v, of |-> o, rows |-> r]
      BY <1>2, <1>8 DEF WriteObservations
    <2>4. run'.step = "candidates" /\ run'.p = p /\ run'.d = d /\ run'.of = o
      BY <2>3
    <2>5. WritingInv'
      BY <2>2, <2>4 DEF WritingInv, Adjudicating
    <2> HIDE DEF Else
    <2>6. SnapshotsInv'
      BY <1>5, <1>7, <2>2, <2>4 DEF SnapshotsInv, Ingesting
    <2> QED  BY <1>6, <2>5, <2>6 DEF PinInv
  <1>9. CASE WriteCandidates
    <2>1. /\ cand' = IF Naming(r) THEN [cand EXCEPT ![p][d] = r] ELSE cand
          /\ UNCHANGED <<obs, manifest>>
      BY <1>2, <1>9 DEF WriteCandidates
    <2>2. (Naming(r) => cand'[p][d] = r) /\ Else(obs) /\ Else(cand) /\ Else(manifest)
      <3>1. CASE Naming(r)
        BY <1>3, <2>1, <3>1, Written DEF WholeInv, TypeInv, TablesInv
      <3>2. CASE ~Naming(r)
        BY <2>1, <3>2
      <3> QED  BY <3>1, <3>2
    <2>3. run' = [step |-> "manifest", p |-> p, d |-> d, v |-> v, of |-> o, rows |-> r]
      BY <1>2, <1>9 DEF WriteCandidates
    <2>4. /\ run'.step = "manifest" /\ run'.p = p /\ run'.d = d /\ run'.of = o
          /\ run'.rows = r
      BY <2>3
    <2>5. obs[p][d] = o
      BY <1>2, <1>9 DEF PinInv, WritingInv, WriteCandidates
    <2>6. WritingInv'
      BY <2>1, <2>2, <2>4, <2>5 DEF WritingInv, Adjudicating
    <2> HIDE DEF Else
    <2>7. SnapshotsInv'
      BY <1>5, <1>7, <2>2, <2>4 DEF SnapshotsInv, Ingesting
    <2> QED  BY <1>6, <2>6, <2>7 DEF PinInv
  <1>10. CASE WriteManifest
    <2>1. manifest' = [manifest EXCEPT ![p][d] = m] /\ UNCHANGED <<obs, cand>>
      BY <1>2, <1>10 DEF WriteManifest, m
    <2>2. manifest'[p][d] = m /\ Else(obs) /\ Else(cand) /\ Else(manifest)
      BY <1>3, <1>4, <2>1, Written DEF WholeInv, TypeInv, TablesInv
    <2>3. run'.step \notin Ingesting \cup Adjudicating
      BY <1>10 DEF WriteManifest, Idle, Ingesting, Adjudicating
    <2>4. obs[p][d] = o /\ (Naming(r) => cand[p][d] = r)
      BY <1>2, <1>10 DEF PinInv, WritingInv, WriteManifest
    <2>5. WritingInv'
      BY <2>3 DEF WritingInv, Ingesting, Adjudicating
    <2>6. Coherent(p, d)'
      BY <1>3, <1>4, <2>1, <2>2, <2>4 DEF Coherent, Naming
    <2> HIDE DEF Else
    <2>7. SnapshotsInv'
      BY <1>5, <1>7, <2>2, <2>6 DEF SnapshotsInv
    <2> QED  BY <1>6, <2>5, <2>7 DEF PinInv
  <1> QED  BY <1>8, <1>9, <1>10

LEMMA AdjudicatePin ==
    WholeInv /\ PinInv /\ (StartAdjudicate \/ WriteSecurities \/ WriteFamilies \/ Publish)
        => PinInv'
  <1> SUFFICES ASSUME WholeInv, PinInv,
                      StartAdjudicate \/ WriteSecurities \/ WriteFamilies \/ Publish
               PROVE  PinInv'
    OBVIOUS
  <1>1. UNCHANGED <<obs, cand, manifest, disturbed>>
    BY DEF StartAdjudicate, WriteSecurities, WriteFamilies, Publish, evidence, deaths
  <1>2. run.step \notin Ingesting
    BY DEF StartAdjudicate, WriteSecurities, WriteFamilies, Publish, Idle, Ingesting
  <1>3. SnapshotsInv'
    BY <1>1, <1>2, KeepsSnapshots DEF PinInv
  <1>4. \A b : Undisturbed(b)' <=> Undisturbed(b)
    BY <1>1 DEF Undisturbed
  <1>5. CASE StartAdjudicate
    <2> DEFINE rows == [i \in universe |-> VerdictNow(i)]
    <2>1. run' = [step |-> "securities", bundle |-> Bundle, rows |-> rows] /\ sec' = sec
      BY <1>5 DEF StartAdjudicate, verdicts
    <2>2. PICK b, r : b = Bundle /\ r = rows
      OBVIOUS
    <2>3. Undisturbed(b) => Pinned(b, r)
      BY <1>5, <2>2, StartPinned DEF WholeInv
    <2> HIDE DEF rows
    <2>4. run'.step = "securities" /\ run'.bundle = b /\ run'.rows = r
      BY <2>1, <2>2
    <2>5. WritingInv'
      BY <1>4, <2>3, <2>4 DEF WritingInv, Pinned
    <2> QED  BY <1>1, <1>3, <2>1, <2>5, FilesNone DEF PinInv, WholeInv, SecInv
  <1>6. CASE WriteSecurities \/ WriteFamilies \/ Publish
    <2>1. PICK b, r : /\ run = [step |-> run.step, bundle |-> b, rows |-> r]
                      /\ b = run.bundle /\ r = run.rows /\ run.step \in Adjudicating
      BY <1>6, Kinds DEF WholeInv, AdjudicateRun, WriteSecurities, WriteFamilies, Publish, Adjudicating
    <2>2. Undisturbed(b) => Pinned(b, r)
      BY <2>1 DEF PinInv, WritingInv
    <2>3. run' = Idle \/ \E s \in Adjudicating : run' = [step |-> s, bundle |-> b, rows |-> r]
      BY <1>6, <2>1 DEF WriteSecurities, WriteFamilies, Publish, Adjudicating
    <2>4. WritingInv'
      BY <1>4, <2>2, <2>3 DEF WritingInv, Pinned, Idle, Adjudicating
    <2>5. PinnedInput'
      <3> DEFINE x == [bundle |-> b, rows |-> r]
      <3>1. x.bundle = b /\ x.rows = r
        OBVIOUS
      <3>2. sec' = sec \/ sec' = Append(sec, x)
        BY <1>6, <2>1 DEF WriteSecurities, WriteFamilies, Publish
      <3> HIDE DEF x
      <3>3. CASE sec' = sec
        BY <1>1, <3>3, FilesNone DEF WholeInv, SecInv
      <3>4. CASE sec' = Append(sec, x)
        <4>1. PICK S : sec \in Seq(S)
          BY DEF WholeInv, SecInv
        <4>2. /\ DOMAIN sec = 1..Len(sec) /\ DOMAIN sec' = 1..(Len(sec) + 1)
              /\ Len(sec) \in Nat /\ sec'[Len(sec) + 1] = x
              /\ \A k \in 1..Len(sec) : sec'[k] = sec[k]
          BY <3>4, <4>1, AppendSec
        <4>3. ASSUME NEW k \in 1..(Len(sec) + 1), sec'[k].rows # Torn,
                     Undisturbed(sec'[k].bundle)
              PROVE  Pinned(sec'[k].bundle, sec'[k].rows)
          <5>1. CASE k \in 1..Len(sec)
            BY <4>2, <4>3, <5>1 DEF PinInv, PinnedInput
          <5>2. CASE k = Len(sec) + 1
            BY <2>2, <3>1, <4>2, <4>3, <5>2
          <5> QED  BY <4>2, <5>1, <5>2
        <4> QED  BY <1>4, <4>2, <4>3 DEF PinnedInput, Pinned
      <3> QED  BY <3>2, <3>3, <3>4
    <2> QED  BY <1>3, <2>4, <2>5 DEF PinInv
  <1> QED  BY <1>5, <1>6

\* An ingestion that dies over a snapshot with a manifest disturbs its evidence;
\* one whose manifest is torn has none to be true to.
LEMMA CrashPin == WholeInv /\ PinInv /\ Crash => PinInv'
  <1> SUFFICES ASSUME WholeInv, PinInv, Crash
               PROVE  PinInv'
    OBVIOUS
  <1>1. run'.step \notin Ingesting \cup Adjudicating /\ run'.step \notin {"candidates", "manifest"}
    BY DEF Crash, Idle, Ingesting, Adjudicating
  <1>2. WritingInv'
    BY <1>1 DEF WritingInv
  <1>3. disturbed \subseteq disturbed'
    BY DEF Crash
  <1>4. PinnedInput'
    <2>1. sec' = sec \/ \E x : sec' = Append(sec, x) /\ x.rows = Torn
      BY DEF Crash, TearObservations, TearCandidates, TearManifest, TearSecurities,
             TearFamilies, TearPublished, TearNone, verdicts
    <2> QED  BY <1>3, <2>1, FilesNone DEF WholeInv, SecInv
  <1>5. ASSUME NEW q \in Providers, NEW e \in Dates, manifest'[q][e] \notin {None, Torn}
        PROVE  Coherent(q, e)' \/ (<<q, IdAt(q, e)>> \in disturbed)'
    <2>1. CASE run.step \in Ingesting /\ run.p = q /\ run.d = e
      <3>1. manifest'[q][e] = manifest[q][e]
        <4>1. manifest' = manifest \/ manifest' = [manifest EXCEPT ![q][e] = Torn]
          BY <2>1 DEF Crash, TearObservations, TearCandidates, TearManifest, TearSecurities,
                      TearFamilies, TearPublished, TearNone, Ingesting
        <4>2. [manifest EXCEPT ![q][e] = Torn][q][e] = Torn
          BY Written DEF WholeInv, TypeInv, TablesInv
        <4> QED  BY <1>5, <4>1, <4>2
      <3>2. <<q, IdAt(q, e)>> \in disturbed'
        BY <1>5, <2>1, <3>1 DEF Crash
      <3>3. IdAt(q, e)' = IdAt(q, e)
        BY <3>1 DEF IdAt
      <3> QED  BY <3>2, <3>3
    <2>2. CASE ~(run.step \in Ingesting /\ run.p = q /\ run.d = e)
      <3>1. /\ manifest'[q][e] = manifest[q][e]
            /\ obs'[q][e] = obs[q][e]
            /\ cand'[q][e] = cand[q][e]
        <4>1. CASE UNCHANGED <<obs, cand, manifest>>
          BY <4>1
        <4>2. CASE ~UNCHANGED <<obs, cand, manifest>>
          <5>1. /\ run.step \in Ingesting
                /\ \/ obs' = [obs EXCEPT ![run.p][run.d] = Torn] /\ UNCHANGED <<cand, manifest>>
                   \/ cand' = [cand EXCEPT ![run.p][run.d] = Torn] /\ UNCHANGED <<obs, manifest>>
                   \/ manifest' = [manifest EXCEPT ![run.p][run.d] = Torn] /\ UNCHANGED <<obs, cand>>
            BY <4>2 DEF Crash, TearObservations, TearCandidates, TearManifest, TearSecurities,
                        TearFamilies, TearPublished, TearNone, Ingesting
          <5>2. run.p \in Providers /\ run.d \in Dates /\ (run.p # q \/ run.d # e)
            BY <2>2, <5>1, Kinds DEF WholeInv, IngestRun
          <5> QED  BY <5>1, <5>2, Written DEF WholeInv, TypeInv, TablesInv
        <4> QED  BY <4>1, <4>2
      <3>2. Coherent(q, e) \/ <<q, IdAt(q, e)>> \in disturbed
        BY <1>5, <2>2, <3>1 DEF PinInv, SnapshotsInv
      <3>3. (Coherent(q, e)' <=> Coherent(q, e)) /\ IdAt(q, e)' = IdAt(q, e)
        BY <3>1 DEF Coherent, IdAt
      <3> QED  BY <1>3, <3>2, <3>3
    <2> QED  BY <2>1, <2>2
  <1>6. SnapshotsInv'
    BY <1>5 DEF SnapshotsInv
  <1> QED  BY <1>2, <1>4, <1>6 DEF PinInv

\* No step parts the rows filed under a bundle from its evidence.
LEMMA StepPin == WholeInv /\ PinInv /\ [Next]_vars => PinInv'
  <1> SUFFICES ASSUME WholeInv, PinInv, [Next]_vars
               PROVE  PinInv'
    OBVIOUS
  <1>1. CASE UNCHANGED vars \/ IngestOpenFigi \/ \E i \in Isins : Grow(i)
    <2>1. UNCHANGED <<obs, cand, manifest, sec, run, disturbed>>
      BY <1>1 DEF vars, IngestOpenFigi, Grow, evidence, verdicts, deaths
    <2>2. \A b : Undisturbed(b)' <=> Undisturbed(b)
      BY <2>1 DEF Undisturbed
    <2>3. WritingInv'
      BY <2>1, <2>2 DEF PinInv, WritingInv, Pinned
    <2> QED  BY <2>1, <2>3, KeepsSnapshots, FilesNone DEF PinInv, WholeInv, SecInv
  <1> QED
    BY <1>1, StartIngestPin, IngestPin, AdjudicatePin, CrashPin DEF Next, Work

\* adjudication.discover_bundle and adjudicate: the verdicts filed under a bundle
\* are those its evidence gives, wherever commands died and whatever the files
\* list, but for a bundle whose evidence lists no issuer or lost an ingestion.
THEOREM RowsArePinned == Spec => []PinnedInput
  <1>1. PinInv => PinnedInput
    BY DEF PinInv
  <1>2. Init => PinInv
    BY InitPin
  <1>3. WholeInv /\ PinInv /\ [Next]_vars => PinInv'
    BY StepPin
  <1> QED  BY <1>1, <1>2, <1>3, WholeInvariant, PTL DEF Spec

-----------------------------------------------------------------------------
(***************************************************************************)
(* The ingests as exports of ResolutionSnapshots                           *)
(***************************************************************************)
\* A table that is written over at one snapshot
LEMMA SlotWritten ==
    ASSUME NEW S, NEW T \in [Providers -> [Dates -> S]], NEW p \in Providers, NEW d \in Dates, NEW x
    PROVE  /\ <<p, d>> \in Slots
           /\ \A s \in Slots : [T EXCEPT ![p][d] = x][s[1]][s[2]] =
                                   IF s = <<p, d>> THEN x ELSE T[s[1]][s[2]]
           /\ [T EXCEPT ![p][d] = x] \in [Providers -> [Dates -> S \cup {x}]]
  <1>1. \A s \in Slots : s[1] \in Providers /\ s[2] \in Dates /\ s = <<s[1], s[2]>>
    BY DEF Slots
  <1>2. \A q \in Providers, e \in Dates :
            [T EXCEPT ![p][d] = x][q][e] = IF q = p /\ e = d THEN x ELSE T[q][e]
    OBVIOUS
  <1>3. \A s \in Slots : s = <<p, d>> <=> s[1] = p /\ s[2] = d
    BY <1>1
  <1>4. [T EXCEPT ![p][d] = x] \in [Providers -> [Dates -> S \cup {x}]]
    OBVIOUS
  <1> QED  BY <1>1, <1>2, <1>3, <1>4 DEF Slots

\* What the abstract tables hold where a cell of a table is written over
LEMMA ObservedWritten ==
    ASSUME TypeInv, NEW p \in Providers, NEW d \in Dates,
           NEW o \in (SUBSET Isins) \cup {Torn}, obs' = [obs EXCEPT ![p][d] = o]
    PROVE  ObservedAt' = [ObservedAt EXCEPT ![<<p, d>>] = o]
  <1> DEFINE name(x) == IF x = None THEN {} ELSE x
             new == [obs EXCEPT ![p][d] = o]
  <1>1. name(o) = o
    BY Readable
  <1>2. /\ <<p, d>> \in Slots
        /\ \A s \in Slots : new[s[1]][s[2]] = IF s = <<p, d>> THEN o ELSE obs[s[1]][s[2]]
    <2>1. PICK S : obs \in [Providers -> [Dates -> S]] /\ o \in S
      <3>1. /\ obs \in [Providers -> [Dates -> (SUBSET Isins) \cup {None, Torn}]]
            /\ o \in (SUBSET Isins) \cup {None, Torn}
        BY DEF TypeInv, TablesInv
      <3> QED  BY <3>1
    <2>2. p \in Providers /\ d \in Dates
      OBVIOUS
    <2>3. /\ <<p, d>> \in Slots
          /\ \A s \in Slots : new[s[1]][s[2]] = IF s = <<p, d>> THEN o ELSE obs[s[1]][s[2]]
          /\ new \in [Providers -> [Dates -> S \cup {o}]]
      BY <2>1, <2>2, SlotWritten
    <2> QED  BY <2>3
  <1> HIDE DEF new
  <1>3. /\ ObservedAt = [s \in Slots |-> name(obs[s[1]][s[2]])]
        /\ ObservedAt' = [s \in Slots |-> name(new[s[1]][s[2]])]
    BY DEF ObservedAt, new
  <1> HIDE DEF name
  <1> QED  BY <1>1, <1>2, <1>3

LEMMA CandidatesWritten ==
    ASSUME TypeInv, NEW p \in Providers, NEW d \in Dates,
           NEW r \in Rows \cup {Torn}, cand' = [cand EXCEPT ![p][d] = r]
    PROVE  CandidatesAt' = [CandidatesAt EXCEPT ![<<p, d>>] = IF r = Torn THEN Torn ELSE PairsOf(r)]
  <1> DEFINE name(x) == IF x = Torn THEN Torn ELSE PairsOf(x)
             new == [cand EXCEPT ![p][d] = r]
  <1>1. /\ <<p, d>> \in Slots
        /\ \A s \in Slots : new[s[1]][s[2]] = IF s = <<p, d>> THEN r ELSE cand[s[1]][s[2]]
    <2>1. PICK S : cand \in [Providers -> [Dates -> S]] /\ r \in S
      <3>1. /\ cand \in [Providers -> [Dates -> Rows \cup {Torn}]]
            /\ r \in Rows \cup {Torn}
        BY DEF TypeInv, TablesInv
      <3> QED  BY <3>1
    <2>2. p \in Providers /\ d \in Dates
      OBVIOUS
    <2>3. /\ <<p, d>> \in Slots
          /\ \A s \in Slots : new[s[1]][s[2]] = IF s = <<p, d>> THEN r ELSE cand[s[1]][s[2]]
          /\ new \in [Providers -> [Dates -> S \cup {r}]]
      BY <2>1, <2>2, SlotWritten
    <2> QED  BY <2>3
  <1> HIDE DEF new
  <1>2. /\ CandidatesAt = [s \in Slots |-> name(cand[s[1]][s[2]])]
        /\ CandidatesAt' = [s \in Slots |-> name(new[s[1]][s[2]])]
    BY DEF CandidatesAt, new
  <1>3. name(r) = IF r = Torn THEN Torn ELSE PairsOf(r)
    OBVIOUS
  <1> HIDE DEF name
  <1> QED  BY <1>1, <1>2, <1>3

LEMMA ManifestWritten ==
    ASSUME TypeInv, NEW p \in Providers, NEW d \in Dates,
           NEW m, manifest' = [manifest EXCEPT ![p][d] = m]
    PROVE  /\ m = Torn => NamedAt' = [NamedAt EXCEPT ![<<p, d>>] = Torn]
           /\ m \in Manifests =>
                 NamedAt' = [NamedAt EXCEPT ![<<p, d>>] =
                                [of |-> DOMAIN m.rows, pairs |-> PairsOf(m.rows)]]
  <1> DEFINE name(x) == IF x \in {None, Torn} THEN x
                        ELSE [of |-> DOMAIN x.rows, pairs |-> PairsOf(x.rows)]
             new == [manifest EXCEPT ![p][d] = m]
  <1>1. /\ <<p, d>> \in Slots
        /\ \A s \in Slots : new[s[1]][s[2]] = IF s = <<p, d>> THEN m ELSE manifest[s[1]][s[2]]
    <2>1. PICK S : manifest \in [Providers -> [Dates -> S]]
      BY DEF TypeInv, TablesInv
    <2>2. p \in Providers /\ d \in Dates
      OBVIOUS
    <2>3. /\ <<p, d>> \in Slots
          /\ \A s \in Slots : new[s[1]][s[2]] = IF s = <<p, d>> THEN m ELSE manifest[s[1]][s[2]]
          /\ new \in [Providers -> [Dates -> S \cup {m}]]
      BY <2>1, <2>2, SlotWritten
    <2> QED  BY <2>3
  <1> HIDE DEF new
  <1>2. /\ NamedAt = [s \in Slots |-> name(manifest[s[1]][s[2]])]
        /\ NamedAt' = [s \in Slots |-> name(new[s[1]][s[2]])]
    BY DEF NamedAt, new
  <1>3. m = Torn => name(m) = Torn
    OBVIOUS
  <1>4. m \in Manifests => name(m) = [of |-> DOMAIN m.rows, pairs |-> PairsOf(m.rows)]
    BY Readable
  <1> HIDE DEF name
  <1>5. NamedAt' = [NamedAt EXCEPT ![<<p, d>>] = name(m)]
    BY <1>1, <1>2
  <1> QED  BY <1>3, <1>4, <1>5

LEMMA InitExport == Init => Snapshots!Init
  <1> SUFFICES ASSUME Init
               PROVE  Snapshots!Init
    OBVIOUS
  <1>1. \A s \in Slots : /\ obs[s[1]][s[2]] = None /\ cand[s[1]][s[2]] = <<>>
                         /\ manifest[s[1]][s[2]] = None
    BY DEF Init, Slots
  <1>2. PairsOf(<<>>) = {}
    BY DEF PairsOf
  <1>3. <<>> # Torn
    <2>1. {} \in SUBSET Isins /\ <<>> \in [{} -> Seq(Leis)]
      OBVIOUS
    <2> QED  BY <2>1, TornAssumption
  <1>4. /\ ObservedAt = [s \in Slots |-> {}] /\ CandidatesAt = [s \in Slots |-> {}]
        /\ NamedAt = [s \in Slots |-> None]
    BY <1>1, <1>2, <1>3 DEF ObservedAt, CandidatesAt, NamedAt
  <1>5. Export = Snapshots!Idle
    BY DEF Init, Export, Idle, Ingesting, Snapshots!Idle
  <1> QED  BY <1>4, <1>5 DEF Snapshots!Init

\* A step that writes no snapshot and starts no export
LEMMA QuietExport ==
    ASSUME UNCHANGED <<universe, obs, cand, manifest>>, Export' = Export
    PROVE  UNCHANGED Snapshots!vars
  BY DEF ObservedAt, CandidatesAt, NamedAt, Snapshots!vars

LEMMA GrowExport ==
    ASSUME NEW i \in Isins, Grow(i)
    PROVE  Snapshots!Grow
  <1>1. universe' = universe \cup {i} /\ UNCHANGED <<obs, cand, manifest, run>>
    BY DEF Grow, evidence
  <1>2. Export' = Export
    BY <1>1 DEF Export
  <1>3. UNCHANGED <<ObservedAt, CandidatesAt, NamedAt>>
    BY <1>1 DEF ObservedAt, CandidatesAt, NamedAt
  <1> QED  BY <1>1, <1>2, <1>3 DEF Snapshots!Grow

LEMMA StartExport ==
    ASSUME NEW p \in Providers, NEW d \in Dates, NEW v \in DOMAIN File[p][d],
           StartIngest(p, d, v)
    PROVE  Snapshots!Start(<<p, d>>)
  <1> DEFINE rows == [i \in universe |-> File[p][d][v][i]]
             pairs == PairsOf(rows)
  <1>1. /\ run = Idle /\ UNCHANGED <<universe, obs, cand, manifest>>
        /\ run' = [step |-> "observations", p |-> p, d |-> d, v |-> v, of |-> universe,
                   rows |-> rows]
    BY DEF StartIngest
  <1>2. DOMAIN rows = universe /\ \A x \in pairs : x[1] \in universe
    BY DEF PairsOf
  <1> HIDE DEF rows
  <1>3. Export = Snapshots!Idle /\ Snapshots!Idle = Idle
    BY <1>1 DEF Export, Idle, Ingesting, Snapshots!Idle
  <1>4. Export' = [step |-> "observations", slot |-> <<p, d>>, of |-> universe, pairs |-> pairs]
    BY <1>1 DEF Export, Ingesting
  <1> HIDE DEF pairs
  <1>5. Export'.pairs = pairs
    BY <1>4
  <1>6. UNCHANGED <<ObservedAt, CandidatesAt, NamedAt>>
    BY <1>1 DEF ObservedAt, CandidatesAt, NamedAt
  <1> QED  BY <1>1, <1>2, <1>3, <1>4, <1>5, <1>6 DEF Snapshots!Start

\* The record of a running export, and its image
LEMMA ExportingIs ==
    ASSUME TypeInv, run.step \in Ingesting
    PROVE  /\ run = [step |-> run.step, p |-> run.p, d |-> run.d, v |-> run.v,
                     of |-> run.of, rows |-> run.rows]
           /\ run.p \in Providers /\ run.d \in Dates /\ run.v \in Nat /\ run.rows \in Rows
           /\ run.of = DOMAIN run.rows /\ run.of # {} /\ run.of \in SUBSET Isins
           /\ Export = [step |-> run.step, slot |-> <<run.p, run.d>>, of |-> run.of,
                        pairs |-> PairsOf(run.rows)]
  <1>1. IngestRun
    BY Kinds
  <1> QED  BY <1>1, RowsOf DEF IngestRun, Export

LEMMA ObservationsExport ==
    ASSUME TypeInv, WriteObservations
    PROVE  Snapshots!WriteObservations
  <1> DEFINE p == run.p
             d == run.d
             of == run.of
             pairs == PairsOf(run.rows)
             At(step) == [step |-> step, slot |-> <<p, d>>, of |-> of, pairs |-> pairs]
  <1>1. /\ run.step = "observations" /\ obs' = [obs EXCEPT ![p][d] = of]
        /\ run' = [run EXCEPT !.step = "candidates"]
        /\ UNCHANGED <<universe, cand, manifest>>
    BY DEF WriteObservations
  <1>2. /\ run = [step |-> run.step, p |-> p, d |-> d, v |-> run.v, of |-> of, rows |-> run.rows]
        /\ p \in Providers /\ d \in Dates
        /\ of # {} /\ of \in SUBSET Isins
        /\ Export = At("observations")
    BY <1>1, ExportingIs DEF Ingesting
  <1>3. Export' = At("candidates")
    <2>1. run' = [step |-> "candidates", p |-> p, d |-> d, v |-> run.v, of |-> of,
                  rows |-> run.rows]
      BY <1>1, <1>2
    <2> QED  BY <2>1 DEF Export, Ingesting
  <1>4. ObservedAt' = [ObservedAt EXCEPT ![<<p, d>>] = of]
    <2> HIDE DEF p, d, of
    <2> QED  BY <1>1, <1>2, ObservedWritten
  <1>5. UNCHANGED <<CandidatesAt, NamedAt>>
    BY <1>1 DEF CandidatesAt, NamedAt
  <1> HIDE DEF p, d, of, pairs
  <1>6. /\ At("observations").step = "observations" /\ At("observations").slot = <<p, d>>
        /\ At("observations").of = of
        /\ [At("observations") EXCEPT !.step = "candidates"] = At("candidates")
    OBVIOUS
  <1> HIDE DEF At
  <1> QED  BY <1>1, <1>2, <1>3, <1>4, <1>5, <1>6
           DEF Snapshots!WriteObservations, Snapshots!Written

\* No issuer, no pair
LEMMA PairsNaming ==
    ASSUME NEW r \in Rows
    PROVE  Naming(r) <=> PairsOf(r) # {}
  <1>1. \A i \in DOMAIN r : r[i] \in Seq(Leis)
    BY RowsOf
  <1>2. ASSUME NEW i \in DOMAIN r, r[i] # <<>>
        PROVE  PairsOf(r) # {}
    <2>1. PICK l : l = r[i]
      OBVIOUS
    <2>2. l \in Seq(Leis) /\ l # <<>>
      BY <1>1, <1>2, <2>1
    <2>3. 1 \in DOMAIN l /\ l[1] \in Leis
      BY <2>2
    <2>4. <<i, l[1]>> \in (DOMAIN r) \X Leis
      BY <2>3
    <2>5. <<i, l[1]>> \in PairsOf(r)
      BY <2>1, <2>3, <2>4 DEF PairsOf
    <2> QED  BY <2>5
  <1>3. ASSUME NEW x \in PairsOf(r)
        PROVE  Naming(r)
    <2>1. x[1] \in DOMAIN r /\ \E n \in DOMAIN r[x[1]] : TRUE
      BY DEF PairsOf
    <2>2. r[x[1]] # <<>>
      BY <2>1
    <2> QED  BY <2>1, <2>2 DEF Naming
  <1> QED  BY <1>2, <1>3 DEF Naming

LEMMA CandidatesExport ==
    ASSUME TypeInv, WriteCandidates
    PROVE  Snapshots!WriteCandidates
  <1> DEFINE p == run.p
             d == run.d
             rows == run.rows
             pairs == PairsOf(rows)
             At(step) == [step |-> step, slot |-> <<p, d>>, of |-> run.of, pairs |-> pairs]
  <1>1. /\ run.step = "candidates"
        /\ cand' = IF Naming(rows) THEN [cand EXCEPT ![p][d] = rows] ELSE cand
        /\ run' = [run EXCEPT !.step = "manifest"]
        /\ UNCHANGED <<universe, obs, manifest>>
    BY DEF WriteCandidates
  <1>2. /\ run = [step |-> run.step, p |-> p, d |-> d, v |-> run.v, of |-> run.of, rows |-> rows]
        /\ p \in Providers /\ d \in Dates /\ rows \in Rows
        /\ Export = At("candidates")
    BY <1>1, ExportingIs DEF Ingesting
  <1>3. Export' = At("manifest")
    <2>1. run' = [step |-> "manifest", p |-> p, d |-> d, v |-> run.v, of |-> run.of,
                  rows |-> rows]
      BY <1>1, <1>2
    <2> QED  BY <2>1 DEF Export, Ingesting
  <1>4. UNCHANGED <<ObservedAt, NamedAt>>
    BY <1>1 DEF ObservedAt, NamedAt
  <1>5. CandidatesAt' = IF pairs = {} THEN CandidatesAt ELSE [CandidatesAt EXCEPT ![<<p, d>>] = pairs]
    <2> HIDE DEF p, d, rows
    <2>1. CASE ~Naming(rows)
      <3>1. cand' = cand /\ pairs = {}
        BY <1>1, <1>2, <2>1, PairsNaming
      <3> QED  BY <3>1 DEF CandidatesAt
    <2>2. CASE Naming(rows)
      <3>1. cand' = [cand EXCEPT ![p][d] = rows] /\ pairs # {} /\ rows # Torn
        BY <1>1, <1>2, <2>2, PairsNaming, Readable
      <3> QED  BY <1>2, <3>1, CandidatesWritten
    <2> QED  BY <2>1, <2>2
  <1> HIDE DEF p, d, rows, pairs
  <1>6. /\ At("candidates").step = "candidates" /\ At("candidates").slot = <<p, d>>
        /\ At("candidates").pairs = pairs
        /\ [At("candidates") EXCEPT !.step = "manifest"] = At("manifest")
    OBVIOUS
  <1> HIDE DEF At
  <1> QED  BY <1>1, <1>2, <1>3, <1>4, <1>5, <1>6
           DEF Snapshots!WriteCandidates, Snapshots!Written

LEMMA ManifestExport ==
    ASSUME TypeInv, WriteManifest
    PROVE  Snapshots!WriteManifest
  <1> DEFINE p == run.p
             d == run.d
             m == [version |-> run.v, rows |-> run.rows]
             name == [of |-> run.of, pairs |-> PairsOf(run.rows)]
  <1>1. /\ run.step = "manifest" /\ manifest' = [manifest EXCEPT ![p][d] = m]
        /\ run' = Idle /\ UNCHANGED <<universe, obs, cand>>
    BY DEF WriteManifest
  <1>2. /\ p \in Providers /\ d \in Dates /\ run.of = DOMAIN run.rows
        /\ run.v \in Nat /\ run.rows \in Rows
        /\ Export = [step |-> "manifest", slot |-> <<p, d>>, of |-> run.of,
                     pairs |-> PairsOf(run.rows)]
    BY <1>1, ExportingIs DEF Ingesting
  <1>3. m \in Manifests /\ m.rows = run.rows
    BY <1>2 DEF Manifests
  <1>4. NamedAt' = [NamedAt EXCEPT ![<<p, d>>] = name]
    <2>1. [of |-> DOMAIN m.rows, pairs |-> PairsOf(m.rows)] = name
      BY <1>2, <1>3
    <2> HIDE DEF m, p, d, name
    <2>2. m \in Manifests /\ manifest' = [manifest EXCEPT ![p][d] = m]
      BY <1>1, <1>3
    <2>3. p \in Providers /\ d \in Dates
      BY <1>2
    <2>4. NamedAt' = [NamedAt EXCEPT ![<<p, d>>] =
                         [of |-> DOMAIN m.rows, pairs |-> PairsOf(m.rows)]]
      BY <2>2, <2>3, ManifestWritten
    <2> QED  BY <2>1, <2>4
  <1>5. /\ UNCHANGED <<ObservedAt, CandidatesAt>>
        /\ Export' = Idle /\ Idle = Snapshots!Idle
    BY <1>1 DEF ObservedAt, CandidatesAt, Export, Idle, Ingesting, Snapshots!Idle
  <1>6. /\ Export.step = "manifest" /\ Export.slot = <<p, d>>
        /\ [of |-> Export.of, pairs |-> Export.pairs] = name
    BY <1>2
  <1> HIDE DEF name, p, d
  <1> QED  BY <1>1, <1>4, <1>5, <1>6 DEF Snapshots!WriteManifest

\* What a command dies over is an export or is none; an export may leave the
\* file torn that it had opened.
LEMMA CrashExport ==
    ASSUME TypeInv, Crash
    PROVE  [Snapshots!Next]_(Snapshots!vars)
  <1>1. run' = Idle /\ run # Idle /\ UNCHANGED universe
    BY DEF Crash
  <1>2. Export' = Idle /\ Idle = Snapshots!Idle
    BY <1>1 DEF Export, Idle, Ingesting, Snapshots!Idle
  <1>3. CASE run.step \notin Ingesting
    <2>1. UNCHANGED <<obs, cand, manifest>>
      BY <1>3 DEF Crash, TearObservations, TearCandidates, TearManifest, TearSecurities,
                  TearFamilies, TearPublished, TearNone, Ingesting
    <2>2. Export = Idle
      BY <1>3 DEF Export
    <2> QED  BY <1>1, <1>2, <2>1, <2>2, QuietExport
  <1>4. CASE run.step \in Ingesting
    <2> DEFINE p == run.p
               d == run.d
    <2>1. /\ p \in Providers /\ d \in Dates /\ run.rows \in Rows /\ run.of # {}
          /\ Export = [step |-> run.step, slot |-> <<p, d>>, of |-> run.of,
                       pairs |-> PairsOf(run.rows)]
      BY <1>4, ExportingIs
    <2>2. /\ Export # Idle /\ Export.step = run.step /\ Export.slot = <<p, d>>
          /\ Export.of = run.of /\ Export.pairs = PairsOf(run.rows)
      BY <1>4, <2>1 DEF Idle, Ingesting
    <2>3. \/ UNCHANGED <<obs, cand, manifest>>
          \/ /\ run.step = "observations" /\ obs' = [obs EXCEPT ![p][d] = Torn]
             /\ UNCHANGED <<cand, manifest>>
          \/ /\ run.step = "candidates" /\ Naming(run.rows)
             /\ cand' = [cand EXCEPT ![p][d] = Torn] /\ UNCHANGED <<obs, manifest>>
          \/ /\ run.step = "manifest" /\ manifest' = [manifest EXCEPT ![p][d] = Torn]
             /\ UNCHANGED <<obs, cand>>
      BY <1>4 DEF Crash, TearObservations, TearCandidates, TearManifest, TearSecurities,
                  TearFamilies, TearPublished, TearNone, Ingesting
    <2> HIDE DEF p, d
    <2>4. \/ UNCHANGED <<ObservedAt, CandidatesAt, NamedAt>>
          \/ /\ run.step = "observations" /\ Export.of # {}
             /\ ObservedAt' = [ObservedAt EXCEPT ![<<p, d>>] = Torn]
             /\ UNCHANGED <<CandidatesAt, NamedAt>>
          \/ /\ run.step = "candidates" /\ Export.pairs # {}
             /\ CandidatesAt' = [CandidatesAt EXCEPT ![<<p, d>>] = Torn]
             /\ UNCHANGED <<ObservedAt, NamedAt>>
          \/ /\ run.step = "manifest" /\ NamedAt' = [NamedAt EXCEPT ![<<p, d>>] = Torn]
             /\ UNCHANGED <<ObservedAt, CandidatesAt>>
      <3>1. CASE UNCHANGED <<obs, cand, manifest>>
        BY <3>1 DEF ObservedAt, CandidatesAt, NamedAt
      <3>2. CASE /\ run.step = "observations" /\ obs' = [obs EXCEPT ![p][d] = Torn]
                 /\ UNCHANGED <<cand, manifest>>
        <4>1. UNCHANGED <<CandidatesAt, NamedAt>>
          BY <3>2 DEF CandidatesAt, NamedAt
        <4> QED  BY <2>1, <2>2, <3>2, <4>1, ObservedWritten
      <3>3. CASE /\ run.step = "candidates" /\ Naming(run.rows)
                 /\ cand' = [cand EXCEPT ![p][d] = Torn] /\ UNCHANGED <<obs, manifest>>
        <4>1. UNCHANGED <<ObservedAt, NamedAt>>
          BY <3>3 DEF ObservedAt, NamedAt
        <4> QED  BY <2>1, <2>2, <3>3, <4>1, PairsNaming, CandidatesWritten
      <3>4. CASE /\ run.step = "manifest" /\ manifest' = [manifest EXCEPT ![p][d] = Torn]
                 /\ UNCHANGED <<obs, cand>>
        <4>1. UNCHANGED <<ObservedAt, CandidatesAt>>
          BY <3>4 DEF ObservedAt, CandidatesAt
        <4> QED  BY <2>1, <3>4, <4>1, ManifestWritten
      <3> QED  BY <2>3, <3>1, <3>2, <3>3, <3>4
    <2>5. Snapshots!Crash
      BY <1>1, <1>2, <2>2, <2>4 DEF Snapshots!Crash
    <2> QED  BY <2>5 DEF Snapshots!Next
  <1> QED  BY <1>3, <1>4

\* OpenFIGI and the adjudication leave the snapshots alone.
LEMMA OtherExport ==
    ASSUME TypeInv,
           \/ IngestOpenFigi \/ StartAdjudicate
           \/ WriteSecurities \/ WriteFamilies \/ Publish
           \/ UNCHANGED vars
    PROVE  UNCHANGED Snapshots!vars
  <1>1. UNCHANGED <<universe, obs, cand, manifest>>
    BY DEF IngestOpenFigi, StartAdjudicate, WriteSecurities, WriteFamilies, Publish, vars, evidence
  <1>2. \/ run' = run
        \/ run.step \notin Ingesting /\ run'.step \notin Ingesting
    <2>1. CASE IngestOpenFigi \/ UNCHANGED vars
      BY <2>1 DEF IngestOpenFigi, vars
    <2>2. CASE StartAdjudicate
      BY <2>2 DEF StartAdjudicate, Idle, Ingesting
    <2>3. CASE WriteSecurities \/ WriteFamilies
      <3>1. run.step \in Adjudicating
        BY <2>3 DEF WriteSecurities, WriteFamilies, Adjudicating
      <3>2. PICK b, r : run = [step |-> run.step, bundle |-> b, rows |-> r]
        BY <3>1, Kinds DEF AdjudicateRun
      <3>3. run'.step \in {"families", "publish"}
        BY <2>3, <3>2 DEF WriteSecurities, WriteFamilies
      <3> QED  BY <3>1, <3>3 DEF Adjudicating, Ingesting
    <2>4. CASE Publish
      BY <2>4 DEF Publish, Idle, Ingesting
    <2> QED  BY <2>1, <2>2, <2>3, <2>4
  <1>3. Export' = Export
    BY <1>2 DEF Export
  <1> QED  BY <1>1, <1>3, QuietExport

LEMMA StepExport == TypeInv /\ [Next]_vars => [Snapshots!Next]_(Snapshots!vars)
  <1> SUFFICES ASSUME TypeInv, [Next]_vars
               PROVE  [Snapshots!Next]_(Snapshots!vars)
    OBVIOUS
  <1>1. ASSUME NEW i \in Isins, Grow(i)
        PROVE  [Snapshots!Next]_(Snapshots!vars)
    BY <1>1, GrowExport DEF Snapshots!Next
  <1>2. ASSUME NEW p \in Providers, NEW d \in Dates, NEW v \in DOMAIN File[p][d],
               StartIngest(p, d, v)
        PROVE  [Snapshots!Next]_(Snapshots!vars)
    <2>1. <<p, d>> \in Slots
      BY DEF Slots
    <2> QED  BY <1>2, <2>1, StartExport DEF Snapshots!Next
  <1>3. CASE WriteObservations \/ WriteCandidates \/ WriteManifest
    BY <1>3, ObservationsExport, CandidatesExport, ManifestExport DEF Snapshots!Next
  <1> QED
    BY <1>1, <1>2, <1>3, CrashExport, OtherExport DEF Next, Work

\* The ingests that the theorems above are about are exports of ResolutionSnapshots,
\* as those of ProviderEvidence are: what an adjudication reads of either is the
\* same, where a command died as well.
THEOREM IngestsAreExports == Spec => ImplementsSnapshots
  <1>1. Init => Snapshots!Init
    BY InitExport
  <1>2. TypeInv /\ [Next]_vars => [Snapshots!Next]_(Snapshots!vars)
    BY StepExport
  <1> QED  BY <1>1, <1>2, TypeInvariant, PTL DEF Spec, ImplementsSnapshots, Snapshots!Spec
=============================================================================
