----------------------- MODULE OpenFigiCampaign_proofs -----------------------
(***************************************************************************)
(* What an ingested campaign says, for any corpus, answers, batch sizes,   *)
(* days and number of failures.  The argument: a batch is stored with an   *)
(* answer in the place of every job, and stored batches are never changed. *)
(***************************************************************************)
EXTENDS OpenFigiCampaign, FiniteSetTheorems, SequenceTheorems, TLAPS

-----------------------------------------------------------------------------
(***************************************************************************)
(* Planning                                                                *)
(***************************************************************************)
\* A sequence, of whatever
Tuple(s) == \E n \in Nat : s \in [1..n -> {s[m] : m \in 1..n}]

\* A tuple has a length, and its places are counted from one.
LEMMA TupleIsSeq ==
    ASSUME NEW s, Tuple(s)
    PROVE  /\ Len(s) \in Nat /\ DOMAIN s = 1..Len(s)
           /\ s \in Seq({s[m] : m \in DOMAIN s})
  <1>1. PICK n \in Nat : s \in [1..n -> {s[m] : m \in 1..n}]
    BY DEF Tuple
  <1>2. s \in Seq({s[m] : m \in 1..n}) /\ DOMAIN s = 1..n
    BY <1>1
  <1>3. Len(s) = n
    BY <1>1, <1>2
  <1> QED  BY <1>2, <1>3

LEMMA SeqIsTuple ==
    ASSUME NEW S, NEW s \in Seq(S)
    PROVE  Tuple(s)
  BY DEF Tuple

\* No batch begins behind the last ISIN, and there is a batch if there is one.
LEMMA BatchBounds ==
    ASSUME NEW len \in Nat, NEW size \in Nat \ {0}
    PROVE  LET count == (len + size - 1) \div size
           IN  /\ count \in Nat
               /\ len > 0 => count > 0
               /\ \A n \in 1..count : (n - 1) * size \in Nat /\ (n - 1) * size < len
                                      /\ n * size \in Nat /\ n * size = (n - 1) * size + size
  <1> DEFINE q == (len + size - 1) \div size
  <1>1. q \in Int /\ size * q <= len + size - 1 /\ len + size - 1 < size * (q + 1)
    OBVIOUS
  <1>2. q \in Nat
    <2>1. CASE q < 0
      <3>1. size * (q + 1) <= 0
        BY <1>1, <2>1
      <3> QED  BY <1>1, <3>1
    <2> QED  BY <1>1, <2>1
  <1>3. len > 0 => q > 0
    BY <1>1, <1>2
  <1> HIDE DEF q
  <1>4. ASSUME NEW n \in 1..q
        PROVE  /\ (n - 1) * size \in Nat /\ (n - 1) * size < len
               /\ n * size \in Nat /\ n * size = (n - 1) * size + size
    <2>1. (q - n) * size >= 0 /\ (q - n) * size = size * q - n * size
      BY <1>1, <1>2
    <2>2. (n - 1) * size >= 0 /\ (n - 1) * size = n * size - size
      OBVIOUS
    <2> QED  BY <1>1, <2>1, <2>2
  <1> QED  BY <1>2, <1>3, <1>4 DEF q

\* plan_batches cuts a corpus into at least one batch.
LEMMA PlannedBatches ==
    ASSUME NEW S, IsFiniteSet(S), S # {}, NEW size \in Nat \ {0}
    PROVE  /\ Tuple(Planned(S, size)) /\ Planned(S, size) # <<>>
           /\ \A n \in DOMAIN Planned(S, size) : Tuple(Planned(S, size)[n])
  <1> DEFINE card == Cardinality(S)
             ordered == Sorted(S)
             X == {ordered[m] : m \in 1..card}
             count == (Len(ordered) + size - 1) \div size
             upto(n) == IF n * size < Len(ordered) THEN n * size ELSE Len(ordered)
             batch(n) == SubSeq(ordered, (n - 1) * size + 1, upto(n))
  <1>1. card \in Nat /\ card > 0
    BY FS_CardinalityType, FS_EmptySet
  <1>2. ordered \in Seq(X) /\ Len(ordered) = card
    <2> DEFINE nth(n) == CHOOSE i \in S : Cardinality({j \in S : j < i}) = n - 1
    <2>1. ordered = [n \in 1..card |-> nth(n)]
      BY DEF Sorted
    <2> HIDE DEF card, ordered, nth
    <2> QED  BY <1>1, <2>1
  <1> HIDE DEF card, ordered, X
  <1>3. count \in Nat /\ count > 0
    BY <1>1, <1>2, BatchBounds
  <1>4. ASSUME NEW n \in 1..count
        PROVE  batch(n) \in Seq(X)
    <2>1. /\ (n - 1) * size \in Nat /\ (n - 1) * size < Len(ordered)
          /\ n * size \in Nat /\ n * size = (n - 1) * size + size
      BY <1>1, <1>2, BatchBounds
    <2>2. (n - 1) * size + 1 \in 1..Len(ordered) + 1
      BY <1>1, <1>2, <2>1
    <2>3. upto(n) \in ((n - 1) * size + 1) - 1..Len(ordered)
      BY <1>1, <1>2, <2>1
    <2> HIDE DEF upto
    <2> QED  BY <1>2, <2>2, <2>3, SubSeqProperties, SMTT(30)
  <1>5. Planned(S, size) = [n \in 1..count |-> batch(n)]
    BY DEF Planned, ordered
  <1> HIDE DEF count, batch
  <1>6. Planned(S, size) \in Seq({batch(n) : n \in 1..count})
    BY <1>3, <1>5
  <1> QED  BY <1>3, <1>4, <1>5, <1>6, SeqIsTuple

-----------------------------------------------------------------------------
(***************************************************************************)
(* The invariant                                                           *)
(***************************************************************************)
\* The answers of a batch are those of its jobs, each in its place.
InPlace(b) == Tuple(b.isins) /\ \A n \in DOMAIN b.isins : b.response[n] = Says[b.isins[n]]

RunInv ==
    run # Idle => /\ run = [campaign |-> run.campaign, todo |-> run.todo]
                  /\ Tuple(run.todo) /\ run.todo # <<>>
                  /\ \A n \in DOMAIN run.todo : Tuple(run.todo[n])

StoredInv ==
    /\ batches = [d \in Days |-> batches[d]]
    /\ \A d \in Days : \A b \in batches[d] : InPlace(b)

EvidenceDomain == evidence = [d \in Days |-> evidence[d]]

Inv ==
    /\ universe \subseteq Isins
    /\ RunInv /\ StoredInv /\ EvidenceDomain
    /\ EvidenceFaithful /\ CompleteMeansAnswered

LEMMA InitInv == Init => Inv
  BY IsinsAssumption
  DEF Init, Inv, RunInv, StoredInv, EvidenceDomain, EvidenceFaithful, CompleteMeansAnswered

\* The batch ahead is a tuple, and the ones behind it stay what they were.
LEMMA BatchAhead ==
    RunInv /\ run # Idle =>
        /\ Tuple(Batch)
        /\ NextBatch => RunInv'
  <1> SUFFICES ASSUME RunInv, run # Idle
               PROVE  Tuple(Batch) /\ (NextBatch => RunInv')
    OBVIOUS
  <1> DEFINE X == {run.todo[m] : m \in DOMAIN run.todo}
  <1>1. /\ run.todo \in Seq(X) /\ run.todo # <<>> /\ Len(run.todo) \in Nat
        /\ DOMAIN run.todo = 1..Len(run.todo)
    BY TupleIsSeq DEF RunInv
  <1>2. \A x \in X : Tuple(x)
    BY DEF RunInv
  <1> HIDE DEF X
  <1>3. Batch \in X
    BY <1>1 DEF Batch
  <1>4. ASSUME NextBatch, Len(run.todo) # 1
        PROVE  RunInv'
    <2>1. run' = [campaign |-> run.campaign, todo |-> Tail(run.todo)]
      BY <1>4 DEF NextBatch, RunInv
    <2>2. Tail(run.todo) \in Seq(X) /\ Len(Tail(run.todo)) = Len(run.todo) - 1
      BY <1>1
    <2>3. Tail(run.todo) # <<>> /\ Tuple(Tail(run.todo))
      <3>1. Len(run.todo) > 0
        BY <1>1
      <3>2. Tail(run.todo) # <<>>
        <4>1. Len(Tail(run.todo)) # 0
          BY <1>1, <1>4, <2>2, <3>1
        <4>2. Len(<<>>) = 0
          OBVIOUS
        <4> QED  BY <4>1, <4>2
      <3> QED  BY <2>2, <3>2, SeqIsTuple
    <2>4. \A n \in DOMAIN Tail(run.todo) : Tail(run.todo)[n] \in X
      BY <2>2
    <2> QED  BY <1>2, <2>1, <2>3, <2>4 DEF RunInv
  <1>5. ASSUME NextBatch, Len(run.todo) = 1
        PROVE  RunInv'
    BY <1>5 DEF NextBatch, RunInv
  <1> QED  BY <1>2, <1>3, <1>4, <1>5

\* Batches are added to a campaign, never changed.
Kept == \A d \in Days : batches[d] \subseteq batches'[d]

\* A stored batch adds to the campaign what the plan asked for and no more.
LEMMA StoreKeeps ==
    Inv /\ StoreBatch => RunInv' /\ StoredInv' /\ Kept
  <1> SUFFICES ASSUME Inv, StoreBatch
               PROVE  RunInv' /\ StoredInv' /\ Kept
    OBVIOUS
  <1>1. run # Idle /\ Tuple(Batch) /\ RunInv'
    BY BatchAhead DEF StoreBatch, Inv
  <1>2. PICK response \in Responses(Batch) :
          /\ Accepted(Batch, response)
          /\ batches' = [batches EXCEPT ![run.campaign] =
                             @ \cup {[isins |-> Batch, response |-> response]}]
    BY DEF StoreBatch
  <1> DEFINE isins == Batch
             full == [n \in DOMAIN isins |-> Says[isins[n]]]
             Y == {full[n] : n \in DOMAIN isins}
  <1>3. Len(isins) \in Nat /\ DOMAIN isins = 1..Len(isins)
    BY <1>1, TupleIsSeq
  <1>4. full \in Seq(Y) /\ Len(full) = Len(isins)
    BY <1>3
  <1>5. \A n \in DOMAIN isins : response[n] = Says[isins[n]]
    <2>1. response = full \/ response = SubSeq(full, 1, Len(full) - 1)
      BY <1>2 DEF Responses
    <2>2. CASE response = full
      BY <2>2
    <2>3. CASE response = SubSeq(full, 1, Len(full) - 1)
      <3>1. CASE Len(full) = 0
        BY <1>3, <1>4, <3>1
      <3>2. CASE Len(full) > 0
        <4> HIDE DEF full, Y
        <4>1. Len(SubSeq(full, 1, Len(full) - 1)) = Len(full) - 1
          BY <1>3, <1>4, <3>2, SubSeqProperties
        <4>2. Len(response) = Len(isins)
          BY <1>2 DEF Accepted
        <4>3. Len(response) = Len(full) - 1
          BY <2>3, <4>1
        <4>4. Len(response) = Len(full) /\ Len(full) \in Nat
          BY <1>3, <1>4, <4>2
        <4> QED  BY <4>3, <4>4
      <3> QED  BY <1>3, <1>4, <3>1, <3>2
    <2> QED  BY <2>1, <2>2, <2>3
  <1> HIDE DEF isins, full, Y
  <1>6. InPlace([isins |-> Batch, response |-> response])
    BY <1>1, <1>5 DEF InPlace, isins
  <1>7. \A d \in Days :
          \/ batches'[d] = batches[d]
          \/ batches'[d] = batches[d] \cup {[isins |-> Batch, response |-> response]}
    BY <1>2 DEF Inv, StoredInv
  <1> QED  BY <1>1, <1>2, <1>6, <1>7 DEF Inv, StoredInv, Kept

\* More batches answer no ISIN less.
LEMMA KeptAnswers ==
    ASSUME NEW S, NEW T, S \subseteq T, NEW i, BatchOf(S, i) # {}
    PROVE  BatchOf(T, i) # {}
  BY DEF BatchOf

\* Every row of an ingestion is of its own ISIN.
LEMMA RowsFaithful ==
    ASSUME NEW stored, \A b \in stored : InPlace(b), NEW i, BatchOf(stored, i) # {}
    PROVE  AnswerOf(CHOOSE b \in BatchOf(stored, i) : TRUE, i) = Says[i]
  <1> DEFINE b == CHOOSE x \in BatchOf(stored, i) : TRUE
  <1>1. b \in stored /\ \E n \in DOMAIN b.isins : b.isins[n] = i
    <2>1. b \in BatchOf(stored, i)
      OBVIOUS
    <2> HIDE DEF b
    <2> QED  BY <2>1 DEF BatchOf
  <1> HIDE DEF b
  <1>2. PICK n \in DOMAIN b.isins : n = CHOOSE m \in DOMAIN b.isins : b.isins[m] = i
    BY <1>1
  <1>3. b.isins[n] = i
    BY <1>1, <1>2
  <1>4. AnswerOf(b, i) = b.response[n]
    BY <1>2 DEF AnswerOf
  <1>5. InPlace(b)
    BY <1>1
  <1> QED  BY <1>3, <1>4, <1>5 DEF b, InPlace

\* An ingestion copies the answers of the stored batches.
LEMMA IngestKeeps ==
    ASSUME NEW e \in Days
    PROVE  Inv /\ Ingest(e) => Inv'
  <1> SUFFICES ASSUME Inv, Ingest(e)
               PROVE  Inv'
    OBVIOUS
  <1> DEFINE stored == batches[e]
             rows == Rows(stored)
             made == [of |-> universe, rows |-> rows,
                      complete |-> \A i \in DOMAIN rows : BatchOf(stored, i) # {}]
  <1>1. /\ evidence' = [evidence EXCEPT ![e] = made]
        /\ UNCHANGED <<universe, batches, run>>
    BY DEF Ingest
  <1>2. DOMAIN rows = universe
    BY DEF Rows
  <1>3. \A i \in universe : rows[i] \in {Says[i], "provider_error"}
    <2> TAKE i \in universe
    <2>1. rows[i] = IF BatchOf(stored, i) = {} THEN "provider_error"
                    ELSE AnswerOf(CHOOSE b \in BatchOf(stored, i) : TRUE, i)
      BY DEF Rows
    <2>2. BatchOf(stored, i) # {} =>
              AnswerOf(CHOOSE b \in BatchOf(stored, i) : TRUE, i) = Says[i]
      BY RowsFaithful DEF Inv, StoredInv
    <2> QED  BY <2>1, <2>2
  <1> HIDE DEF rows
  <1>4. made.complete => \A i \in universe : BatchOf(stored, i) # {}
    BY <1>2
  <1>5. made.of = universe /\ made.rows = rows
    OBVIOUS
  <1> HIDE DEF made
  <1>6. \A d \in Days : evidence'[d] = evidence[d] \/ (d = e /\ evidence'[d] = made)
    BY <1>1 DEF Inv, EvidenceDomain
  <1>7. EvidenceFaithful'
    BY <1>2, <1>3, <1>5, <1>6 DEF Inv, EvidenceFaithful
  <1>8. CompleteMeansAnswered'
    BY <1>1, <1>2, <1>4, <1>5, <1>6 DEF Inv, CompleteMeansAnswered
  <1>9. EvidenceDomain'
    BY <1>1 DEF Inv, EvidenceDomain
  <1> QED  BY <1>1, <1>7, <1>8, <1>9 DEF Inv, RunInv, StoredInv

LEMMA StepInv == Inv /\ [Next]_vars => Inv'
  <1> SUFFICES ASSUME Inv, [Next]_vars
               PROVE  Inv'
    OBVIOUS
  <1>1. ASSUME NEW i \in Isins, Grow(i)
        PROVE  Inv'
    BY <1>1 DEF Grow, Inv, RunInv, StoredInv, EvidenceDomain, EvidenceFaithful,
                CompleteMeansAnswered
  <1>2. CASE NextDay \/ UNCHANGED vars
    BY <1>2 DEF NextDay, vars, Inv, RunInv, StoredInv, EvidenceDomain, EvidenceFaithful,
                CompleteMeansAnswered
  <1>3. ASSUME NEW size \in Sizes, StartFetch(size)
        PROVE  Inv'
    <2>1. RunInv'
      <3>1. CASE universe = {}
        BY <1>3, <3>1 DEF StartFetch, RunInv
      <3>2. CASE universe # {}
        <4>1. run' = [campaign |-> today, todo |-> Planned(universe, size)]
          BY <1>3, <3>2 DEF StartFetch
        <4>2. IsFiniteSet(universe) /\ size \in Nat \ {0}
          BY IsinsAssumption, SizesAssumption, FS_Subset DEF Inv
        <4> QED  BY <3>2, <4>1, <4>2, PlannedBatches DEF RunInv
      <3> QED  BY <3>1, <3>2
    <2> QED
      BY <1>3, <2>1 DEF StartFetch, Inv, StoredInv, EvidenceDomain, EvidenceFaithful,
                        CompleteMeansAnswered
  <1>4. CASE SkipBatch \/ FailBatch
    <2>1. RunInv' /\ UNCHANGED <<universe, batches, evidence>>
      BY <1>4, BatchAhead DEF SkipBatch, FailBatch, Inv
    <2> QED
      BY <2>1 DEF Inv, StoredInv, EvidenceDomain, EvidenceFaithful, CompleteMeansAnswered
  <1>5. CASE StoreBatch
    <2>1. RunInv' /\ StoredInv' /\ Kept
      BY <1>5, StoreKeeps
    <2>2. UNCHANGED <<universe, evidence>>
      BY <1>5 DEF StoreBatch
    <2>3. CompleteMeansAnswered'
      BY <2>1, <2>2, KeptAnswers DEF Inv, CompleteMeansAnswered, Kept
    <2> QED  BY <2>1, <2>2, <2>3 DEF Inv, EvidenceDomain, EvidenceFaithful
  <1>6. CASE Abort
    BY <1>6 DEF Abort, Inv, RunInv, StoredInv, EvidenceDomain, EvidenceFaithful,
                CompleteMeansAnswered
  <1>7. ASSUME NEW d \in Days, Ingest(d)
        PROVE  Inv'
    BY <1>7, IngestKeeps
  <1> QED  BY <1>1, <1>2, <1>3, <1>4, <1>5, <1>6, <1>7 DEF Next, FetchStep

LEMMA Invariant == Spec => []Inv
  BY InitInv, StepInv, PTL DEF Spec

\* run_campaign and build_observations: an observation carries what OpenFIGI
\* said of that very ISIN or an error, whatever the batches were cut into.
THEOREM AnswersAreOfTheIsin == Spec => []EvidenceFaithful
  <1>1. Inv => EvidenceFaithful
    BY DEF Inv
  <1> QED  BY <1>1, Invariant, PTL

\* ingest_openfigi: a campaign that is called complete has a stored answer for
\* every ISIN of the corpus it was ingested for, and keeps it.
THEOREM CompleteIsAnswered == Spec => []CompleteMeansAnswered
  <1>1. Inv => CompleteMeansAnswered
    BY DEF Inv
  <1> QED  BY <1>1, Invariant, PTL
=============================================================================
