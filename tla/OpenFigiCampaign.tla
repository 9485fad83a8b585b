-------------------------- MODULE OpenFigiCampaign --------------------------
(***************************************************************************)
(* OpenFIGI acquisition and ingestion: openfigi_client.py (plan_batches,   *)
(* run_campaign, iter_campaign), adapters/openfigi.py (build_observations) *)
(* and provider_ingest.ingest_openfigi.  The valid ISINs of the corpus are *)
(* cut into batches, every batch is one request whose answer is stored     *)
(* under the batch's content hash, a campaign is one day's directory, and  *)
(* resuming is planning again and skipping what is stored.                 *)
(*                                                                         *)
(* Abstractions: ISINs are numbers in their sorting order; a batch id is   *)
(* the batch's ISINs; answers are Says[isin]; attempts, pacing and backoff *)
(* are one outcome; ingestion writes its two tables and the manifest in    *)
(* one step (it runs anew, whole, every time).                             *)
(***************************************************************************)
EXTENDS Integers, Sequences, FiniteSets

CONSTANTS Isins,        \* valid ISINs the corpus will ever hold
          Initial,      \* those it holds at the start
          Says,         \* what OpenFIGI answers for each
          Sizes,        \* jobs per request: without and with an API key
          MaxDays,      \* bound: days with a campaign
          MaxFailures,  \* bound: batches that fail for good
          MaxAborts,    \* bound: campaigns that end early
          None

ASSUME IsinsAssumption == Isins \subseteq Nat /\ IsFiniteSet(Isins) /\ Initial \subseteq Isins
ASSUME SizesAssumption == Sizes \subseteq Nat \ {0}
ASSUME BoundsAssumption == MaxDays \in Nat \ {0} /\ {MaxFailures, MaxAborts} \subseteq Nat

Days == 1..MaxDays

VARIABLES
    universe,  \* ISINs of the stored positions
    today,     \* the day; it names the campaign
    batches,   \* day -> its directory's batches, [isins, response] each
    run,       \* the fetch that runs: its campaign and the batches ahead of it
    evidence,  \* day -> what ingestion made of the campaign, or None
    failures, aborts

vars == <<universe, today, batches, run, evidence, failures, aborts>>

Idle == [campaign |-> None, todo |-> <<>>]

Init ==
    /\ universe = Initial
    /\ today = 1
    /\ batches = [d \in Days |-> {}]
    /\ run = Idle
    /\ evidence = [d \in Days |-> None]
    /\ failures = 0 /\ aborts = 0

\* another period's positions are exported
Grow(i) ==
    /\ i \notin universe
    /\ universe' = universe \cup {i}
    /\ UNCHANGED <<today, batches, run, evidence, failures, aborts>>

\* midnight; a campaign that runs keeps its name
NextDay ==
    /\ today < MaxDays
    /\ today' = today + 1
    /\ UNCHANGED <<universe, batches, run, evidence, failures, aborts>>

-----------------------------------------------------------------------------
(***************************************************************************)
(* run_campaign                                                            *)
(***************************************************************************)
Sorted(S) ==
    [n \in 1..Cardinality(S) |->
        CHOOSE i \in S : Cardinality({j \in S : j < i}) = n - 1]

\* plan_batches
Planned(S, size) ==
    LET ordered == Sorted(S)
        count == (Len(ordered) + size - 1) \div size
        upto(n) == IF n * size < Len(ordered) THEN n * size ELSE Len(ordered)
    IN  [n \in 1..count |-> SubSeq(ordered, (n - 1) * size + 1, upto(n))]

\* the universe is read here; the day's directory may hold batches already
StartFetch(size) ==
    /\ run = Idle
    /\ run' = IF universe = {} THEN Idle
              ELSE [campaign |-> today, todo |-> Planned(universe, size)]
    /\ UNCHANGED <<universe, today, batches, evidence, failures, aborts>>

Batch == Head(run.todo)

\* Mutant: a batch is known by its first job.
DoneByFirstJob == \E b \in batches[run.campaign] : Head(b.isins) = Head(Batch)

\* its artifact is named after all its jobs
Done == \E b \in batches[run.campaign] : b.isins = Batch

NextBatch ==
    run' = IF Len(run.todo) = 1 THEN Idle ELSE [run EXCEPT !.todo = Tail(@)]

SkipBatch ==
    /\ run # Idle
    /\ Done
    /\ NextBatch
    /\ UNCHANGED <<universe, today, batches, evidence, failures, aborts>>

\* OpenFIGI answers every job in its place, or leaves out the last one
Responses(isins) ==
    LET full == [n \in DOMAIN isins |-> Says[isins[n]]]
    IN  {full, SubSeq(full, 1, Len(full) - 1)}

\* a list of as many results as there are jobs
Accepted(isins, response) == Len(response) = Len(isins)

StoreBatch ==
    /\ run # Idle
    /\ ~Done
    /\ \E response \in Responses(Batch) :
           /\ Accepted(Batch, response)
           /\ batches' = [batches EXCEPT ![run.campaign] =
                              @ \cup {[isins |-> Batch, response |-> response]}]
    /\ NextBatch
    /\ UNCHANGED <<universe, today, evidence, failures, aborts>>

\* its attempts are used up, or what comes back is refused
FailBatch ==
    /\ run # Idle
    /\ ~Done
    /\ failures < MaxFailures
    /\ failures' = failures + 1
    /\ NextBatch
    /\ UNCHANGED <<universe, today, batches, evidence, aborts>>

\* killed, or ended by an exception that is no AcquisitionError
Abort ==
    /\ run # Idle
    /\ aborts < MaxAborts
    /\ aborts' = aborts + 1
    /\ run' = Idle
    /\ UNCHANGED <<universe, today, batches, evidence, failures>>

-----------------------------------------------------------------------------
(***************************************************************************)
(* ingest_openfigi                                                         *)
(***************************************************************************)
\* iter_campaign, read_batch; a directory without batches is refused too
Readable(stored) ==
    stored # {} /\ \A b \in stored : Accepted(b.isins, b.response)

\* "mapped by two jobs": the campaign is refused
MappedTwice(stored) ==
    \E a, b \in stored :
        \E m \in DOMAIN a.isins, n \in DOMAIN b.isins :
            a.isins[m] = b.isins[n] /\ <<a, m>> # <<b, n>>

BatchOf(stored, i) == {b \in stored : \E n \in DOMAIN b.isins : b.isins[n] = i}

\* Mutant: the answers are dealt out in the order of the ISINs asked.
AnswerByRank(b, i) ==
    b.response[CHOOSE n \in DOMAIN b.isins :
                   n = 1 + Cardinality({m \in DOMAIN b.isins : b.isins[m] > i})]

\* by position: the answer of the job that asked for it
AnswerOf(b, i) == b.response[CHOOSE n \in DOMAIN b.isins : b.isins[n] = i]

\* Mutant: one row for every job that was answered.
RowsOfJobs(stored) ==
    [i \in {x \in universe : BatchOf(stored, x) # {}} |->
        AnswerOf(CHOOSE b \in BatchOf(stored, i) : TRUE, i)]

\* build_observations: one row for every ISIN of the universe
Rows(stored) ==
    [i \in universe |->
        IF BatchOf(stored, i) = {} THEN "provider_error"
        ELSE AnswerOf(CHOOSE b \in BatchOf(stored, i) : TRUE, i)]

\* A command of its own, which may run beside a fetch; jobs_missing counts the
\* rows that no batch answers
Ingest(d) ==
    LET stored == batches[d]
        rows == Rows(stored)
    IN  /\ Readable(stored) /\ ~MappedTwice(stored)
        /\ evidence' = [evidence EXCEPT ![d] =
               [of |-> universe, rows |-> rows,
                complete |-> \A i \in DOMAIN rows : BatchOf(stored, i) # {}]]
        /\ UNCHANGED <<universe, today, batches, run, failures, aborts>>

-----------------------------------------------------------------------------
FetchStep == SkipBatch \/ StoreBatch \/ FailBatch

Next ==
    \/ \E i \in Isins : Grow(i)
    \/ NextDay
    \/ \E size \in Sizes : StartFetch(size)
    \/ FetchStep
    \/ Abort
    \/ \E d \in Days : Ingest(d)

Spec == Init /\ [][Next]_vars

\* A fetch that runs goes on, and the operator does not stop fetching, in
\* whichever sizes, and ingesting today's campaign.
FairSpec ==
    /\ Spec
    /\ WF_vars(FetchStep)
    /\ SF_vars(\E size \in Sizes : StartFetch(size))
    /\ SF_vars(Ingest(today))

-----------------------------------------------------------------------------
(***************************************************************************)
(* Properties                                                              *)
(***************************************************************************)
\* Whatever was planned under which key and universe, an observation carries
\* what OpenFIGI said of that very ISIN, or says that nothing is known.
EvidenceFaithful ==
    \A d \in Days : evidence[d] # None =>
        \A i \in DOMAIN evidence[d].rows :
            evidence[d].rows[i] \in {Says[i], "provider_error"}

\* A campaign that was cut short, or planned before the corpus grew, never
\* passes for complete: campaign_complete means that every ISIN the corpus
\* held when it was ingested has a row and a stored answer.
CompleteMeansAnswered ==
    \A d \in Days : (evidence[d] # None /\ evidence[d].complete) =>
        \A i \in evidence[d].of : /\ i \in DOMAIN evidence[d].rows
                                  /\ BatchOf(batches[d], i) # {}

\* Resuming gets there: once the corpus rests and the day does not end, the
\* campaign is ingested complete, unless it was planned in two ways.
CampaignCompletes ==
    <>[](\/ universe = {}
         \/ MappedTwice(batches[today])
         \/ /\ evidence[today] # None
            /\ evidence[today].complete /\ evidence[today].of = universe)
=============================================================================
