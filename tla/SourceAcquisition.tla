-------------------------- MODULE SourceAcquisition -------------------------
(***************************************************************************)
(* The two crawls that feed the lifecycle ledger, lifecycle_ingest.py:     *)
(* acquire_weeks (the registry bulletin of every week) and acquire_hr (the *)
(* relevant-information pages of every fund that disappeared); what a      *)
(* lifecycle export reads in them is LifecycleLedgers.  One CLI process    *)
(* runs at a time and may be killed anywhere; CNMV publishes late and its  *)
(* requests fail.  What is done is told by the artifact store, not by a    *)
(* checkpoint.                                                             *)
(*                                                                         *)
(* Abstractions: a put is one step (ArtifactStore has its file operations) *)
(* and so is a request with the put of its answer, since nothing of ours   *)
(* changes in between; stored files are not lost; retries in the clients   *)
(* are one outcome; a document has one content whenever it is asked for;   *)
(* labels, dates, pacing and the report are left out.                      *)
(***************************************************************************)
EXTENDS LifecycleLedgers, FiniteSets

CONSTANTS Weeks,        \* number of weeks on the page, oldest first
          Candidates,   \* number of disappearances, in period order
          Entities,     \* fund keys
          KeyOf,        \* candidate -> its fund key
          Sealed,       \* candidates of the blind holdout
          Lines,        \* bulletin -> the lines of its fund section
          Page,         \* HR document -> [empty, nifs, links, notices]
          Acts,         \* week -> the assertions its acts amount to
          Corrected,    \* notice that corrects another -> that notice, or None
          MaxFailures,  \* bound: requests that fail for good
          MaxCrashes,   \* bound: runs that die
          Torn

Roles == {"registro", "boletin_completo"}
Bulletin(w, r) == [family |-> "weekly", of |-> w, role |-> r, page |-> 0]
SearchPage(e) == [family |-> "hr", of |-> e, role |-> "search", page |-> 0]
HistoryPage(e, p) == [family |-> "hr", of |-> e, role |-> "history", page |-> p]

\* history pages are fetched for a search that identified one entity
Links(e) ==
    LET page == Page[SearchPage(e)]
    IN  IF ~page.empty /\ page.nifs = 1 THEN page.links ELSE 0

ASSUME SizeAssumption == {Weeks, Candidates, MaxFailures, MaxCrashes} \subseteq Nat
ASSUME KeyAssumption == KeyOf \in [1..Candidates -> Entities]
ASSUME SealAssumption == Sealed \subseteq 1..Candidates
ASSUME PageAssumption ==
    /\ \A e \in Entities : /\ SearchPage(e) \in DOMAIN Page
                           /\ \A p \in 1..Links(e) : HistoryPage(e, p) \in DOMAIN Page
    /\ \A d \in DOMAIN Page : /\ Page[d].links \in Nat
                              /\ Page[d].notices \in Seq(ToSet(Page[d].notices))
ASSUME MarkAssumption == None \notin Entities /\ Torn # None

VARIABLES
    published,  \* CNMV: the document links each week exposes
    ledger,     \* the artifact store's entries of both families
    windex,     \* lifecycle/weekly_index.json, per week
    hindex,     \* lifecycle/hr_index.json, per fund
    run,        \* the running command, its position and what it holds in memory
    failures, crashes

vars == <<published, ledger, windex, hindex, run, failures, crashes>>

Idle == [command |-> "none"]
NoEntry == [role |-> None, status |-> None]

Init ==
    /\ published = [w \in 1..Weeks |-> {}]
    /\ ledger = <<>>
    /\ windex = [w \in 1..Weeks |-> NoEntry]
    /\ hindex = [e \in Entities |-> None]
    /\ run = Idle
    /\ failures = 0 /\ crashes = 0

\* CNMV links one more document of a week, in no particular order
Publish(w, r) ==
    /\ r \notin published[w]
    /\ published' = [published EXCEPT ![w] = @ \cup {r}]
    /\ UNCHANGED <<ledger, windex, hindex, run, failures, crashes>>

\* latest_for_period(key) found something
Stored(key) == \E i \in DOMAIN ledger : ledger[i] = key

-----------------------------------------------------------------------------
(***************************************************************************)
(* acquire_weeks                                                           *)
(***************************************************************************)
\* Mutant: only the registry document counts as evidence of a week.
PriorRolesRegistryOnly(w) == {r \in {"registro"} : Stored(Bulletin(w, r))}

PriorRoles(w) == {r \in Roles \cup {"selection"} : Stored(Bulletin(w, r))}

\* the registry document, else the full bulletin, else the page itself
Preferred(roles) ==
    IF "registro" \in roles THEN "registro"
    ELSE IF "boletin_completo" \in roles THEN "boletin_completo" ELSE "selection"

\* an index that does not parse stops the command before its first week
StartWeeks(first, last) ==
    /\ run = Idle
    /\ windex # Torn
    /\ run' = [command |-> "weeks", at |-> first, last |-> last, index |-> windex]
    /\ UNCHANGED <<published, ledger, windex, hindex, failures, crashes>>

AtWeek == run.command = "weeks" /\ run.at <= run.last

NextWeek(role, status) ==
    run' = [run EXCEPT !.at = @ + 1,
                       !.index = [@ EXCEPT ![run.at] = [role |-> role, status |-> status]]]

\* Mutant: a week that was there already is passed by without an index entry.
AlreadyHaveWeekUnindexed ==
    /\ AtWeek
    /\ PriorRoles(run.at) # {}
    /\ run' = [run EXCEPT !.at = @ + 1]
    /\ UNCHANGED <<published, ledger, windex, hindex, failures, crashes>>

AlreadyHaveWeek ==
    /\ AtWeek
    /\ PriorRoles(run.at) # {}
    /\ NextWeek(Preferred(PriorRoles(run.at)), "already_have")
    /\ UNCHANGED <<published, ledger, windex, hindex, failures, crashes>>

\* select_week, then the preferred document, or the page as evidence of a gap
AcquireWeek ==
    LET role == Preferred(published[run.at])
    IN  /\ AtWeek
        /\ PriorRoles(run.at) = {}
        /\ ledger' = Append(ledger, Bulletin(run.at, role))
        /\ NextWeek(role, IF role = "selection" THEN "no_document" ELSE "acquired")
        /\ UNCHANGED <<published, windex, hindex, failures, crashes>>

\* Mutant: a request that failed is recorded like a week without document.
FailWeekAsGap ==
    /\ AtWeek
    /\ PriorRoles(run.at) = {}
    /\ failures < MaxFailures
    /\ failures' = failures + 1
    /\ NextWeek("selection", "no_document")
    /\ UNCHANGED <<published, ledger, windex, hindex, crashes>>

\* a request or a put fails: the week is reported and the crawl goes on
FailWeek ==
    /\ AtWeek
    /\ PriorRoles(run.at) = {}
    /\ failures < MaxFailures
    /\ failures' = failures + 1
    /\ NextWeek(None, "failed")
    /\ UNCHANGED <<published, ledger, windex, hindex, crashes>>

\* the index is written once, after the last week
FinishWeeks ==
    /\ run.command = "weeks" /\ run.at > run.last
    /\ windex' = run.index
    /\ run' = Idle
    /\ UNCHANGED <<published, ledger, hindex, failures, crashes>>

-----------------------------------------------------------------------------
(***************************************************************************)
(* acquire_hr                                                              *)
(***************************************************************************)
\* Mutant: a fund is done when one of its history pages is there.
AlreadyHaveByHistory(e) == \E p \in 1..Links(e) : Stored(HistoryPage(e, p))

AlreadyHave(e) == Stored(SearchPage(e))

\* seen_keys is empty while the list is built: a fund may come twice
Unsealed(c) == c \notin Sealed

StartHr ==
    /\ run = Idle
    /\ run' = [command |-> "hr", at |-> 1, page |-> 0]
    /\ UNCHANGED <<published, ledger, windex, hindex, failures, crashes>>

AtCandidate == run.command = "hr" /\ run.page = 0 /\ run.at <= Candidates

NextCandidate == run' = [run EXCEPT !.at = @ + 1, !.page = 0]

\* sealed candidates never come up; the others may be in the store
SkipCandidate ==
    /\ AtCandidate
    /\ Unsealed(run.at) => AlreadyHave(KeyOf[run.at])
    /\ NextCandidate
    /\ UNCHANGED <<published, ledger, windex, hindex, failures, crashes>>

\* not_found and ambiguous end here; a resolved fund may have history pages
SearchEntity ==
    /\ AtCandidate
    /\ Unsealed(run.at) /\ ~AlreadyHave(KeyOf[run.at])
    /\ ledger' = Append(ledger, SearchPage(KeyOf[run.at]))
    /\ IF Links(KeyOf[run.at]) = 0 THEN NextCandidate ELSE run' = [run EXCEPT !.page = 1]
    /\ UNCHANGED <<published, windex, hindex, failures, crashes>>

FetchHistory ==
    /\ run.command = "hr" /\ run.page > 0
    /\ ledger' = Append(ledger, HistoryPage(KeyOf[run.at], run.page))
    /\ IF run.page = Links(KeyOf[run.at]) THEN NextCandidate
                                           ELSE run' = [run EXCEPT !.page = @ + 1]
    /\ UNCHANGED <<published, windex, hindex, failures, crashes>>

\* a request or a put fails: the candidate is reported and left
FailCandidate ==
    /\ \/ AtCandidate /\ Unsealed(run.at) /\ ~AlreadyHave(KeyOf[run.at])
       \/ run.command = "hr" /\ run.page > 0
    /\ failures < MaxFailures
    /\ failures' = failures + 1
    /\ NextCandidate
    /\ UNCHANGED <<published, ledger, windex, hindex, crashes>>

\* every unsealed candidate, the last one of a fund over the others
Indexed ==
    [e \in Entities |->
        LET own == {c \in 1..Candidates : Unsealed(c) /\ KeyOf[c] = e}
        IN  IF own = {} THEN hindex[e] ELSE CHOOSE c \in own : \A o \in own : o <= c]

\* an index that does not parse is met here, when the pages are stored
FinishHr ==
    /\ run.command = "hr" /\ run.at > Candidates
    /\ hindex' = IF hindex = Torn THEN Torn ELSE Indexed
    /\ run' = Idle
    /\ UNCHANGED <<published, ledger, windex, failures, crashes>>

-----------------------------------------------------------------------------
Die ==
    /\ run # Idle
    /\ crashes < MaxCrashes
    /\ crashes' = crashes + 1
    /\ run' = Idle

Crash ==
    /\ Die
    /\ UNCHANGED <<published, ledger, windex, hindex, failures>>

\* write_text truncates the index before it writes it
CrashInIndex ==
    /\ Die
    /\ \/ run.command = "weeks" /\ run.at > run.last
          /\ windex' = Torn /\ hindex' = hindex
       \/ run.command = "hr" /\ run.at > Candidates /\ hindex # Torn
          /\ hindex' = Torn /\ windex' = windex
    /\ UNCHANGED <<published, ledger, failures>>

(***************************************************************************)
(* The lifecycle ledger of what is stored; the page that stands for a week *)
(* without document is not parsed                                          *)
(***************************************************************************)
RowsOfBulletin == [d \in DOMAIN Lines |-> BulletinRows(Lines[d])]

RowsOfPage == [d \in DOMAIN Page |-> PageRows(d.of, Page[d])]

\* for a in store.load(): what is not of the family, or not parsed, has no rows
RowsOf(documents, content) ==
    FlattenSeq([i \in DOMAIN documents |->
        IF documents[i] \in DOMAIN content
        THEN [n \in DOMAIN content[documents[i]] |->
                 [doc |-> documents[i], n |-> n, row |-> content[documents[i]][n]]]
        ELSE <<>>])

\* weekly_ledger
WeeklyLedger == RowsOf(ledger, RowsOfBulletin)

\* hr_ledger
HrLedger == RowsOf(ledger, RowsOfPage)

-----------------------------------------------------------------------------
WeekStep == AlreadyHaveWeek \/ AcquireWeek \/ FailWeek \/ FinishWeeks
HrStep == SkipCandidate \/ SearchEntity \/ FetchHistory \/ FailCandidate \/ FinishHr

Next ==
    \/ \E w \in 1..Weeks, r \in Roles : Publish(w, r)
    \/ \E first \in 1..Weeks : \E last \in first..Weeks : StartWeeks(first, last)
    \/ StartHr
    \/ WeekStep
    \/ HrStep
    \/ Crash \/ CrashInIndex

Spec == Init /\ [][Next]_vars

\* A command that runs goes on, and the operator does not stop asking for the
\* whole span of weeks.
FairSpec ==
    /\ Spec
    /\ WF_vars(WeekStep \/ HrStep)
    /\ SF_vars(StartWeeks(1, Weeks))

-----------------------------------------------------------------------------
(***************************************************************************)
(* Properties                                                              *)
(***************************************************************************)
\* However often crawls are started, killed and restarted while CNMV keeps
\* publishing, and whichever document of a week they got, in whichever layout:
\* the acts of a stored week are in the ledger once, none lost between two
\* lines, none taken again from the full bulletin.
ActsOnce ==
    run = Idle =>
        LET rows == WeeklyLedger
        IN  \A w \in 1..Weeks :
                LET own == {n \in DOMAIN rows : rows[n].doc.of = w}
                IN  own # {} => /\ Cardinality(own) = Cardinality(Acts[w])
                                /\ {rows[n].row : n \in own} = Acts[w]

\* Every page of the fund is stored
Whole(e) == \A d \in {x \in DOMAIN Page : x.of = e} : Stored(d)

\* The notices of a fund are in the ledger once, though it may disappear twice
\* and the list of candidates is not deduplicated; a history page comes after
\* the search page that links it; and of a fund whose pages are all stored a
\* correction is linked to the notice it corrects, or to none when the fund
\* has no or several notices of that day.
NoticesOnce ==
    run = Idle =>
        LET docs == ToSet(ledger)
            rows == HrLedger
        IN  /\ Cardinality(ToSet(rows)) = Len(rows)
            /\ \A i \in DOMAIN ledger : ledger[i].role = "history" =>
                  \E j \in 1..(i - 1) : ledger[j] = SearchPage(ledger[i].of)
            /\ \A o \in DOMAIN Corrected :
                  (o \in Notices(docs, Page) /\ Whole(o[1].of)) =>
                      Correction(docs, Page, o) = Corrected[o]

\* A crawl that was killed, or failed in places, never leaves an index that
\* says more than the store: what the weekly index calls present is stored,
\* in that role, and the context of a fund is an unsealed candidate of it.
IndexesBacked ==
    /\ windex # Torn => \A w \in 1..Weeks :
           windex[w].role # None => Stored(Bulletin(w, windex[w].role))
    /\ hindex # Torn => \A e \in Entities :
           hindex[e] # None => KeyOf[hindex[e]] = e /\ hindex[e] \notin Sealed

\* Failures and kills delay a crawl but do not defeat it: some day every week
\* has its artifact and the index says so, unless a kill tore the index.
CrawlSettles ==
    <>[](\/ windex = Torn
         \/ \A w \in 1..Weeks : windex[w].role # None)
=============================================================================
