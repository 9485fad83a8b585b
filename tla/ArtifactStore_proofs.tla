------------------------ MODULE ArtifactStore_proofs ------------------------
(***************************************************************************)
(* Theorems about ArtifactStore for any writers, keys, payloads and bound. *)
(***************************************************************************)
EXTENDS ArtifactStore, TLAPS

\* The name a request or an entry is stored under is one of raw's.
LEMMA RawNameType ==
    ASSUME NEW e, e.key \in Keys, e.payload \in Payloads
    PROVE  RawName(e) \in RawNames
BY DEF RawName, RawNames

\* What a new entry supersedes is a payload or nothing.
LEMMA SourceIdType ==
    ASSUME ledger \in Seq(Entry), NEW i \in 0..Len(ledger)
    PROVE  SourceId(i) \in Payloads \cup {None}
<1>1. CASE i = 0
  BY <1>1 DEF SourceId
<1>2. CASE i # 0
  <2>1. ledger[i] \in Entry
    BY <1>2
  <2>2. QED
    BY <1>2, <2>1 DEF SourceId, Entry
<1>3. QED
  BY <1>1, <1>2

-----------------------------------------------------------------------------
(***************************************************************************)
(* Types.  An index a writer read as latest stays inside the ledger, which *)
(* only grows: without that fact the new entry's `supersedes` has no type. *)
(***************************************************************************)
PriorInLedger == \A w \in Writers : prior[w] \in 0..Len(ledger)

TypeInv == TypeOK /\ PriorInLedger

LEMMA NewEntryType ==
    ASSUME TypeInv, NEW w \in Writers, pc[w] # "idle"
    PROVE  NewEntry(w) \in Entry
<1>1. req[w] \in Request
  BY DEF TypeInv, TypeOK
<1>2. SourceId(prior[w]) \in Payloads \cup {None}
  BY SourceIdType DEF TypeInv, TypeOK, PriorInLedger
<1>3. QED
  BY <1>1, <1>2 DEF NewEntry, Entry, Request

LEMMA TypeInit == Init => TypeInv
BY DEF Init, TypeInv, TypeOK, PriorInLedger

LEMMA TypeStep == TypeInv /\ [Next]_vars => TypeInv'
<1> SUFFICES ASSUME TypeInv, [Next]_vars PROVE TypeInv'
  OBVIOUS
<1> USE DEF TypeInv, TypeOK, PriorInLedger
<1>1. ASSUME NEW w \in Writers, PutUnreadable(w) PROVE TypeInv'
  BY <1>1 DEF PutUnreadable
<1>2. ASSUME NEW w \in Writers, NEW k \in KeysOf[w], NEW p \in Payloads, PutSame(w, k, p)
      PROVE  TypeInv'
  <2>1. [key |-> k, payload |-> p] \in Request
    BY KeysOfAssumption DEF Request
  <2>2. QED
    BY <1>2, <2>1 DEF PutSame
<1>3. ASSUME NEW w \in Writers, NEW k \in KeysOf[w], NEW p \in Payloads, PutBegin(w, k, p)
      PROVE  TypeInv'
  <2>1. [key |-> k, payload |-> p] \in Request
    BY KeysOfAssumption DEF Request
  <2>2. QED
    BY <1>3, <2>1 DEF PutBegin
<1>4. ASSUME NEW w \in Writers, SkipExistingRaw(w) PROVE TypeInv'
  BY <1>4 DEF SkipExistingRaw
<1>5. ASSUME NEW w \in Writers, WriteTemp(w) PROVE TypeInv'
  BY <1>5 DEF WriteTemp
<1>6. ASSUME NEW w \in Writers, ReplaceRaw(w) PROVE TypeInv'
  BY <1>6 DEF ReplaceRaw
<1>7. ASSUME NEW w \in Writers, AppendLine(w) \/ AppendWithoutNewline(w) PROVE TypeInv'
  <2>1. NewEntry(w) \in Entry
    BY <1>7, NewEntryType DEF AppendLine, AppendWithoutNewline
  <2>2. /\ Append(ledger, NewEntry(w)) \in Seq(Entry)
        /\ Len(Append(ledger, NewEntry(w))) = Len(ledger) + 1
    BY <2>1
  <2>3. /\ ledger' = Append(ledger, NewEntry(w))
        /\ tail' \in {"newline", "bare", "torn"}
        /\ \E a \in {"new", "raised"} : Finish(w, a)
    BY <1>7 DEF AppendLine, AppendWithoutNewline
  <2>4. PICK a \in {"new", "raised"} : Finish(w, a)
    BY <2>3
  <2>5. TypeOK'
    BY <2>2, <2>3, <2>4 DEF Finish
  <2>6. PriorInLedger'
    BY <2>2, <2>3, <2>4 DEF Finish
  <2>7. QED
    BY <2>5, <2>6
<1>8. ASSUME NEW w \in Writers, AppendTornLine(w) \/ AppendToBareLine(w) \/ Fail(w)
      PROVE  TypeInv'
  BY <1>8 DEF AppendTornLine, AppendToBareLine, Fail, Finish
<1>9. ASSUME UNCHANGED vars PROVE TypeInv'
  BY <1>9 DEF vars
<1>10. QED
  BY <1>1, <1>2, <1>3, <1>4, <1>5, <1>6, <1>7, <1>8, <1>9 DEF Next

\* The types of TypeOK hold in every state, for any number of writers.
THEOREM TypeCorrect == Spec => []TypeOK
<1>1. TypeInv => TypeOK
  BY DEF TypeInv
<1>2. QED
  BY <1>1, TypeInit, TypeStep, PTL DEF Spec

-----------------------------------------------------------------------------
(***************************************************************************)
(* What no step undoes: entries stay where they are, whole files stay      *)
(* whole.                                                                  *)
(***************************************************************************)
Grows ==
    /\ Len(ledger) <= Len(ledger')
    /\ \A i \in 1..Len(ledger) : ledger'[i] = ledger[i]
    /\ \A n \in RawNames : raw[n] = "whole" => raw'[n] = "whole"

LEMMA StepGrows == TypeInv /\ [Next]_vars => Grows
<1> SUFFICES ASSUME TypeInv, [Next]_vars PROVE Grows
  OBVIOUS
<1> USE DEF TypeInv, TypeOK
<1>1. ASSUME UNCHANGED <<ledger, raw>> PROVE Grows
  BY <1>1 DEF Grows
<1>2. ASSUME NEW w \in Writers, ReplaceRaw(w) PROVE Grows
  BY <1>2 DEF ReplaceRaw, Grows
<1>3. ASSUME NEW w \in Writers, AppendLine(w) \/ AppendWithoutNewline(w) PROVE Grows
  <2>1. ledger' = Append(ledger, NewEntry(w)) /\ raw' = raw
    BY <1>3 DEF AppendLine, AppendWithoutNewline, Finish
  <2>2. NewEntry(w) \in Entry
    BY <1>3, NewEntryType DEF AppendLine, AppendWithoutNewline
  <2>3. QED
    BY <2>1, <2>2 DEF Grows
<1>4. QED
  BY <1>1, <1>2, <1>3
     DEF Next, vars, PutUnreadable, PutSame, PutBegin, SkipExistingRaw, WriteTemp,
         AppendTornLine, AppendToBareLine, Fail, Finish

-----------------------------------------------------------------------------
(***************************************************************************)
(* The ledger is backed.  A writer trusts an existing file (no "partial"   *)
(* one exists) and reaches its append only behind a whole file.            *)
(***************************************************************************)
NoPartialRaw == \A n \in RawNames : raw[n] # "partial"
AppendReady == \A w \in Writers : pc[w] = "append" => raw[RawName(req[w])] = "whole"

BackedInv == TypeInv /\ LedgerBacked /\ NoPartialRaw /\ AppendReady

LEMMA EntryName ==
    ASSUME ledger \in Seq(Entry), NEW i \in 1..Len(ledger)
    PROVE  RawName(ledger[i]) \in RawNames
<1>1. ledger[i] \in Entry
  OBVIOUS
<1>2. QED
  BY <1>1, RawNameType DEF Entry

LEMMA RequestName ==
    ASSUME TypeInv, NEW w \in Writers, pc[w] # "idle"
    PROVE  RawName(req[w]) \in RawNames
<1>1. req[w] \in Request
  BY DEF TypeInv, TypeOK
<1>2. QED
  BY <1>1, RawNameType DEF Request

\* A step that appends no entry keeps the entries backed.
LEMMA BackedKept ==
    ASSUME BackedInv, Grows, ledger' = ledger
    PROVE  LedgerBacked'
<1> SUFFICES ASSUME NEW i \in 1..Len(ledger) PROVE raw'[RawName(ledger[i])] = "whole"
  BY DEF LedgerBacked, RawName
<1>1. RawName(ledger[i]) \in RawNames
  BY EntryName DEF BackedInv, TypeInv, TypeOK
<1>2. QED
  BY <1>1 DEF BackedInv, LedgerBacked, Grows

LEMMA BackedInit == Init => BackedInv
<1> SUFFICES ASSUME Init PROVE BackedInv
  OBVIOUS
<1>1. TypeInv
  BY TypeInit
<1>2. LedgerBacked /\ NoPartialRaw /\ AppendReady
  BY DEF Init, LedgerBacked, NoPartialRaw, AppendReady
<1>3. QED
  BY <1>1, <1>2 DEF BackedInv

LEMMA BackedStep == BackedInv /\ [Next]_vars => BackedInv'
<1> SUFFICES ASSUME BackedInv, [Next]_vars PROVE BackedInv'
  OBVIOUS
<1>1. TypeInv' /\ Grows
  BY TypeStep, StepGrows DEF BackedInv
<1>2. NoPartialRaw'
  <2>1. UNCHANGED raw \/ \E w \in Writers : ReplaceRaw(w)
    BY DEF Next, vars, PutUnreadable, PutSame, PutBegin, SkipExistingRaw, WriteTemp,
           AppendLine, AppendWithoutNewline, AppendTornLine, AppendToBareLine, Fail, Finish
  <2>2. QED
    BY <2>1 DEF ReplaceRaw, NoPartialRaw, BackedInv, TypeInv, TypeOK
<1>3. AppendReady'
  <2> SUFFICES ASSUME NEW v \in Writers, pc'[v] = "append"
               PROVE  raw'[RawName(req'[v])] = "whole"
    BY DEF AppendReady, RawName
  <2> USE DEF BackedInv, TypeInv, TypeOK
  <2>1. ASSUME pc[v] = "append", req'[v] = req[v] PROVE raw'[RawName(req'[v])] = "whole"
    BY <2>1, <1>1, RequestName DEF AppendReady, Grows
  <2>2. ASSUME SkipExistingRaw(v) PROVE raw'[RawName(req'[v])] = "whole"
    BY <2>2, RequestName DEF SkipExistingRaw, NoPartialRaw
  <2>3. ASSUME ReplaceRaw(v) PROVE raw'[RawName(req'[v])] = "whole"
    BY <2>3, RequestName DEF ReplaceRaw
  <2>4. \/ pc[v] = "append" /\ req'[v] = req[v]
        \/ SkipExistingRaw(v)
        \/ ReplaceRaw(v)
    BY DEF Next, vars, PutUnreadable, PutSame, PutBegin, SkipExistingRaw, WriteTemp,
           ReplaceRaw, AppendLine, AppendWithoutNewline, AppendTornLine, AppendToBareLine,
           Fail, Finish
  <2>5. QED
    BY <2>1, <2>2, <2>3, <2>4
<1>4. LedgerBacked'
  <2>1. CASE ledger' = ledger
    BY <2>1, <1>1, BackedKept
  <2>2. ASSUME NEW w \in Writers, pc[w] = "append", ledger' = Append(ledger, NewEntry(w)),
               raw' = raw
        PROVE  LedgerBacked'
    <3> SUFFICES ASSUME NEW i \in 1..(Len(ledger) + 1)
                 PROVE  raw[RawName(ledger'[i])] = "whole"
      BY <2>2 DEF LedgerBacked, RawName, BackedInv, TypeInv, TypeOK
    <3>1. CASE i \in 1..Len(ledger)
      BY <3>1, <1>1 DEF Grows, LedgerBacked, BackedInv
    <3>2. CASE i = Len(ledger) + 1
      <4>1. ledger'[i] = NewEntry(w)
        BY <3>2, <2>2 DEF BackedInv, TypeInv, TypeOK
      <4>2. RawName(NewEntry(w)) = RawName(req[w])
        BY DEF RawName, NewEntry
      <4>3. QED
        BY <4>1, <4>2, <2>2 DEF AppendReady, BackedInv
    <3>3. QED
      BY <3>1, <3>2 DEF BackedInv, TypeInv, TypeOK
  <2>3. \/ ledger' = ledger
        \/ \E w \in Writers : /\ pc[w] = "append"
                              /\ ledger' = Append(ledger, NewEntry(w))
                              /\ raw' = raw
    BY DEF Next, vars, PutUnreadable, PutSame, PutBegin, SkipExistingRaw, WriteTemp,
           ReplaceRaw, AppendLine, AppendWithoutNewline, AppendTornLine, AppendToBareLine,
           Fail, Finish
  <2>4. QED
    BY <2>1, <2>2, <2>3
<1>5. QED
  BY <1>1, <1>2, <1>3, <1>4 DEF BackedInv

\* Every ledger entry's payload is on disk and whole, for any number of
\* writers and wherever they fail.
THEOREM BackedLedger == Spec => []LedgerBacked
<1>1. BackedInv => LedgerBacked
  BY DEF BackedInv
<1>2. QED
  BY <1>1, BackedInit, BackedStep, PTL DEF Spec

-----------------------------------------------------------------------------
(***************************************************************************)
(* Supersession.  For any number of writers the entry a writer read as     *)
(* latest stays where it is and is of the writer's key.                    *)
(***************************************************************************)
PriorOfKey ==
    \A w \in Writers :
        (pc[w] # "idle" /\ prior[w] # 0) => ledger[prior[w]].key = req[w].key

EarlierInv == TypeInv /\ SupersedesEarlier /\ PriorOfKey

\* How a step changes the ledger: not at all, or by the entry of a writer
\* that has reached its append, which is then idle.
LEMMA LedgerStep ==
    ASSUME [Next]_vars
    PROVE  \/ ledger' = ledger
           \/ \E w \in Writers : /\ pc[w] = "append"
                                 /\ ledger' = Append(ledger, NewEntry(w))
                                 /\ pc' = [pc EXCEPT ![w] = "idle"]
                                 /\ UNCHANGED <<raw, req, prior>>
BY DEF Next, vars, PutUnreadable, PutSame, PutBegin, SkipExistingRaw, WriteTemp,
       ReplaceRaw, AppendLine, AppendWithoutNewline, AppendTornLine, AppendToBareLine,
       Fail, Finish

\* How a step changes a writer that is in a put after it: it has just begun,
\* or it keeps its request and what it read.
LEMMA WriterStep ==
    ASSUME TypeInv, [Next]_vars, NEW v \in Writers, pc'[v] # "idle"
    PROVE  \/ \E k \in KeysOf[v], p \in Payloads : PutBegin(v, k, p)
           \/ pc[v] # "idle" /\ req'[v] = req[v] /\ prior'[v] = prior[v]
BY DEF TypeInv, TypeOK, Next, vars, PutUnreadable, PutSame, PutBegin, SkipExistingRaw,
       WriteTemp, ReplaceRaw, AppendLine, AppendWithoutNewline, AppendTornLine,
       AppendToBareLine, Fail, Finish

LEMMA EarlierStep == EarlierInv /\ [Next]_vars => EarlierInv'
<1> SUFFICES ASSUME EarlierInv, [Next]_vars PROVE EarlierInv'
  OBVIOUS
<1>1. TypeInv' /\ Grows
  BY TypeStep, StepGrows DEF EarlierInv
<1>2. SupersedesEarlier'
  <2>1. CASE ledger' = ledger
    BY <2>1 DEF SupersedesEarlier, EarlierInv
  <2>2. ASSUME NEW w \in Writers, pc[w] = "append", ledger' = Append(ledger, NewEntry(w))
        PROVE  SupersedesEarlier'
    <3>0. Len(ledger') = Len(ledger) + 1
      BY <2>2, NewEntryType DEF EarlierInv, TypeInv, TypeOK
    <3> SUFFICES ASSUME NEW i \in 1..(Len(ledger) + 1), ledger'[i].supersedes # None
                 PROVE  \E j \in 1..(i - 1) :
                            /\ ledger'[j].key = ledger'[i].key
                            /\ ledger'[j].payload = ledger'[i].supersedes
      BY <3>0 DEF SupersedesEarlier
    <3>1. CASE i \in 1..Len(ledger)
      BY <3>1, <1>1 DEF Grows, SupersedesEarlier, EarlierInv
    <3>2. CASE i = Len(ledger) + 1
      <4>1. ledger'[i] = NewEntry(w)
        BY <3>2, <2>2 DEF EarlierInv, TypeInv, TypeOK
      <4>2. prior[w] \in 1..Len(ledger) /\ ledger[prior[w]].key = req[w].key
        BY <4>1, <2>2 DEF NewEntry, SourceId, EarlierInv, PriorOfKey, TypeInv, PriorInLedger
      <4>3. ledger'[prior[w]] = ledger[prior[w]]
        BY <4>2, <1>1 DEF Grows
      <4>4. QED
        BY <4>1, <4>2, <4>3, <3>2 DEF NewEntry, SourceId
    <3>3. QED
      BY <3>1, <3>2 DEF EarlierInv, TypeInv, TypeOK
  <2>3. QED
    BY <2>1, <2>2, LedgerStep
<1>3. PriorOfKey'
  <2> SUFFICES ASSUME NEW v \in Writers, pc'[v] # "idle", prior'[v] # 0
               PROVE  ledger'[prior'[v]].key = req'[v].key
    BY DEF PriorOfKey
  <2>1. ASSUME NEW k \in KeysOf[v], NEW p \in Payloads, PutBegin(v, k, p)
        PROVE  ledger'[prior'[v]].key = req'[v].key
    BY <2>1 DEF PutBegin, IsLatest, EarlierInv, TypeInv, TypeOK
  <2>2. ASSUME pc[v] # "idle", req'[v] = req[v], prior'[v] = prior[v]
        PROVE  ledger'[prior'[v]].key = req'[v].key
    BY <2>2, <1>1 DEF Grows, PriorOfKey, EarlierInv, TypeInv, PriorInLedger
  <2>3. QED
    BY <2>1, <2>2, WriterStep DEF EarlierInv
<1>4. QED
  BY <1>1, <1>2, <1>3 DEF EarlierInv

\* No `supersedes` dangles or points forward, for any number of writers.
THEOREM SupersessionEarlier == Spec => []SupersedesEarlier
<1>1. Init => EarlierInv
  BY TypeInit DEF Init, EarlierInv, SupersedesEarlier, PriorOfKey
<1>2. EarlierInv => SupersedesEarlier
  BY DEF EarlierInv
<1>3. QED
  BY <1>1, <1>2, EarlierStep, PTL DEF Spec

-----------------------------------------------------------------------------
(***************************************************************************)
(* Answers.  A put that answered and whose writer is idle keeps an entry   *)
(* behind it: the ledger only grows and a backed entry stays backed.       *)
(***************************************************************************)
Registered(r) ==
    \E i \in 1..Len(ledger) : /\ ledger[i].key = r.key
                              /\ ledger[i].payload = r.payload
                              /\ raw[RawName(ledger[i])] = "whole"

LEMMA RegisteredKept ==
    ASSUME TypeInv, Grows, NEW r, Registered(r), TypeInv'
    PROVE  \E i \in 1..Len(ledger') : /\ ledger'[i].key = r.key
                                      /\ ledger'[i].payload = r.payload
                                      /\ raw'[RawName(ledger'[i])] = "whole"
<1>1. PICK i \in 1..Len(ledger) : /\ ledger[i].key = r.key
                                  /\ ledger[i].payload = r.payload
                                  /\ raw[RawName(ledger[i])] = "whole"
  BY DEF Registered
<1>2. RawName(ledger[i]) \in RawNames
  BY EntryName DEF TypeInv, TypeOK
<1>3. i \in 1..Len(ledger') /\ ledger'[i] = ledger[i]
  BY DEF Grows, TypeInv, TypeOK
<1>4. QED
  BY <1>1, <1>2, <1>3 DEF Grows

AnswerInv == BackedInv /\ AnswerRegistered

LEMMA AnswerStep == AnswerInv /\ [Next]_vars => AnswerInv'
<1> SUFFICES ASSUME AnswerInv, [Next]_vars PROVE AnswerInv'
  OBVIOUS
<1>1. BackedInv' /\ Grows
  BY BackedStep, StepGrows DEF AnswerInv, BackedInv
<1> DEFINE Kept(r) == \E i \in 1..Len(ledger') :
                          /\ ledger'[i].key = r.key
                          /\ ledger'[i].payload = r.payload
                          /\ raw'[RawName(ledger'[i])] = "whole"
<1>2. ASSUME NEW v \in Writers, pc'[v] = "idle", result'[v] \in {"same", "new"},
             tail' # "torn"
      PROVE  Kept(req'[v])
  <2>1. CASE pc[v] = "idle" /\ result'[v] = result[v] /\ req'[v] = req[v] /\ tail # "torn"
    <3>1. Registered(req[v])
      BY <1>2, <2>1 DEF AnswerInv, AnswerRegistered, Registered
    <3>2. QED
      BY <3>1, <2>1, <1>1, RegisteredKept DEF AnswerInv, BackedInv
  <2>2. ASSUME NEW k \in KeysOf[v], NEW p \in Payloads, PutSame(v, k, p) PROVE Kept(req'[v])
    <3>1. req'[v] = [key |-> k, payload |-> p]
      BY <2>2 DEF PutSame, AnswerInv, BackedInv, TypeInv, TypeOK
    <3>2. PICK i \in 1..Len(ledger) : IsLatest(i, k) /\ ledger[i].payload = p
      BY <2>2 DEF PutSame
    <3>3. ledger[i].key = k
      BY <3>2 DEF IsLatest
    <3>4. Registered([key |-> k, payload |-> p])
      BY <3>2, <3>3 DEF Registered, AnswerInv, BackedInv, LedgerBacked
    <3>5. QED
      BY <3>1, <3>4, <1>1, RegisteredKept DEF AnswerInv, BackedInv
  <2>3. CASE AppendLine(v)
    <3>1. NewEntry(v) \in Entry
      BY <2>3, NewEntryType DEF AppendLine, AnswerInv, BackedInv
    <3>2. /\ Len(ledger) + 1 \in 1..Len(ledger')
          /\ ledger'[Len(ledger) + 1] = NewEntry(v)
      BY <2>3, <3>1 DEF AppendLine, AnswerInv, BackedInv, TypeInv, TypeOK
    <3>3. raw'[RawName(ledger'[Len(ledger) + 1])] = "whole"
      BY <3>2, <1>1 DEF BackedInv, LedgerBacked, RawName
    <3>4. req'[v] = req[v]
      BY <2>3 DEF AppendLine, Finish
    <3>5. QED
      BY <3>2, <3>3, <3>4 DEF NewEntry
  <2>4. \/ pc[v] = "idle" /\ result'[v] = result[v] /\ req'[v] = req[v] /\ tail # "torn"
        \/ \E k \in KeysOf[v], p \in Payloads : PutSame(v, k, p)
        \/ AppendLine(v)
    BY <1>2 DEF AnswerInv, BackedInv, TypeInv, TypeOK, Next, vars, PutUnreadable, PutSame,
        PutBegin, SkipExistingRaw, WriteTemp, ReplaceRaw, AppendLine,
        AppendWithoutNewline, AppendTornLine, AppendToBareLine, Fail, Finish
  <2>5. QED
    BY <2>1, <2>2, <2>3, <2>4
<1>3. AnswerRegistered'
  BY <1>2 DEF AnswerRegistered, RawName
<1>4. QED
  BY <1>1, <1>3 DEF AnswerInv

\* A put that answered is registered and stored, for any number of writers.
THEOREM AnswersRegistered == Spec => []AnswerRegistered
<1>1. Init => AnswerInv
  BY BackedInit DEF Init, AnswerInv, AnswerRegistered
<1>2. AnswerInv => AnswerRegistered
  BY DEF AnswerInv
<1>3. QED
  BY <1>1, <1>2, AnswerStep, PTL DEF Spec

-----------------------------------------------------------------------------
(***************************************************************************)
(* A key that one process puts.  What it read as latest of that key is     *)
(* still the latest when it appends, since nobody else appends to the key, *)
(* so the versions of the key form a chain.                                *)
(***************************************************************************)
LatestExists == \A k \in Keys : \E i \in 0..Len(ledger) : IsLatest(i, k)

OwnRequest == \A w \in Writers : pc[w] # "idle" => req[w].key \in KeysOf[w]

PriorIsLatest ==
    \A w \in Writers : pc[w] # "idle" /\ Alone(req[w].key) =>
        /\ IsLatest(prior[w], req[w].key)
        /\ SourceId(prior[w]) # req[w].payload

ChainInv == TypeInv /\ VersionChain /\ LatestExists /\ OwnRequest /\ PriorIsLatest

LEMMA LatestUnique ==
    ASSUME ledger \in Seq(Entry), NEW k \in Keys, NEW i, NEW j, IsLatest(i, k), IsLatest(j, k)
    PROVE  i = j
BY DEF IsLatest

\* What an append makes the latest of each key.
LEMMA AppendLatest ==
    ASSUME ledger \in Seq(Entry), NEW e \in Entry, ledger' = Append(ledger, e),
           NEW k \in Keys, NEW i \in 0..(Len(ledger) + 1),
           \/ k = e.key /\ i = Len(ledger) + 1
           \/ k # e.key /\ i # Len(ledger) + 1 /\ IsLatest(i, k)
    PROVE  IsLatest(i, k)'
<1>1. /\ Len(ledger') = Len(ledger) + 1
      /\ ledger'[Len(ledger) + 1] = e
      /\ \A j \in 1..Len(ledger) : ledger'[j] = ledger[j]
  OBVIOUS
<1>2. i # 0 => ledger'[i].key = k
  BY <1>1 DEF IsLatest
<1>3. \A j \in (i + 1)..Len(ledger') : ledger'[j].key # k
  BY <1>1 DEF IsLatest
<1>4. QED
  BY <1>1, <1>2, <1>3 DEF IsLatest

LEMMA OwnStep == ChainInv /\ [Next]_vars => OwnRequest'
<1> SUFFICES ASSUME ChainInv, [Next]_vars, NEW v \in Writers, pc'[v] # "idle"
             PROVE  req'[v].key \in KeysOf[v]
  BY DEF OwnRequest
<1>1. ASSUME NEW k \in KeysOf[v], NEW p \in Payloads, PutBegin(v, k, p)
      PROVE  req'[v].key \in KeysOf[v]
  BY <1>1 DEF PutBegin, ChainInv, TypeInv, TypeOK
<1>2. QED
  BY <1>1, WriterStep DEF ChainInv, OwnRequest

LEMMA ChainStep == ChainInv /\ [Next]_vars => ChainInv'
<1> SUFFICES ASSUME ChainInv, [Next]_vars PROVE ChainInv'
  OBVIOUS
<1>1. TypeInv' /\ Grows /\ OwnRequest'
  BY TypeStep, StepGrows, OwnStep DEF ChainInv
<1>2. ledger \in Seq(Entry)
  BY DEF ChainInv, TypeInv, TypeOK
<1>3. CASE ledger' = ledger
  <2>1. VersionChain' /\ LatestExists'
    BY <1>3 DEF ChainInv, VersionChain, Precedes, SourceId, LatestExists, IsLatest
  <2>2. PriorIsLatest'
    <3> SUFFICES ASSUME NEW v \in Writers, pc'[v] # "idle", Alone(req'[v].key)
                 PROVE  /\ IsLatest(prior'[v], req'[v].key)
                        /\ SourceId(prior'[v]) # req'[v].payload
      BY <1>3 DEF PriorIsLatest, IsLatest, SourceId, Alone
    <3>1. ASSUME NEW k \in KeysOf[v], NEW p \in Payloads, PutBegin(v, k, p)
          PROVE  /\ IsLatest(prior'[v], req'[v].key)
                 /\ SourceId(prior'[v]) # req'[v].payload
      <4>1. PICK i \in 0..Len(ledger) : /\ IsLatest(i, k)
                                        /\ SourceId(i) # p
                                        /\ prior' = [prior EXCEPT ![v] = i]
        BY <3>1 DEF PutBegin
      <4>2. prior'[v] = i /\ req'[v] = [key |-> k, payload |-> p]
        BY <4>1, <3>1 DEF PutBegin, ChainInv, TypeInv, TypeOK
      <4>3. QED
        BY <4>1, <4>2
    <3>2. QED
      BY <3>1, WriterStep DEF ChainInv, PriorIsLatest
  <2>3. QED
    BY <1>1, <2>1, <2>2 DEF ChainInv
<1>4. ASSUME NEW w \in Writers, pc[w] = "append", ledger' = Append(ledger, NewEntry(w)),
             pc' = [pc EXCEPT ![w] = "idle"], UNCHANGED <<req, prior>>
      PROVE  ChainInv'
  <2>1. NewEntry(w) \in Entry
    BY <1>4, NewEntryType DEF ChainInv
  <2>2. /\ Len(ledger') = Len(ledger) + 1
        /\ ledger'[Len(ledger) + 1] = NewEntry(w)
        /\ \A i \in 1..Len(ledger) : ledger'[i] = ledger[i]
    BY <2>1, <1>2, <1>4
  <2>3. PriorIsLatest'
    <3> SUFFICES ASSUME NEW v \in Writers, pc'[v] # "idle", Alone(req[v].key)
                 PROVE  /\ IsLatest(prior[v], req[v].key)'
                        /\ SourceId(prior[v])' # req[v].payload
      BY <1>4 DEF PriorIsLatest, IsLatest, SourceId, Alone
    <3>1. v # w /\ pc[v] # "idle"
      BY <1>4 DEF ChainInv, TypeInv, TypeOK
    <3>2. NewEntry(w).key # req[v].key
      BY <1>4, <3>1 DEF NewEntry, ChainInv, OwnRequest, Alone
    <3>3. IsLatest(prior[v], req[v].key) /\ SourceId(prior[v]) # req[v].payload
      BY <3>1 DEF ChainInv, PriorIsLatest
    <3>4. req[v].key \in Keys /\ prior[v] \in 0..Len(ledger)
      BY <3>1 DEF ChainInv, TypeInv, TypeOK, PriorInLedger, Request
    <3>5. PICK k \in Keys, i \in 0..Len(ledger) : k = req[v].key /\ i = prior[v]
      BY <3>4
    <3>6. i \in 0..(Len(ledger) + 1) /\ i # Len(ledger) + 1
      BY <1>2
    <3>7. IsLatest(i, k)'
      BY <3>2, <3>3, <3>5, <3>6, <2>1, <1>2, <1>4, AppendLatest
    <3>8. SourceId(i)' = SourceId(i)
      BY <2>2, <1>2 DEF SourceId
    <3>9. QED
      BY <1>4, <3>3, <3>5, <3>7, <3>8 DEF IsLatest, SourceId
  <2>4. LatestExists'
    <3>1. ASSUME NEW k \in Keys PROVE (\E i \in 0..Len(ledger) : IsLatest(i, k))'
      <4>1. PICK i \in 0..Len(ledger) : IsLatest(i, k)
        BY DEF ChainInv, LatestExists
      <4>2. CASE k = NewEntry(w).key
        <5>1. PICK n \in 0..Len(ledger') : n = Len(ledger) + 1
          BY <2>2, <1>2
        <5>2. IsLatest(n, k)'
          BY <5>1, <4>2, <2>1, <2>2, <1>2, <1>4, AppendLatest
        <5>3. QED
          BY <5>1, <5>2
      <4>3. CASE k # NewEntry(w).key
        <5>1. IsLatest(i, k)'
          BY <4>1, <4>3, <2>1, <1>2, <1>4, AppendLatest
        <5>2. i \in 0..Len(ledger')
          BY <2>2, <1>2
        <5>3. QED
          BY <5>1, <5>2
      <4>4. QED
        BY <4>2, <4>3
    <3>2. QED
      BY <3>1 DEF LatestExists
  <2>5. VersionChain'
    <3> SUFFICES ASSUME NEW i \in 1..(Len(ledger) + 1), Alone(ledger'[i].key)
                 PROVE  \E j \in 0..(i - 1) : /\ Precedes(j, i)'
                                              /\ ledger'[i].supersedes = SourceId(j)'
                                              /\ ledger'[i].payload # ledger'[i].supersedes
      BY <2>2 DEF VersionChain, Alone
    <3>1. CASE i \in 1..Len(ledger)
      <4>1. PICK j \in 0..(i - 1) : /\ Precedes(j, i)
                                    /\ ledger[i].supersedes = SourceId(j)
                                    /\ ledger[i].payload # ledger[i].supersedes
        BY <3>1, <2>2 DEF ChainInv, VersionChain
      <4>2. Precedes(j, i)'
        BY <4>1, <2>2, <3>1, <1>2 DEF Precedes
      <4>3. SourceId(j)' = SourceId(j)
        BY <4>1, <2>2, <3>1, <1>2 DEF SourceId
      <4>4. QED
        BY <4>1, <4>2, <4>3, <2>2, <3>1
    <3>2. CASE i = Len(ledger) + 1
      <4>1. PICK j \in 0..Len(ledger) : j = prior[w]
        BY DEF ChainInv, TypeInv, PriorInLedger
      <4>2. IsLatest(j, req[w].key) /\ SourceId(j) # req[w].payload
        BY <4>1, <1>4, <2>2, <3>2 DEF ChainInv, PriorIsLatest, NewEntry
      <4>3. Precedes(j, i)'
        BY <4>2, <2>2, <3>2, <1>2 DEF Precedes, IsLatest, NewEntry
      <4>4. ledger'[i].supersedes = SourceId(j)'
        BY <4>1, <2>2, <3>2 DEF SourceId, NewEntry
      <4>5. ledger'[i].payload # ledger'[i].supersedes
        BY <4>1, <4>2, <2>2, <3>2 DEF NewEntry
      <4>6. QED
        BY <4>3, <4>4, <4>5, <3>2
    <3>3. QED
      BY <3>1, <3>2, <1>2
  <2>6. QED
    BY <1>1, <2>3, <2>4, <2>5 DEF ChainInv
<1>5. QED
  BY <1>3, <1>4, LedgerStep

LEMMA ChainInit == Init => ChainInv
<1> SUFFICES ASSUME Init PROVE ChainInv
  OBVIOUS
<1>1. TypeInv
  BY TypeInit
<1>2. VersionChain /\ OwnRequest /\ PriorIsLatest
  BY DEF Init, VersionChain, OwnRequest, PriorIsLatest
<1>3. LatestExists
  BY DEF Init, LatestExists, IsLatest
<1>4. QED
  BY <1>1, <1>2, <1>3 DEF ChainInv

\* The versions of a key that one process puts form one chain of differing
\* payloads, for any number of processes that put other keys.
THEOREM OwnKeyChain == Spec => []VersionChain
<1>1. ChainInv => VersionChain
  BY DEF ChainInv
<1>2. QED
  BY <1>1, ChainInit, ChainStep, PTL DEF Spec

-----------------------------------------------------------------------------
(***************************************************************************)
(* Refinement.  A step that appends a version of a key that one process    *)
(* puts publishes it; every other step, those of other keys and failures   *)
(* included, is a stutter of VersionHistory.                               *)
(***************************************************************************)
LEMMA LatestPayloadIs ==
    ASSUME ledger \in Seq(Entry), NEW k \in Keys, NEW i \in 0..Len(ledger), IsLatest(i, k)
    PROVE  LatestPayload(k) = SourceId(i)
<1>1. \A j \in 0..Len(ledger) : IsLatest(j, k) => j = i
  BY LatestUnique
<1>2. i = CHOOSE j \in 0..Len(ledger) : IsLatest(j, k)
  BY <1>1
<1>3. QED
  BY <1>2 DEF LatestPayload

\* The same after a step.
LEMMA LatestPayloadIsNext ==
    ASSUME ledger' \in Seq(Entry), NEW k \in Keys, NEW i \in 0..Len(ledger'), IsLatest(i, k)'
    PROVE  LatestPayload(k)' = SourceId(i)'
<1>1. \A j \in 0..Len(ledger') : IsLatest(j, k)' => j = i
  BY DEF IsLatest
<1>2. i = CHOOSE j \in 0..Len(ledger') : IsLatest(j, k)'
  BY <1>1
<1>3. QED
  BY <1>2 DEF LatestPayload, SourceId

Published == {ledger[i] : i \in {n \in 1..Len(ledger) : ledger[n].key \in OwnKeys}}
LatestMap == [k \in OwnKeys |-> LatestPayload(k)]

LEMMA RefinementInit == Init => History!Init
<1> SUFFICES ASSUME Init PROVE History!Init
  OBVIOUS
<1>1. ledger = <<>> /\ ledger \in Seq(Entry)
  BY DEF Init
<1>2. ASSUME NEW k \in Keys PROVE LatestPayload(k) = None
  <2>1. IsLatest(0, k)
    BY <1>1 DEF IsLatest
  <2>2. QED
    BY <1>1, <2>1, LatestPayloadIs DEF SourceId
<1>3. QED
  BY <1>1, <1>2 DEF History!Init, OwnKeys

LEMMA RefinementStep ==
    ASSUME ChainInv, ChainInv', [Next]_vars
    PROVE  [History!Next]_<<Published, LatestMap>>
<1>1. /\ ledger \in Seq(Entry)
      /\ ledger' \in Seq(Entry)
  BY DEF ChainInv, TypeInv, TypeOK
<1>2. CASE ledger' = ledger
  BY <1>2 DEF Published, LatestMap, LatestPayload, IsLatest, SourceId, OwnKeys
<1>3. ASSUME NEW w \in Writers, pc[w] = "append", ledger' = Append(ledger, NewEntry(w))
      PROVE  [History!Next]_<<Published, LatestMap>>
  <2>0. req[w] \in Request
    BY <1>3 DEF ChainInv, TypeInv, TypeOK
  <2> PICK key \in Keys, payload \in Payloads : req[w] = [key |-> key, payload |-> payload]
    BY <2>0 DEF Request
  <2>1. NewEntry(w) \in Entry /\ NewEntry(w).key = key /\ NewEntry(w).payload = payload
    BY <1>3, NewEntryType DEF ChainInv, NewEntry
  <2>2. /\ Len(ledger') = Len(ledger) + 1
        /\ ledger'[Len(ledger) + 1] = NewEntry(w)
        /\ \A i \in 1..Len(ledger) : ledger'[i] = ledger[i]
    BY <2>1, <1>1, <1>3
  <2>3. ASSUME NEW k \in Keys
        PROVE  LatestPayload(k)' = IF k = key THEN payload ELSE LatestPayload(k)
    <3>1. PICK i \in 0..(Len(ledger) + 1) :
              \/ k = NewEntry(w).key /\ i = Len(ledger) + 1
              \/ k # NewEntry(w).key /\ i # Len(ledger) + 1 /\ IsLatest(i, k)
      <4>1. PICK j \in 0..Len(ledger) : IsLatest(j, k)
        BY DEF ChainInv, LatestExists
      <4>2. CASE k = NewEntry(w).key
        BY <4>2, <1>1
      <4>3. CASE k # NewEntry(w).key
        BY <4>1, <4>3, <1>1
      <4>4. QED
        BY <4>2, <4>3
    <3>2. IsLatest(i, k)'
      BY <3>1, <2>1, <1>1, <1>3, AppendLatest
    <3>3. i \in 0..Len(ledger')
      BY <2>2, <3>1, <1>1
    <3>4. LatestPayload(k)' = SourceId(i)'
      BY <3>2, <3>3, <1>1, LatestPayloadIsNext
    <3>5. CASE k = key
      BY <2>1, <3>1, <3>4, <3>5, <2>2, <1>1 DEF SourceId
    <3>6. CASE k # key
      <4>1. i \in 0..Len(ledger) /\ IsLatest(i, k)
        BY <2>1, <3>1, <3>6, <1>1
      <4>2. SourceId(i)' = SourceId(i)
        BY <4>1, <2>2, <1>1 DEF SourceId
      <4>3. QED
        BY <4>1, <4>2, <3>4, <3>6, <1>1, LatestPayloadIs
    <3>7. QED
      BY <3>5, <3>6
  <2>4. Published' = {ledger'[i] : i \in {n \in 1..(Len(ledger) + 1) : ledger'[n].key \in OwnKeys}}
    BY <2>2 DEF Published, OwnKeys, Alone
  <2>5. CASE key \notin OwnKeys
    <3>1. Published' = Published
      BY <2>1, <2>2, <2>4, <2>5, <1>1 DEF Published
    <3>2. LatestMap' = LatestMap
      BY <2>3, <2>5 DEF LatestMap, OwnKeys, Alone
    <3>3. QED
      BY <3>1, <3>2
  <2>6. CASE key \in OwnKeys
    <3>1. LatestPayload(key) = SourceId(prior[w]) /\ SourceId(prior[w]) # payload
      BY <1>1, <1>3, <2>6, LatestPayloadIs
         DEF ChainInv, PriorIsLatest, TypeInv, PriorInLedger, OwnKeys
    <3>2. NewEntry(w) = [key |-> key, payload |-> payload, supersedes |-> LatestPayload(key)]
      BY <3>1 DEF NewEntry
    <3>3. Published' = Published \cup {NewEntry(w)}
      BY <2>1, <2>2, <2>4, <2>6, <1>1 DEF Published
    <3>4. LatestMap' = [LatestMap EXCEPT ![key] = payload]
      BY <2>3, <2>6 DEF LatestMap, OwnKeys, Alone
    <3>5. History!Publish(key, payload)
      BY <2>6, <3>1, <3>2, <3>3, <3>4 DEF History!Publish, Published, LatestMap
    <3>6. QED
      BY <2>6, <3>5 DEF History!Next
  <2>7. QED
    BY <2>5, <2>6
<1>4. QED
  BY <1>2, <1>3, LedgerStep

\* The entries of the keys that one process puts implement VersionHistory:
\* readers of such a key are given the payloads published under it, in order, and
\* no failure and no other process withdraws, repeats or mixes them.
THEOREM OwnKeysImplement == Spec => ImplementsVersionHistory
<1> SUFFICES Spec => History!Spec
  BY DEF ImplementsVersionHistory
<1>1. ChainInv /\ ChainInv' /\ [Next]_vars => [History!Next]_<<Published, LatestMap>>
  BY RefinementStep
<1>2. QED
  BY <1>1, ChainInit, ChainStep, RefinementInit, PTL
     DEF Spec, History!Spec, Published, LatestMap
=============================================================================
