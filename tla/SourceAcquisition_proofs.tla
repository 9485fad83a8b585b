---------------------- MODULE SourceAcquisition_proofs ----------------------
(***************************************************************************)
(* What the index files and the ledger of the crawls may be trusted for,   *)
(* for any number of weeks, candidates, failures and kills.                *)
(*                                                                         *)
(* The indexes: an entry is made of a role that is stored, and the store   *)
(* only grows, so neither a killed run's lost index nor one that is        *)
(* written late overstates it.                                             *)
(* The ledger: the store holds one document of a week and each page of a   *)
(* fund once (DocInv), and flattening the rows of documents that come once *)
(* keeps every row, once (RowsOnce).                                       *)
(* The bulletins: whatever lines a bulletin's fund section has, reading    *)
(* them one by one loses no act and no number (Reads, line after line).    *)
(***************************************************************************)
EXTENDS SourceAcquisition, FiniteSetTheorems, WellFoundedInduction, TLAPS

\* An index of weeks that says no more than the store
Backed(index) ==
    \A w \in 1..Weeks : index[w].role # None => Stored(Bulletin(w, index[w].role))

\* An index of funds whose contexts are unsealed candidates of them
Contextual(index) ==
    \A e \in Entities : index[e] # None => KeyOf[index[e]] = e /\ index[e] \notin Sealed

Week == 1..Weeks
IsWeekIndex(index) == index = [w \in Week |-> index[w]]

\* The running command's record
RunIs ==
    \/ run.command = "none"
    \/ run = [command |-> "weeks", at |-> run.at, last |-> run.last, index |-> run.index]
    \/ run = [command |-> "hr", at |-> run.at, page |-> run.page]

LedgerIs == \E S : ledger \in Seq(S)

\* Besides the two files, the index that a crawl of weeks holds in memory.
IInv ==
    /\ LedgerIs /\ RunIs
    /\ windex # Torn => IsWeekIndex(windex) /\ Backed(windex)
    /\ run.command = "weeks" => IsWeekIndex(run.index) /\ Backed(run.index)
    /\ hindex # Torn => Contextual(hindex)

-----------------------------------------------------------------------------
(***************************************************************************)
(* What is stored stays stored                                             *)
(***************************************************************************)
\* An append adds one entry behind the others.
LEMMA AppendStores ==
    ASSUME NEW S, NEW l \in Seq(S), NEW x
    PROVE  /\ Append(l, x) \in Seq(S \cup {x})
           /\ \E i \in DOMAIN Append(l, x) : Append(l, x)[i] = x
           /\ \A y : (\E i \in DOMAIN l : l[i] = y) =>
                         \E i \in DOMAIN Append(l, x) : Append(l, x)[i] = y
  <1>1. l \in Seq(S \cup {x}) /\ Len(l) \in Nat /\ DOMAIN l = 1..Len(l)
    OBVIOUS
  <1>2. /\ Append(l, x) \in Seq(S \cup {x}) /\ DOMAIN Append(l, x) = 1..(Len(l) + 1)
        /\ Append(l, x)[Len(l) + 1] = x
        /\ \A i \in 1..Len(l) : Append(l, x)[i] = l[i]
    BY <1>1
  <1>3. \E i \in DOMAIN Append(l, x) : Append(l, x)[i] = x
    BY <1>1, <1>2
  <1>4. ASSUME NEW y, NEW i \in DOMAIN l, l[i] = y
        PROVE  \E j \in DOMAIN Append(l, x) : Append(l, x)[j] = y
    BY <1>1, <1>2, <1>4
  <1> QED  BY <1>2, <1>3, <1>4

\* The files' part of a step that appends x.
Grown(x) == ledger' = Append(ledger, x)

\* A document that is stored stays stored when others are.
LEMMA GrownStores ==
    ASSUME NEW x
    PROVE  LedgerIs /\ Grown(x) =>
               /\ LedgerIs'
               /\ Stored(x)'
               /\ \A y : Stored(y) => Stored(y)'
  <1> SUFFICES ASSUME LedgerIs, Grown(x)
               PROVE  LedgerIs' /\ Stored(x)' /\ \A y : Stored(y) => Stored(y)'
    OBVIOUS
  <1>1. PICK S : ledger \in Seq(S)
    BY DEF LedgerIs
  <1>2. ledger' = Append(ledger, x)
    BY DEF Grown
  <1>3. LedgerIs'
    BY <1>1, <1>2, AppendStores DEF LedgerIs
  <1>4. Stored(x)'
    BY <1>1, <1>2, AppendStores DEF Stored
  <1>5. \A y : Stored(y) => Stored(y)'
    BY <1>1, <1>2, AppendStores DEF Stored
  <1> QED  BY <1>3, <1>4, <1>5

\* The preferred one of some stored roles is stored.
LEMMA PreferredIsStored ==
    ASSUME NEW w, PriorRoles(w) # {}
    PROVE  Stored(Bulletin(w, Preferred(PriorRoles(w))))
  <1>1. Preferred(PriorRoles(w)) \in PriorRoles(w)
    BY DEF Preferred, PriorRoles, Roles
  <1> QED  BY <1>1 DEF PriorRoles

-----------------------------------------------------------------------------
(***************************************************************************)
(* The steps                                                               *)
(***************************************************************************)
\* An entry of the week at hand keeps the index in memory backed, if the role it
\* names is stored after the step.
LEMMA EntryBacked ==
    ASSUME NEW k, NEW role, NEW status
    PROVE  /\ IInv /\ run.command = "weeks" /\ run.at = k /\ NextWeek(role, status)
           /\ \A y : Stored(y) => Stored(y)'
           /\ role # None => Stored(Bulletin(k, role))'
           => /\ RunIs'
              /\ IsWeekIndex(run.index)' /\ Backed(run.index)'
  <1> SUFFICES ASSUME IInv, run.command = "weeks", run.at = k, NextWeek(role, status),
                      \A y : Stored(y) => Stored(y)',
                      role # None => Stored(Bulletin(k, role))'
               PROVE  RunIs' /\ IsWeekIndex(run.index)' /\ Backed(run.index)'
    OBVIOUS
  <1>1. /\ run = [command |-> "weeks", at |-> run.at, last |-> run.last, index |-> run.index]
        /\ IsWeekIndex(run.index) /\ Backed(run.index)
    BY DEF IInv, RunIs
  <1>2. PICK old, last : old = run.index /\ last = run.last
    OBVIOUS
  <1> DEFINE entry == [role |-> role, status |-> status]
             after == [old EXCEPT ![k] = entry]
  <1>3. run' = [command |-> "weeks", at |-> k + 1, last |-> last, index |-> after]
    BY <1>1, <1>2 DEF NextWeek
  <1>4. IsWeekIndex(after) /\ \A w \in Week : after[w] = IF w = k THEN entry ELSE old[w]
    BY <1>1, <1>2 DEF IsWeekIndex
  <1>5. entry.role = role
    OBVIOUS
  <1> HIDE DEF after, entry
  <1>6. run'.index = after
    BY <1>3
  <1>7. ASSUME NEW w \in 1..Weeks, after[w].role # None
        PROVE  Stored(Bulletin(w, after[w].role))'
    <2>1. CASE w = k
      BY <1>4, <1>5, <1>7, <2>1 DEF Week
    <2>2. CASE w # k
      <3>1. after[w] = old[w] /\ Stored(Bulletin(w, old[w].role))
        BY <1>1, <1>2, <1>4, <1>7, <2>2 DEF Backed, Week
      <3> QED  BY <3>1
    <2> QED  BY <2>1, <2>2
  <1>8. Backed(run.index)'
    BY <1>6, <1>7 DEF Backed
  <1>9. RunIs'
    BY <1>3 DEF RunIs
  <1>10. IsWeekIndex(run.index)'
    BY <1>4, <1>6 DEF IsWeekIndex
  <1> QED  BY <1>8, <1>9, <1>10

\* Some numbers up to a bound have a last one.
LEMMA LastIs ==
    ASSUME NEW N \in Nat, NEW T, T \subseteq 1..N, T # {}
    PROVE  \E c \in T : \A o \in T : o <= c
  <1> DEFINE D == {N - c : c \in T}
  <1>1. D \subseteq Nat /\ D # {}
    <2>1. \A c \in T : N - c \in Nat
      OBVIOUS
    <2> QED  BY <2>1
  <1>2. PICK d \in D : \A e \in D : ~ (<<e, d>> \in OpToRel(<, Nat))
    <2> HIDE DEF D
    <2> QED  BY <1>1, NatLessThanWellFounded, WFMin
  <1>3. PICK c \in T : d = N - c
    OBVIOUS
  <1>4. ASSUME NEW o \in T
        PROVE  o <= c
    <2>1. N - o \in D
      OBVIOUS
    <2>2. ~ (N - o < d)
      BY <1>1, <1>2, <2>1 DEF OpToRel
    <2> QED  BY <1>3, <2>2
  <1> QED  BY <1>4

\* The contexts that are written are of unsealed candidates.
LEMMA IndexedContexts == Contextual(hindex) => Contextual(Indexed)
  <1> SUFFICES ASSUME Contextual(hindex), NEW e \in Entities, Indexed[e] # None
               PROVE  KeyOf[Indexed[e]] = e /\ Indexed[e] \notin Sealed
    BY DEF Contextual
  <1> DEFINE own == {c \in 1..Candidates : Unsealed(c) /\ KeyOf[c] = e}
             last == CHOOSE c \in own : \A o \in own : o <= c
  <1>1. Indexed[e] = IF own = {} THEN hindex[e] ELSE last
    BY DEF Indexed
  <1>2. own # {} => last \in own
    <2>1. Candidates \in Nat /\ own \subseteq 1..Candidates
      BY SizeAssumption
    <2> HIDE DEF own
    <2> QED  BY <2>1, LastIs
  <1> QED  BY <1>1, <1>2 DEF Contextual, Unsealed

LEMMA InitInv == Init => IInv
  BY MarkAssumption
  DEF Init, IInv, LedgerIs, RunIs, IsWeekIndex, Week, Backed, Contextual, NoEntry, Idle

LEMMA StepWeeks == IInv /\ WeekStep => IInv'
  <1> SUFFICES ASSUME IInv, WeekStep
               PROVE  IInv'
    OBVIOUS
  <1>1. ASSUME NEW k, NEW role, NEW status, run.command = "weeks", run.at = k,
               NextWeek(role, status), UNCHANGED <<windex, hindex>>, LedgerIs',
               \A y : Stored(y) => Stored(y)', role # None => Stored(Bulletin(k, role))'
        PROVE  IInv'
    <2>1. RunIs' /\ IsWeekIndex(run.index)' /\ Backed(run.index)'
      BY <1>1, EntryBacked
    <2>2. windex' # Torn => IsWeekIndex(windex)' /\ Backed(windex)'
      BY <1>1 DEF IInv, IsWeekIndex, Backed
    <2>3. hindex' # Torn => Contextual(hindex)'
      BY <1>1 DEF IInv, Contextual
    <2> QED  BY <1>1, <2>1, <2>2, <2>3 DEF IInv
  <1>2. UNCHANGED ledger => LedgerIs' /\ \A y : Stored(y) => Stored(y)'
    BY DEF IInv, LedgerIs, Stored
  <1>3. CASE AlreadyHaveWeek
    <2>1. PICK k, role : k = run.at /\ role = Preferred(PriorRoles(k))
      OBVIOUS
    <2>2. Stored(Bulletin(k, role))
      BY <1>3, <2>1, PreferredIsStored DEF AlreadyHaveWeek
    <2> QED  BY <1>1, <1>2, <1>3, <2>1, <2>2 DEF AlreadyHaveWeek, AtWeek
  <1>5. CASE AcquireWeek
    <2>1. PICK k, role : k = run.at /\ role = Preferred(published[k])
      OBVIOUS
    <2>2. PICK status : NextWeek(role, status)
      BY <1>5, <2>1 DEF AcquireWeek
    <2>3. UNCHANGED <<windex, hindex>> /\ AtWeek /\ Grown(Bulletin(k, role))
      BY <1>5, <2>1 DEF AcquireWeek, Grown
    <2>4. LedgerIs' /\ Stored(Bulletin(k, role))' /\ \A y : Stored(y) => Stored(y)'
      BY <2>3, GrownStores DEF IInv
    <2> QED  BY <1>1, <2>1, <2>2, <2>3, <2>4 DEF AtWeek
  <1>6. CASE FailWeek
    BY <1>1, <1>2, <1>6 DEF FailWeek, AtWeek
  <1>4. CASE FinishWeeks
    BY <1>4 DEF FinishWeeks, IInv, LedgerIs, RunIs, Idle, Backed, IsWeekIndex, Contextual, Stored
  <1> QED  BY <1>3, <1>4, <1>5, <1>6 DEF WeekStep

\* A crawl of funds touches neither index of weeks.
LEMMA StepHr == IInv /\ HrStep => IInv'
  <1> SUFFICES ASSUME IInv, HrStep
               PROVE  IInv'
    OBVIOUS
  <1>1. run.command = "hr" /\ UNCHANGED windex
    BY DEF HrStep, SkipCandidate, SearchEntity, FetchHistory, FailCandidate, FinishHr, AtCandidate
  <1>2. RunIs' /\ run'.command # "weeks"
    <2>1. NextCandidate \/ (\E p : run' = [run EXCEPT !.page = p]) \/ run' = Idle
      BY DEF HrStep, SkipCandidate, SearchEntity, FetchHistory, FailCandidate, FinishHr
    <2>2. run = [command |-> "hr", at |-> run.at, page |-> run.page]
      BY <1>1 DEF IInv, RunIs
    <2>3. \/ run' = Idle
          \/ \E a, p : run' = [command |-> "hr", at |-> a, page |-> p]
      <3>1. CASE NextCandidate
        <4>1. run' = [command |-> "hr", at |-> run.at + 1, page |-> 0]
          <5>1. PICK a, p : run = [command |-> "hr", at |-> a, page |-> p] /\ a = run.at
            BY <2>2
          <5>2. run' = [run EXCEPT !.at = run.at + 1, !.page = 0]
            BY <3>1 DEF NextCandidate
          <5>3. run' = [command |-> "hr", at |-> a + 1, page |-> 0]
            BY <5>1, <5>2
          <5> QED  BY <5>1, <5>3
        <4> QED  BY <4>1
      <3>2. ASSUME NEW p, run' = [run EXCEPT !.page = p]
            PROVE  run' = [command |-> "hr", at |-> run.at, page |-> p]
        BY <2>2, <3>2
      <3> QED  BY <2>1, <3>1, <3>2
    <2> QED  BY <2>3 DEF RunIs, Idle
  <1>3. LedgerIs' /\ \A y : Stored(y) => Stored(y)'
    <2>1. UNCHANGED ledger \/ \E x : Grown(x)
      BY DEF HrStep, SkipCandidate, SearchEntity, FetchHistory, FailCandidate, FinishHr, Grown
    <2>2. CASE UNCHANGED ledger
      BY <2>2 DEF IInv, LedgerIs, Stored
    <2> QED  BY <2>1, <2>2, GrownStores DEF IInv
  <1>4. hindex' # Torn => Contextual(hindex')
    <2>1. UNCHANGED hindex \/ hindex' = IF hindex = Torn THEN Torn ELSE Indexed
      BY DEF HrStep, SkipCandidate, SearchEntity, FetchHistory, FailCandidate, FinishHr
    <2> QED  BY <2>1, IndexedContexts DEF IInv
  <1> QED  BY <1>1, <1>2, <1>3, <1>4 DEF IInv, Backed, IsWeekIndex, Contextual

LEMMA StepInv == IInv /\ [Next]_vars => IInv'
  <1> SUFFICES ASSUME IInv, [Next]_vars
               PROVE  IInv'
    OBVIOUS
  <1> USE DEF IInv, LedgerIs, RunIs, Idle, Backed, IsWeekIndex, Contextual, Stored
  <1>1. ASSUME NEW w, NEW r, Publish(w, r)
        PROVE  IInv'
    BY <1>1 DEF Publish
  <1>2. ASSUME NEW first, NEW last, StartWeeks(first, last)
        PROVE  IInv'
    BY <1>2 DEF StartWeeks
  <1>3. CASE StartHr
    BY <1>3 DEF StartHr
  <1>4. CASE Crash \/ CrashInIndex
    BY <1>4 DEF Crash, CrashInIndex, Die
  <1>5. CASE UNCHANGED vars
    BY <1>5 DEF vars
  <1> QED  BY <1>1, <1>2, <1>3, <1>4, <1>5, StepWeeks, StepHr DEF Next

\* lifecycle_ingest: what weekly_index.json and hr_index.json say is stored, in
\* the role they name, and the context of a fund is an unsealed candidate of it,
\* however often crawls fail, are killed and are run again.
THEOREM IndexesAreBacked == Spec => []IndexesBacked
  <1>1. IInv => IndexesBacked
    BY DEF IInv, Backed, Contextual, IndexesBacked
  <1> QED  BY <1>1, InitInv, StepInv, PTL DEF Spec

-----------------------------------------------------------------------------
(***************************************************************************)
(* Flattened sequences                                                     *)
(***************************************************************************)
\* Induction over the naturals, for a set of them.
LEMMA NatSetInduction ==
    ASSUME NEW T, 0 \in T, \A n \in Nat : n \in T => n + 1 \in T
    PROVE  Nat \subseteq T
  <1> SUFFICES ASSUME NEW k \in Nat \ T  PROVE  FALSE
    OBVIOUS
  <1>1. IsWellFoundedOn(OpToRel(<, Nat), Nat)
    BY NatLessThanWellFounded
  <1>2. PICK n \in Nat \ T : \A m \in Nat \ T : ~ (<<m, n>> \in OpToRel(<, Nat))
    BY <1>1, WFMin
  <1>3. n \in Nat /\ n \notin T /\ n # 0
    BY <1>2
  <1>4. n - 1 \in Nat /\ n - 1 < n /\ (n - 1) + 1 = n
    BY <1>3
  <1>5. n - 1 \in T
    <2>1. <<n - 1, n>> \in OpToRel(<, Nat)
      BY <1>3, <1>4 DEF OpToRel
    <2> QED  BY <1>2, <1>4, <2>1
  <1> QED  BY <1>3, <1>4, <1>5

\* The function that flattens each prefix of s, up to n.
IsFlat(s, n, g) == g = [i \in 1..n |-> IF i = 1 THEN s[i] ELSE g[i - 1] \o s[i]]

\* FlattenSeq takes the last value of that function.
LEMMA FlatIs ==
    ASSUME NEW s, Len(s) # 0
    PROVE  FlattenSeq(s) = (CHOOSE g : IsFlat(s, Len(s), g))[Len(s)]
  BY DEF FlattenSeq, IsFlat

LEMMA FlatExists ==
    ASSUME NEW s, NEW n \in Nat
    PROVE  \E g : IsFlat(s, n, g)
  <1> DEFINE T == {m \in Nat : \E g : IsFlat(s, m, g)}
  <1>1. 0 \in T
    <2>1. IsFlat(s, 0, [i \in 1..0 |-> s[i]])
      BY DEF IsFlat
    <2> QED  BY <2>1
  <1>2. ASSUME NEW m \in Nat, m \in T
        PROVE  m + 1 \in T
    <2>1. PICK g : IsFlat(s, m, g)
      BY <1>2
    <2> DEFINE top == IF m = 0 THEN s[1] ELSE g[m] \o s[m + 1]
               h == [i \in 1..(m + 1) |-> IF i = m + 1 THEN top ELSE g[i]]
    <2>2. \A i \in 1..m : g[i] = IF i = 1 THEN s[i] ELSE g[i - 1] \o s[i]
      BY <2>1 DEF IsFlat
    <2>3. \A i \in 1..(m + 1) : h[i] = IF i = m + 1 THEN top ELSE g[i]
      OBVIOUS
    <2>4. ASSUME NEW i \in 1..(m + 1)
          PROVE  h[i] = IF i = 1 THEN s[i] ELSE h[i - 1] \o s[i]
      <3>1. CASE i = m + 1
        <4>1. CASE m = 0
          BY <2>3, <3>1, <4>1
        <4>2. CASE m # 0
          <5>1. m \in 1..(m + 1) /\ m # m + 1 /\ i # 1 /\ i - 1 = m
            BY <3>1, <4>2
          <5> HIDE DEF h, top
          <5>2. h[m] = g[m] /\ h[i] = top
            BY <2>3, <3>1, <5>1
          <5>3. top = g[m] \o s[i]
            BY <3>1, <4>2 DEF top
          <5> QED  BY <5>1, <5>2, <5>3
        <4> QED  BY <4>1, <4>2
      <3>2. CASE i # m + 1
        <4>1. i \in 1..m /\ h[i] = g[i]
          BY <2>3, <3>2
        <4>2. CASE i = 1
          BY <2>2, <4>1, <4>2
        <4>3. CASE i # 1
          <5>1. i - 1 \in 1..(m + 1) /\ i - 1 # m + 1
            BY <4>1, <4>3
          <5>2. h[i - 1] = g[i - 1]
            BY <2>3, <5>1
          <5> QED  BY <2>2, <4>1, <4>3, <5>2
        <4> QED  BY <4>2, <4>3
      <3> QED  BY <3>1, <3>2
    <2>5. h = [i \in 1..(m + 1) |-> h[i]]
      OBVIOUS
    <2>6. IsFlat(s, m + 1, h)
      <3> HIDE DEF h
      <3> QED  BY <2>4, <2>5 DEF IsFlat
    <2> QED  BY <2>6
  <1> HIDE DEF T
  <1>3. Nat \subseteq T
    BY <1>1, <1>2, NatSetInduction
  <1> QED  BY <1>3 DEF T

\* f has the elements of the first n sequences of s: its element a is element
\* nth[a] of sequence at[a], and no place of s comes twice or not at all.
Visits(f, s, n, at, nth) ==
    /\ \A a \in 1..Len(f) : /\ at[a] \in 1..n /\ nth[a] \in 1..Len(s[at[a]])
                            /\ f[a] = s[at[a]][nth[a]]
    /\ \A a, b \in 1..Len(f) : at[a] = at[b] /\ nth[a] = nth[b] => a = b
    /\ \A i \in 1..n : \A k \in 1..Len(s[i]) :
          \E a \in 1..Len(f) : at[a] = i /\ nth[a] = k

\* One more sequence is appended.
LEMMA VisitsOneMore ==
    ASSUME NEW R, NEW s, NEW n \in Nat, NEW f \in Seq(R), NEW at, NEW nth,
           Visits(f, s, n, at, nth), s[n + 1] \in Seq(R)
    PROVE  \E a2, n2 : Visits(f \o s[n + 1], s, n + 1, a2, n2)
  <1> DEFINE t == s[n + 1]
             l == Len(f)
             h == f \o t
             a2 == [a \in 1..(l + Len(t)) |-> IF a <= l THEN at[a] ELSE n + 1]
             n2 == [a \in 1..(l + Len(t)) |-> IF a <= l THEN nth[a] ELSE a - l]
  <1>1. l \in Nat /\ Len(t) \in Nat /\ Len(h) = l + Len(t)
    OBVIOUS
  <1>2. \A a \in 1..Len(h) : h[a] = IF a <= l THEN f[a] ELSE t[a - l]
    OBVIOUS
  <1>3. \A a \in 1..Len(h) : /\ a2[a] = IF a <= l THEN at[a] ELSE n + 1
                             /\ n2[a] = IF a <= l THEN nth[a] ELSE a - l
    BY <1>1
  <1>4. /\ \A a \in 1..l : /\ at[a] \in 1..n /\ nth[a] \in 1..Len(s[at[a]])
                           /\ f[a] = s[at[a]][nth[a]]
        /\ \A a, b \in 1..l : at[a] = at[b] /\ nth[a] = nth[b] => a = b
        /\ \A i \in 1..n : \A k \in 1..Len(s[i]) :
              \E a \in 1..l : at[a] = i /\ nth[a] = k
    BY DEF Visits
  <1>5. t = s[n + 1]
    OBVIOUS
  <1> HIDE DEF t, l, h, a2, n2
  <1>6. ASSUME NEW a \in 1..Len(h)
        PROVE  a2[a] \in 1..(n + 1) /\ n2[a] \in 1..Len(s[a2[a]]) /\ h[a] = s[a2[a]][n2[a]]
    <2>1. CASE a <= l
      <3>1. a \in 1..l /\ a2[a] = at[a] /\ n2[a] = nth[a] /\ h[a] = f[a]
        BY <1>1, <1>2, <1>3, <2>1
      <3> QED  BY <1>4, <3>1
    <2>2. CASE ~ a <= l
      <3>1. a2[a] = n + 1 /\ n2[a] = a - l /\ h[a] = t[a - l] /\ a - l \in 1..Len(t)
        BY <1>1, <1>2, <1>3, <2>2
      <3> QED  BY <1>5, <3>1
    <2> QED  BY <2>1, <2>2
  <1>7. ASSUME NEW a \in 1..Len(h), NEW b \in 1..Len(h), a2[a] = a2[b], n2[a] = n2[b]
        PROVE  a = b
    <2>1. CASE a <= l /\ b <= l
      <3>1. a \in 1..l /\ b \in 1..l /\ at[a] = at[b] /\ nth[a] = nth[b]
        BY <1>1, <1>3, <1>7, <2>1
      <3> QED  BY <1>4, <3>1
    <2>2. CASE ~ a <= l /\ ~ b <= l
      <3>1. a - l = b - l
        BY <1>3, <1>7, <2>2
      <3> QED  BY <1>1, <3>1
    <2>3. ASSUME NEW x \in 1..Len(h), NEW y \in 1..Len(h), x <= l, ~ y <= l, a2[x] = a2[y]
          PROVE  FALSE
      <3>1. x \in 1..l /\ a2[x] = at[x] /\ a2[y] = n + 1
        BY <1>1, <1>3, <2>3
      <3>2. PICK v \in 1..n : v = at[x]
        BY <1>4, <3>1
      <3>3. v = n + 1
        BY <2>3, <3>1, <3>2
      <3> QED  BY <3>2, <3>3
    <2> QED  BY <1>7, <2>1, <2>2, <2>3
  <1>8. ASSUME NEW i \in 1..(n + 1), NEW k \in 1..Len(s[i])
        PROVE  \E a \in 1..Len(h) : a2[a] = i /\ n2[a] = k
    <2>1. CASE i = n + 1
      <3>1. l + k \in 1..Len(h) /\ ~ l + k <= l /\ (l + k) - l = k
        BY <1>1, <1>5, <2>1
      <3> QED  BY <1>3, <2>1, <3>1
    <2>2. CASE i # n + 1
      <3>1. PICK a \in 1..l : at[a] = i /\ nth[a] = k
        BY <1>4, <2>2
      <3>2. a \in 1..Len(h) /\ a <= l
        BY <1>1
      <3> QED  BY <1>3, <3>1, <3>2
    <2> QED  BY <2>1, <2>2
  <1>9. Visits(h, s, n + 1, a2, n2)
    BY <1>6, <1>7, <1>8 DEF Visits
  <1> QED  BY <1>9 DEF h, t

\* A flattened sequence has every place of every sequence, each once.
LEMMA FlatVisits ==
    ASSUME NEW R, NEW s, Len(s) \in Nat, DOMAIN s = 1..Len(s), Len(s) = 0 => s = <<>>,
           \A i \in 1..Len(s) : s[i] \in Seq(R)
    PROVE  /\ FlattenSeq(s) \in Seq(R)
           /\ \E at, nth : Visits(FlattenSeq(s), s, Len(s), at, nth)
  <1>1. CASE Len(s) = 0
    <2>1. FlattenSeq(s) = <<>>
      BY <1>1 DEF FlattenSeq
    <2>2. Visits(<<>>, s, 0, <<>>, <<>>)
      BY DEF Visits
    <2> QED  BY <1>1, <2>1, <2>2
  <1>2. CASE Len(s) # 0
    <2> DEFINE N == Len(s)
               g == CHOOSE x : IsFlat(s, N, x)
    <2>1. IsFlat(s, N, g)
      BY FlatExists
    <2>2. FlattenSeq(s) = g[N]
      BY <1>2, FlatIs
    <2> HIDE DEF g
    <2>3. N \in Nat \ {0} /\ \A i \in 1..N : s[i] \in Seq(R)
      BY <1>2
    <2> HIDE DEF N
    <2>4. \A i \in 1..N : g[i] = IF i = 1 THEN s[i] ELSE g[i - 1] \o s[i]
      BY <2>1 DEF IsFlat
    <2> DEFINE Good(i) == g[i] \in Seq(R) /\ \E at, nth : Visits(g[i], s, i, at, nth)
               T == {m \in Nat : m + 1 <= N => Good(m + 1)}
    <2>5. Good(1)
      <3>1. g[1] = s[1] /\ s[1] \in Seq(R)
        BY <2>3, <2>4
      <3> DEFINE one == [k \in 1..Len(s[1]) |-> 1]
                 all == [k \in 1..Len(s[1]) |-> k]
      <3>2. \A k \in 1..Len(s[1]) : one[k] = 1 /\ all[k] = k
        OBVIOUS
      <3> HIDE DEF one, all
      <3>3. Visits(s[1], s, 1, one, all)
        BY <3>2 DEF Visits
      <3> QED  BY <3>1, <3>3
    <2>6. ASSUME NEW m \in Nat, m \in T
          PROVE  m + 1 \in T
      <3> SUFFICES ASSUME (m + 1) + 1 <= N
                   PROVE  Good((m + 1) + 1)
        BY <2>6
      <3>1. m + 1 <= N /\ Good(m + 1)
        BY <2>3, <2>6
      <3> DEFINE j == m + 1
      <3>2. j \in Nat /\ j + 1 \in 1..N /\ j + 1 # 1 /\ (j + 1) - 1 = j
        BY <2>3
      <3>3. g[j] \in Seq(R) /\ \E at, nth : Visits(g[j], s, j, at, nth)
        BY <3>1
      <3> HIDE DEF j
      <3>4. g[j + 1] = g[j] \o s[j + 1] /\ s[j + 1] \in Seq(R)
        BY <2>3, <2>4, <3>2
      <3>5. g[j + 1] \in Seq(R)
        BY <3>3, <3>4
      <3>7. PICK f \in Seq(R) : f = g[j]
        BY <3>3
      <3>8. PICK at, nth : Visits(f, s, j, at, nth)
        BY <3>3, <3>7
      <3>9. \E a2, n2 : Visits(f \o s[j + 1], s, j + 1, a2, n2)
        BY <3>2, <3>4, <3>8, VisitsOneMore
      <3>6. \E at2, nth2 : Visits(g[j + 1], s, j + 1, at2, nth2)
        BY <3>4, <3>7, <3>9
      <3> QED  BY <3>5, <3>6 DEF j
    <2>7. 0 \in T
      BY <2>5
    <2> HIDE DEF T
    <2>8. Nat \subseteq T
      BY <2>6, <2>7, NatSetInduction
    <2>9. N - 1 \in T
      BY <2>3, <2>8
    <2>10. Good(N)
      BY <2>3, <2>9 DEF T
    <2> QED  BY <2>2, <2>10 DEF N
  <1> QED  BY <1>1, <1>2

-----------------------------------------------------------------------------
(***************************************************************************)
(* The rows of documents that come once                                    *)
(***************************************************************************)
\* The rows of the documents of l, when none of content comes twice: those of each
\* document that is there, each once.
RowsAre(rows, l, content) ==
    /\ Len(rows) \in Nat /\ DOMAIN rows = 1..Len(rows)
    /\ \A a \in DOMAIN rows :
          /\ rows[a].doc \in DOMAIN content /\ \E i \in DOMAIN l : l[i] = rows[a].doc
          /\ rows[a].n \in 1..Len(content[rows[a].doc])
          /\ rows[a].row = content[rows[a].doc][rows[a].n]
    /\ \A a, b \in DOMAIN rows : rows[a].doc = rows[b].doc /\ rows[a].n = rows[b].n => a = b
    /\ \A i \in DOMAIN l : l[i] \in DOMAIN content =>
          \A k \in 1..Len(content[l[i]]) :
              \E a \in DOMAIN rows : rows[a].doc = l[i] /\ rows[a].n = k
    /\ \A a \in DOMAIN rows :
          rows[a] = [doc |-> rows[a].doc, n |-> rows[a].n, row |-> rows[a].row]

LEMMA RowsOnce ==
    ASSUME NEW D, NEW l \in Seq(D), NEW content,
           \A d \in DOMAIN content : content[d] \in Seq(ToSet(content[d])),
           \A i, j \in DOMAIN l : l[i] \in DOMAIN content /\ l[i] = l[j] => i = j
    PROVE  RowsAre(RowsOf(l, content), l, content)
  <1> DEFINE Chunk(d) == IF d \in DOMAIN content
                         THEN [n \in DOMAIN content[d] |->
                                  [doc |-> d, n |-> n, row |-> content[d][n]]]
                         ELSE <<>>
             s == [i \in DOMAIN l |-> Chunk(l[i])]
             rows == RowsOf(l, content)
             R == UNION {{Chunk(l[i])[n] : n \in DOMAIN Chunk(l[i])} : i \in DOMAIN l}
  <1>1. rows = FlattenSeq(s)
    BY DEF RowsOf
  <1>2. Len(l) \in Nat /\ DOMAIN l = 1..Len(l)
    OBVIOUS
  <1>3. Len(s) = Len(l) /\ DOMAIN s = 1..Len(s) /\ \A i \in 1..Len(s) : s[i] = Chunk(l[i])
    BY <1>2
  <1>4. ASSUME NEW d \in DOMAIN content
        PROVE  /\ Len(content[d]) \in Nat /\ DOMAIN content[d] = 1..Len(content[d])
               /\ Len(Chunk(d)) = Len(content[d]) /\ DOMAIN Chunk(d) = 1..Len(content[d])
               /\ \A n \in 1..Len(content[d]) :
                     Chunk(d)[n] = [doc |-> d, n |-> n, row |-> content[d][n]]
    <2>1. content[d] \in Seq(ToSet(content[d]))
      OBVIOUS
    <2>2. Len(content[d]) \in Nat /\ DOMAIN content[d] = 1..Len(content[d])
      BY <2>1
    <2>3. Chunk(d) = [n \in 1..Len(content[d]) |-> [doc |-> d, n |-> n, row |-> content[d][n]]]
      BY <2>2
    <2> HIDE DEF Chunk
    <2> QED  BY <2>2, <2>3
  <1>5. \A d : d \notin DOMAIN content => Chunk(d) = <<>>
    OBVIOUS
  <1>6. Len(s) = 0 => s = <<>>
    BY <1>2, <1>3
  <1>7. \A i \in 1..Len(s) : s[i] \in Seq(R)
    <2> SUFFICES ASSUME NEW i \in 1..Len(s)  PROVE  s[i] \in Seq(R)
      OBVIOUS
    <2>1. i \in DOMAIN l /\ s[i] = Chunk(l[i])
      BY <1>2, <1>3
    <2>2. \A n \in DOMAIN Chunk(l[i]) : Chunk(l[i])[n] \in R
      BY <2>1
    <2>3. CASE l[i] \in DOMAIN content
      <3>1. Len(content[l[i]]) \in Nat /\ DOMAIN Chunk(l[i]) = 1..Len(content[l[i]])
        BY <1>4, <2>3
      <3>2. PICK K, g : /\ K \in Nat /\ g = Chunk(l[i])
                       /\ g = [n \in 1..K |-> g[n]]
                       /\ \A n \in 1..K : g[n] \in R
        BY <2>2, <2>3, <3>1
      <3> HIDE DEF Chunk, R, s
      <3>3. g \in Seq(R)
        BY <3>2
      <3> QED  BY <2>1, <3>2, <3>3
    <2>4. CASE l[i] \notin DOMAIN content
      BY <1>5, <2>1, <2>4
    <2> QED  BY <2>3, <2>4
  <1> HIDE DEF s, R, Chunk, rows
  <1>8. /\ rows \in Seq(R)
        /\ \E at, nth : Visits(rows, s, Len(s), at, nth)
    BY <1>1, <1>2, <1>3, <1>6, <1>7, FlatVisits
  <1>9. PICK at, nth : Visits(rows, s, Len(s), at, nth)
    BY <1>8
  <1>10. Len(rows) \in Nat /\ DOMAIN rows = 1..Len(rows)
    BY <1>8
  <1>11. ASSUME NEW a \in DOMAIN rows
         PROVE  /\ at[a] \in DOMAIN l /\ l[at[a]] \in DOMAIN content
                /\ nth[a] \in 1..Len(content[l[at[a]]])
                /\ rows[a] = [doc |-> l[at[a]], n |-> nth[a], row |-> content[l[at[a]]][nth[a]]]
    <2>1. /\ at[a] \in DOMAIN l /\ nth[a] \in 1..Len(Chunk(l[at[a]]))
          /\ rows[a] = Chunk(l[at[a]])[nth[a]]
      BY <1>2, <1>3, <1>9, <1>10 DEF Visits
    <2>2. l[at[a]] \in DOMAIN content
      <3> SUFFICES ASSUME l[at[a]] \notin DOMAIN content  PROVE  FALSE
        OBVIOUS
      <3>1. Chunk(l[at[a]]) = <<>>
        BY <1>5
      <3> QED  BY <2>1, <3>1
    <2> QED  BY <1>4, <2>1, <2>2
  <1>12. ASSUME NEW a \in DOMAIN rows
         PROVE  /\ rows[a].doc = l[at[a]] /\ rows[a].n = nth[a]
                /\ rows[a].row = content[l[at[a]]][nth[a]]
                /\ rows[a] = [doc |-> rows[a].doc, n |-> rows[a].n, row |-> rows[a].row]
    BY <1>11
  <1>13. ASSUME NEW a \in DOMAIN rows, NEW b \in DOMAIN rows,
                rows[a].doc = rows[b].doc, rows[a].n = rows[b].n
         PROVE  a = b
    <2>1. at[a] = at[b]
      <3>1. l[at[a]] = l[at[b]]
        BY <1>12, <1>13
      <3> QED  BY <1>11, <3>1
    <2>2. nth[a] = nth[b]
      BY <1>12, <1>13
    <2> QED  BY <1>9, <1>10, <2>1, <2>2 DEF Visits
  <1>14. ASSUME NEW i \in DOMAIN l, l[i] \in DOMAIN content, NEW k \in 1..Len(content[l[i]])
         PROVE  \E a \in DOMAIN rows : rows[a].doc = l[i] /\ rows[a].n = k
    <2>1. i \in 1..Len(s) /\ k \in 1..Len(s[i])
      BY <1>2, <1>3, <1>4, <1>14
    <2>2. PICK a \in 1..Len(rows) : at[a] = i /\ nth[a] = k
      BY <1>9, <2>1 DEF Visits
    <2> QED  BY <1>10, <1>12, <2>2
  <1>15. \A a \in DOMAIN rows :
            /\ rows[a].doc \in DOMAIN content /\ \E i \in DOMAIN l : l[i] = rows[a].doc
            /\ rows[a].n \in 1..Len(content[rows[a].doc])
            /\ rows[a].row = content[rows[a].doc][rows[a].n]
    BY <1>11, <1>12
  <1>16. RowsAre(rows, l, content)
    BY <1>10, <1>12, <1>13, <1>14, <1>15 DEF RowsAre
  <1> QED  BY <1>16 DEF rows

\* A sequence without repetition has as many elements as it is long.
LEMMA DistinctCount ==
    ASSUME NEW rows, Len(rows) \in Nat, DOMAIN rows = 1..Len(rows),
           \A a, b \in DOMAIN rows : rows[a] = rows[b] => a = b
    PROVE  Cardinality(ToSet(rows)) = Len(rows)
  <1> DEFINE I == 1..Len(rows)
             f == [a \in I |-> rows[a]]
  <1>1. IsFiniteSet(I) /\ Cardinality(I) = Len(rows)
    BY FS_Interval
  <1>2. \A a \in I : f[a] = rows[a]
    OBVIOUS
  <1>3. f \in [I -> ToSet(rows)]
    BY DEF ToSet
  <1>4. \A y \in ToSet(rows) : \E a \in I : f[a] = y
    BY DEF ToSet
  <1>5. \A a, b \in I : f[a] = f[b] => a = b
    BY <1>2
  <1> HIDE DEF f, I
  <1>6. f \in Bijection(I, ToSet(rows))
    BY <1>3, <1>4, <1>5 DEF Bijection, Injection, Surjection, IsInjective
  <1>7. ExistsBijection(I, ToSet(rows))
    BY <1>6 DEF ExistsBijection
  <1> QED  BY <1>1, <1>7, FS_Bijection

\* The rows of a week
RowsOfW(rows, w) == {n \in DOMAIN rows : rows[n].doc.of = w}

\* The rows own are the sequence c of acts.
ReadsAs(rows, own, c) ==
    /\ Cardinality(own) = Len(c)
    /\ \A n \in own : rows[n].row \in ToSet(c)
    /\ \A y \in ToSet(c) : \E n \in own : rows[n].row = y

\* Of the week w there are rows, all of the document d.
OneDocument(rows, l, content, w, d) ==
    /\ RowsAre(rows, l, content)
    /\ RowsOfW(rows, w) # {} /\ \A n \in RowsOfW(rows, w) : rows[n].doc = d
    /\ Len(content[d]) \in Nat /\ DOMAIN content[d] = 1..Len(content[d])

\* They are the rows of that document.
LEMMA RowsOfWeek ==
    ASSUME NEW rows, NEW l, NEW content, NEW w, NEW d, OneDocument(rows, l, content, w, d)
    PROVE  ReadsAs(rows, RowsOfW(rows, w), content[d])
  <1> DEFINE own == RowsOfW(rows, w)
  <1>0. /\ RowsAre(rows, l, content) /\ own = RowsOfW(rows, w)
         /\ own # {} /\ \A n \in own : rows[n].doc = d
         /\ Len(content[d]) \in Nat /\ DOMAIN content[d] = 1..Len(content[d])
    BY DEF OneDocument
  <1> HIDE DEF own
  <1> USE <1>0
  <1> DEFINE I == 1..Len(content[d])
             f == [n \in own |-> rows[n].n]
  <1>1. /\ own \subseteq DOMAIN rows /\ d \in DOMAIN content /\ d.of = w
        /\ \E i \in DOMAIN l : l[i] = d
    <2>1. PICK n \in own : TRUE
      OBVIOUS
    <2>2. n \in DOMAIN rows /\ rows[n].doc = d /\ rows[n].doc.of = w
      BY DEF RowsOfW
    <2>3. own \subseteq DOMAIN rows
      BY DEF RowsOfW
    <2> QED  BY <2>2, <2>3 DEF RowsAre
  <1>2. \A k \in I : \E n \in own : rows[n].n = k
    <2> SUFFICES ASSUME NEW k \in I  PROVE  \E n \in own : rows[n].n = k
      OBVIOUS
    <2>1. PICK i \in DOMAIN l : l[i] = d
      BY <1>1
    <2>2. PICK n \in DOMAIN rows : rows[n].doc = d /\ rows[n].n = k
      BY <1>1, <2>1 DEF RowsAre
    <2>3. n \in own
      BY <1>1, <2>2 DEF RowsOfW
    <2> QED  BY <2>2, <2>3
  <1>3. \A n \in own : rows[n].doc = d /\ rows[n].n \in I /\ rows[n].row = content[d][rows[n].n]
    BY <1>1 DEF RowsAre
  <1>4. \A a, b \in own : rows[a].n = rows[b].n => a = b
    BY <1>1, <1>3 DEF RowsAre
  <1>5. IsFiniteSet(I) /\ Cardinality(I) = Len(content[d])
    BY FS_Interval
  <1>6. \A n \in own : f[n] = rows[n].n
    OBVIOUS
  <1>7. f \in [own -> I]
    BY <1>3
  <1> HIDE DEF f, I
  <1>8. f \in Bijection(own, I)
    BY <1>2, <1>4, <1>6, <1>7 DEF Bijection, Injection, Surjection, IsInjective
  <1>9. f \in Injection(own, I) /\ f \in Surjection(own, I)
    BY <1>8 DEF Bijection
  <1>10. Cardinality(own) = Cardinality(I)
    BY <1>5, <1>9, FS_Injection
  <1>11. /\ \A n \in own : rows[n].row \in ToSet(content[d])
         /\ \A y \in ToSet(content[d]) : \E n \in own : rows[n].row = y
    BY <1>2, <1>3 DEF ToSet, I
  <1> QED  BY <1>5, <1>10, <1>11 DEF ReadsAs

-----------------------------------------------------------------------------
(***************************************************************************)
(* What is stored, and where a crawl of funds is                           *)
(***************************************************************************)
\* What the crawls store
IsDoc(x) ==
    \/ \E w, r : r \in Roles \cup {"selection"} /\ x = Bulletin(w, r)
    \/ \E e \in Entities : x = SearchPage(e)
    \/ \E e \in Entities : \E p \in 1..Links(e) : x = HistoryPage(e, p)

\* One document of a week, each page of a fund once and the search page first
StoredOnce(l) ==
    /\ \A i \in DOMAIN l : IsDoc(l[i])
    /\ \A i, j \in DOMAIN l :
          l[i].family = "weekly" /\ l[j].family = "weekly" /\ l[i].of = l[j].of => i = j
    /\ \A i, j \in DOMAIN l : l[i].family = "hr" /\ l[i] = l[j] => i = j
    /\ \A i \in DOMAIN l : l[i].role = "history" =>
          \E j \in 1..(i - 1) : l[j] = SearchPage(l[i].of)

\* x may be stored behind l.
Fresh(l, x) ==
    /\ IsDoc(x)
    /\ \A i \in DOMAIN l : l[i].family = "weekly" /\ x.family = "weekly" => l[i].of # x.of
    /\ x.family = "hr" => \A i \in DOMAIN l : l[i] # x
    /\ x.role = "history" => \E i \in DOMAIN l : l[i] = SearchPage(x.of)

LEMMA FreshStored ==
    ASSUME NEW S, NEW l \in Seq(S), NEW x, StoredOnce(l), Fresh(l, x)
    PROVE  StoredOnce(Append(l, x))
  <1> DEFINE h == Append(l, x)
             N == Len(l)
  <1>1. N \in Nat /\ DOMAIN l = 1..N
    OBVIOUS
  <1>2. DOMAIN h = 1..(N + 1)
    OBVIOUS
  <1>3. \A i \in DOMAIN h : (i \in DOMAIN l /\ h[i] = l[i]) \/ (i = N + 1 /\ h[i] = x)
    OBVIOUS
  <1>4. \A i \in DOMAIN l : i \in DOMAIN h /\ h[i] = l[i]
    OBVIOUS
  <1> HIDE DEF h, N
  <1>5. \A i \in DOMAIN h : IsDoc(h[i])
    BY <1>3 DEF StoredOnce, Fresh
  <1>6. \A i, j \in DOMAIN h :
           h[i].family = "weekly" /\ h[j].family = "weekly" /\ h[i].of = h[j].of => i = j
    BY <1>3 DEF StoredOnce, Fresh
  <1>7. \A i, j \in DOMAIN h : h[i].family = "hr" /\ h[i] = h[j] => i = j
    BY <1>3 DEF StoredOnce, Fresh
  <1>8. ASSUME NEW i \in DOMAIN h, h[i].role = "history"
        PROVE  \E j \in 1..(i - 1) : h[j] = SearchPage(h[i].of)
    <2>1. CASE i \in DOMAIN l /\ h[i] = l[i]
      <3>1. PICK j \in 1..(i - 1) : l[j] = SearchPage(l[i].of)
        BY <1>8, <2>1 DEF StoredOnce
      <3>2. j \in DOMAIN l
        BY <1>1, <2>1, <3>1
      <3> QED  BY <1>4, <2>1, <3>1, <3>2
    <2>2. CASE i = N + 1 /\ h[i] = x
      <3>1. PICK j \in DOMAIN l : l[j] = SearchPage(x.of)
        BY <1>8, <2>2 DEF Fresh
      <3>2. j \in 1..(i - 1)
        BY <1>1, <2>2, <3>1
      <3> QED  BY <1>4, <2>2, <3>1, <3>2
    <2> QED  BY <1>3, <2>1, <2>2
  <1>9. StoredOnce(h)
    BY <1>5, <1>6, <1>7, <1>8 DEF StoredOnce
  <1> QED  BY <1>9 DEF h

\* Where a crawl of funds is: the pages it has still to fetch are not stored.
AtPage ==
    run.command = "hr" =>
        /\ run.at \in Nat \ {0} /\ run.page \in Nat
        /\ run.page > 0 =>
              /\ run.at \in 1..Candidates /\ run.page \in 1..Links(KeyOf[run.at])
              /\ Stored(SearchPage(KeyOf[run.at]))
              /\ \A q \in 1..Links(KeyOf[run.at]) :
                    q >= run.page => ~ Stored(HistoryPage(KeyOf[run.at], q))

DocInv == LedgerIs /\ RunIs /\ StoredOnce(ledger) /\ AtPage

LEMMA GrownOnce ==
    ASSUME NEW x
    PROVE  LedgerIs /\ StoredOnce(ledger) /\ Fresh(ledger, x) /\ Grown(x) => StoredOnce(ledger)'
  BY FreshStored DEF LedgerIs, Grown

LEMMA LinksType == \A e \in Entities : Links(e) \in Nat
  <1> SUFFICES ASSUME NEW e \in Entities  PROVE  Links(e) \in Nat
    OBVIOUS
  <1>1. Page[SearchPage(e)].links \in Nat
    BY PageAssumption
  <1> QED  BY <1>1 DEF Links

LEMMA DocInit == Init => DocInv
  BY DEF Init, DocInv, LedgerIs, RunIs, StoredOnce, AtPage, Idle

LEMMA DocAcquireWeek == DocInv /\ AcquireWeek => DocInv'
  <1> SUFFICES ASSUME DocInv, AcquireWeek  PROVE  DocInv'
    OBVIOUS
  <1>1. PICK k, role : k = run.at /\ role = Preferred(published[k])
    OBVIOUS
  <1>2. /\ role \in Roles \cup {"selection"}
        /\ Grown(Bulletin(k, role)) /\ PriorRoles(k) = {} /\ run.command = "weeks"
        /\ \E status : NextWeek(role, status)
    BY <1>1 DEF AcquireWeek, Preferred, Roles, Grown, AtWeek
  <1>3. LedgerIs'
    BY <1>2, GrownStores DEF DocInv
  <1>4. Fresh(ledger, Bulletin(k, role))
    <2>1. IsDoc(Bulletin(k, role))
      BY <1>2 DEF IsDoc
    <2>2. ASSUME NEW i \in DOMAIN ledger, ledger[i].family = "weekly", ledger[i].of = k
          PROVE  FALSE
      <3>1. PICK w, r : r \in Roles \cup {"selection"} /\ ledger[i] = Bulletin(w, r)
        BY <2>2 DEF DocInv, StoredOnce, IsDoc, SearchPage, HistoryPage
      <3>2. ledger[i] = Bulletin(k, r)
        BY <2>2, <3>1 DEF Bulletin
      <3>3. r \in PriorRoles(k)
        BY <3>1, <3>2 DEF PriorRoles, Stored
      <3> QED  BY <1>2, <3>3
    <2>3. /\ Bulletin(k, role).family = "weekly" /\ Bulletin(k, role).of = k
          /\ Bulletin(k, role).role # "history"
      BY <1>2 DEF Bulletin, Roles
    <2> QED  BY <2>1, <2>2, <2>3 DEF Fresh
  <1>5. StoredOnce(ledger)'
    BY <1>2, <1>4, GrownOnce DEF DocInv
  <1>6. RunIs' /\ run'.command = "weeks"
    <2>1. PICK a, last, index : run = [command |-> "weeks", at |-> a, last |-> last, index |-> index]
      BY <1>2 DEF DocInv, RunIs
    <2>2. PICK status : NextWeek(role, status)
      BY <1>2
    <2>3. \E index2 : run' = [command |-> "weeks", at |-> a + 1, last |-> last, index |-> index2]
      BY <2>1, <2>2 DEF NextWeek
    <2> QED  BY <2>3 DEF RunIs
  <1> QED  BY <1>3, <1>5, <1>6 DEF DocInv, AtPage

\* The step stores nothing, or leaves the crawl of funds at no page.
LEMMA DocKept ==
    DocInv /\ UNCHANGED ledger /\ RunIs'
      /\ (run'.command = "hr" => run'.at \in Nat \ {0} /\ run'.page = 0)
      => DocInv'
  BY DEF DocInv, LedgerIs, StoredOnce, AtPage, Stored

\* The record of a crawl of funds goes on to the next candidate, or to a page.
LEMMA NextCandidateIs ==
    RunIs /\ run.command = "hr" /\ NextCandidate
      => run' = [command |-> "hr", at |-> run.at + 1, page |-> 0]
  <1> SUFFICES ASSUME RunIs, run.command = "hr", NextCandidate
               PROVE  run' = [command |-> "hr", at |-> run.at + 1, page |-> 0]
    OBVIOUS
  <1>1. PICK a, p : run = [command |-> "hr", at |-> a, page |-> p] /\ a = run.at
    BY DEF RunIs
  <1>2. run' = [run EXCEPT !.at = run.at + 1, !.page = 0]
    BY DEF NextCandidate
  <1>3. run' = [command |-> "hr", at |-> a + 1, page |-> 0]
    BY <1>1, <1>2
  <1> QED  BY <1>1, <1>3

LEMMA PageIs ==
    ASSUME NEW q
    PROVE  RunIs /\ run.command = "hr" /\ run' = [run EXCEPT !.page = q]
             => run' = [command |-> "hr", at |-> run.at, page |-> q]
  <1> SUFFICES ASSUME RunIs, run.command = "hr", run' = [run EXCEPT !.page = q]
               PROVE  run' = [command |-> "hr", at |-> run.at, page |-> q]
    OBVIOUS
  <1>1. PICK a, p : run = [command |-> "hr", at |-> a, page |-> p] /\ a = run.at
    BY DEF RunIs
  <1> QED  BY <1>1

\* A page x of the fund at hand is stored; the crawl leaves the fund, or goes on to
\* a page behind x.
LEMMA DocGrown ==
    ASSUME NEW x, NEW k, NEW e, NEW q
    PROVE  /\ DocInv /\ Grown(x) /\ Fresh(ledger, x)
           /\ run.at = k /\ k \in Nat \ {0} /\ run.command = "hr"
           /\ \/ NextCandidate
              \/ /\ run' = [run EXCEPT !.page = q]
                 /\ k \in 1..Candidates /\ KeyOf[k] = e /\ q \in 1..Links(e)
                 /\ Stored(SearchPage(e)) \/ x = SearchPage(e)
                 /\ \A p \in 1..Links(e) :
                       p >= q => ~ Stored(HistoryPage(e, p)) /\ x # HistoryPage(e, p)
           => DocInv'
  <1> SUFFICES ASSUME DocInv, Grown(x), Fresh(ledger, x), run.at = k, k \in Nat \ {0}, run.command = "hr",
                      \/ NextCandidate
                      \/ /\ run' = [run EXCEPT !.page = q]
                         /\ k \in 1..Candidates /\ KeyOf[k] = e /\ q \in 1..Links(e)
                         /\ Stored(SearchPage(e)) \/ x = SearchPage(e)
                         /\ \A p \in 1..Links(e) :
                               p >= q => ~ Stored(HistoryPage(e, p)) /\ x # HistoryPage(e, p)
               PROVE  DocInv'
    OBVIOUS
  <1>1. LedgerIs' /\ Stored(x)' /\ \A y : Stored(y) => Stored(y)'
    BY GrownStores DEF DocInv
  <1>2. \A y : Stored(y)' => Stored(y) \/ y = x
    <2>1. PICK S : ledger \in Seq(S)
      BY DEF DocInv, LedgerIs
    <2>2. ledger' = Append(ledger, x)
      BY DEF Grown
    <2>3. \A i \in DOMAIN ledger' : ledger'[i] = x \/ (i \in DOMAIN ledger /\ ledger'[i] = ledger[i])
      BY <2>1, <2>2
    <2> QED  BY <2>3 DEF Stored
  <1>3. StoredOnce(ledger)'
    BY GrownOnce DEF DocInv
  <1>4. CASE NextCandidate
    <2>1. run' = [command |-> "hr", at |-> k + 1, page |-> 0]
      BY <1>4, NextCandidateIs DEF DocInv
    <2>2. RunIs' /\ AtPage'
      BY <2>1 DEF RunIs, AtPage
    <2> QED  BY <1>1, <1>3, <2>2 DEF DocInv
  <1>5. CASE /\ run' = [run EXCEPT !.page = q]
             /\ k \in 1..Candidates /\ KeyOf[k] = e /\ q \in 1..Links(e)
             /\ Stored(SearchPage(e)) \/ x = SearchPage(e)
             /\ \A p \in 1..Links(e) :
                   p >= q => ~ Stored(HistoryPage(e, p)) /\ x # HistoryPage(e, p)
    <2>1. run' = [command |-> "hr", at |-> k, page |-> q]
      BY <1>5, PageIs DEF DocInv
    <2>2. RunIs'
      BY <2>1 DEF RunIs
    <2>3. run'.at = k /\ run'.page = q /\ run'.command = "hr"
      BY <2>1
    <2>4. Stored(SearchPage(e))' /\ \A p \in 1..Links(e) : p >= q => ~ Stored(HistoryPage(e, p))'
      BY <1>1, <1>2, <1>5
    <2>5. q \in Nat
      BY <1>5
    <2>6. AtPage'
      BY <1>5, <2>3, <2>4, <2>5 DEF AtPage
    <2> QED  BY <1>1, <1>3, <2>2, <2>6 DEF DocInv
  <1> QED  BY <1>4, <1>5

LEMMA DocSearchEntity == DocInv /\ SearchEntity => DocInv'
  <1> SUFFICES ASSUME DocInv, SearchEntity  PROVE  DocInv'
    OBVIOUS
  <1>1. PICK k, e : k = run.at /\ e = KeyOf[k]
    OBVIOUS
  <1>2. /\ Grown(SearchPage(e)) /\ ~ Stored(SearchPage(e))
        /\ run.command = "hr" /\ k <= Candidates
        /\ Links(e) = 0 \/ run' = [run EXCEPT !.page = 1]
        /\ Links(e) = 0 => NextCandidate
    BY <1>1 DEF SearchEntity, AtCandidate, AlreadyHave, Grown
  <1>3. k \in Nat \ {0} /\ k \in 1..Candidates
    BY <1>1, <1>2, SizeAssumption DEF DocInv, AtPage
  <1>4. e \in Entities /\ Links(e) \in Nat
    BY <1>1, <1>3, KeyAssumption, LinksType
  <1>5. Fresh(ledger, SearchPage(e))
    <2>1. IsDoc(SearchPage(e))
      BY <1>4 DEF IsDoc
    <2>2. SearchPage(e).family = "hr" /\ SearchPage(e).role = "search"
      BY DEF SearchPage
    <2> QED  BY <1>2, <2>1, <2>2 DEF Fresh, Stored
  <1>6. \A p \in 1..Links(e) : ~ Stored(HistoryPage(e, p)) /\ SearchPage(e) # HistoryPage(e, p)
    <2>1. ASSUME NEW p \in 1..Links(e), NEW i \in DOMAIN ledger, ledger[i] = HistoryPage(e, p)
          PROVE  FALSE
      <3>1. ledger[i].role = "history" /\ ledger[i].of = e
        BY <2>1 DEF HistoryPage
      <3>2. PICK j \in 1..(i - 1) : ledger[j] = SearchPage(e)
        BY <2>1, <3>1 DEF DocInv, StoredOnce
      <3>3. j \in DOMAIN ledger
        <4>1. PICK S : ledger \in Seq(S)
          BY DEF DocInv, LedgerIs
        <4>2. Len(ledger) \in Nat /\ DOMAIN ledger = 1..Len(ledger)
          BY <4>1
        <4> QED  BY <2>1, <3>2, <4>2
      <3> QED  BY <1>2, <3>2, <3>3 DEF Stored
    <2>2. \A p : SearchPage(e) # HistoryPage(e, p)
      BY DEF SearchPage, HistoryPage
    <2> QED  BY <2>1, <2>2 DEF Stored
  <1>7. NextCandidate \/ (run' = [run EXCEPT !.page = 1] /\ 1 \in 1..Links(e))
    BY <1>2, <1>4
  <1> QED  BY <1>1, <1>2, <1>3, <1>5, <1>6, <1>7, DocGrown

LEMMA DocFetchHistory == DocInv /\ FetchHistory => DocInv'
  <1> SUFFICES ASSUME DocInv, FetchHistory  PROVE  DocInv'
    OBVIOUS
  <1>1. PICK k, e, p : k = run.at /\ e = KeyOf[k] /\ p = run.page
    OBVIOUS
  <1>2. /\ Grown(HistoryPage(e, p)) /\ run.command = "hr" /\ p > 0
        /\ NextCandidate \/ (p # Links(e) /\ run' = [run EXCEPT !.page = p + 1])
    <2>1. run' = [run EXCEPT !.page = @ + 1] => run' = [run EXCEPT !.page = p + 1]
      BY <1>1
    <2> QED  BY <1>1, <2>1 DEF FetchHistory, Grown
  <1>3. /\ k \in Nat \ {0} /\ k \in 1..Candidates /\ p \in 1..Links(e)
        /\ Stored(SearchPage(e)) /\ \A q \in 1..Links(e) : q >= p => ~ Stored(HistoryPage(e, q))
    BY <1>1, <1>2 DEF DocInv, AtPage
  <1>4. e \in Entities /\ Links(e) \in Nat
    BY <1>1, <1>3, KeyAssumption, LinksType
  <1>5. Fresh(ledger, HistoryPage(e, p))
    <2>1. IsDoc(HistoryPage(e, p))
      BY <1>3, <1>4 DEF IsDoc
    <2>2. HistoryPage(e, p).family = "hr" /\ HistoryPage(e, p).of = e
      BY DEF HistoryPage
    <2>3. ~ Stored(HistoryPage(e, p))
      BY <1>3, <1>4
    <2> QED  BY <1>3, <2>1, <2>2, <2>3 DEF Fresh, Stored
  <1>6. p # Links(e) => p + 1 \in 1..Links(e)
    BY <1>3, <1>4
  <1>7. \A q \in 1..Links(e) :
           q >= p + 1 => ~ Stored(HistoryPage(e, q)) /\ HistoryPage(e, p) # HistoryPage(e, q)
    <2>1. \A q : HistoryPage(e, p) = HistoryPage(e, q) => p = q
      BY DEF HistoryPage
    <2>2. \A q \in 1..Links(e) : q >= p + 1 => q >= p /\ q # p
      BY <1>3, <1>4
    <2> QED  BY <1>3, <2>1, <2>2
  <1> QED  BY <1>1, <1>2, <1>3, <1>5, <1>6, <1>7, DocGrown

LEMMA DocStep == DocInv /\ [Next]_vars => DocInv'
  <1> SUFFICES ASSUME DocInv, [Next]_vars  PROVE  DocInv'
    OBVIOUS
  <1>1. ASSUME NEW w, NEW r, Publish(w, r)
        PROVE  DocInv'
    BY <1>1 DEF Publish, DocInv, LedgerIs, RunIs, AtPage, Stored
  <1>2. ASSUME NEW first, NEW last, StartWeeks(first, last)
        PROVE  DocInv'
    BY <1>2, DocKept DEF StartWeeks, RunIs
  <1>3. CASE StartHr
    BY <1>3, DocKept DEF StartHr, RunIs
  <1>4. CASE run' = Idle /\ UNCHANGED ledger
    BY <1>4, DocKept DEF RunIs, Idle
  <1>5. CASE AlreadyHaveWeek \/ FailWeek
    <2>1. UNCHANGED ledger /\ run.command = "weeks" /\ \E role, status : NextWeek(role, status)
      BY <1>5 DEF AlreadyHaveWeek, FailWeek, AtWeek
    <2>2. PICK a, last, index : run = [command |-> "weeks", at |-> a, last |-> last, index |-> index]
      BY <2>1 DEF DocInv, RunIs
    <2>3. PICK role, status : NextWeek(role, status)
      BY <2>1
    <2>4. \E index2 : run' = [command |-> "weeks", at |-> a + 1, last |-> last, index |-> index2]
      BY <2>2, <2>3 DEF NextWeek
    <2>5. RunIs' /\ run'.command = "weeks"
      BY <2>4 DEF RunIs
    <2> QED  BY <2>1, <2>5, DocKept
  <1>6. CASE SkipCandidate \/ FailCandidate
    <2>1. UNCHANGED ledger /\ run.command = "hr" /\ NextCandidate
      BY <1>6 DEF SkipCandidate, FailCandidate, AtCandidate
    <2>2. run' = [command |-> "hr", at |-> run.at + 1, page |-> 0] /\ run.at \in Nat \ {0}
      BY <2>1, NextCandidateIs DEF DocInv, AtPage
    <2>3. RunIs' /\ run'.at \in Nat \ {0} /\ run'.page = 0
      BY <2>2 DEF RunIs
    <2> QED  BY <2>1, <2>3, DocKept
  <1>7. CASE UNCHANGED vars
    BY <1>7 DEF vars, DocInv, LedgerIs, RunIs, AtPage, Stored
  <1>8. FinishWeeks \/ FinishHr \/ Crash \/ CrashInIndex => run' = Idle /\ UNCHANGED ledger
    BY DEF FinishWeeks, FinishHr, Crash, CrashInIndex, Die
  <1>9. Next \/ UNCHANGED vars
    OBVIOUS
  <1> QED  BY <1>1, <1>2, <1>3, <1>4, <1>5, <1>6, <1>7, <1>8, <1>9,
              DocAcquireWeek, DocSearchEntity, DocFetchHistory DEF Next, WeekStep, HrStep

-----------------------------------------------------------------------------
(***************************************************************************)
(* weekly_ledger                                                           *)
(***************************************************************************)
\* A bulletin of a week reads as the acts of that week, each once, whichever
\* document it is and however it is laid out.
LayoutsAgree ==
    \A d \in DOMAIN Lines :
        /\ \E w \in 1..Weeks, r \in Roles : d = Bulletin(w, r)
        /\ RowsOfBulletin[d] \in Seq(Acts[d.of])
        /\ ToSet(RowsOfBulletin[d]) = Acts[d.of]
        /\ Len(RowsOfBulletin[d]) = Cardinality(Acts[d.of])

LEMMA WeekActsOnce ==
    ASSUME LayoutsAgree, StoredOnce(ledger), LedgerIs
    PROVE  ActsOnce
  <1>1. PICK S : ledger \in Seq(S)
    BY DEF LedgerIs
  <1> DEFINE rows == WeeklyLedger
             content == RowsOfBulletin
  <1>2. DOMAIN content = DOMAIN Lines
    BY DEF RowsOfBulletin
  <1>3. \A d \in DOMAIN content : /\ content[d] \in Seq(Acts[d.of])
                                  /\ ToSet(content[d]) = Acts[d.of]
                                  /\ Len(content[d]) = Cardinality(Acts[d.of])
                                  /\ d.family = "weekly"
    BY <1>2 DEF LayoutsAgree, Bulletin
  <1> HIDE DEF content
  <1>4. \A d \in DOMAIN content : content[d] \in Seq(ToSet(content[d]))
    BY <1>3
  <1>5. \A i, j \in DOMAIN ledger : ledger[i] \in DOMAIN content /\ ledger[i] = ledger[j] => i = j
    BY <1>3 DEF StoredOnce
  <1>6. RowsAre(RowsOf(ledger, content), ledger, content)
    BY <1>1, <1>4, <1>5, RowsOnce
  <1>7. RowsAre(rows, ledger, content)
    BY <1>6 DEF WeeklyLedger, content
  <1> HIDE DEF rows
  <1>8. ASSUME NEW w \in 1..Weeks, NEW own, own = RowsOfW(rows, w), own # {}
        PROVE  Cardinality(own) = Cardinality(Acts[w]) /\ {rows[n].row : n \in own} = Acts[w]
    <2>1. PICK m \in own : TRUE
      BY <1>8
    <2>2. PICK d : d = rows[m].doc
      OBVIOUS
    <2>3. m \in DOMAIN rows /\ d.of = w
      BY <1>8, <2>2 DEF RowsOfW
    <2>4. PICK i \in DOMAIN ledger : ledger[i] = d
      BY <1>7, <2>2, <2>3 DEF RowsAre
    <2>5. d \in DOMAIN content
      BY <1>7, <2>2, <2>3 DEF RowsAre
    <2>6. ASSUME NEW n \in own
          PROVE  rows[n].doc = d
      <3>1. n \in DOMAIN rows /\ rows[n].doc.of = w
        BY <1>8 DEF RowsOfW
      <3>2. rows[n].doc \in DOMAIN content
        BY <1>7, <3>1 DEF RowsAre
      <3>3. PICK j \in DOMAIN ledger : ledger[j] = rows[n].doc
        BY <1>7, <3>1 DEF RowsAre
      <3>4. i = j
        BY <1>3, <2>3, <2>4, <2>5, <3>1, <3>2, <3>3 DEF StoredOnce
      <3> QED  BY <2>4, <3>3, <3>4
    <2>7. Len(content[d]) \in Nat /\ DOMAIN content[d] = 1..Len(content[d])
      BY <1>3, <2>5
    <2>8. OneDocument(rows, ledger, content, w, d)
      BY <1>7, <1>8, <2>6, <2>7 DEF OneDocument
    <2>9. ReadsAs(rows, own, content[d])
      BY <1>8, <2>8, RowsOfWeek
    <2>10. {rows[n].row : n \in own} = ToSet(content[d])
      BY <2>9 DEF ReadsAs
    <2> QED  BY <1>3, <2>3, <2>5, <2>9, <2>10 DEF ReadsAs
  <1>9. \A w \in 1..Weeks :
            LET own == {n \in DOMAIN rows : rows[n].doc.of = w}
            IN  own # {} => /\ Cardinality(own) = Cardinality(Acts[w])
                            /\ {rows[n].row : n \in own} = Acts[w]
    BY <1>8 DEF RowsOfW
  <1> QED  BY <1>9 DEF ActsOnce, rows

\* weekly_ledger over what acquire_weeks stored: when each bulletin reads as the acts
\* of its week, a week's acts are in the ledger once, however often the crawls fail,
\* are killed and are run again while CNMV publishes the week's other document.
THEOREM WeeksEnterOnce == ASSUME LayoutsAgree PROVE Spec => []ActsOnce
  <1>1. DocInv => ActsOnce
    BY WeekActsOnce DEF DocInv
  <1> QED  BY <1>1, DocInit, DocStep, PTL DEF Spec

-----------------------------------------------------------------------------
(***************************************************************************)
(* hr_ledger and _link_hr_corrections                                      *)
(***************************************************************************)
\* With all pages of all funds at hand, the corrections are linked as they are meant.
CorrectionsOfAllPages ==
    \A o \in DOMAIN Corrected :
        o \in Notices(DOMAIN Page, Page) => Correction(DOMAIN Page, Page, o) = Corrected[o]

\* What is stored of the relevant information has a content.
LEMMA StoredPages ==
    ASSUME StoredOnce(ledger), NEW i \in DOMAIN ledger, ledger[i].family = "hr"
    PROVE  ledger[i] \in DOMAIN Page
  <1>1. IsDoc(ledger[i])
    BY DEF StoredOnce
  <1>2. \A w, r : Bulletin(w, r).family = "weekly"
    BY DEF Bulletin
  <1> QED  BY <1>1, <1>2, PageAssumption DEF IsDoc

\* The notices of a fund whose pages are all stored are those of all its pages.
LEMMA NoticesOfWhole ==
    ASSUME StoredOnce(ledger), NEW e, Whole(e), NEW t, t[1].of = e
    PROVE  t \in Notices(ToSet(ledger), Page) <=> t \in Notices(DOMAIN Page, Page)
  <1>1. \A d : (d \in ToSet(ledger) /\ d.family = "hr") => d \in DOMAIN Page
    BY StoredPages DEF ToSet
  <1>2. \A d \in DOMAIN Page : d.of = e => d \in ToSet(ledger)
    BY DEF Whole, Stored, ToSet
  <1>3. ASSUME NEW docs
        PROVE  t \in Notices(docs, Page) <=>
                   \E d \in docs : /\ d.family = "hr"
                                   /\ t \in {d} \X DOMAIN Page[d].notices
    BY DEF Notices
  <1>4. \A d : t \in {d} \X DOMAIN Page[d].notices => d = t[1]
    OBVIOUS
  <1> QED  BY <1>1, <1>2, <1>3, <1>4

LEMMA CorrectionOfWhole ==
    ASSUME StoredOnce(ledger), NEW o, Whole(o[1].of)
    PROVE  Correction(ToSet(ledger), Page, o) = Correction(DOMAIN Page, Page, o)
  <1>1. Targets(ToSet(ledger), Page, o) = Targets(DOMAIN Page, Page, o)
    BY NoticesOfWhole DEF Targets
  <1> QED  BY <1>1 DEF Correction

\* The rows of a page are a sequence.
LEMMA PageRowsType ==
    ASSUME NEW d \in DOMAIN RowsOfPage
    PROVE  RowsOfPage[d] \in Seq(ToSet(RowsOfPage[d]))
  <1> DEFINE page == Page[d]
  <1>1. d \in DOMAIN Page /\ RowsOfPage[d] = PageRows(d.of, page)
    BY DEF RowsOfPage
  <1>2. Len(page.notices) \in Nat /\ DOMAIN page.notices = 1..Len(page.notices)
    <2>1. page.notices \in Seq(ToSet(page.notices))
      BY <1>1, PageAssumption
    <2> QED  BY <2>1
  <1> HIDE DEF page
  <1>3. ASSUME NEW words
        PROVE  \E T : NoticeTypes(words) \in Seq(T)
    <2> DEFINE T == {"DISSOLUTION_AGREED", "LIQUIDATION_EXECUTED"}
               a == IF "disoluci" \in words THEN <<"DISSOLUTION_AGREED">> ELSE <<>>
               b == IF "liquidaci" \in words THEN <<"LIQUIDATION_EXECUTED">> ELSE <<>>
    <2>1. EndStages(words) = a \o b
      BY DEF EndStages
    <2>2. a \in Seq(T) /\ b \in Seq(T)
      <3>1. \A Y : <<>> \in Seq(Y) /\ \A x \in Y : <<x>> \in Seq(Y)
        OBVIOUS
      <3>2. "disoluci" \in words \/ a = <<>>
        OBVIOUS
      <3>3. "disoluci" \in words => a = <<"DISSOLUTION_AGREED">>
        OBVIOUS
      <3>4. b = <<>> \/ b = <<"LIQUIDATION_EXECUTED">>
        OBVIOUS
      <3>5. "DISSOLUTION_AGREED" \in T /\ "LIQUIDATION_EXECUTED" \in T
        OBVIOUS
      <3> HIDE DEF a, b, T
      <3> QED  BY <3>1, <3>2, <3>3, <3>4, <3>5
    <2> HIDE DEF a, b, T
    <2>3. EndStages(words) \in Seq(T)
      BY <2>1, <2>2
    <2>4. \A x : <<x>> \in Seq({x})
      OBVIOUS
    <2>5. CASE NoticeTypes(words) = EndStages(words)
      BY <2>3, <2>5
    <2>6. CASE \E x : NoticeTypes(words) = <<x>>
      BY <2>4, <2>6
    <2> QED  BY <2>5, <2>6 DEF NoticeTypes
  <1> DEFINE fund == IF ResolutionState(d.of, page) = "EXACT_REGNUM_CORROBORATED" THEN d.of ELSE None
             rows(o) == [k \in DOMAIN NoticeTypes(o.words) |->
                           [type |-> NoticeTypes(o.words)[k], family |-> "hr", regs |-> ToSet(o.regs),
                            succ |-> ToSet(o.succ), subject |-> NoticeSubject(o),
                            object |-> First(o.succ),
                            named |-> o.por /\ o.succ = <<>>, entity |-> fund]]
             s == [n \in DOMAIN page.notices |-> rows(page.notices[n])]
             R == UNION {ToSet(s[n]) : n \in DOMAIN s}
  <1>4. PageRows(d.of, page) = FlattenSeq(s)
    BY DEF PageRows
  <1>5. \A o : rows(o) \in Seq(ToSet(rows(o)))
    <2> SUFFICES ASSUME NEW o  PROVE  rows(o) \in Seq(ToSet(rows(o)))
      OBVIOUS
    <2>1. PICK T : NoticeTypes(o.words) \in Seq(T)
      BY <1>3
    <2>2. PICK m \in Nat : DOMAIN NoticeTypes(o.words) = 1..m
      BY <2>1
    <2>3. PICK g : g = rows(o)
      OBVIOUS
    <2>4. g = [k \in 1..m |-> g[k]]
      BY <2>2, <2>3
    <2> HIDE DEF rows
    <2>5. g \in Seq(ToSet(g))
      BY <2>4 DEF ToSet
    <2> QED  BY <2>3, <2>5
  <1> HIDE DEF rows
  <1>6. Len(s) = Len(page.notices) /\ DOMAIN s = 1..Len(s)
    BY <1>2
  <1>7. \A n \in 1..Len(s) : s[n] \in Seq(ToSet(s[n]))
    BY <1>2, <1>5, <1>6
  <1>8. Len(s) = 0 => s = <<>>
    BY <1>2, <1>6
  <1> HIDE DEF s
  <1>9. \A n \in 1..Len(s) : s[n] \in Seq(R)
    <2> SUFFICES ASSUME NEW n \in 1..Len(s)  PROVE  s[n] \in Seq(R)
      OBVIOUS
    <2>1. ToSet(s[n]) \subseteq R
      BY <1>6
    <2> QED  BY <1>7, <2>1
  <1> HIDE DEF R
  <1>10. Len(s) \in Nat
    BY <1>2, <1>6
  <1>11. FlattenSeq(s) \in Seq(R)
    BY <1>6, <1>8, <1>9, <1>10, FlatVisits
  <1>12. \A f \in Seq(R) : f \in Seq(ToSet(f))
    BY DEF ToSet
  <1> QED  BY <1>1, <1>4, <1>11, <1>12

LEMMA PageNoticesOnce ==
    ASSUME CorrectionsOfAllPages, StoredOnce(ledger), LedgerIs
    PROVE  NoticesOnce
  <1>1. PICK S : ledger \in Seq(S)
    BY DEF LedgerIs
  <1> DEFINE rows == HrLedger
             content == RowsOfPage
             docs == ToSet(ledger)
  <1>2. \A i, j \in DOMAIN ledger : ledger[i] \in DOMAIN content /\ ledger[i] = ledger[j] => i = j
    <2>1. \A i \in DOMAIN ledger : ledger[i].family \in {"weekly", "hr"}
      BY DEF StoredOnce, IsDoc, Bulletin, SearchPage, HistoryPage
    <2> QED  BY <2>1 DEF StoredOnce
  <1>3. \A d \in DOMAIN content : content[d] \in Seq(ToSet(content[d]))
    BY PageRowsType
  <1> HIDE DEF content
  <1>4. RowsAre(RowsOf(ledger, content), ledger, content)
    BY <1>1, <1>2, <1>3, RowsOnce
  <1>5. RowsAre(rows, ledger, content)
    BY <1>4 DEF HrLedger, content
  <1> HIDE DEF rows
  <1>6. Cardinality(ToSet(rows)) = Len(rows)
    BY <1>5, DistinctCount DEF RowsAre
  <1>7. \A i \in DOMAIN ledger : ledger[i].role = "history" =>
           \E j \in 1..(i - 1) : ledger[j] = SearchPage(ledger[i].of)
    BY DEF StoredOnce
  <1>8. ASSUME NEW o \in DOMAIN Corrected, o \in Notices(docs, Page), Whole(o[1].of)
        PROVE  Correction(docs, Page, o) = Corrected[o]
    <2>1. o \in Notices(DOMAIN Page, Page)
      BY <1>8, NoticesOfWhole
    <2>2. Correction(docs, Page, o) = Correction(DOMAIN Page, Page, o)
      BY <1>8, CorrectionOfWhole
    <2> QED  BY <2>1, <2>2 DEF CorrectionsOfAllPages
  <1> QED  BY <1>6, <1>7, <1>8 DEF NoticesOnce, rows

\* hr_ledger over what acquire_hr stored: each notice once, a history page behind the
\* search page that links it, and the corrections of a fund whose pages are all
\* stored are linked as with all pages of all funds at hand.
THEOREM NoticesEnterOnce == ASSUME CorrectionsOfAllPages PROVE Spec => []NoticesOnce
  <1>1. DocInv => NoticesOnce
    BY PageNoticesOnce DEF DocInv
  <1> QED  BY <1>1, DocInit, DocStep, PTL DEF Spec

-----------------------------------------------------------------------------
(***************************************************************************)
(* _units: what reading a bulletin line by line keeps                      *)
(***************************************************************************)
\* The lines of a bulletin's fund section, of the kinds the parser tells apart
LineKinds == {"header", "noise", "verb", "number", "name", "text"}
AreLines(lines) ==
    /\ Len(lines) \in Nat /\ DOMAIN lines = 1..Len(lines)
    /\ \A n \in DOMAIN lines : lines[n].is \in LineKinds

\* A state of the reader
Reader(units, table, names, prose, number, row) ==
    [units |-> units, table |-> table, names |-> names, prose |-> prose,
     number |-> number, row |-> row]

IsSeq(s) == Len(s) \in Nat /\ s \in Seq(ToSet(s))

VerbsUpTo(lines, n) == {m \in 1..n : lines[m].is = "verb"}

\* The acts of units are headed by the lines V, each by its own and in their order,
\* and have no other verb.
Heads(units, lines, V, h) ==
    /\ \A m \in V : /\ h[m] \in DOMAIN units /\ units[h[m]].kind = "prose_act"
                    /\ units[h[m]].lines[1] = lines[m]
                    /\ \A j \in 2..Len(units[h[m]].lines) : units[h[m]].lines[j].is # "verb"
    /\ \A m, o \in V : m < o => h[m] < h[o]
    /\ \A k \in DOMAIN units : units[k].kind = "prose_act" => \E m \in V : h[m] = k

\* A unit has the printed number of a line, as its own or on a line.
Has(unit, line) ==
    \/ unit.number = line.number
    \/ \E j \in 1..Len(unit.lines) : unit.lines[j] = line

\* The numbers among the first n lines are in the units, in the act or its subject.
NumbersKept(units, prose, number, lines, n) ==
    \A m \in 1..n : lines[m].is = "number" =>
        \/ \E k \in DOMAIN units : Has(units[k], lines[m])
        \/ prose # <<>> /\ number = lines[m].number
        \/ \E j \in 1..Len(prose) : prose[j] = lines[m]

\* The row that an act may take has its number on one line.
RowIs(units, row) ==
    row # 0 => /\ row \in 1..Len(units) /\ units[row].kind = "table_row"
               /\ \A j \in 1..Len(units[row].lines) :
                     units[row].lines[j].is = "number" => units[row].lines[j].number = units[row].number

\* The act that is open, from its verb on
ActIs(units, prose, lines, n) ==
    \/ prose = <<>> /\ \E h : Heads(units, lines, VerbsUpTo(lines, n), h)
    \/ /\ prose # <<>>
       /\ \E v \in VerbsUpTo(lines, n) :
             /\ prose[1] = lines[v] /\ \A j \in 2..Len(prose) : prose[j].is # "verb"
             /\ \A m \in VerbsUpTo(lines, n) : m <= v
             /\ \E h : Heads(units, lines, VerbsUpTo(lines, n) \ {v}, h)

Reads(units, names, prose, number, row, lines, n) ==
    /\ IsSeq(units) /\ IsSeq(names) /\ IsSeq(prose)
    /\ \A j \in 1..Len(names) : names[j].is # "number"
    /\ prose # <<>> => row = 0
    /\ RowIs(units, row)
    /\ ActIs(units, prose, lines, n)
    /\ NumbersKept(units, prose, number, lines, n)

IsRead(s, lines, n) ==
    \E units, table, names, prose, number, row :
        /\ s = Reader(units, table, names, prose, number, row)
        /\ Reads(units, names, prose, number, row, lines, n)

\* Sequences with an element more or less
LEMMA AppendIs ==
    ASSUME NEW s, IsSeq(s), NEW x
    PROVE  /\ IsSeq(Append(s, x)) /\ Len(Append(s, x)) = Len(s) + 1
           /\ DOMAIN s = 1..Len(s) /\ DOMAIN Append(s, x) = 1..(Len(s) + 1)
           /\ \A i \in 1..Len(s) : Append(s, x)[i] = s[i]
           /\ Append(s, x)[Len(s) + 1] = x
           /\ Append(s, x) # <<>>
  <1>1. PICK S : s \in Seq(S)
    BY DEF IsSeq
  <1>2. s \in Seq(S \cup {x})
    BY <1>1
  <1>3. Append(s, x) \in Seq(S \cup {x})
    BY <1>2
  <1>4. \A t \in Seq(S \cup {x}) : IsSeq(t)
    BY DEF IsSeq, ToSet
  <1>5. /\ Len(Append(s, x)) = Len(s) + 1 /\ Len(s) \in Nat
        /\ DOMAIN s = 1..Len(s) /\ DOMAIN Append(s, x) = 1..(Len(s) + 1)
    BY <1>1
  <1>6. \A i \in 1..Len(s) : Append(s, x)[i] = s[i]
    BY <1>1
  <1>7. Append(s, x)[Len(s) + 1] = x
    BY <1>1
  <1>8. Append(s, x) # <<>>
    <2>1. Len(s) + 1 # 0
      BY <1>5
    <2>2. Len(Append(s, x)) # 0 /\ Len(<<>>) = 0
      BY <1>5, <2>1
    <2> QED  BY <2>2
  <1> QED  BY <1>3, <1>4, <1>5, <1>6, <1>7, <1>8

LEMMA SubSeqIs ==
    ASSUME NEW s, IsSeq(s), NEW a \in Nat \ {0}, NEW b \in Nat, b <= Len(s)
    PROVE  /\ IsSeq(SubSeq(s, a, b))
           /\ Len(SubSeq(s, a, b)) = IF a <= b THEN b - a + 1 ELSE 0
           /\ \A i \in 1..Len(SubSeq(s, a, b)) : SubSeq(s, a, b)[i] = s[a + i - 1]
  <1>1. PICK S : s \in Seq(S)
    BY DEF IsSeq
  <1>2. SubSeq(s, a, b) \in Seq(S)
    BY <1>1
  <1>3. \A t \in Seq(S) : IsSeq(t)
    BY DEF IsSeq, ToSet
  <1>4. Len(SubSeq(s, a, b)) = IF a <= b THEN b - a + 1 ELSE 0
    BY <1>1
  <1>5. ASSUME NEW i \in 1..Len(SubSeq(s, a, b))
        PROVE  SubSeq(s, a, b)[i] = s[a + i - 1]
    <2>1. a <= b /\ i \in 1..(b - a + 1)
      BY <1>4
    <2> QED  BY <1>1, <2>1
  <1> QED  BY <1>2, <1>3, <1>4, <1>5

\* The sequence without its element r
LEMMA RemoveIs ==
    ASSUME NEW s, IsSeq(s), NEW r \in 1..Len(s)
    PROVE  /\ IsSeq(RemoveAt(s, r)) /\ Len(RemoveAt(s, r)) = Len(s) - 1
           /\ DOMAIN s = 1..Len(s) /\ DOMAIN RemoveAt(s, r) = 1..(Len(s) - 1)
           /\ \A i \in 1..(Len(s) - 1) : RemoveAt(s, r)[i] = IF i < r THEN s[i] ELSE s[i + 1]
  <1> DEFINE a == SubSeq(s, 1, r - 1)
             b == SubSeq(s, r + 1, Len(s))
  <1>1. PICK S : s \in Seq(S)
    BY DEF IsSeq
  <1>2. Len(s) \in Nat /\ r \in Nat /\ r - 1 \in Nat /\ r + 1 \in Nat \ {0}
    BY <1>1
  <1>3. a \in Seq(S) /\ b \in Seq(S)
    BY <1>1, <1>2
  <1>4. /\ Len(a) = r - 1 /\ \A i \in 1..Len(a) : a[i] = s[i]
    <2>1. /\ Len(a) = IF 1 <= r - 1 THEN (r - 1) - 1 + 1 ELSE 0
          /\ \A i \in 1..Len(a) : a[i] = s[1 + i - 1]
      BY <1>2, SubSeqIs
    <2> HIDE DEF a
    <2> QED  BY <1>2, <2>1
  <1>5. /\ Len(b) = Len(s) - r /\ \A i \in 1..Len(b) : b[i] = s[r + i]
    <2>1. /\ Len(b) = IF r + 1 <= Len(s) THEN Len(s) - (r + 1) + 1 ELSE 0
          /\ \A i \in 1..Len(b) : b[i] = s[(r + 1) + i - 1]
      BY <1>2, SubSeqIs
    <2> HIDE DEF b
    <2>2. \A i \in 1..Len(b) : (r + 1) + i - 1 = r + i
      BY <1>2, <1>3
    <2>3. Len(b) = Len(s) - r
      BY <1>2, <2>1
    <2> QED  BY <2>1, <2>2, <2>3
  <1>6. RemoveAt(s, r) = a \o b
    BY DEF RemoveAt
  <1> HIDE DEF a, b
  <1>7. a \o b \in Seq(S) /\ Len(a \o b) = Len(s) - 1
    <2>1. a \o b \in Seq(S) /\ Len(a \o b) = Len(a) + Len(b)
      BY <1>3
    <2>2. Len(a) = r - 1 /\ Len(b) = Len(s) - r
      BY <1>4, <1>5
    <2>3. (r - 1) + (Len(s) - r) = Len(s) - 1
      BY <1>2
    <2> QED  BY <2>1, <2>2, <2>3
  <1>8. \A t \in Seq(S) : IsSeq(t) /\ DOMAIN t = 1..Len(t)
    BY DEF IsSeq, ToSet
  <1>9. ASSUME NEW i \in 1..(Len(s) - 1)
        PROVE  (a \o b)[i] = IF i < r THEN s[i] ELSE s[i + 1]
    <2>1. CASE i < r
      <3>1. i \in 1..Len(a)
        BY <1>2, <1>4, <2>1
      <3>2. (a \o b)[i] = a[i]
        BY <1>3, <3>1
      <3> QED  BY <1>4, <2>1, <3>1, <3>2
    <2>2. CASE ~ i < r
      <3>1. i - Len(a) \in 1..Len(b) /\ i > Len(a) /\ i \in 1..(Len(a) + Len(b))
        BY <1>2, <1>4, <1>5, <2>2
      <3>2. (a \o b)[i] = b[i - Len(a)]
        BY <1>3, <3>1
      <3>3. r + (i - Len(a)) = i + 1
        BY <1>2, <1>4
      <3> QED  BY <1>5, <2>2, <3>1, <3>2, <3>3
    <2> QED  BY <2>1, <2>2
  <1> QED  BY <1>1, <1>6, <1>7, <1>8, <1>9

-----------------------------------------------------------------------------
\* A unit that is no act leaves the heads as they are.
LEMMA HeadsOther ==
    ASSUME NEW units, IsSeq(units), NEW lines, NEW V, NEW h, Heads(units, lines, V, h),
           NEW u, u.kind # "prose_act"
    PROVE  Heads(Append(units, u), lines, V, h)
  <1> DEFINE more == Append(units, u)
  <1>1. /\ DOMAIN units = 1..Len(units) /\ Len(units) \in Nat
        /\ DOMAIN more = 1..(Len(units) + 1)
        /\ \A i \in 1..Len(units) : more[i] = units[i]
        /\ more[Len(units) + 1] = u
    BY AppendIs DEF IsSeq
  <1> HIDE DEF more
  <1>2. \A k \in DOMAIN more : k \in DOMAIN units \/ more[k] = u
    BY <1>1
  <1>3. \A k \in DOMAIN units : k \in DOMAIN more /\ more[k] = units[k]
    BY <1>1
  <1>4. Heads(more, lines, V, h)
    BY <1>2, <1>3 DEF Heads
  <1> QED  BY <1>4 DEF more

\* An act behind the others is headed by the latest verb.
LEMMA HeadsAct ==
    ASSUME NEW units, IsSeq(units), NEW lines, NEW V, NEW h, Heads(units, lines, V, h),
           NEW v \in Int, V \subseteq Int, \A m \in V : m < v,
           NEW u, u.kind = "prose_act", u.lines[1] = lines[v],
           \A j \in 2..Len(u.lines) : u.lines[j].is # "verb"
    PROVE  \E g : Heads(Append(units, u), lines, V \cup {v}, g)
  <1> DEFINE more == Append(units, u)
             N == Len(units)
             g == [m \in V \cup {v} |-> IF m = v THEN N + 1 ELSE h[m]]
  <1>1. /\ DOMAIN units = 1..N /\ N \in Nat
        /\ DOMAIN more = 1..(N + 1)
        /\ \A i \in 1..N : more[i] = units[i]
        /\ more[N + 1] = u
    BY AppendIs DEF IsSeq
  <1>2. v \notin V
    OBVIOUS
  <1>3. g[v] = N + 1 /\ \A m \in V : g[m] = h[m]
    BY <1>2
  <1> HIDE DEF more, g, N
  <1>4. \A m \in V : h[m] \in 1..N /\ h[m] < N + 1
    BY <1>1 DEF Heads
  <1>5. ASSUME NEW m \in V \cup {v}
        PROVE  /\ g[m] \in DOMAIN more /\ more[g[m]].kind = "prose_act"
               /\ more[g[m]].lines[1] = lines[m]
               /\ \A j \in 2..Len(more[g[m]].lines) : more[g[m]].lines[j].is # "verb"
    <2>1. CASE m = v
      BY <1>1, <1>3, <2>1
    <2>2. CASE m \in V
      <3>2. g[m] = h[m] /\ h[m] \in 1..N
        BY <1>3, <1>4, <2>2
      <3>3. h[m] \in 1..(N + 1)
        BY <1>1, <3>2
      <3>1. g[m] = h[m] /\ h[m] \in DOMAIN units /\ g[m] \in DOMAIN more /\ more[g[m]] = units[h[m]]
        BY <1>1, <3>2, <3>3
      <3> QED  BY <2>2, <3>1 DEF Heads
    <2> QED  BY <2>1, <2>2
  <1>6. \A m, o \in V \cup {v} : m < o => g[m] < g[o]
    <2> SUFFICES ASSUME NEW m \in V \cup {v}, NEW o \in V \cup {v}, m < o
                 PROVE  g[m] < g[o]
      OBVIOUS
    <2>1. m \in V
      OBVIOUS
    <2>2. CASE o = v
      BY <1>3, <1>4, <2>1, <2>2
    <2>3. CASE o \in V
      BY <1>3, <2>1, <2>3 DEF Heads
    <2> QED  BY <2>2, <2>3
  <1>7. \A k \in DOMAIN more : more[k].kind = "prose_act" => \E m \in V \cup {v} : g[m] = k
    <2> SUFFICES ASSUME NEW k \in DOMAIN more, more[k].kind = "prose_act"
                 PROVE  \E m \in V \cup {v} : g[m] = k
      OBVIOUS
    <2>1. CASE k = N + 1
      BY <1>3, <2>1
    <2>2. CASE k # N + 1
      <3>1. k \in DOMAIN units /\ units[k].kind = "prose_act"
        BY <1>1, <2>2
      <3>2. PICK m \in V : h[m] = k
        BY <3>1 DEF Heads
      <3> QED  BY <1>3, <3>2
    <2> QED  BY <2>1, <2>2
  <1>8. Heads(more, lines, V \cup {v}, g)
    BY <1>5, <1>6, <1>7 DEF Heads
  <1> QED  BY <1>8 DEF more

\* A row that is taken away is no act: the acts close up behind it.
LEMMA HeadsRemove ==
    ASSUME NEW units, IsSeq(units), NEW lines, NEW V, NEW h, Heads(units, lines, V, h),
           NEW r \in 1..Len(units), units[r].kind # "prose_act"
    PROVE  \E g : Heads(RemoveAt(units, r), lines, V, g)
  <1> DEFINE less == RemoveAt(units, r)
             N == Len(units)
             g == [m \in V |-> IF h[m] < r THEN h[m] ELSE h[m] - 1]
  <1>1. /\ DOMAIN units = 1..N /\ N \in Nat /\ r \in 1..N
        /\ DOMAIN less = 1..(N - 1)
        /\ \A i \in 1..(N - 1) : less[i] = IF i < r THEN units[i] ELSE units[i + 1]
    BY RemoveIs DEF IsSeq
  <1>2. \A m \in V : g[m] = IF h[m] < r THEN h[m] ELSE h[m] - 1
    OBVIOUS
  <1> HIDE DEF less, g, N
  <1>3. ASSUME NEW m \in V
        PROVE  h[m] \in 1..N /\ h[m] # r /\ g[m] \in 1..(N - 1) /\ less[g[m]] = units[h[m]]
    <2>1. h[m] \in 1..N /\ h[m] # r
      BY <1>1 DEF Heads
    <2>2. CASE h[m] < r
      <3>1. g[m] = h[m] /\ h[m] \in 1..(N - 1)
        BY <1>1, <1>2, <2>1, <2>2
      <3> QED  BY <1>1, <2>1, <2>2, <3>1
    <2>3. CASE ~ h[m] < r
      <3>1. g[m] = h[m] - 1 /\ g[m] \in 1..(N - 1) /\ ~ g[m] < r /\ g[m] + 1 = h[m]
        BY <1>1, <1>2, <2>1, <2>3
      <3> QED  BY <1>1, <2>1, <3>1
    <2> QED  BY <2>2, <2>3
  <1>4. \A m \in V : /\ g[m] \in DOMAIN less /\ less[g[m]].kind = "prose_act"
                     /\ less[g[m]].lines[1] = lines[m]
                     /\ \A j \in 2..Len(less[g[m]].lines) : less[g[m]].lines[j].is # "verb"
    BY <1>1, <1>3 DEF Heads
  <1>5. \A m, o \in V : m < o => g[m] < g[o]
    <2> SUFFICES ASSUME NEW m \in V, NEW o \in V, m < o
                 PROVE  g[m] < g[o]
      OBVIOUS
    <2>1. h[m] < h[o]
      BY DEF Heads
    <2>2. h[m] \in 1..N /\ h[m] # r /\ h[o] \in 1..N /\ h[o] # r
      BY <1>3
    <2> QED  BY <1>1, <1>2, <2>1, <2>2
  <1>6. \A k \in DOMAIN less : less[k].kind = "prose_act" => \E m \in V : g[m] = k
    <2> SUFFICES ASSUME NEW k \in DOMAIN less, less[k].kind = "prose_act"
                 PROVE  \E m \in V : g[m] = k
      OBVIOUS
    <2>1. PICK i \in DOMAIN units : less[k] = units[i] /\ i = IF k < r THEN k ELSE k + 1
      <3>1. CASE k < r
        BY <1>1, <3>1
      <3>2. CASE ~ k < r
        <4>1. k + 1 \in DOMAIN units /\ less[k] = units[k + 1]
          BY <1>1, <3>2
        <4> QED  BY <3>2, <4>1
      <3> QED  BY <3>1, <3>2
    <2>2. PICK m \in V : h[m] = i
      BY <2>1 DEF Heads
    <2>3. k \in Int /\ r \in Int
      BY <1>1
    <2>4. g[m] = IF i < r THEN i ELSE i - 1
      BY <1>2, <2>2
    <2>5. (IF i < r THEN i ELSE i - 1) = k
      BY <2>1, <2>3
    <2> QED  BY <2>2, <2>4, <2>5
  <1>7. Heads(less, lines, V, g)
    BY <1>4, <1>5, <1>6 DEF Heads
  <1> QED  BY <1>7 DEF less

(***************************************************************************)
(* A line is read                                                          *)
(***************************************************************************)
\* The states that flush_orphan and flush_prose give
LEMMA FlushNamesIs ==
    ASSUME NEW u, NEW t, NEW nm, NEW p, NEW x, NEW r
    PROVE  FlushNames(Reader(u, t, nm, p, x, r)) =
               Reader(IF nm = <<>> THEN u ELSE Append(u, Unit("verbatim", None, None, nm)),
                      t, <<>>, p, x, r)
  BY DEF FlushNames, Reader

LEMMA FlushProseIs ==
    ASSUME NEW u, NEW t, NEW nm, NEW p, NEW x, NEW r
    PROVE  FlushProse(Reader(u, t, nm, p, x, r)) =
               Reader(IF p = <<>> THEN u ELSE Append(u, Unit("prose_act", x, None, p)),
                      t, nm, <<>>, IF p = <<>> THEN x ELSE None, r)
  BY DEF FlushProse, Reader

\* Numbers that are kept are kept by more units.
LEMMA KeptByMore ==
    ASSUME NEW units, IsSeq(units), NEW u, NEW prose, NEW number, NEW lines, NEW n,
           NumbersKept(units, prose, number, lines, n)
    PROVE  NumbersKept(Append(units, u), prose, number, lines, n)
  <1>1. \A k \in DOMAIN units : k \in DOMAIN Append(units, u) /\ Append(units, u)[k] = units[k]
    <2>1. /\ DOMAIN units = 1..Len(units) /\ Len(units) \in Nat
          /\ DOMAIN Append(units, u) = 1..(Len(units) + 1)
          /\ \A i \in 1..Len(units) : Append(units, u)[i] = units[i]
      BY AppendIs DEF IsSeq
    <2>2. 1..Len(units) \subseteq 1..(Len(units) + 1)
      BY <2>1
    <2> QED  BY <2>1, <2>2
  <1> QED  BY <1>1 DEF NumbersKept

LEMMA RowOfMore ==
    ASSUME NEW units, IsSeq(units), NEW u, NEW row, RowIs(units, row)
    PROVE  RowIs(Append(units, u), row)
  <1>1. /\ Len(Append(units, u)) = Len(units) + 1 /\ Len(units) \in Nat
        /\ \A i \in 1..Len(units) : Append(units, u)[i] = units[i]
    BY AppendIs DEF IsSeq
  <1>2. 1..Len(units) \subseteq 1..Len(Append(units, u))
    BY <1>1
  <1> QED  BY <1>1, <1>2 DEF RowIs

\* A unit that is no act is put behind the others.
LEMMA ReadsOther ==
    ASSUME NEW units, NEW names, NEW prose, NEW number, NEW row, NEW lines, NEW n,
           Reads(units, names, prose, number, row, lines, n),
           NEW u, u.kind # "prose_act",
           NEW others, IsSeq(others), \A j \in 1..Len(others) : others[j].is # "number"
    PROVE  Reads(Append(units, u), others, prose, number, row, lines, n)
  <1>1. IsSeq(units) /\ IsSeq(Append(units, u))
    BY AppendIs DEF Reads
  <1>2. ActIs(Append(units, u), prose, lines, n)
    BY <1>1, HeadsOther DEF ActIs, Reads
  <1>3. RowIs(Append(units, u), row) /\ NumbersKept(Append(units, u), prose, number, lines, n)
    BY <1>1, KeptByMore, RowOfMore DEF Reads
  <1> QED  BY <1>1, <1>2, <1>3 DEF Reads

LEMMA EmptyIs == IsSeq(<<>>) /\ Len(<<>>) = 0
  BY DEF IsSeq

LEMMA ReadsFlushNames ==
    ASSUME NEW u, NEW nm, NEW p, NEW x, NEW r, NEW lines, NEW n, Reads(u, nm, p, x, r, lines, n)
    PROVE  Reads(IF nm = <<>> THEN u ELSE Append(u, Unit("verbatim", None, None, nm)),
                 <<>>, p, x, r, lines, n)
  <1>1. IsSeq(<<>>) /\ \A j \in 1..Len(<<>>) : <<>>[j].is # "number"
    BY EmptyIs
  <1>2. CASE nm = <<>>
    BY <1>1, <1>2 DEF Reads
  <1>3. CASE nm # <<>>
    <2>1. Unit("verbatim", None, None, nm).kind # "prose_act"
      BY DEF Unit
    <2> QED  BY <1>1, <1>3, <2>1, ReadsOther
  <1> QED  BY <1>2, <1>3

\* The act that is open becomes a unit.
LEMMA ReadsFlushProse ==
    ASSUME NEW u, NEW nm, NEW p, NEW x, NEW r, NEW lines, NEW n, n \in Nat,
           Reads(u, nm, p, x, r, lines, n)
    PROVE  Reads(IF p = <<>> THEN u ELSE Append(u, Unit("prose_act", x, None, p)),
                 nm, <<>>, IF p = <<>> THEN x ELSE None, r, lines, n)
  <1>1. CASE p = <<>>
    BY <1>1
  <1>2. CASE p # <<>>
    <2> DEFINE act == Unit("prose_act", x, None, p)
               more == Append(u, act)
    <2>1. IsSeq(u) /\ IsSeq(nm) /\ IsSeq(p) /\ IsSeq(more) /\ IsSeq(<<>>) /\ r = 0
      BY <1>2, AppendIs, EmptyIs DEF Reads
    <2>2. act.kind = "prose_act" /\ act.lines = p /\ act.number = x
      BY DEF Unit
    <2> HIDE DEF act
    <2>3. \E g : Heads(more, lines, VerbsUpTo(lines, n), g)
      <3>1. PICK v \in VerbsUpTo(lines, n) :
               /\ p[1] = lines[v] /\ \A j \in 2..Len(p) : p[j].is # "verb"
               /\ \A m \in VerbsUpTo(lines, n) : m <= v
               /\ \E h : Heads(u, lines, VerbsUpTo(lines, n) \ {v}, h)
        BY <1>2 DEF Reads, ActIs
      <3>2. PICK h : Heads(u, lines, VerbsUpTo(lines, n) \ {v}, h)
        BY <3>1
      <3> DEFINE V == VerbsUpTo(lines, n) \ {v}
      <3>3. v \in Int /\ V \subseteq Int /\ V \cup {v} = VerbsUpTo(lines, n)
        BY DEF VerbsUpTo
      <3>4. \A m \in V : m < v
        BY <3>1, <3>3
      <3>5. Heads(u, lines, V, h)
        BY <3>2
      <3> HIDE DEF V
      <3>6. \E g : Heads(Append(u, act), lines, V \cup {v}, g)
        BY <2>1, <2>2, <3>1, <3>3, <3>4, <3>5, HeadsAct
      <3> QED  BY <3>3, <3>6
    <2>4. NumbersKept(more, <<>>, None, lines, n)
      <3> SUFFICES ASSUME NEW m \in 1..n, lines[m].is = "number"
                   PROVE  \E k \in DOMAIN more : Has(more[k], lines[m])
        BY DEF NumbersKept
      <3>1. /\ DOMAIN u = 1..Len(u) /\ Len(u) \in Nat
            /\ DOMAIN more = 1..(Len(u) + 1)
            /\ \A i \in 1..Len(u) : more[i] = u[i]
            /\ more[Len(u) + 1] = act
        BY <2>1, AppendIs DEF IsSeq
      <3> HIDE DEF more
      <3>2. CASE \E k \in DOMAIN u : Has(u[k], lines[m])
        <4>1. PICK k \in DOMAIN u : Has(u[k], lines[m])
          BY <3>2
        <4>2. k \in DOMAIN more /\ more[k] = u[k]
          BY <3>1
        <4> QED  BY <4>1, <4>2
      <3>3. CASE x = lines[m].number \/ \E j \in 1..Len(p) : p[j] = lines[m]
        <4>1. Has(act, lines[m])
          BY <2>2, <3>3 DEF Has
        <4>2. Len(u) + 1 \in DOMAIN more
          BY <3>1
        <4> QED  BY <3>1, <4>1, <4>2
      <3> QED  BY <3>2, <3>3 DEF Reads, NumbersKept
    <2>5. RowIs(more, r)
      BY <2>1 DEF RowIs
    <2>6. ActIs(more, <<>>, lines, n)
      BY <2>3 DEF ActIs
    <2> HIDE DEF more
    <2>7. Reads(more, nm, <<>>, None, r, lines, n)
      BY <2>1, <2>4, <2>5, <2>6 DEF Reads
    <2> QED  BY <1>2, <2>7 DEF more, act
  <1> QED  BY <1>1, <1>2

-----------------------------------------------------------------------------
\* A line that is neither verb nor number changes nothing of what is read.
LEMMA VerbsNext ==
    ASSUME NEW lines, NEW n \in Nat
    PROVE  /\ lines[n + 1].is = "verb" => VerbsUpTo(lines, n + 1) = VerbsUpTo(lines, n) \cup {n + 1}
           /\ lines[n + 1].is # "verb" => VerbsUpTo(lines, n + 1) = VerbsUpTo(lines, n)
  BY DEF VerbsUpTo

LEMMA ReadsPast ==
    ASSUME NEW u, NEW nm, NEW p, NEW x, NEW r, NEW lines, NEW n \in Nat,
           Reads(u, nm, p, x, r, lines, n), lines[n + 1].is \notin {"verb", "number"}
    PROVE  Reads(u, nm, p, x, r, lines, n + 1)
  <1>1. VerbsUpTo(lines, n + 1) = VerbsUpTo(lines, n)
    BY VerbsNext
  <1>2. \A m \in 1..(n + 1) : m \in 1..n \/ m = n + 1
    OBVIOUS
  <1>3. NumbersKept(u, p, x, lines, n + 1)
    BY <1>2 DEF Reads, NumbersKept
  <1>4. ActIs(u, p, lines, n + 1)
    BY <1>1 DEF Reads, ActIs
  <1> QED  BY <1>3, <1>4 DEF Reads

\* No row is at hand any more.
LEMMA ReadsNoRow ==
    ASSUME NEW u, NEW nm, NEW p, NEW x, NEW r, NEW lines, NEW n, Reads(u, nm, p, x, r, lines, n)
    PROVE  Reads(u, nm, p, x, 0, lines, n)
  BY DEF Reads, RowIs

\* A line of a name
LEMMA ReadsName ==
    ASSUME NEW u, NEW nm, NEW p, NEW x, NEW r, NEW lines, NEW n,
           Reads(u, nm, p, x, r, lines, n), NEW others,
           IsSeq(others), \A j \in 1..Len(others) : others[j].is # "number"
    PROVE  Reads(u, others, p, x, r, lines, n)
  BY DEF Reads

\* A line of an act, that is no verb
LEMMA ReadsText ==
    ASSUME NEW u, NEW nm, NEW p, NEW x, NEW r, NEW lines, NEW n \in Nat,
           Reads(u, nm, p, x, r, lines, n), p # <<>>, lines[n + 1].is # "verb"
    PROVE  Reads(u, nm, Append(p, lines[n + 1]), x, r, lines, n + 1)
  <1> DEFINE q == Append(p, lines[n + 1])
  <1>1. IsSeq(p) /\ IsSeq(q) /\ q # <<>> /\ Len(q) = Len(p) + 1 /\ Len(p) \in Nat \ {0}
        /\ (\A i \in 1..Len(p) : q[i] = p[i]) /\ q[Len(p) + 1] = lines[n + 1]
    <2>1. IsSeq(p)
      BY DEF Reads
    <2>2. Len(p) # 0
      BY <2>1 DEF IsSeq
    <2> QED  BY <2>1, <2>2, AppendIs DEF IsSeq
  <1> HIDE DEF q
  <1>2. VerbsUpTo(lines, n + 1) = VerbsUpTo(lines, n)
    BY VerbsNext
  <1>3. q[1] = p[1]
    BY <1>1
  <1>4. (\A j \in 2..Len(p) : p[j].is # "verb") => \A j \in 2..Len(q) : q[j].is # "verb"
    <2> SUFFICES ASSUME \A j \in 2..Len(p) : p[j].is # "verb", NEW j \in 2..Len(q)
                 PROVE  q[j].is # "verb"
      OBVIOUS
    <2>1. (j \in 2..Len(p) /\ q[j] = p[j]) \/ q[j] = lines[n + 1]
      BY <1>1
    <2> QED  BY <2>1
  <1>5. ActIs(u, q, lines, n + 1)
    BY <1>1, <1>2, <1>3, <1>4 DEF Reads, ActIs
  <1>6. NumbersKept(u, q, x, lines, n + 1)
    <2> SUFFICES ASSUME NEW m \in 1..(n + 1), lines[m].is = "number"
                 PROVE  \/ \E k \in DOMAIN u : Has(u[k], lines[m])
                        \/ q # <<>> /\ x = lines[m].number
                        \/ \E j \in 1..Len(q) : q[j] = lines[m]
      BY DEF NumbersKept
    <2>1. CASE m = n + 1
      <3>1. Len(p) + 1 \in 1..Len(q) /\ q[Len(p) + 1] = lines[m]
        BY <1>1, <2>1
      <3> QED  BY <3>1
    <2>2. CASE m \in 1..n
      <3>1. \A j \in 1..Len(p) : j \in 1..Len(q) /\ q[j] = p[j]
        BY <1>1
      <3> QED  BY <1>1, <2>2, <3>1 DEF Reads, NumbersKept
    <2> QED  BY <2>1, <2>2
  <1>7. Reads(u, nm, q, x, r, lines, n + 1)
    BY <1>1, <1>5, <1>6 DEF Reads
  <1> QED  BY <1>7 DEF q

\* The number of a row closes it.
LEMMA ReadsRow ==
    ASSUME NEW u, NEW t, NEW nm, NEW x, NEW r, NEW lines, NEW n \in Nat,
           Reads(u, nm, <<>>, x, r, lines, n), lines[n + 1].is = "number"
    PROVE  Reads(Append(u, Unit("table_row", lines[n + 1].number, t, Append(nm, lines[n + 1]))),
                 <<>>, <<>>, x, Len(u) + 1, lines, n + 1)
  <1> DEFINE line == lines[n + 1]
             row == Unit("table_row", line.number, t, Append(nm, line))
             more == Append(u, row)
  <1>1. row.kind = "table_row" /\ row.number = line.number /\ row.lines = Append(nm, line)
    BY DEF Unit
  <1> HIDE DEF row
  <1>2. IsSeq(<<>>) /\ \A j \in 1..Len(<<>>) : <<>>[j].is # "number"
    BY EmptyIs
  <1>3. Reads(more, <<>>, <<>>, x, r, lines, n)
    BY <1>1, <1>2, ReadsOther
  <1>4. /\ IsSeq(u) /\ Len(u) \in Nat /\ Len(more) = Len(u) + 1
        /\ DOMAIN more = 1..(Len(u) + 1) /\ more[Len(u) + 1] = row
    <2>1. IsSeq(u) /\ Len(u) \in Nat
      BY DEF Reads, IsSeq
    <2> QED  BY <2>1, AppendIs
  <1>5. /\ IsSeq(nm) /\ Len(nm) \in Nat /\ Len(Append(nm, line)) = Len(nm) + 1
        /\ \A i \in 1..Len(nm) : Append(nm, line)[i] = nm[i]
        /\ Append(nm, line)[Len(nm) + 1] = line
        /\ \A i \in 1..Len(nm) : nm[i].is # "number"
    <2>1. IsSeq(nm) /\ Len(nm) \in Nat /\ \A i \in 1..Len(nm) : nm[i].is # "number"
      BY DEF Reads, IsSeq
    <2> QED  BY <2>1, AppendIs
  <1>6. \A j \in 1..Len(row.lines) : row.lines[j].is = "number" => row.lines[j].number = row.number
    <2> SUFFICES ASSUME NEW j \in 1..Len(row.lines), row.lines[j].is = "number"
                 PROVE  row.lines[j].number = row.number
      OBVIOUS
    <2>1. j \in 1..Len(nm) \/ j = Len(nm) + 1
      BY <1>1, <1>5
    <2> QED  BY <1>1, <1>5, <2>1
  <1>7. RowIs(more, Len(u) + 1)
    <2>1. Len(u) + 1 \in 1..Len(more)
      BY <1>4
    <2> QED  BY <1>1, <1>4, <1>6, <2>1 DEF RowIs
  <1>8. VerbsUpTo(lines, n + 1) = VerbsUpTo(lines, n)
    BY VerbsNext
  <1>9. ActIs(more, <<>>, lines, n + 1)
    BY <1>3, <1>8 DEF Reads, ActIs
  <1>10. NumbersKept(more, <<>>, x, lines, n + 1)
    <2> SUFFICES ASSUME NEW m \in 1..(n + 1), lines[m].is = "number"
                 PROVE  \E k \in DOMAIN more : Has(more[k], lines[m])
      BY DEF NumbersKept
    <2>1. CASE m = n + 1
      <3>1. Len(u) + 1 \in DOMAIN more /\ Has(row, lines[m])
        BY <1>1, <1>4, <2>1 DEF Has
      <3> QED  BY <1>4, <3>1
    <2>2. CASE m \in 1..n
      BY <1>3, <2>2, EmptyIs DEF Reads, NumbersKept
    <2> QED  BY <2>1, <2>2
  <1>11. Reads(more, <<>>, <<>>, x, Len(u) + 1, lines, n + 1)
    <2> HIDE DEF more
    <2> QED  BY <1>3, <1>7, <1>9, <1>10 DEF Reads
  <1> QED  BY <1>11 DEF more, row

-----------------------------------------------------------------------------
\* Only the row itself is gone, and its number is its unit's.
LEMMA KeptWithoutRow ==
    ASSUME NEW units, IsSeq(units), NEW r, r # 0, RowIs(units, r), NEW line, line.is = "number",
           NEW k \in DOMAIN units, Has(units[k], line)
    PROVE  \/ \E i \in DOMAIN RemoveAt(units, r) : Has(RemoveAt(units, r)[i], line)
           \/ units[r].number = line.number
  <1> DEFINE less == RemoveAt(units, r)
             N == Len(units)
  <1>1. r \in 1..N /\ \A j \in 1..Len(units[r].lines) :
                         units[r].lines[j].is = "number" => units[r].lines[j].number = units[r].number
    BY DEF RowIs
  <1>2. /\ N \in Nat /\ DOMAIN units = 1..N /\ DOMAIN less = 1..(N - 1)
        /\ \A i \in 1..(N - 1) : less[i] = IF i < r THEN units[i] ELSE units[i + 1]
    BY <1>1, RemoveIs DEF IsSeq
  <1> HIDE DEF less, N
  <1>3. CASE k = r
    BY <1>1, <1>3 DEF Has
  <1>4. CASE k < r
    <2>1. k \in DOMAIN less /\ less[k] = units[k]
      BY <1>1, <1>2, <1>4
    <2> QED  BY <2>1 DEF less
  <1>5. CASE k > r
    <2>1. PICK i \in Int : i = k - 1
      BY <1>2
    <2>2. i \in 1..(N - 1) /\ ~ i < r /\ i + 1 = k
      BY <1>1, <1>2, <1>5, <2>1
    <2>3. i \in DOMAIN less /\ less[i] = units[k]
      BY <1>2, <2>2
    <2> QED  BY <2>3 DEF less
  <1>6. k \in Int /\ r \in Int
    BY <1>1, <1>2
  <1> QED  BY <1>3, <1>4, <1>5, <1>6

\* A verb opens an act; the row before it gives it its number.
LEMMA ReadsVerb ==
    ASSUME NEW u, NEW x, NEW r, NEW lines, NEW n \in Nat,
           Reads(u, <<>>, <<>>, x, r, lines, n), lines[n + 1].is = "verb"
    PROVE  Reads(IF r = 0 THEN u ELSE RemoveAt(u, r), <<>>, <<lines[n + 1]>>,
                 IF r = 0 THEN None ELSE u[r].number, 0, lines, n + 1)
  <1> DEFINE line == lines[n + 1]
             V == VerbsUpTo(lines, n)
             less == IF r = 0 THEN u ELSE RemoveAt(u, r)
             number == IF r = 0 THEN None ELSE u[r].number
             p == <<line>>
  <1>1. /\ Len(p) = 1 /\ p[1] = line /\ IsSeq(p) /\ p # <<>>
    <2>1. p \in Seq({line}) /\ Len(p) = 1 /\ p[1] = line
      OBVIOUS
    <2>2. IsSeq(p)
      BY <2>1 DEF IsSeq, ToSet
    <2> QED  BY <2>1, <2>2
  <1>2. IsSeq(u) /\ IsSeq(<<>>) /\ RowIs(u, r) /\ Len(<<>>) = 0
    BY EmptyIs DEF Reads
  <1>3. PICK h : Heads(u, lines, V, h)
    BY DEF Reads, ActIs
  <1>4. IsSeq(less) /\ \E g : Heads(less, lines, V, g)
    <2>1. CASE r = 0
      BY <1>2, <1>3, <2>1
    <2>2. CASE r # 0
      <3>1. r \in 1..Len(u) /\ u[r].kind # "prose_act"
        BY <1>2, <2>2 DEF RowIs
      <3> QED  BY <1>2, <1>3, <2>2, <3>1, RemoveIs, HeadsRemove
    <2> QED  BY <2>1, <2>2
  <1>5. /\ VerbsUpTo(lines, n + 1) = V \cup {n + 1}
        /\ n + 1 \in Int /\ \A m \in V : m \in Int /\ m < n + 1
    BY VerbsNext DEF VerbsUpTo
  <1>6. ActIs(less, p, lines, n + 1)
    <2>1. VerbsUpTo(lines, n + 1) \ {n + 1} = V
      BY <1>5
    <2>2. \A m \in VerbsUpTo(lines, n + 1) : m <= n + 1
      BY <1>5
    <2>3. \A j \in 2..Len(p) : p[j].is # "verb"
      BY <1>1
    <2> HIDE DEF p, less
    <2> QED  BY <1>1, <1>4, <1>5, <2>1, <2>2, <2>3 DEF ActIs
  <1>7. NumbersKept(less, p, number, lines, n + 1)
    <2> SUFFICES ASSUME NEW m \in 1..(n + 1), lines[m].is = "number"
                 PROVE  \/ \E k \in DOMAIN less : Has(less[k], lines[m])
                        \/ number = lines[m].number
      BY <1>1 DEF NumbersKept
    <2>1. m \in 1..n
      <3>1. m # n + 1
        OBVIOUS
      <3> QED  BY <3>1
    <2>2. PICK k \in DOMAIN u : Has(u[k], lines[m])
      BY <1>2, <2>1 DEF Reads, NumbersKept
    <2> QED  BY <1>2, <2>2, KeptWithoutRow
  <1>8. RowIs(less, 0)
    BY DEF RowIs
  <1>9. \A j \in 1..Len(<<>>) : <<>>[j].is # "number"
    BY <1>2
  <1> HIDE DEF p, less, number
  <1>10. Reads(less, <<>>, p, number, 0, lines, n + 1)
    BY <1>1, <1>2, <1>4, <1>6, <1>7, <1>8, <1>9 DEF Reads
  <1> QED  BY <1>10 DEF p, less, number

-----------------------------------------------------------------------------
\* What the reader's assignments make of a state
LEMMA ReaderIs ==
    ASSUME NEW u, NEW t, NEW nm, NEW p, NEW x, NEW r
    PROVE  LET s == Reader(u, t, nm, p, x, r)
           IN  /\ s.units = u /\ s.table = t /\ s.names = nm
               /\ s.prose = p /\ s.number = x /\ s.row = r
  BY DEF Reader

LEMMA SetUnits ==
    ASSUME NEW u, NEW t, NEW nm, NEW p, NEW x, NEW r, NEW y
    PROVE  [Reader(u, t, nm, p, x, r) EXCEPT !.units = y]
               = Reader(y, t, nm, p, x, r)
  BY DEF Reader

LEMMA SetTable ==
    ASSUME NEW u, NEW t, NEW nm, NEW p, NEW x, NEW r, NEW y
    PROVE  [Reader(u, t, nm, p, x, r) EXCEPT !.table = y]
               = Reader(u, y, nm, p, x, r)
  BY DEF Reader

LEMMA SetNames ==
    ASSUME NEW u, NEW t, NEW nm, NEW p, NEW x, NEW r, NEW y
    PROVE  [Reader(u, t, nm, p, x, r) EXCEPT !.names = y]
               = Reader(u, t, y, p, x, r)
  BY DEF Reader

LEMMA SetProse ==
    ASSUME NEW u, NEW t, NEW nm, NEW p, NEW x, NEW r, NEW y
    PROVE  [Reader(u, t, nm, p, x, r) EXCEPT !.prose = y]
               = Reader(u, t, nm, y, x, r)
  BY DEF Reader

LEMMA SetNumber ==
    ASSUME NEW u, NEW t, NEW nm, NEW p, NEW x, NEW r, NEW y
    PROVE  [Reader(u, t, nm, p, x, r) EXCEPT !.number = y]
               = Reader(u, t, nm, p, y, r)
  BY DEF Reader

LEMMA SetRow ==
    ASSUME NEW u, NEW t, NEW nm, NEW p, NEW x, NEW r, NEW y
    PROVE  [Reader(u, t, nm, p, x, r) EXCEPT !.row = y]
               = Reader(u, t, nm, p, x, y)
  BY DEF Reader

\* A line of a name, when no act is open
LEMMA NameIsRead ==
    ASSUME NEW s, NEW lines, NEW n \in Nat, IsRead(s, lines, n),
           lines[n + 1].is \in {"name", "text"}
    PROVE  IsRead(AddName(s, lines[n + 1]), lines, n + 1)
  <1> DEFINE line == lines[n + 1]
  <1>1. PICK u, t, nm, p, x, r : s = Reader(u, t, nm, p, x, r) /\ Reads(u, nm, p, x, r, lines, n)
    BY DEF IsRead
  <1> DEFINE names == Append(nm, line)
  <1>2. Reads(u, nm, p, x, r, lines, n + 1)
    BY <1>1, ReadsPast
  <1>3. IsSeq(names) /\ Len(names) \in Nat /\ \A j \in 1..Len(names) : names[j].is # "number"
    <2>1. IsSeq(nm) /\ Len(nm) \in Nat /\ \A i \in 1..Len(nm) : nm[i].is # "number"
      BY <1>1 DEF Reads, IsSeq
    <2>2. /\ IsSeq(names) /\ Len(names) = Len(nm) + 1
          /\ \A i \in 1..Len(nm) : names[i] = nm[i]
          /\ names[Len(nm) + 1] = line
      BY <2>1, AppendIs
    <2> HIDE DEF names
    <2>3. ASSUME NEW j \in 1..Len(names)
          PROVE  names[j].is # "number"
      <3>1. j \in 1..Len(nm) \/ j = Len(nm) + 1
        BY <2>1, <2>2
      <3> QED  BY <2>1, <2>2, <3>1
    <2> QED  BY <2>2, <2>3 DEF IsSeq
  <1> DEFINE m == Len(names)
             cut == Unit("verbatim", None, None, SubSeq(names, 1, m - 4))
             rest == SubSeq(names, m - 3, m)
  <1>4. AddName(s, line) = IF m <= 8 THEN Reader(u, t, names, p, x, r)
                                     ELSE Reader(Append(u, cut), t, rest, p, x, r)
    <2>1. s.names = nm /\ s.units = u
      BY <1>1, ReaderIs
    <2>2. AddName(s, line) = IF m <= 8 THEN [s EXCEPT !.names = names]
                             ELSE [s EXCEPT !.units = Append(u, cut), !.names = rest]
      BY <2>1 DEF AddName
    <2> DEFINE more == Append(u, cut)
    <2> HIDE DEF names, rest, more
    <2>3. /\ [s EXCEPT !.names = names] = Reader(u, t, names, p, x, r)
          /\ [s EXCEPT !.units = more, !.names = rest] = Reader(more, t, rest, p, x, r)
      <3>1. [s EXCEPT !.names = names] = Reader(u, t, names, p, x, r)
        BY <1>1, SetNames
      <3> DEFINE s1 == [s EXCEPT !.units = more]
      <3>2. [s EXCEPT !.units = more, !.names = rest] = [s1 EXCEPT !.names = rest]
        OBVIOUS
      <3>3. s1 = Reader(more, t, nm, p, x, r)
        BY <1>1, SetUnits
      <3> HIDE DEF s1
      <3>4. [s1 EXCEPT !.names = rest] = Reader(more, t, rest, p, x, r)
        BY <3>3, SetNames
      <3> QED  BY <3>1, <3>2, <3>4
    <2> QED  BY <2>2, <2>3 DEF more
  <1>5. CASE m <= 8
    <2>1. Reads(u, names, p, x, r, lines, n + 1)
      <3> HIDE DEF names
      <3> QED  BY <1>2, <1>3, ReadsName
    <2> QED  BY <1>4, <1>5, <2>1 DEF IsRead
  <1>6. CASE ~ m <= 8
    <2>1. IsSeq(rest) /\ \A j \in 1..Len(rest) : rest[j].is # "number"
      <3> HIDE DEF names
      <3>1. m - 3 \in Nat \ {0} /\ m \in Nat /\ m <= Len(names) /\ m - 3 <= m
        BY <1>3, <1>6
      <3>2. /\ IsSeq(rest) /\ Len(rest) = m - (m - 3) + 1
            /\ \A i \in 1..Len(rest) : rest[i] = names[(m - 3) + i - 1]
        <4> HIDE DEF m
        <4> QED  BY <1>3, <3>1, SubSeqIs
      <3> HIDE DEF rest
      <3>4. \A c \in Nat : \A l : c - 3 \in Nat \ {0} /\ l = c - (c - 3) + 1
                => \A i \in 1..l : (c - 3) + i - 1 \in 1..c
        OBVIOUS
      <3>3. \A i \in 1..Len(rest) : (m - 3) + i - 1 \in 1..Len(names)
        BY <3>1, <3>2, <3>4
      <3> QED  BY <1>3, <3>2, <3>3
    <2>2. cut.kind # "prose_act"
      BY DEF Unit
    <2> HIDE DEF cut, rest
    <2>3. Reads(Append(u, cut), rest, p, x, r, lines, n + 1)
      BY <1>2, <2>1, <2>2, ReadsOther
    <2> QED  BY <1>4, <1>6, <2>3 DEF IsRead
  <1> QED  BY <1>5, <1>6

LEMMA LineIsRead ==
    ASSUME NEW s, NEW lines, NEW n \in Nat, IsRead(s, lines, n),
           lines[n + 1].is \in LineKinds
    PROVE  IsRead(ReadLine(s, lines, n + 1), lines, n + 1)
  <1> DEFINE line == lines[n + 1]
  <1>1. PICK u, t, nm, p, x, r : s = Reader(u, t, nm, p, x, r) /\ Reads(u, nm, p, x, r, lines, n)
    BY DEF IsRead
  <1> DEFINE u1 == IF nm = <<>> THEN u ELSE Append(u, Unit("verbatim", None, None, nm))
             u2 == IF p = <<>> THEN u1 ELSE Append(u1, Unit("prose_act", x, None, p))
             x2 == IF p = <<>> THEN x ELSE None
  <1>2. FlushNames(s) = Reader(u1, t, <<>>, p, x, r)
    BY <1>1, FlushNamesIs
  <1>3. FlushProse(FlushNames(s)) = Reader(u2, t, <<>>, <<>>, x2, r)
    BY <1>2, FlushProseIs
  <1>4. Reads(u1, <<>>, p, x, r, lines, n)
    BY <1>1, ReadsFlushNames
  <1>5. Reads(u2, <<>>, <<>>, x2, r, lines, n)
    <2> HIDE DEF u1
    <2> QED  BY <1>4, ReadsFlushProse
  <1>6. r # 0 => r \in 1..Len(u) /\ u2[r] = u[r]
    <2> SUFFICES ASSUME r # 0  PROVE  r \in 1..Len(u) /\ u2[r] = u[r]
      OBVIOUS
    <2>1. p = <<>> /\ r \in 1..Len(u) /\ IsSeq(u)
      BY <1>1 DEF Reads, RowIs
    <2> QED  BY <2>1, AppendIs
  <1> HIDE DEF u1, u2, x2
  <1>7. CASE line.is = "header"
    <2>1. \E t2 : Header(s, line) = Reader(u1, t2, <<>>, p, x, 0)
      <3>1. PICK t2 : t2 = IF line.act = None THEN t ELSE line.act
        OBVIOUS
      <3>2. FlushNames(s).table = t
        BY <1>2, ReaderIs
      <3>3. Header(s, line) = [FlushNames(s) EXCEPT !.table = t2, !.row = 0]
        BY <3>1, <3>2 DEF Header
      <3> DEFINE s1 == [FlushNames(s) EXCEPT !.table = t2]
      <3>4. Header(s, line) = [s1 EXCEPT !.row = 0]
        BY <3>3
      <3>5. s1 = Reader(u1, t2, <<>>, p, x, r)
        BY <1>2, SetTable
      <3> HIDE DEF s1
      <3>6. Header(s, line) = Reader(u1, t2, <<>>, p, x, 0)
        BY <3>4, <3>5, SetRow
      <3> QED  BY <3>6
    <2>2. Reads(u1, <<>>, p, x, 0, lines, n)
      BY <1>4, ReadsNoRow
    <2>3. Reads(u1, <<>>, p, x, 0, lines, n + 1)
      BY <1>7, <2>2, ReadsPast
    <2>4. ReadLine(s, lines, n + 1) = Header(s, line)
      BY <1>7 DEF ReadLine
    <2> QED  BY <2>1, <2>3, <2>4 DEF IsRead
  <1>8. CASE line.is = "noise"
    <2>1. Reads(u, nm, p, x, r, lines, n + 1)
      BY <1>1, <1>8, ReadsPast
    <2>2. ReadLine(s, lines, n + 1) = s
      BY <1>8 DEF ReadLine
    <2> QED  BY <1>1, <2>1, <2>2 DEF IsRead
  <1>9. CASE line.is = "verb"
    <2> DEFINE u3 == IF r = 0 THEN u2 ELSE RemoveAt(u2, r)
               x3 == IF r = 0 THEN None ELSE u2[r].number
    <2>1. s.row = r /\ s.units = u
      BY <1>1 DEF Reader
    <2>2. OpenAct(s, line) = Reader(u3, t, <<>>, <<line>>, x3, 0)
      <3> DEFINE flushed == FlushProse(FlushNames(s))
                 opened == <<line>>
      <3>1. flushed.units = u2
        BY <1>3, ReaderIs
      <3>2. OpenAct(s, line) = [flushed EXCEPT !.prose = opened, !.row = 0, !.number = x3, !.units = u3]
        BY <1>6, <2>1, <3>1 DEF OpenAct
      <3>3. flushed = Reader(u2, t, <<>>, <<>>, x2, r)
        BY <1>3
      <3> HIDE DEF flushed, opened, u3, x3
      <3>4. [flushed EXCEPT !.prose = opened, !.row = 0, !.number = x3, !.units = u3]
               = Reader(u3, t, <<>>, opened, x3, 0)
        <4> DEFINE s1 == [flushed EXCEPT !.prose = opened]
                   s2 == [s1 EXCEPT !.row = 0]
                   s3 == [s2 EXCEPT !.number = x3]
        <4>1. [flushed EXCEPT !.prose = opened, !.row = 0, !.number = x3, !.units = u3]
                 = [s3 EXCEPT !.units = u3]
          OBVIOUS
        <4>2. s1 = Reader(u2, t, <<>>, opened, x2, r)
          BY <3>3, SetProse
        <4> HIDE DEF s1
        <4>3. s2 = Reader(u2, t, <<>>, opened, x2, 0)
          BY <4>2, SetRow
        <4> HIDE DEF s2
        <4>4. s3 = Reader(u2, t, <<>>, opened, x3, 0)
          BY <4>3, SetNumber
        <4> HIDE DEF s3
        <4>5. [s3 EXCEPT !.units = u3] = Reader(u3, t, <<>>, opened, x3, 0)
          BY <4>4, SetUnits
        <4> QED  BY <4>1, <4>5
      <3> QED  BY <3>2, <3>4 DEF opened
    <2>3. Reads(u3, <<>>, <<line>>, x3, 0, lines, n + 1)
      BY <1>5, <1>9, ReadsVerb
    <2>4. ReadLine(s, lines, n + 1) = OpenAct(s, line)
      BY <1>9 DEF ReadLine
    <2> HIDE DEF u3, x3
    <2> QED  BY <2>2, <2>3, <2>4 DEF IsRead
  <1>10. CASE line.is = "number" /\ p = <<>>
    <2> DEFINE u3 == Append(u, Unit("table_row", line.number, t, Append(nm, line)))
    <2>1. AddRow(s, line) = Reader(u3, t, <<>>, <<>>, x, Len(u) + 1)
      <3>1. s.units = u /\ s.table = t /\ s.names = nm
        BY <1>1, ReaderIs
      <3>2. AddRow(s, line) = [s EXCEPT !.units = u3, !.row = Len(u) + 1, !.names = <<>>]
        BY <3>1 DEF AddRow
      <3> HIDE DEF u3
      <3> DEFINE k == Len(u) + 1
      <3> HIDE DEF k
      <3> DEFINE s1 == [s EXCEPT !.units = u3]
                 s2 == [s1 EXCEPT !.row = k]
      <3>3. AddRow(s, line) = [s2 EXCEPT !.names = <<>>]
        BY <3>2 DEF k
      <3>4. s1 = Reader(u3, t, nm, p, x, r)
        BY <1>1, SetUnits
      <3> HIDE DEF s1
      <3>5. s2 = Reader(u3, t, nm, p, x, k)
        BY <3>4, SetRow
      <3> HIDE DEF s2
      <3>6. AddRow(s, line) = Reader(u3, t, <<>>, p, x, k)
        BY <3>3, <3>5, SetNames
      <3> QED  BY <1>10, <3>6 DEF k
    <2>2. Reads(u3, <<>>, <<>>, x, Len(u) + 1, lines, n + 1)
      BY <1>1, <1>10, ReadsRow
    <2>3. ReadLine(s, lines, n + 1) = AddRow(s, line)
      BY <1>1, <1>10 DEF ReadLine, Reader
    <2> HIDE DEF u3
    <2> QED  BY <2>1, <2>2, <2>3 DEF IsRead
  <1>11. ASSUME p # <<>>, ReadLine(s, lines, n + 1) = [s EXCEPT !.prose = Append(@, line)],
                line.is # "verb"
         PROVE  IsRead(ReadLine(s, lines, n + 1), lines, n + 1)
    <2>1. [s EXCEPT !.prose = Append(@, line)] = Reader(u, t, nm, Append(p, line), x, r)
      <3> DEFINE q == Append(p, line)
      <3>1. [s EXCEPT !.prose = Append(@, line)] = [s EXCEPT !.prose = q]
        BY <1>1, ReaderIs
      <3> HIDE DEF q
      <3>2. [s EXCEPT !.prose = q] = Reader(u, t, nm, q, x, r)
        BY <1>1, SetProse
      <3> QED  BY <3>1, <3>2 DEF q
    <2>2. Reads(u, nm, Append(p, line), x, r, lines, n + 1)
      BY <1>1, <1>11, ReadsText
    <2> QED  BY <1>11, <2>1, <2>2 DEF IsRead
  <1>12. CASE line.is = "number" /\ p # <<>>
    <2>1. ReadLine(s, lines, n + 1) = [s EXCEPT !.prose = Append(@, line)]
      BY <1>1, <1>12 DEF ReadLine, Reader
    <2> QED  BY <1>11, <1>12, <2>1
  <1>13. CASE line.is \in {"name", "text"}
    <2>1. ReadLine(s, lines, n + 1) =
             IF p = <<>> THEN AddName(s, line)
             ELSE IF BeginsRow(lines, n + 1) THEN [FlushProse(s) EXCEPT !.names = <<line>>]
             ELSE [s EXCEPT !.prose = Append(@, line)]
      BY <1>1, <1>13 DEF ReadLine, Reader
    <2>2. CASE p = <<>>
      BY <1>13, <2>1, <2>2, NameIsRead
    <2>3. CASE p # <<>> /\ ~ BeginsRow(lines, n + 1)
      BY <1>11, <1>13, <2>1, <2>3
    <2>4. CASE p # <<>> /\ BeginsRow(lines, n + 1)
      <3> DEFINE u3 == IF p = <<>> THEN u ELSE Append(u, Unit("prose_act", x, None, p))
                 x3 == IF p = <<>> THEN x ELSE None
                 one == <<line>>
      <3>1. FlushProse(s) = Reader(u3, t, nm, <<>>, x3, r)
        BY <1>1, FlushProseIs
      <3>2. Reads(u3, nm, <<>>, x3, r, lines, n)
        BY <1>1, ReadsFlushProse
      <3> HIDE DEF u3, x3
      <3>3. Reads(u3, nm, <<>>, x3, r, lines, n + 1)
        BY <1>13, <3>2, ReadsPast
      <3>4. IsSeq(one) /\ \A j \in 1..Len(one) : one[j].is # "number"
        <4>1. one \in Seq({line}) /\ Len(one) = 1 /\ one[1] = line
          OBVIOUS
        <4> HIDE DEF one
        <4>2. IsSeq(one)
          BY <4>1 DEF IsSeq, ToSet
        <4> QED  BY <1>13, <4>1, <4>2
      <3> HIDE DEF one
      <3>5. Reads(u3, one, <<>>, x3, r, lines, n + 1)
        BY <3>3, <3>4, ReadsName
      <3>6. [FlushProse(s) EXCEPT !.names = <<line>>] = Reader(u3, t, one, <<>>, x3, r)
        BY <3>1 DEF Reader, one
      <3> QED  BY <2>1, <2>4, <3>5, <3>6 DEF IsRead
    <2> QED  BY <2>2, <2>3, <2>4
  <1> QED  BY <1>7, <1>8, <1>9, <1>10, <1>12, <1>13 DEF LineKinds

-----------------------------------------------------------------------------
\* The states that reading the first N lines goes through
IsReading(lines, N, g) ==
    g = [n \in 0..N |-> IF n = 0 THEN Begun ELSE ReadLine(g[n - 1], lines, n)]

LEMMA ReadingExists ==
    ASSUME NEW lines, NEW N \in Nat
    PROVE  \E g : IsReading(lines, N, g)
  <1> DEFINE T == {m \in Nat : \E g : IsReading(lines, m, g)}
  <1>1. 0 \in T
    <2> DEFINE g == [n \in 0..0 |-> Begun]
    <2>1. IsReading(lines, 0, g)
      BY DEF IsReading
    <2> QED  BY <2>1
  <1>2. ASSUME NEW m \in Nat, m \in T
        PROVE  m + 1 \in T
    <2>1. PICK g : IsReading(lines, m, g)
      BY <1>2
    <2> DEFINE top == ReadLine(g[m], lines, m + 1)
               h == [n \in 0..(m + 1) |-> IF n = m + 1 THEN top ELSE g[n]]
    <2>2. \A n \in 0..m : g[n] = IF n = 0 THEN Begun ELSE ReadLine(g[n - 1], lines, n)
      BY <2>1 DEF IsReading
    <2>3. \A n \in 0..(m + 1) : h[n] = IF n = m + 1 THEN top ELSE g[n]
      OBVIOUS
    <2>4. h = [n \in 0..(m + 1) |-> h[n]]
      OBVIOUS
    <2> HIDE DEF h
    <2>5. ASSUME NEW n \in 0..(m + 1)
          PROVE  h[n] = IF n = 0 THEN Begun ELSE ReadLine(h[n - 1], lines, n)
      <3>1. CASE n = m + 1
        <4>1. m \in 0..(m + 1) /\ m # m + 1 /\ n # 0 /\ n - 1 = m
          BY <3>1
        <4>2. h[m] = g[m] /\ h[n] = top
          BY <2>3, <3>1, <4>1
        <4> QED  BY <3>1, <4>1, <4>2
      <3>2. CASE n # m + 1
        <4>1. n \in 0..m /\ h[n] = g[n]
          BY <2>3, <3>2
        <4>2. CASE n = 0
          BY <2>2, <4>1, <4>2
        <4>3. CASE n # 0
          <5>1. n - 1 \in 0..(m + 1) /\ n - 1 # m + 1
            BY <4>1, <4>3
          <5>2. h[n - 1] = g[n - 1]
            BY <2>3, <5>1
          <5> QED  BY <2>2, <4>1, <4>3, <5>2
        <4> QED  BY <4>2, <4>3
      <3> QED  BY <3>1, <3>2
    <2>6. IsReading(lines, m + 1, h)
      BY <2>4, <2>5 DEF IsReading
    <2> QED  BY <2>6
  <1> HIDE DEF T
  <1>3. Nat \subseteq T
    BY <1>1, <1>2, NatSetInduction
  <1> QED  BY <1>3 DEF T

LEMMA BegunIsRead == ASSUME NEW lines PROVE IsRead(Begun, lines, 0)
  <1>1. Begun = Reader(<<>>, None, <<>>, <<>>, None, 0)
    BY DEF Begun, Reader
  <1>2. Heads(<<>>, lines, VerbsUpTo(lines, 0), <<>>)
    BY DEF Heads, VerbsUpTo
  <1>3. Reads(<<>>, <<>>, <<>>, None, 0, lines, 0)
    BY <1>2, EmptyIs DEF Reads, ActIs, RowIs, NumbersKept
  <1> QED  BY <1>1, <1>3 DEF IsRead

\* The whole document is read, and nothing is left open.
LEMMA UnitsRead ==
    ASSUME NEW lines, AreLines(lines)
    PROVE  \E x, r : Reads(Units(lines), <<>>, <<>>, x, r, lines, Len(lines))
  <1> DEFINE N == Len(lines)
             g == CHOOSE f : IsReading(lines, N, f)
  <1>1. N \in Nat
    BY DEF AreLines
  <1>2. IsReading(lines, N, g)
    BY <1>1, ReadingExists
  <1>3. Units(lines) = FlushProse(FlushNames(g[N])).units
    BY DEF Units, IsReading
  <1> HIDE DEF g, N
  <1>4. \A n \in 0..N : g[n] = IF n = 0 THEN Begun ELSE ReadLine(g[n - 1], lines, n)
    BY <1>2 DEF IsReading
  <1> DEFINE T == {n \in Nat : n <= N => IsRead(g[n], lines, n)}
  <1>5. 0 \in T
    <2>1. g[0] = Begun
      BY <1>1, <1>4
    <2> QED  BY <2>1, BegunIsRead
  <1>6. ASSUME NEW n \in Nat, n \in T
        PROVE  n + 1 \in T
    <2> SUFFICES ASSUME n + 1 <= N
                 PROVE  IsRead(g[n + 1], lines, n + 1)
      OBVIOUS
    <2>1. IsRead(g[n], lines, n)
      BY <1>1, <1>6
    <2>2. n + 1 \in 1..N /\ (n + 1) - 1 = n /\ n + 1 # 0
      BY <1>1
    <2>3. g[n + 1] = ReadLine(g[n], lines, n + 1)
      BY <1>4, <2>2
    <2>4. lines[n + 1].is \in LineKinds
      BY <2>2 DEF AreLines, N
    <2> QED  BY <2>1, <2>3, <2>4, LineIsRead
  <1> HIDE DEF T
  <1>7. N \in T
    BY <1>1, <1>5, <1>6, NatSetInduction
  <1>8. IsRead(g[N], lines, N)
    BY <1>1, <1>7 DEF T
  <1>9. PICK u, t, nm, p, x, r : /\ g[N] = Reader(u, t, nm, p, x, r)
                                 /\ Reads(u, nm, p, x, r, lines, N)
    BY <1>8 DEF IsRead
  <1> DEFINE u1 == IF nm = <<>> THEN u ELSE Append(u, Unit("verbatim", None, None, nm))
             u2 == IF p = <<>> THEN u1 ELSE Append(u1, Unit("prose_act", x, None, p))
             x2 == IF p = <<>> THEN x ELSE None
  <1>10. FlushNames(g[N]) = Reader(u1, t, <<>>, p, x, r)
    BY <1>9, FlushNamesIs
  <1>11. FlushProse(FlushNames(g[N])) = Reader(u2, t, <<>>, <<>>, x2, r)
    BY <1>10, FlushProseIs
  <1>12. Reads(u1, <<>>, p, x, r, lines, N)
    BY <1>9, ReadsFlushNames
  <1>13. Reads(u2, <<>>, <<>>, x2, r, lines, N)
    <2> HIDE DEF u1
    <2> QED  BY <1>1, <1>12, ReadsFlushProse
  <1> HIDE DEF u1, u2, x2
  <1>14. Units(lines) = u2
    BY <1>3, <1>11, ReaderIs
  <1> QED  BY <1>13, <1>14 DEF N

\* adapters/weekly_registry.py, _units: however the lines come, each verb line heads one
\* act of its own, in the order of the document, and no act has a second verb: none is
\* lost between two lines, none is made up or taken for a line of another.
THEOREM ActsAreKept ==
    ASSUME NEW lines, AreLines(lines)
    PROVE  \E h : Heads(Units(lines), lines, {n \in DOMAIN lines : lines[n].is = "verb"}, h)
  <1>1. PICK x, r : Reads(Units(lines), <<>>, <<>>, x, r, lines, Len(lines))
    BY UnitsRead
  <1>2. VerbsUpTo(lines, Len(lines)) = {n \in DOMAIN lines : lines[n].is = "verb"}
    BY DEF VerbsUpTo, AreLines
  <1> QED  BY <1>1, <1>2 DEF Reads, ActIs

\* adapters/weekly_registry.py, _units: a number printed alone on a line is in the
\* units, as the number of a row, of the act that took the row for its subject, or as a
\* line of an act that wrapped it.
THEOREM NumbersAreKept ==
    ASSUME NEW lines, AreLines(lines), NEW m \in DOMAIN lines, lines[m].is = "number"
    PROVE  \E k \in DOMAIN Units(lines) : Has(Units(lines)[k], lines[m])
  <1>1. PICK x, r : Reads(Units(lines), <<>>, <<>>, x, r, lines, Len(lines))
    BY UnitsRead
  <1>2. NumbersKept(Units(lines), <<>>, x, lines, Len(lines)) /\ m \in 1..Len(lines) /\ Len(<<>>) = 0
    BY <1>1, EmptyIs DEF Reads, AreLines
  <1> QED  BY <1>2 DEF NumbersKept
=============================================================================
