----------------------- MODULE ProviderEvidence_proofs -----------------------
(***************************************************************************)
(* What a provider manifest stands for, for any files, dates, growth of    *)
(* the corpus and number of dying commands.  The argument: a manifest      *)
(* loses an artifact of its to a newer version only while a command on the *)
(* same provider and date is at work, and that command then knows a new    *)
(* file, so it cannot answer from the manifest: it writes another one, or  *)
(* dies, which `behind` remembers.                                         *)
(***************************************************************************)
EXTENDS ProviderEvidence, WellFoundedInduction, TLAPS

\* No command is given two files of one dedupe key, nor parts of one letter
\* that disagree about how many there are.
ProperBundles ==
    \A c \in Commands : \A given \in Given[c] :
        /\ \A m, n \in DOMAIN given : Key(given[m]) = Key(given[n]) => m = n
        /\ \A m, n \in DOMAIN given :
               About[given[m]].letter = About[given[n]].letter =>
                   About[given[m]].total = About[given[n]].total

KindsOf(c) ==
    {k \in {"isin-lei", "lei2", "rr", "repex", "firds"} :
        IF k \in Commands THEN c = k ELSE c = "golden"}

Names(c) == ToSet(TablesOf[c])

-----------------------------------------------------------------------------
(***************************************************************************)
(* Bundles                                                                 *)
(***************************************************************************)
\* The files of an admissible bundle are of its command and of one date.
LEMMA BundleIs ==
    ASSUME NEW c \in Commands, NEW given \in Given[c], Admissible(c, given)
    PROVE  /\ given \in Seq(Files) /\ Len(given) \in Nat \ {0}
           /\ DateOf(given) \in Dates
           /\ \A n \in 1..Len(given) :
                 /\ given[n] \in Files
                 /\ About[given[n]].date = DateOf(given)
                 /\ About[given[n]].kind \in KindsOf(c)
  <1>1. given \in Seq(Files)
    BY GivenAssumption
  <1>2. CASE c = "isin-lei"
    <2>1. Kinds(given) = <<"isin-lei">>
      BY <1>2 DEF Admissible
    <2>2. DOMAIN given = 1..1 /\ Kinds(given)[1] = "isin-lei"
      <3>1. DOMAIN Kinds(given) = DOMAIN given
        BY DEF Kinds
      <3> QED  BY <2>1, <3>1
    <2>3. Len(given) = 1 /\ About[given[1]].kind = "isin-lei"
      BY <1>1, <2>2 DEF Kinds
    <2> QED  BY <1>1, <1>2, <2>3, AboutAssumption DEF DateOf, KindsOf, Commands
  <1>3. CASE c = "golden"
    <2>1. Kinds(given) = <<"lei2", "rr", "repex">> /\ SameDate(given)
      BY <1>3 DEF Admissible
    <2>2. DOMAIN given = 1..3
      <3>1. DOMAIN Kinds(given) = DOMAIN given
        BY DEF Kinds
      <3> QED  BY <2>1, <3>1
    <2>3. /\ Len(given) = 3
          /\ \A n \in 1..3 : About[given[n]].kind = <<"lei2", "rr", "repex">>[n]
      BY <1>1, <2>1, <2>2 DEF Kinds
    <2>4. /\ About[given[1]].kind = "lei2" /\ About[given[2]].kind = "rr"
          /\ About[given[3]].kind = "repex"
      BY <2>3
    <2>5. \A n \in 1..3 : About[given[n]].kind \in {"lei2", "rr", "repex"}
      BY <2>4
    <2>6. \A n \in 1..3 : About[given[n]].kind \in KindsOf(c)
      BY <1>3, <2>5 DEF KindsOf, Commands
    <2>7. \A n \in 1..3 : given[n] \in Files /\ About[given[n]].date = DateOf(given)
      <3>1. \A n \in 1..3 : given[n] \in Files
        <4>1. \A n \in 1..Len(given) : given[n] \in Files
          BY <1>1
        <4>2. Len(given) = 3
          BY <2>3
        <4> QED  BY <4>1, <4>2
      <3>2. \A n \in 1..3 : About[given[n]].date = DateOf(given)
        BY <2>1, <2>2 DEF SameDate
      <3> QED  BY <3>1, <3>2
    <2>8. DateOf(given) \in Dates
      BY <2>7, AboutAssumption
    <2> QED  BY <1>1, <2>3, <2>6, <2>7, <2>8
  <1>4. CASE c = "firds"
    <2>1. /\ given # <<>> /\ SameDate(given)
          /\ \A n \in DOMAIN given : About[given[n]].kind = "firds"
      BY <1>4 DEF Admissible
    <2> QED  BY <1>1, <1>4, <2>1, AboutAssumption DEF DateOf, SameDate, KindsOf, Commands
  <1> QED  BY <1>2, <1>3, <1>4 DEF Commands

\* A kind is of one command only.
LEMMA KindOfOne ==
    ASSUME NEW b \in Commands, NEW c \in Commands, NEW k \in KindsOf(b), k \in KindsOf(c)
    PROVE  b = c
  BY DEF KindsOf, Commands

\* Equal keys are of the same kind and date.
LEMMA KeyIs ==
    ASSUME NEW f, NEW g, Key(f) = Key(g)
    PROVE  About[f].kind = About[g].kind /\ About[f].date = About[g].date
  BY DEF Key

-----------------------------------------------------------------------------
(***************************************************************************)
(* The invariant                                                           *)
(***************************************************************************)
OnRun(c, d) == run # Idle /\ run.command = c /\ DateOf(run.given) = d

Shape ==
    /\ DOMAIN tables = Commands /\ DOMAIN manifest = Commands
    /\ \A c \in Commands :
          /\ DOMAIN tables[c] = Dates /\ DOMAIN manifest[c] = Dates
          /\ \A d \in Dates : DOMAIN tables[c][d] = Names(c)

\* The ledger has one latest version of every key.
LatestInv ==
    /\ latest \subseteq Files
    /\ \A f, g \in latest : Key(f) = Key(g) => f = g

RunIs ==
    run # Idle =>
        /\ run.step \in {"put", "write"}
        /\ run.command \in Commands /\ run.given \in Given[run.command]
        /\ Admissible(run.command, run.given)
        /\ run.step = "put" => DOMAIN run = {"step", "command", "given", "todo", "new"}
        /\ run.step = "write" =>
              DOMAIN run = {"step", "command", "given", "new", "left", "rows"}

Past == Len(run.given) - Len(run.todo)

\* The files of the bundle up to here are registered, and a new one was one of them.
PutInv ==
    run.step = "put" =>
        /\ run.todo \in Seq(Files) /\ Len(run.todo) <= Len(run.given)
        /\ \A n \in 1..Len(run.todo) : run.todo[n] = run.given[Past + n]
        /\ \A n \in 1..Past : run.given[n] \in latest
        /\ \A x \in run.new : \E n \in 1..Past : x = Member(run.given[n])

\* A table that is not left to write holds its rows, if there are any; only a
\* bundle with a new file is written where there is a manifest already.
WriteInv ==
    run.step = "write" =>
        LET c == run.command
            d == DateOf(run.given)
        IN  /\ \A n \in 1..Len(run.given) : run.given[n] \in latest
            /\ run.left \in Seq(Names(c))
            /\ DOMAIN run.rows = Names(c)
            /\ \A t \in Names(c) :
                  \/ \E n \in 1..Len(run.left) : run.left[n] = t
                  \/ run.rows[t] = {}
                  \/ tables[c][d][t] = run.rows[t]
            /\ manifest[c][d] # None => run.new # {}
            /\ c = "golden" => WantedLeis # {}

\* Candidates do not go away: a table without rows is not written.
WantedInv == \A d \in Dates : manifest["golden"][d] # None => WantedLeis # {}

Complete_(m) ==
    \A f \in m.artifacts : Parts(m.artifacts, About[f].letter) = 1..About[f].total

ManifestInv ==
    \A c \in Commands, d \in Dates : manifest[c][d] # None /\ <<c, d>> \notin behind =>
        LET m == manifest[c][d]
        IN  /\ m.artifacts \subseteq latest \/ (OnRun(c, d) /\ run.new # {})
            /\ \A f \in m.artifacts : About[f].date = d /\ About[f].kind \in KindsOf(c)
            /\ c = "firds" => Complete_(m)
            /\ \A t \in DOMAIN m.rows : m.rows[t] # {} =>
                  tables[c][d][t] = m.rows[t] \/ (OnRun(c, d) /\ run.step = "write")

IInv ==
    /\ Shape /\ LatestInv /\ RunIs /\ PutInv /\ WriteInv /\ WantedInv /\ ManifestInv

LEMMA IdleIs == Idle.step = "idle" /\ (run.step \in {"put", "write"} => run # Idle)
  BY DEF Idle

\* There are wanted LEIs when a GLEIF snapshot has candidates.
LEMMA WantedIs ==
    (WantedLeis # {}) <=> (\E d \in Dates : tables["isin-lei"][d].candidates # {})
  BY DEF WantedLeis

LEMMA InitInv == Init => IInv
  <1> SUFFICES ASSUME Init
               PROVE  IInv
    OBVIOUS
  <1>1. run.step = "idle"
    BY DEF Init, Idle
  <1>2. Shape
    BY DEF Init, Shape, Names
  <1>3. LatestInv /\ RunIs /\ PutInv /\ WriteInv
    BY <1>1 DEF Init, LatestInv, RunIs, PutInv, WriteInv
  <1>4. WantedInv /\ ManifestInv
    BY DEF Init, WantedInv, ManifestInv, Commands
  <1> QED  BY <1>2, <1>3, <1>4 DEF IInv

-----------------------------------------------------------------------------
(***************************************************************************)
(* The steps                                                               *)
(***************************************************************************)
\* What concerns neither the files nor the command changes nothing here.
LEMMA StepElsewhere ==
    IInv /\ UNCHANGED <<latest, tables, manifest, run, behind>> => IInv'
  <1> SUFFICES ASSUME IInv, UNCHANGED <<latest, tables, manifest, run, behind>>
               PROVE  IInv'
    OBVIOUS
  <1>1. WantedLeis' = WantedLeis
    BY DEF WantedLeis
  <1>2. \A c, d : OnRun(c, d)' = OnRun(c, d)
    BY DEF OnRun
  <1>3. (Shape /\ LatestInv /\ RunIs /\ PutInv)'
    BY DEF IInv, Shape, LatestInv, RunIs, PutInv, Past
  <1>4. (WriteInv /\ WantedInv)'
    BY <1>1 DEF IInv, WriteInv, WantedInv
  <1>5. ManifestInv'
    BY <1>2 DEF IInv, ManifestInv
  <1> QED  BY <1>3, <1>4, <1>5 DEF IInv

LEMMA StepStart ==
    ASSUME NEW c \in Commands, NEW given \in Given[c]
    PROVE  IInv /\ Start(c, given) => IInv'
  <1> SUFFICES ASSUME IInv, Start(c, given)
               PROVE  IInv'
    OBVIOUS
  <1>1. /\ run = Idle /\ Admissible(c, given)
        /\ run' = [step |-> "put", command |-> c, given |-> given, todo |-> given, new |-> {}]
        /\ UNCHANGED <<latest, tables, manifest, behind>>
    BY DEF Start
  <1>2. given \in Seq(Files) /\ Len(given) \in Nat
    BY <1>1, BundleIs
  <1>3. (Shape /\ LatestInv /\ RunIs)'
    BY <1>1 DEF IInv, Shape, LatestInv, RunIs
  <1>4. PutInv'
    <2>1. Past' = 0
      BY <1>1, <1>2 DEF Past
    <2>2. \A n \in 1..Len(given) : given[n] = given[0 + n]
      BY <1>2
    <2> QED  BY <1>1, <1>2, <2>1, <2>2 DEF PutInv
  <1>5. (WriteInv /\ WantedInv)'
    BY <1>1 DEF IInv, WriteInv, WantedInv, WantedLeis
  <1>6. ManifestInv'
    BY <1>1 DEF IInv, ManifestInv, OnRun
  <1> QED  BY <1>3, <1>4, <1>5, <1>6 DEF IInv


\* The ledger goes on to the head of the bundle.
LEMMA PutIs ==
    ASSUME ProperBundles, IInv, PutFile
    PROVE  /\ run # Idle /\ run.command \in Commands /\ run.given \in Given[run.command]
           /\ run.given \in Seq(Files) /\ DateOf(run.given) \in Dates
           /\ Past \in Nat /\ Past + 1 \in 1..Len(run.given)
           /\ Head(run.todo) = run.given[Past + 1] /\ Head(run.todo) \in Files
           /\ About[Head(run.todo)].date = DateOf(run.given)
           /\ About[Head(run.todo)].kind \in KindsOf(run.command)
           /\ \A n \in 1..Len(run.given) :
                 Key(run.given[n]) = Key(Head(run.todo)) => n = Past + 1
  <1>1. run.step = "put" /\ run.todo # <<>>
    BY DEF PutFile
  <1>2. /\ run # Idle /\ run.command \in Commands /\ run.given \in Given[run.command]
        /\ Admissible(run.command, run.given)
    BY <1>1, IdleIs DEF IInv, RunIs
  <1>3. /\ run.given \in Seq(Files) /\ Len(run.given) \in Nat \ {0}
        /\ DateOf(run.given) \in Dates
        /\ \A n \in 1..Len(run.given) :
              /\ run.given[n] \in Files
              /\ About[run.given[n]].date = DateOf(run.given)
              /\ About[run.given[n]].kind \in KindsOf(run.command)
    BY <1>2, BundleIs
  <1>4. /\ run.todo \in Seq(Files) /\ Len(run.todo) <= Len(run.given)
        /\ \A n \in 1..Len(run.todo) : run.todo[n] = run.given[Past + n]
    BY <1>1 DEF IInv, PutInv
  <1>5. Len(run.todo) \in Nat \ {0} /\ Head(run.todo) = run.todo[1]
    BY <1>1, <1>4
  <1>6. Past \in Nat /\ Past + 1 \in 1..Len(run.given)
    <2>1. /\ Len(run.given) \in Nat /\ Len(run.todo) \in Nat \ {0}
          /\ Len(run.todo) <= Len(run.given)
      BY <1>3, <1>4, <1>5
    <2>2. \A a \in Nat, b \in Nat \ {0} : b <= a => a - b \in Nat /\ a - b + 1 \in 1..a
      OBVIOUS
    <2> QED  BY <2>1, <2>2 DEF Past
  <1>7. Head(run.todo) = run.given[Past + 1]
    BY <1>4, <1>5
  <1>8. \A n \in 1..Len(run.given) : Key(run.given[n]) = Key(Head(run.todo)) => n = Past + 1
    BY <1>2, <1>3, <1>6, <1>7 DEF ProperBundles
  <1> QED  BY <1>2, <1>3, <1>6, <1>7, <1>8

LEMMA StepPut == ProperBundles /\ IInv /\ PutFile => IInv'
  <1> SUFFICES ASSUME ProperBundles, IInv, PutFile
               PROVE  IInv'
    OBVIOUS
  <1> DEFINE f == Head(run.todo)
             c == run.command
             d == DateOf(run.given)
             new == IF f \in latest THEN run.new \ {Member(f)} ELSE run.new \cup {Member(f)}
  <1>1. /\ run.step = "put" /\ run.todo # <<>>
        /\ latest' = {g \in latest : Key(g) # Key(f)} \cup {f}
        /\ run' = [run EXCEPT !.todo = Tail(run.todo), !.new = new]
        /\ UNCHANGED <<tables, manifest, behind>>
    BY DEF PutFile
  <1>2. /\ run # Idle /\ c \in Commands /\ run.given \in Given[c] /\ run.given \in Seq(Files)
        /\ d \in Dates /\ Past \in Nat /\ Past + 1 \in 1..Len(run.given)
        /\ f = run.given[Past + 1] /\ f \in Files
        /\ About[f].date = d /\ About[f].kind \in KindsOf(c)
        /\ \A n \in 1..Len(run.given) : Key(run.given[n]) = Key(f) => n = Past + 1
    BY PutIs
  <1>3. DOMAIN run = {"step", "command", "given", "todo", "new"}
    BY <1>1, <1>2 DEF IInv, RunIs
  <1>4. /\ run'.step = "put" /\ run'.command = c /\ run'.given = run.given
        /\ run'.todo = Tail(run.todo) /\ run'.new = new
        /\ DOMAIN run' = {"step", "command", "given", "todo", "new"}
    <2> HIDE DEF new
    <2> QED  BY <1>1, <1>3
  <1>5. Len(run.todo) \in Nat \ {0} /\ Len(run.given) \in Nat /\ run.todo \in Seq(Files)
    BY <1>1, <1>2 DEF IInv, PutInv
  <1>6. /\ Tail(run.todo) \in Seq(Files) /\ Len(Tail(run.todo)) = Len(run.todo) - 1
        /\ \A n \in 1..Len(Tail(run.todo)) : Tail(run.todo)[n] = run.todo[n + 1]
    BY <1>1, <1>5
  <1>7. Past' = Past + 1
    <2>1. Len(run'.given) = Len(run.given) /\ Len(run'.todo) = Len(run.todo) - 1
      BY <1>4, <1>6
    <2>2. \A a \in Nat, b \in Nat \ {0} : a - (b - 1) = (a - b) + 1
      OBVIOUS
    <2> QED  BY <1>5, <2>1, <2>2 DEF Past
  \* what is new stays new, and a file that is not known yet is
  <1>8. /\ f \notin latest => new # {}
        /\ run.new # {} => new # {}
        /\ \A x \in new : \E n \in 1..Past + 1 : x = Member(run.given[n])
    <2>1. \A x \in run.new : \E n \in 1..Past : x = Member(run.given[n])
      BY <1>1 DEF IInv, PutInv
    <2>2. Member(f) \notin run.new
      <3>1. \A n \in 1..Past : Key(run.given[n]) # Key(f)
        BY <1>2
      <3> QED  BY <2>1, <3>1 DEF Member
    <2>3. \A n \in 1..Past : n \in 1..Past + 1
      BY <1>2
    <2>4. Past + 1 \in 1..Past + 1 /\ Member(f) = Member(run.given[Past + 1])
      BY <1>2
    <2> QED  BY <2>1, <2>2, <2>3, <2>4
  <1> HIDE DEF new
  <1>9. LatestInv'
    BY <1>1, <1>2 DEF IInv, LatestInv
  <1>10. RunIs' /\ Shape'
    BY <1>1, <1>2, <1>4 DEF IInv, RunIs, Shape
  <1>11. PutInv'
    <2>1. \A n \in 1..Len(run'.todo) : run'.todo[n] = run'.given[Past' + n]
      <3> SUFFICES ASSUME NEW n \in 1..Len(Tail(run.todo))
                   PROVE  Tail(run.todo)[n] = run.given[Past' + n]
        BY <1>4
      <3>1. n + 1 \in 1..Len(run.todo) /\ Past' + n = Past + (n + 1)
        BY <1>2, <1>5, <1>6, <1>7
      <3>2. run.todo[n + 1] = run.given[Past + (n + 1)]
        BY <1>1, <3>1 DEF IInv, PutInv
      <3> QED  BY <1>6, <3>1, <3>2
    <2>2. \A n \in 1..Past' : run'.given[n] \in latest'
      <3>1. \A n \in 1..Past : run.given[n] \in latest /\ Key(run.given[n]) # Key(f)
        BY <1>1, <1>2 DEF IInv, PutInv
      <3>2. \A n \in 1..Past + 1 : n \in 1..Past \/ n = Past + 1
        BY <1>2
      <3> QED  BY <1>1, <1>2, <1>4, <1>7, <3>1, <3>2
    <2>3. \A x \in run'.new : \E n \in 1..Past' : x = Member(run'.given[n])
      BY <1>4, <1>7, <1>8
    <2>4. run'.todo \in Seq(Files) /\ Len(run'.todo) <= Len(run'.given)
      BY <1>1, <1>4, <1>5, <1>6 DEF IInv, PutInv
    <2> QED  BY <2>1, <2>2, <2>3, <2>4 DEF PutInv
  <1>12. WriteInv' /\ WantedInv'
    BY <1>1, <1>4 DEF IInv, WriteInv, WantedInv, WantedLeis
  <1>13. ManifestInv'
    <2> SUFFICES ASSUME NEW b \in Commands, NEW e \in Dates,
                        manifest[b][e] # None, <<b, e>> \notin behind
                 PROVE  LET m == manifest[b][e]
                        IN  /\ m.artifacts \subseteq latest' \/ (OnRun(b, e)' /\ run'.new # {})
                            /\ \A g \in m.artifacts :
                                  About[g].date = e /\ About[g].kind \in KindsOf(b)
                            /\ b = "firds" => Complete_(m)
                            /\ \A t \in DOMAIN m.rows : m.rows[t] # {} =>
                                  tables[b][e][t] = m.rows[t]
                                      \/ (OnRun(b, e)' /\ run'.step = "write")
      BY <1>1 DEF ManifestInv
    <2> DEFINE m == manifest[b][e]
    <2>1. /\ m.artifacts \subseteq latest \/ (OnRun(b, e) /\ run.new # {})
          /\ \A g \in m.artifacts : About[g].date = e /\ About[g].kind \in KindsOf(b)
          /\ b = "firds" => Complete_(m)
          /\ \A t \in DOMAIN m.rows : m.rows[t] # {} => tables[b][e][t] = m.rows[t]
      BY <1>1 DEF IInv, ManifestInv
    <2>2. OnRun(b, e)' <=> OnRun(b, e)
      BY <1>2, <1>4, IdleIs DEF OnRun, Idle
    <2>3. m.artifacts \subseteq latest' \/ (OnRun(b, e)' /\ run'.new # {})
      <3>1. CASE OnRun(b, e) /\ run.new # {}
        BY <1>4, <1>8, <2>2, <3>1
      <3>2. CASE m.artifacts \subseteq latest /\ f \in latest
        <4>1. \A g \in latest : Key(g) = Key(f) => g = f
          BY <3>2 DEF IInv, LatestInv
        <4> QED  BY <1>1, <3>2, <4>1
      <3>3. CASE m.artifacts \subseteq latest /\ f \notin latest
        <4>1. CASE \E g \in m.artifacts : Key(g) = Key(f)
          <5>1. PICK g \in m.artifacts : Key(g) = Key(f)
            BY <4>1
          <5>2. b = c /\ e = d
            BY <1>2, <2>1, <5>1, KeyIs, KindOfOne
          <5> QED  BY <1>2, <1>4, <1>8, <2>2, <3>3, <5>2 DEF OnRun
        <4>2. CASE ~ \E g \in m.artifacts : Key(g) = Key(f)
          BY <1>1, <3>3, <4>2
        <4> QED  BY <4>1, <4>2
      <3> QED  BY <2>1, <3>1, <3>2, <3>3
    <2> QED  BY <2>1, <2>3
  <1> QED  BY <1>9, <1>10, <1>11, <1>12, <1>13 DEF IInv

LEMMA StepAnswer == IInv /\ AnswerFromManifest => IInv'
  <1> SUFFICES ASSUME IInv, AnswerFromManifest
               PROVE  IInv'
    OBVIOUS
  <1>1. run.new = {} /\ run.step = "put" /\ run' = Idle /\ run'.step = "idle"
        /\ UNCHANGED <<latest, tables, manifest, behind>>
    BY DEF AnswerFromManifest, AllPut, Answered, Idle
  <1>2. (Shape /\ LatestInv /\ RunIs /\ PutInv /\ WriteInv)'
    BY <1>1 DEF IInv, Shape, LatestInv, RunIs, PutInv, WriteInv
  <1>3. WantedInv'
    BY <1>1 DEF IInv, WantedInv, WantedLeis
  <1>4. ManifestInv'
    BY <1>1 DEF IInv, ManifestInv
  <1> QED  BY <1>2, <1>3, <1>4 DEF IInv

LEMMA StepRefuse == IInv /\ RefuseGolden => IInv'
  <1> SUFFICES ASSUME IInv, RefuseGolden
               PROVE  IInv'
    OBVIOUS
  <1>1. /\ run.step = "put" /\ run' = Idle /\ run'.step = "idle"
        /\ run.command = "golden" /\ WantedLeis = {}
        /\ UNCHANGED <<latest, tables, manifest, behind>>
    BY DEF RefuseGolden, AllPut, Idle
  <1>2. (Shape /\ LatestInv /\ RunIs /\ PutInv /\ WriteInv)'
    BY <1>1 DEF IInv, Shape, LatestInv, RunIs, PutInv, WriteInv
  <1>3. WantedInv'
    BY <1>1 DEF IInv, WantedInv, WantedLeis
  <1>4. \A c \in Commands, d \in Dates : manifest[c][d] # None => ~OnRun(c, d)
    BY <1>1 DEF IInv, WantedInv, OnRun
  <1>5. ManifestInv'
    BY <1>1, <1>4 DEF IInv, ManifestInv
  <1> QED  BY <1>2, <1>3, <1>5 DEF IInv

\* An extraction has the rows of every table of its command.
LEMMA ExtractedIs ==
    ASSUME NEW c \in Commands, NEW given
    PROVE  /\ DOMAIN Extracted(c, given) = Names(c)
           /\ TablesOf[c] \in Seq(Names(c))
           /\ \A t \in Names(c) : \E n \in 1..Len(TablesOf[c]) : TablesOf[c][n] = t
  <1>1. /\ TablesOf["isin-lei"] = ResolutionTables /\ TablesOf["firds"] = ResolutionTables
        /\ TablesOf["golden"] = GoldenTables
    BY DEF TablesOf, Commands
  <1>2. /\ Len(ResolutionTables) = 3 /\ Len(GoldenTables) = 3
        /\ ResolutionTables \in Seq(ToSet(ResolutionTables))
        /\ GoldenTables \in Seq(ToSet(GoldenTables))
        /\ ToSet(ResolutionTables) = {"observations", "candidates", "evidence"}
        /\ ToSet(GoldenTables) = {"entities", "relationships", "exceptions"}
    BY DEF ResolutionTables, GoldenTables, ToSet
  <1>3. DOMAIN Extracted(c, given) = Names(c)
    <2>1. CASE c = "isin-lei"
      BY <1>1, <1>2, <2>1 DEF Extracted, IsinLeiRows, Names
    <2>2. CASE c = "golden"
      BY <1>1, <1>2, <2>2 DEF Extracted, GoldenRows, Names
    <2>3. CASE c = "firds"
      BY <1>1, <1>2, <2>3 DEF Extracted, FirdsRows, Names
    <2> QED  BY <2>1, <2>2, <2>3 DEF Commands
  <1>4. TablesOf[c] \in Seq(Names(c))
    BY <1>1, <1>2 DEF Names, Commands
  <1>5. \A t \in Names(c) : \E n \in 1..Len(TablesOf[c]) : TablesOf[c][n] = t
    BY <1>4 DEF Names, ToSet
  <1> QED  BY <1>3, <1>4, <1>5

LEMMA StepExtract == IInv /\ Extract => IInv'
  <1> SUFFICES ASSUME IInv, Extract
               PROVE  IInv'
    OBVIOUS
  <1> DEFINE c == run.command
             d == DateOf(run.given)
  <1>1. /\ run.step = "put" /\ run.todo = <<>> /\ ~Answered
        /\ c = "golden" => WantedLeis # {}
        /\ run' = [step |-> "write", command |-> c, given |-> run.given,
                   new |-> run.new, left |-> TablesOf[c], rows |-> Extracted(c, run.given)]
        /\ UNCHANGED <<latest, tables, manifest, behind>>
    BY DEF Extract, AllPut
  <1>2. run # Idle /\ c \in Commands /\ run.given \in Given[c] /\ Admissible(c, run.given)
    BY <1>1, IdleIs DEF IInv, RunIs
  <1>3. /\ run'.step = "write" /\ run'.command = c /\ run'.given = run.given
        /\ run'.new = run.new /\ run'.left = TablesOf[c] /\ run'.rows = Extracted(c, run.given)
        /\ DOMAIN run' = {"step", "command", "given", "new", "left", "rows"}
    BY <1>1
  <1>4. (Shape /\ LatestInv /\ RunIs /\ PutInv)'
    BY <1>1, <1>2, <1>3 DEF IInv, Shape, LatestInv, RunIs, PutInv
  <1>5. WantedInv' /\ WantedLeis' = WantedLeis
    BY <1>1 DEF IInv, WantedInv, WantedLeis
  <1>6. WriteInv'
    <2>1. \A n \in 1..Len(run.given) : run.given[n] \in latest
      <3>1. Len(run.given) \in Nat
        BY <1>2, BundleIs
      <3>2. Past = Len(run.given)
        <4>1. Len(run.todo) = 0
          BY <1>1
        <4> QED  BY <3>1, <4>1 DEF Past
      <3> QED  BY <1>1, <3>2 DEF IInv, PutInv
    <2>2. manifest[c][d] # None => run.new # {}
      BY <1>1 DEF Answered
    <2>3. \A t \in Names(c) : \E n \in 1..Len(run'.left) : run'.left[n] = t
      BY <1>2, <1>3, ExtractedIs
    <2>4. run'.left \in Seq(Names(c)) /\ DOMAIN run'.rows = Names(c)
      BY <1>2, <1>3, ExtractedIs
    <2> QED  BY <1>1, <1>3, <1>5, <2>1, <2>2, <2>3, <2>4 DEF WriteInv
  <1>7. ManifestInv'
    <2>1. \A b, e : OnRun(b, e)' = OnRun(b, e)
      BY <1>2, <1>3, IdleIs DEF OnRun, Idle
    <2> QED  BY <1>1, <1>3, <2>1 DEF IInv, ManifestInv
  <1> QED  BY <1>4, <1>5, <1>6, <1>7 DEF IInv

\* Where a command writes
LEMMA WriteIs ==
    ASSUME IInv, run.step = "write"
    PROVE  /\ run # Idle /\ run.command \in Commands /\ run.given \in Given[run.command]
           /\ Admissible(run.command, run.given) /\ DateOf(run.given) \in Dates
           /\ DOMAIN run = {"step", "command", "given", "new", "left", "rows"}
  <1>1. /\ run # Idle /\ run.command \in Commands /\ run.given \in Given[run.command]
        /\ Admissible(run.command, run.given)
        /\ DOMAIN run = {"step", "command", "given", "new", "left", "rows"}
    BY IdleIs DEF IInv, RunIs
  <1> QED  BY <1>1, BundleIs

\* The head of a sequence, and what follows.
LEMMA TailIs ==
    ASSUME NEW S, NEW s \in Seq(S), s # <<>>
    PROVE  /\ Len(s) \in Nat \ {0} /\ Head(s) = s[1]
           /\ Tail(s) \in Seq(S) /\ Len(Tail(s)) = Len(s) - 1
           /\ \A n \in 1..Len(Tail(s)) : Tail(s)[n] = s[n + 1]
  <1>1. Len(s) \in Nat \ {0} /\ Head(s) = s[1]
    OBVIOUS
  <1>2. Tail(s) \in Seq(S) /\ Len(Tail(s)) = Len(s) - 1
    BY <1>1
  <1>3. \A n \in 1..Len(Tail(s)) : Tail(s)[n] = s[n + 1]
    BY <1>1, <1>2
  <1> QED  BY <1>1, <1>2, <1>3

LEMMA StepTable == IInv /\ WriteTable => IInv'
  <1> SUFFICES ASSUME IInv, WriteTable
               PROVE  IInv'
    OBVIOUS
  <1> DEFINE c == run.command
             d == DateOf(run.given)
             t == Head(run.left)
  <1>1. /\ run.step = "write" /\ run.left # <<>>
        /\ tables' = IF run.rows[t] = {} THEN tables
                     ELSE [tables EXCEPT ![c][d][t] = run.rows[t]]
        /\ run' = [run EXCEPT !.left = Tail(run.left)]
        /\ UNCHANGED <<latest, manifest, behind>>
    BY DEF WriteTable
  <1>2. /\ run # Idle /\ c \in Commands /\ run.given \in Given[c] /\ Admissible(c, run.given)
        /\ d \in Dates /\ DOMAIN run = {"step", "command", "given", "new", "left", "rows"}
    BY <1>1, WriteIs
  <1>3. /\ run'.step = "write" /\ run'.command = c /\ run'.given = run.given
        /\ run'.new = run.new /\ run'.left = Tail(run.left) /\ run'.rows = run.rows
        /\ DOMAIN run' = DOMAIN run
    BY <1>1, <1>2
  <1>4. /\ run.left \in Seq(Names(c)) /\ Len(run.left) \in Nat \ {0}
        /\ t = run.left[1] /\ t \in Names(c)
        /\ Tail(run.left) \in Seq(Names(c)) /\ Len(Tail(run.left)) = Len(run.left) - 1
        /\ \A n \in 1..Len(Tail(run.left)) : Tail(run.left)[n] = run.left[n + 1]
    <2>1. run.left \in Seq(Names(c)) /\ run.left # <<>>
      BY <1>1 DEF IInv, WriteInv
    <2>2. t = run.left[1] /\ Len(run.left) \in Nat \ {0}
      BY <2>1, TailIs
    <2>3. t \in Names(c)
      BY <2>1, <2>2
    <2> QED  BY <2>1, <2>2, <2>3, TailIs
  <1>5. /\ DOMAIN tables' = DOMAIN tables
        /\ \A b \in Commands : DOMAIN tables'[b] = DOMAIN tables[b]
        /\ \A b \in Commands, e \in Dates : DOMAIN tables'[b][e] = DOMAIN tables[b][e]
        /\ \A b \in Commands, e \in Dates : \A u \in Names(b) :
              \/ tables'[b][e][u] = tables[b][e][u] /\ (b = c /\ e = d /\ u = t => run.rows[t] = {})
              \/ /\ b = c /\ e = d /\ u = t /\ run.rows[t] # {}
                 /\ tables'[b][e][u] = run.rows[u]
    <2>1. /\ DOMAIN tables = Commands
          /\ \A b \in Commands : DOMAIN tables[b] = Dates
          /\ \A b \in Commands, e \in Dates : DOMAIN tables[b][e] = Names(b)
      BY DEF IInv, Shape
    <2> HIDE DEF c, d, t
    <2> QED  BY <1>1, <1>2, <1>4, <2>1
  <1>6. WantedLeis # {} => WantedLeis' # {}
    <2> SUFFICES ASSUME NEW e \in Dates, tables["isin-lei"][e].candidates # {}
                 PROVE  tables'["isin-lei"][e].candidates # {}
      <3>1. (WantedLeis' # {}) <=> (\E e \in Dates : tables'["isin-lei"][e].candidates # {})
        BY DEF WantedLeis
      <3> QED  BY <3>1, WantedIs
    <2>1. "isin-lei" \in Commands /\ "candidates" \in Names("isin-lei")
      BY DEF Commands, Names, TablesOf, ResolutionTables, ToSet
    <2> QED  BY <1>5, <2>1
  <1>7. (Shape /\ LatestInv /\ RunIs /\ PutInv)'
    BY <1>1, <1>2, <1>3, <1>5 DEF IInv, Shape, LatestInv, RunIs, PutInv
  <1>8. WantedInv'
    BY <1>1, <1>6 DEF IInv, WantedInv
  <1>9. WriteInv'
    <2>1. ASSUME NEW u \in Names(c)
          PROVE  \/ \E n \in 1..Len(Tail(run.left)) : Tail(run.left)[n] = u
                 \/ run.rows[u] = {}
                 \/ tables'[c][d][u] = run.rows[u]
      <3>1. CASE \E n \in 1..Len(run.left) : run.left[n] = u
        <4>1. PICK n \in 1..Len(run.left) : run.left[n] = u
          BY <3>1
        <4>2. CASE n = 1
          BY <1>2, <1>4, <1>5, <4>1, <4>2
        <4>3. CASE n # 1
          <5>1. n - 1 \in 1..Len(Tail(run.left)) /\ (n - 1) + 1 = n
            BY <1>4, <4>3
          <5>2. Tail(run.left)[n - 1] = u
            BY <1>4, <4>1, <5>1
          <5> QED  BY <5>1, <5>2
        <4> QED  BY <4>2, <4>3
      <3>2. CASE run.rows[u] = {}
        BY <3>2
      <3>3. CASE tables[c][d][u] = run.rows[u]
        BY <1>2, <1>5, <3>3
      <3> QED  BY <1>1, <3>1, <3>2, <3>3 DEF IInv, WriteInv
    <2>2. /\ \A n \in 1..Len(run.given) : run.given[n] \in latest
          /\ DOMAIN run.rows = Names(c)
          /\ manifest[c][d] # None => run.new # {}
          /\ c = "golden" => WantedLeis # {}
      BY <1>1 DEF IInv, WriteInv
    <2> QED  BY <1>1, <1>3, <1>4, <1>6, <2>1, <2>2 DEF WriteInv
  <1>10. ManifestInv'
    <2>1. \A b, e : OnRun(b, e)' = OnRun(b, e)
      BY <1>2, <1>3, IdleIs DEF OnRun, Idle
    <2> SUFFICES ASSUME NEW b \in Commands, NEW e \in Dates,
                        manifest[b][e] # None, <<b, e>> \notin behind
                 PROVE  LET m == manifest[b][e]
                        IN  /\ m.artifacts \subseteq latest \/ (OnRun(b, e)' /\ run'.new # {})
                            /\ \A g \in m.artifacts :
                                  About[g].date = e /\ About[g].kind \in KindsOf(b)
                            /\ b = "firds" => Complete_(m)
                            /\ \A u \in DOMAIN m.rows : m.rows[u] # {} =>
                                  tables'[b][e][u] = m.rows[u]
                                      \/ (OnRun(b, e)' /\ run'.step = "write")
      BY <1>1, SMTT(30) DEF ManifestInv
    <2> DEFINE m == manifest[b][e]
    <2>2. /\ m.artifacts \subseteq latest \/ (OnRun(b, e) /\ run.new # {})
          /\ \A g \in m.artifacts : About[g].date = e /\ About[g].kind \in KindsOf(b)
          /\ b = "firds" => Complete_(m)
          /\ \A u \in DOMAIN m.rows : m.rows[u] # {} =>
                tables[b][e][u] = m.rows[u] \/ (OnRun(b, e) /\ run.step = "write")
      BY DEF IInv, ManifestInv
    <2>3. ~OnRun(b, e) => tables'[b][e] = tables[b][e]
      <3>1. DOMAIN tables = Commands /\ \A x \in Commands : DOMAIN tables[x] = Dates
        BY DEF IInv, Shape
      <3>2. ~OnRun(b, e) => b # c \/ e # d
        BY <1>2 DEF OnRun
      <3> HIDE DEF c, d, t
      <3> QED  BY <1>1, <1>2, <3>1, <3>2
    <2> QED  BY <1>1, <1>3, <2>1, <2>2, <2>3
  <1> QED  BY <1>7, <1>8, <1>9, <1>10 DEF IInv

\* Where no key comes twice, the artifacts of a bundle are its files.
LEMMA UsedIs ==
    ASSUME ProperBundles, NEW c \in Commands, NEW given \in Given[c]
    PROVE  Used(given) = ToSet(given)
  <1>1. \A m, k \in DOMAIN given : Member(given[k]) = Member(given[m]) => k = m
    BY DEF ProperBundles, Member
  <1>2. given \in Seq(Files)
    BY GivenAssumption
  <1>3. DOMAIN given = 1..Len(given)
    BY <1>2
  <1>4. \A m, k \in DOMAIN given : k > m => Member(given[k]) # Member(given[m])
    BY <1>1, <1>3
  <1> QED  BY <1>4 DEF Used, ToSet

\* Some numbers up to a bound have a last one.
LEMMA LastIs ==
    ASSUME NEW N \in Nat, NEW T, T \subseteq 1..N, T # {}
    PROVE  \E k \in T : \A o \in T : o <= k
  <1> DEFINE D == {N - k : k \in T}
  <1>1. D \subseteq Nat /\ D # {}
    <2>1. \A k \in T : N - k \in Nat
      OBVIOUS
    <2> QED  BY <2>1
  <1>2. PICK e \in D : \A o \in D : ~ (<<o, e>> \in OpToRel(<, Nat))
    <2> HIDE DEF D
    <2> QED  BY <1>1, NatLessThanWellFounded, WFMin
  <1>3. PICK k \in T : e = N - k
    OBVIOUS
  <1>4. ASSUME NEW o \in T
        PROVE  o <= k
    <2>1. N - o \in D
      OBVIOUS
    <2>2. ~ (N - o < e)
      BY <1>1, <1>2, <2>1 DEF OpToRel
    <2> QED  BY <1>3, <2>2
  <1> QED  BY <1>4

\* The part that declares the number of the parts of its letter is as good as
\* any other of the letter.
LEMMA CompleteIs ==
    ASSUME ProperBundles, NEW given \in Given["firds"], Admissible("firds", given),
           NEW f \in ToSet(given)
    PROVE  Parts(ToSet(given), About[f].letter) = 1..About[f].total
  <1>1. given \in Seq(Files) /\ Len(given) \in Nat /\ DOMAIN given = 1..Len(given)
    BY BundleIs DEF Commands
  <1>2. PICK n \in 1..Len(given) : f = given[n]
    BY <1>1 DEF ToSet
  <1> DEFINE T == {k \in 1..Len(given) : About[given[k]].letter = About[f].letter}
  <1>3. PICK k \in T : \A o \in T : o <= k
    <2>1. T \subseteq 1..Len(given) /\ T # {}
      BY <1>2
    <2> HIDE DEF T
    <2> QED  BY <1>1, <2>1, LastIs
  <1>4. \A o \in DOMAIN given : o > k => About[given[o]].letter # About[given[k]].letter
    <2> SUFFICES ASSUME NEW o \in 1..Len(given), o > k,
                        About[given[o]].letter = About[given[k]].letter
                 PROVE  FALSE
      BY <1>1
    <2>1. o \in T
      OBVIOUS
    <2> QED  BY <1>3, <2>1
  <1>5. Parts(ToSet(given), About[given[k]].letter) = 1..About[given[k]].total
    <2>1. Complete(given)
      BY DEF Admissible
    <2> QED  BY <1>1, <1>4, <2>1 DEF Complete
  <1>6. About[given[k]].letter = About[f].letter /\ About[given[k]].total = About[f].total
    BY <1>1, <1>2 DEF ProperBundles, Commands
  <1> QED  BY <1>5, <1>6

LEMMA StepManifest == ProperBundles /\ IInv /\ WriteManifest => IInv'
  <1> SUFFICES ASSUME ProperBundles, IInv, WriteManifest
               PROVE  IInv'
    OBVIOUS
  <1> DEFINE c == run.command
             d == DateOf(run.given)
             new == [artifacts |-> Used(run.given), rows |-> run.rows]
  <1>1. /\ run.step = "write" /\ run.left = <<>>
        /\ manifest' = [manifest EXCEPT ![c][d] = new]
        /\ behind' = behind \ {<<c, d>>}
        /\ run' = Idle /\ run'.step = "idle"
        /\ UNCHANGED <<latest, tables>>
    BY DEF WriteManifest, Idle
  <1>2. /\ run # Idle /\ c \in Commands /\ run.given \in Given[c] /\ Admissible(c, run.given)
        /\ d \in Dates
    BY <1>1, WriteIs
  <1>3. /\ DOMAIN manifest' = DOMAIN manifest
        /\ \A b \in Commands : DOMAIN manifest'[b] = DOMAIN manifest[b]
        /\ manifest'[c][d] = new
        /\ \A b \in Commands, e \in Dates :
              b # c \/ e # d => manifest'[b][e] = manifest[b][e]
    <2>1. DOMAIN manifest = Commands /\ \A b \in Commands : DOMAIN manifest[b] = Dates
      BY DEF IInv, Shape
    <2> HIDE DEF c, d, new
    <2> QED  BY <1>1, <1>2, <2>1
  <1>4. (Shape /\ LatestInv /\ RunIs /\ PutInv /\ WriteInv)'
    BY <1>1, <1>3 DEF IInv, Shape, LatestInv, RunIs, PutInv, WriteInv
  <1>5. WantedInv'
    <2>1. WantedLeis' = WantedLeis
      BY <1>1 DEF WantedLeis
    <2>2. c = "golden" => WantedLeis # {}
      BY <1>1 DEF IInv, WriteInv
    <2>3. "golden" \in Commands
      BY DEF Commands
    <2> QED  BY <1>2, <1>3, <2>1, <2>2, <2>3 DEF IInv, WantedInv
  <1>6. /\ new.artifacts \subseteq latest
        /\ \A f \in new.artifacts : About[f].date = d /\ About[f].kind \in KindsOf(c)
        /\ c = "firds" => Complete_(new)
        /\ \A t \in DOMAIN new.rows : new.rows[t] # {} => tables[c][d][t] = new.rows[t]
    <2>1. new.artifacts = ToSet(run.given) /\ new.rows = run.rows
      BY <1>2, UsedIs
    <2>2. /\ DOMAIN run.given = 1..Len(run.given)
          /\ \A n \in 1..Len(run.given) :
                About[run.given[n]].date = d /\ About[run.given[n]].kind \in KindsOf(c)
      BY <1>2, BundleIs
    <2>3. \A f \in ToSet(run.given) : \E n \in 1..Len(run.given) : f = run.given[n]
      BY <2>2 DEF ToSet
    <2>4. \A n \in 1..Len(run.given) : run.given[n] \in latest
      BY <1>1 DEF IInv, WriteInv
    <2>5. c = "firds" => \A f \in ToSet(run.given) :
              Parts(ToSet(run.given), About[f].letter) = 1..About[f].total
      BY <1>2, CompleteIs
    <2>6. /\ DOMAIN run.rows = Names(c)
          /\ \A t \in Names(c) : run.rows[t] = {} \/ tables[c][d][t] = run.rows[t]
      <3>1. ~ \E n \in 1..Len(run.left) : TRUE
        <4>1. Len(run.left) = 0
          BY <1>1
        <4> QED  BY <4>1
      <3> QED  BY <1>1, <3>1 DEF IInv, WriteInv
    <2> HIDE DEF new, d, c
    <2> QED  BY <2>1, <2>2, <2>3, <2>4, <2>5, <2>6 DEF Complete_
  <1>7. ManifestInv'
    <2> SUFFICES ASSUME NEW b \in Commands, NEW e \in Dates,
                        manifest'[b][e] # None, <<b, e>> \notin behind'
                 PROVE  LET m == manifest'[b][e]
                        IN  /\ m.artifacts \subseteq latest
                            /\ \A g \in m.artifacts :
                                  About[g].date = e /\ About[g].kind \in KindsOf(b)
                            /\ b = "firds" => Complete_(m)
                            /\ \A u \in DOMAIN m.rows : m.rows[u] # {} =>
                                  tables[b][e][u] = m.rows[u]
      BY <1>1 DEF ManifestInv
    <2>1. CASE b = c /\ e = d
      <3> HIDE DEF new
      <3> QED  BY <1>3, <1>6, <2>1
    <2>2. CASE ~(b = c /\ e = d)
      <3>1. manifest'[b][e] = manifest[b][e] /\ <<b, e>> \notin behind /\ ~OnRun(b, e)
        BY <1>1, <1>3, <2>2 DEF OnRun
      <3> QED  BY <3>1 DEF IInv, ManifestInv
    <2> QED  BY <2>1, <2>2
  <1> QED  BY <1>4, <1>5, <1>7 DEF IInv

LEMMA StepCrash == IInv /\ Crash => IInv'
  <1> SUFFICES ASSUME IInv, Crash
               PROVE  IInv'
    OBVIOUS
  <1> DEFINE c == run.command
             d == DateOf(run.given)
  <1>1. /\ run # Idle /\ run' = Idle /\ run'.step = "idle"
        /\ UNCHANGED <<latest, tables, manifest>>
        /\ behind' = IF run.new # {} /\ manifest[c][d] # None
                     THEN behind \cup {<<c, d>>} ELSE behind
    BY DEF Crash, Idle
  <1>2. (Shape /\ LatestInv /\ RunIs /\ PutInv /\ WriteInv)'
    BY <1>1 DEF IInv, Shape, LatestInv, RunIs, PutInv, WriteInv
  <1>3. WantedInv'
    BY <1>1 DEF IInv, WantedInv, WantedLeis
  <1>4. \A b \in Commands, e \in Dates :
           manifest[b][e] # None /\ <<b, e>> \notin behind' =>
               /\ <<b, e>> \notin behind
               /\ ~(OnRun(b, e) /\ run.new # {}) /\ ~(OnRun(b, e) /\ run.step = "write")
    <2> SUFFICES ASSUME NEW b \in Commands, NEW e \in Dates,
                        manifest[b][e] # None, <<b, e>> \notin behind'
                 PROVE  /\ <<b, e>> \notin behind
                        /\ ~(OnRun(b, e) /\ run.new # {})
                        /\ ~(OnRun(b, e) /\ run.step = "write")
      OBVIOUS
    <2>1. <<b, e>> \notin behind
      BY <1>1
    <2>2. ~(OnRun(b, e) /\ run.new # {})
      BY <1>1 DEF OnRun
    <2>3. run.step = "write" /\ OnRun(b, e) => run.new # {}
      BY DEF IInv, WriteInv, OnRun
    <2> QED  BY <2>1, <2>2, <2>3
  <1>5. ManifestInv'
    BY <1>1, <1>4 DEF IInv, ManifestInv
  <1> QED  BY <1>2, <1>3, <1>5 DEF IInv

LEMMA StepInv == ProperBundles /\ IInv /\ [Next]_vars => IInv'
  <1> SUFFICES ASSUME ProperBundles, IInv, [Next]_vars
               PROVE  IInv'
    OBVIOUS
  <1>1. ASSUME NEW i \in Isins, Grow(i)
        PROVE  IInv'
    BY <1>1, StepElsewhere DEF Grow
  <1>2. ASSUME NEW c \in Commands, NEW given \in Given[c], Start(c, given)
        PROVE  IInv'
    BY <1>2, StepStart
  <1>3. CASE UNCHANGED vars
    BY <1>3, StepElsewhere DEF vars
  <1> QED
    BY <1>1, <1>2, <1>3, StepPut, StepAnswer, StepRefuse, StepExtract, StepTable, StepManifest,
       StepCrash DEF Next

-----------------------------------------------------------------------------
(***************************************************************************)
(* The theorems                                                            *)
(***************************************************************************)
\* provider_ingest.py: whatever bundles are given in whatever order, corrected
\* or not, the manifest of a provider and date, unless a command has died over
\* it, is of whole bundles of the date, of the versions registered last, and of
\* the tables that are there.
THEOREM ManifestsAreCurrent ==
    ASSUME ProperBundles
    PROVE  Spec => []ManifestCurrent
  <1>1. IInv => ManifestCurrent
    <2> SUFFICES ASSUME IInv, NEW c \in Commands, NEW d \in Dates, Settled(c, d)
                 PROVE  LET m == manifest[c][d]
                        IN  /\ m.artifacts \subseteq latest
                            /\ \A f \in m.artifacts : About[f].date = d
                            /\ c = "firds" => Complete_(m)
                            /\ \A t \in DOMAIN m.rows :
                                  m.rows[t] # {} => tables[c][d][t] = m.rows[t]
      BY DEF ManifestCurrent, Complete_
    <2>1. ~OnRun(c, d) /\ manifest[c][d] # None /\ <<c, d>> \notin behind
      BY DEF Settled, OnRun
    <2> QED  BY <2>1 DEF IInv, ManifestInv
  <1> QED  BY <1>1, InitInv, StepInv, PTL DEF Spec

-----------------------------------------------------------------------------
(***************************************************************************)
(* The closure of a golden snapshot                                        *)
(***************************************************************************)
\* A LEI file has one record of an entity.
OneRecordEach ==
    \A f \in Files : About[f].kind = "lei2" =>
        /\ \A n \in DOMAIN About[f].rows : About[f].rows[n].lei # None
        /\ \A m, n \in DOMAIN About[f].rows :
               About[f].rows[m].lei = About[f].rows[n].lei => m = n

\* Rows are those of one LEI and one relationship file for some wanted LEIs.
Snapshot(files, rows) ==
    \E lei2, rr \in Files : \E W :
        /\ \A f \in files : /\ About[f].kind = "lei2" => f = lei2
                            /\ About[f].kind = "rr" => f = rr
        /\ lei2 \in files /\ About[lei2].kind = "lei2"
        /\ rr \in files /\ About[rr].kind = "rr"
        /\ DOMAIN rows = {"entities", "relationships", "exceptions"}
        /\ rows.entities = Entities(lei2, W, Closure(rr, W))
        /\ rows.relationships = Relationships(rr, W)

GoldenInv ==
    /\ run.step = "write" /\ run.command = "golden" => Snapshot(ToSet(run.given), run.rows)
    /\ \A d \in Dates : manifest["golden"][d] # None =>
          Snapshot(manifest["golden"][d].artifacts, manifest["golden"][d].rows)

LEMMA GoldenBundle ==
    ASSUME NEW given \in Given["golden"], Admissible("golden", given)
    PROVE  /\ given[1] \in Files /\ given[2] \in Files
           /\ given[1] \in ToSet(given) /\ About[given[1]].kind = "lei2"
           /\ given[2] \in ToSet(given) /\ About[given[2]].kind = "rr"
           /\ \A f \in ToSet(given) : /\ About[f].kind = "lei2" => f = given[1]
                                      /\ About[f].kind = "rr" => f = given[2]
  <1>1. Kinds(given) = <<"lei2", "rr", "repex">>
    BY DEF Admissible
  <1>2. DOMAIN given = 1..3
    <2>1. DOMAIN Kinds(given) = DOMAIN given
      BY DEF Kinds
    <2> QED  BY <1>1, <2>1
  <1>3. /\ About[given[1]].kind = "lei2" /\ About[given[2]].kind = "rr"
        /\ About[given[3]].kind = "repex"
    <2>1. \A n \in 1..3 : About[given[n]].kind = <<"lei2", "rr", "repex">>[n]
      BY <1>1, <1>2 DEF Kinds
    <2> QED  BY <2>1
  <1>4. given[1] \in Files /\ given[2] \in Files
    <2>1. given \in Seq(Files)
      BY GivenAssumption DEF Commands
    <2>2. \A n \in 1..Len(given) : given[n] \in Files
      BY <2>1
    <2>3. 1..Len(given) = 1..3
      <3>1. DOMAIN given = 1..Len(given)
        BY <2>1
      <3> QED  BY <1>2, <3>1
    <2>4. 1 \in 1..3 /\ 2 \in 1..3
      OBVIOUS
    <2> QED  BY <2>2, <2>3, <2>4
  <1>5. /\ \A f \in ToSet(given) : f = given[1] \/ f = given[2] \/ f = given[3]
        /\ given[1] \in ToSet(given) /\ given[2] \in ToSet(given)
    BY <1>2 DEF ToSet
  <1> QED  BY <1>3, <1>4, <1>5

LEMMA StepGolden == ProperBundles /\ IInv /\ GoldenInv /\ [Next]_vars => GoldenInv'
  <1> SUFFICES ASSUME ProperBundles, IInv, GoldenInv, [Next]_vars
               PROVE  GoldenInv'
    OBVIOUS
  <1>1. ASSUME UNCHANGED manifest, run'.step # "write"
        PROVE  GoldenInv'
    BY <1>1 DEF GoldenInv
  <1>2. ASSUME NEW i \in Isins, Grow(i)
        PROVE  GoldenInv'
    BY <1>2 DEF Grow, GoldenInv
  <1>3. ASSUME NEW c \in Commands, NEW given \in Given[c], Start(c, given)
        PROVE  GoldenInv'
    BY <1>1, <1>3 DEF Start
  <1>4. CASE PutFile
    <2>1. run.step = "put" /\ run # Idle /\ UNCHANGED manifest
      BY <1>4, PutIs DEF PutFile
    <2>2. DOMAIN run = {"step", "command", "given", "todo", "new"}
      BY <2>1 DEF IInv, RunIs
    <2>3. run'.step = "put"
      BY <1>4, <2>1, <2>2 DEF PutFile
    <2> QED  BY <1>1, <2>1, <2>3
  <1>5. CASE AnswerFromManifest \/ RefuseGolden \/ Crash
    BY <1>1, <1>5 DEF AnswerFromManifest, RefuseGolden, Crash, Idle
  <1>6. CASE Extract
    <2>1. /\ run.step = "put" /\ UNCHANGED manifest
          /\ run'.command = run.command /\ run'.given = run.given
          /\ run'.rows = Extracted(run.command, run.given)
      BY <1>6 DEF Extract, AllPut
    <2>2. run.given \in Given[run.command] /\ Admissible(run.command, run.given)
      BY <2>1, IdleIs DEF IInv, RunIs
    <2>3. run.command = "golden" => Snapshot(ToSet(run.given), Extracted("golden", run.given))
      <3> SUFFICES ASSUME run.command = "golden"
                   PROVE  Snapshot(ToSet(run.given), Extracted("golden", run.given))
        OBVIOUS
      <3> DEFINE lei2 == run.given[1]
                 rr == run.given[2]
                 rows == GoldenRows(lei2, rr, run.given[3])
      <3>1. Extracted("golden", run.given) = rows
        BY DEF Extracted
      <3>2. /\ DOMAIN rows = {"entities", "relationships", "exceptions"}
            /\ rows.entities = Entities(lei2, WantedLeis, Closure(rr, WantedLeis))
            /\ rows.relationships = Relationships(rr, WantedLeis)
        BY DEF GoldenRows
      <3> HIDE DEF rows
      <3> QED  BY <2>2, <3>1, <3>2, GoldenBundle DEF Snapshot
    <2> QED  BY <2>1, <2>3 DEF GoldenInv
  <1>7. CASE WriteTable
    <2>1. run.step = "write" /\ UNCHANGED manifest
      BY <1>7 DEF WriteTable
    <2>2. DOMAIN run = {"step", "command", "given", "new", "left", "rows"}
      BY <2>1, WriteIs
    <2>3. run'.command = run.command /\ run'.given = run.given /\ run'.rows = run.rows
      BY <1>7, <2>2 DEF WriteTable
    <2> QED  BY <2>1, <2>3 DEF GoldenInv
  <1>8. CASE WriteManifest
    <2> DEFINE d == DateOf(run.given)
               new == [artifacts |-> Used(run.given), rows |-> run.rows]
    <2>1. /\ run.step = "write" /\ run'.step = "idle"
          /\ manifest' = [manifest EXCEPT ![run.command][d] = new]
      BY <1>8 DEF WriteManifest, Idle
    <2>2. /\ run.command \in Commands /\ run.given \in Given[run.command] /\ d \in Dates
      BY <2>1, WriteIs
    <2>3. \A e \in Dates : \/ manifest'["golden"][e] = manifest["golden"][e]
                           \/ run.command = "golden" /\ manifest'["golden"][e] = new
      <3>1. DOMAIN manifest = Commands /\ \A b \in Commands : DOMAIN manifest[b] = Dates
        BY DEF IInv, Shape
      <3>2. "golden" \in Commands
        BY DEF Commands
      <3> HIDE DEF d, new
      <3> QED  BY <2>1, <2>2, <3>1, <3>2
    <2>4. run.command = "golden" => Snapshot(new.artifacts, new.rows)
      BY <2>1, <2>2, UsedIs DEF GoldenInv
    <2> HIDE DEF new
    <2> QED  BY <2>1, <2>3, <2>4 DEF GoldenInv
  <1>9. CASE UNCHANGED vars
    BY <1>9 DEF vars, GoldenInv
  <1> QED
    BY <1>2, <1>3, <1>4, <1>5, <1>6, <1>7, <1>8, <1>9 DEF Next

LEMMA GoldenInvariant ==
    ASSUME ProperBundles
    PROVE  Spec => [](IInv /\ GoldenInv)
  <1>1. Init => GoldenInv
    BY DEF Init, Idle, GoldenInv, Commands
  <1>2. IInv /\ GoldenInv /\ [Next]_vars => (IInv /\ GoldenInv)'
    BY StepInv, StepGolden
  <1> QED  BY <1>1, <1>2, InitInv, PTL DEF Spec

\* The LEIs that the LEI file has
Known(files) ==
    UNION {{r.lei : r \in ToSet(About[f].rows)} :
              f \in {g \in files : About[g].kind = "lei2"}}

\* A closure of one hop is closed: both ends have their rows, and the rows that
\* are not wanted are ends.
LEMMA SnapshotClosed ==
    ASSUME OneRecordEach, NEW files, NEW rows, Snapshot(files, rows)
    PROVE  /\ \A r \in rows.relationships :
                 /\ r.lei \in Known(files) =>
                        \E e \in rows.entities : e.lei = r.lei /\ e.role = "resolved"
                 /\ r.end \in Known(files) => \E e \in rows.entities : e.lei = r.end
           /\ \A e \in rows.entities :
                 /\ e.role = "closure_end_node" => \E r \in rows.relationships : r.end = e.lei
                 /\ \A o \in rows.entities : o.lei = e.lei => o = e
  <1>1. PICK lei2, rr, W :
          /\ lei2 \in Files /\ rr \in Files
          /\ \A f \in files : About[f].kind = "lei2" => f = lei2
          /\ lei2 \in files /\ About[lei2].kind = "lei2"
          /\ rows.entities = Entities(lei2, W, Closure(rr, W))
          /\ rows.relationships = Relationships(rr, W)
    BY DEF Snapshot
  <1> DEFINE C == Closure(rr, W)
             rec(n) == About[lei2].rows[n]
  <1>2. /\ \A n \in DOMAIN About[lei2].rows : rec(n).lei # None
        /\ \A m, n \in DOMAIN About[lei2].rows : rec(m).lei = rec(n).lei => m = n
    BY <1>1 DEF OneRecordEach
  <1>3. \A e : e \in rows.entities <=>
            \E n \in DOMAIN About[lei2].rows :
                rec(n).lei \in W \cup C /\ e = EntityRow(rec(n), Role(rec(n).lei, W))
    <2>1. \A x \in Records(lei2, "lei", W \cup C) :
             \E n \in DOMAIN About[lei2].rows : rec(n).lei \in W \cup C /\ x.rec = rec(n)
      BY DEF Records
    <2>2. \A n \in DOMAIN About[lei2].rows : rec(n).lei \in W \cup C =>
             \E x \in Records(lei2, "lei", W \cup C) : x.rec = rec(n)
      <3> SUFFICES ASSUME NEW n \in DOMAIN About[lei2].rows, rec(n).lei \in W \cup C
                   PROVE  \E x \in Records(lei2, "lei", W \cup C) : x.rec = rec(n)
        OBVIOUS
      <3> DEFINE x == [at |-> <<lei2, n>>, rec |-> rec(n)]
      <3>1. x \in Records(lei2, "lei", W \cup C)
        BY DEF Records
      <3>2. x.rec = rec(n)
        OBVIOUS
      <3> HIDE DEF x
      <3> QED  BY <3>1, <3>2
    <2>3. \A e : e \in rows.entities <=>
             \E x \in Records(lei2, "lei", W \cup C) :
                 e = EntityRow(x.rec, Role(x.rec.lei, W))
      <3> HIDE DEF C
      <3> QED  BY <1>1 DEF Entities, C
    <2> HIDE DEF C, rec
    <2>4. ASSUME NEW e \in rows.entities
          PROVE  \E n \in DOMAIN About[lei2].rows :
                    rec(n).lei \in W \cup C /\ e = EntityRow(rec(n), Role(rec(n).lei, W))
      <3>1. PICK x \in Records(lei2, "lei", W \cup C) : e = EntityRow(x.rec, Role(x.rec.lei, W))
        BY <2>3
      <3>2. PICK n \in DOMAIN About[lei2].rows : rec(n).lei \in W \cup C /\ x.rec = rec(n)
        BY <2>1
      <3> QED  BY <3>1, <3>2
    <2>5. ASSUME NEW n \in DOMAIN About[lei2].rows, rec(n).lei \in W \cup C
          PROVE  EntityRow(rec(n), Role(rec(n).lei, W)) \in rows.entities
      <3>1. PICK x \in Records(lei2, "lei", W \cup C) : x.rec = rec(n)
        BY <2>2, <2>5
      <3> QED  BY <2>3, <3>1
    <2> QED  BY <2>4, <2>5
  <1>4. \A l \in Known(files) : \E n \in DOMAIN About[lei2].rows : rec(n).lei = l
    BY <1>1 DEF Known, ToSet
  <1>5. \A r \in rows.relationships : r.lei \in W
    BY <1>1 DEF Relationships, Records
  <1>6. C = {r.end : r \in rows.relationships} \ (W \cup {None})
    BY <1>1 DEF Closure
  <1>7. ASSUME NEW l \in Known(files), l \in W \cup C
        PROVE  \E e \in rows.entities : e.lei = l /\ (l \in W => e.role = "resolved")
    <2>1. PICK n \in DOMAIN About[lei2].rows : rec(n).lei = l
      BY <1>4
    <2> DEFINE e == EntityRow(rec(n), Role(rec(n).lei, W))
    <2>2. e \in rows.entities
      BY <1>3, <1>7, <2>1
    <2>3. e.lei = l /\ (l \in W => e.role = "resolved")
      BY <2>1 DEF EntityRow, Role
    <2> QED  BY <2>2, <2>3
  <1>8. ASSUME NEW r \in rows.relationships
        PROVE  /\ r.lei \in Known(files) =>
                      \E e \in rows.entities : e.lei = r.lei /\ e.role = "resolved"
               /\ r.end \in Known(files) => \E e \in rows.entities : e.lei = r.end
    <2>1. r.lei \in W
      BY <1>5
    <2>2. r.end \in Known(files) => r.end # None
      BY <1>2, <1>4
    <2>3. r.end \in Known(files) => r.end \in W \cup C
      BY <1>6, <2>2
    <2> QED  BY <1>7, <2>1, <2>3
  <1>9. ASSUME NEW e \in rows.entities
        PROVE  /\ e.role = "closure_end_node" => \E r \in rows.relationships : r.end = e.lei
               /\ \A o \in rows.entities : o.lei = e.lei => o = e
    <2>1. PICK n \in DOMAIN About[lei2].rows :
            rec(n).lei \in W \cup C /\ e = EntityRow(rec(n), Role(rec(n).lei, W))
      BY <1>3
    <2>2. e.lei = rec(n).lei /\ e.role = Role(rec(n).lei, W)
      BY <2>1 DEF EntityRow
    <2>3. e.role = "closure_end_node" => e.lei \in C
      BY <2>1, <2>2 DEF Role
    <2>4. ASSUME NEW o \in rows.entities, o.lei = e.lei
          PROVE  o = e
      <3>1. PICK m \in DOMAIN About[lei2].rows : o = EntityRow(rec(m), Role(rec(m).lei, W))
        BY <1>3
      <3>2. o.lei = rec(m).lei
        BY <3>1 DEF EntityRow
      <3>3. m = n
        BY <1>2, <2>2, <2>4, <3>2
      <3> QED  BY <2>1, <3>1, <3>3
    <2> QED  BY <1>6, <2>3, <2>4
  <1> QED  BY <1>8, <1>9

\* "The bounded one-hop closure" of provider_ingest.ingest_gleif_golden: what a
\* golden snapshot has of relationships has its entities, whichever candidates
\* were known, and no entity is there without a relationship or in two roles.
THEOREM ClosureIsComplete ==
    ASSUME ProperBundles, OneRecordEach
    PROVE  Spec => []ClosureComplete
  <1>1. IInv /\ GoldenInv => ClosureComplete
    <2> SUFFICES ASSUME IInv, GoldenInv, NEW d \in Dates, Settled("golden", d),
                        manifest["golden"][d].rows.entities # {},
                        manifest["golden"][d].rows.relationships # {}
                 PROVE  LET m == manifest["golden"][d]
                            t == tables["golden"][d]
                            known == UNION {{r.lei : r \in ToSet(About[f].rows)} :
                                               f \in {g \in m.artifacts : About[g].kind = "lei2"}}
                        IN  /\ \A r \in t.relationships :
                                  /\ r.lei \in known =>
                                         \E e \in t.entities : e.lei = r.lei /\ e.role = "resolved"
                                  /\ r.end \in known => \E e \in t.entities : e.lei = r.end
                            /\ \A e \in t.entities :
                                  /\ e.role = "closure_end_node" =>
                                         \E r \in t.relationships : r.end = e.lei
                                  /\ \A o \in t.entities : o.lei = e.lei => o = e
      BY DEF ClosureComplete
    <2> DEFINE m == manifest["golden"][d]
               t == tables["golden"][d]
               known == UNION {{r.lei : r \in ToSet(About[f].rows)} :
                                  f \in {g \in m.artifacts : About[g].kind = "lei2"}}
    <2>1. m # None /\ <<"golden", d>> \notin behind /\ ~OnRun("golden", d)
      BY DEF Settled, OnRun
    <2>2. Snapshot(m.artifacts, m.rows)
      BY <2>1 DEF GoldenInv
    <2>3. DOMAIN m.rows = {"entities", "relationships", "exceptions"}
      BY <2>2 DEF Snapshot
    <2>4. t.entities = m.rows.entities /\ t.relationships = m.rows.relationships
      <3>1. "golden" \in Commands
        BY DEF Commands
      <3> QED  BY <2>1, <2>3, <3>1 DEF IInv, ManifestInv
    <2> HIDE DEF m, t
    <2>5. known = Known(m.artifacts)
      BY DEF Known
    <2> HIDE DEF known
    <2>6. /\ \A r \in m.rows.relationships :
                /\ r.lei \in known =>
                       \E e \in m.rows.entities : e.lei = r.lei /\ e.role = "resolved"
                /\ r.end \in known => \E e \in m.rows.entities : e.lei = r.end
          /\ \A e \in m.rows.entities :
                /\ e.role = "closure_end_node" =>
                       \E r \in m.rows.relationships : r.end = e.lei
                /\ \A o \in m.rows.entities : o.lei = e.lei => o = e
      BY <2>2, <2>5, SnapshotClosed
    <2> QED  BY <2>4, <2>6 DEF m, t, known
  <1> QED  BY <1>1, GoldenInvariant, PTL

-----------------------------------------------------------------------------
(***************************************************************************)
(* The context of a conflict                                               *)
(***************************************************************************)
\* A LEI or relationship file of a date is of one key.
OneKeyEach ==
    \A f, g \in Files :
        About[f].kind \in {"lei2", "rr"} /\ About[f].kind = About[g].kind
            /\ About[f].date = About[g].date => Key(f) = Key(g)

Rows(f) == ToSet(About[f].rows)
ProfilesIn(f, l) == {r.profile : r \in {x \in Rows(f) : x.lei = l}}

\* Records are the rows about a wanted LEI, each at its place.
LEMMA RecordsAre ==
    ASSUME NEW f, NEW S
    PROVE  /\ \A x \in Records(f, "lei", S) : x.rec \in Rows(f) /\ x.rec.lei \in S
           /\ \A r \in Rows(f) : r.lei \in S => \E x \in Records(f, "lei", S) : x.rec = r
  <1>1. \A x \in Records(f, "lei", S) : x.rec \in Rows(f) /\ x.rec.lei \in S
    BY DEF Records, Rows, ToSet
  <1>2. ASSUME NEW r \in Rows(f), r.lei \in S
        PROVE  \E x \in Records(f, "lei", S) : x.rec = r
    <2>1. PICK n \in DOMAIN About[f].rows : About[f].rows[n] = r
      BY DEF Rows, ToSet
    <2> DEFINE x == [at |-> <<f, n>>, rec |-> r]
    <2>2. x \in Records(f, "lei", S)
      BY <1>2, <2>1 DEF Records
    <2>3. x.rec = r
      OBVIOUS
    <2> HIDE DEF x
    <2> QED  BY <2>2, <2>3
  <1> QED  BY <1>1, <1>2

\* An entity that is kept has the profile of the file.
LEMMA ProfilesAre ==
    ASSUME NEW f, NEW W, NEW C, NEW l
    PROVE  LET loaded == {e.profile : e \in {x \in Entities(f, W, C) : x.lei = l}}
               raw == {r.rec.profile : r \in Records(f, "lei", {l})}
           IN  raw = ProfilesIn(f, l) /\ loaded \in {{}, ProfilesIn(f, l)}
  <1> DEFINE loaded == {e.profile : e \in {x \in Entities(f, W, C) : x.lei = l}}
             raw == {r.rec.profile : r \in Records(f, "lei", {l})}
  <1>1. raw = ProfilesIn(f, l)
    <2>1. \A p \in raw : p \in ProfilesIn(f, l)
      <3> SUFFICES ASSUME NEW x \in Records(f, "lei", {l})
                   PROVE  x.rec.profile \in ProfilesIn(f, l)
        OBVIOUS
      <3>1. x.rec \in Rows(f) /\ x.rec.lei = l
        BY RecordsAre
      <3> QED  BY <3>1 DEF ProfilesIn
    <2>2. \A p \in ProfilesIn(f, l) : p \in raw
      <3> SUFFICES ASSUME NEW r \in Rows(f), r.lei = l
                   PROVE  r.profile \in raw
        BY DEF ProfilesIn
      <3>1. PICK x \in Records(f, "lei", {l}) : x.rec = r
        BY RecordsAre
      <3> QED  BY <3>1
    <2> QED  BY <2>1, <2>2
  <1>2. \A p \in loaded : p \in ProfilesIn(f, l) /\ l \in W \cup C
    <2> SUFFICES ASSUME NEW e \in Entities(f, W, C), e.lei = l
                 PROVE  e.profile \in ProfilesIn(f, l) /\ l \in W \cup C
      OBVIOUS
    <2>1. PICK x \in Records(f, "lei", W \cup C) : e = EntityRow(x.rec, Role(x.rec.lei, W))
      BY DEF Entities
    <2>2. x.rec \in Rows(f) /\ x.rec.lei \in W \cup C
      BY RecordsAre
    <2>3. e.lei = x.rec.lei /\ e.profile = x.rec.profile
      BY <2>1 DEF EntityRow
    <2> QED  BY <2>2, <2>3 DEF ProfilesIn
  <1>3. l \in W \cup C => \A p \in ProfilesIn(f, l) : p \in loaded
    <2> SUFFICES ASSUME l \in W \cup C, NEW r \in Rows(f), r.lei = l
                 PROVE  r.profile \in loaded
      BY DEF ProfilesIn
    <2>1. PICK x \in Records(f, "lei", W \cup C) : x.rec = r
      BY RecordsAre
    <2> DEFINE e == EntityRow(x.rec, Role(x.rec.lei, W))
    <2>2. e \in Entities(f, W, C)
      BY DEF Entities
    <2>3. e.lei = l /\ e.profile = r.profile
      BY <2>1 DEF EntityRow
    <2> HIDE DEF e
    <2> QED  BY <2>2, <2>3
  <1> HIDE DEF loaded, raw
  <1>4. loaded \in {{}, ProfilesIn(f, l)}
    <2>1. CASE l \in W \cup C
      <3>1. loaded = ProfilesIn(f, l)
        BY <1>2, <1>3, <2>1
      <3> QED  BY <3>1
    <2>2. CASE l \notin W \cup C
      <3>1. loaded = {}
        BY <1>2, <2>2
      <3> QED  BY <3>1
    <2> QED  BY <2>1, <2>2
  <1> QED  BY <1>1, <1>4 DEF loaded, raw

\* adjudication._conflict_context: what is said of two issuers in conflict is
\* what the golden snapshot of the bundle says, although the extraction of that
\* snapshot followed other candidates.
THEOREM ContextIsOfSnapshot ==
    ASSUME ProperBundles, OneKeyEach
    PROVE  Spec => []ContextOfSnapshot
  <1>1. IInv /\ GoldenInv => ContextOfSnapshot
    <2> SUFFICES ASSUME IInv, GoldenInv, NEW d \in Dates, Settled("golden", d),
                        manifest["golden"][d].rows.entities # {},
                        manifest["golden"][d].rows.relationships # {}
                 PROVE  \A a, b : Context(d, a, b) =
                            KindOf(\E r \in Said(manifest["golden"][d].artifacts, "rr") :
                                       Between(r, a, b),
                                   ProfilesSaid(manifest["golden"][d].artifacts, a),
                                   ProfilesSaid(manifest["golden"][d].artifacts, b))
      BY ZenonT(60) DEF ContextOfSnapshot
    <2> DEFINE m == manifest["golden"][d]
               t == tables["golden"][d]
               says(kind) == Said(m.artifacts, kind)
               profile(l) == ProfilesSaid(m.artifacts, l)
    <2>1. m # None /\ <<"golden", d>> \notin behind /\ ~OnRun("golden", d)
      BY DEF Settled, OnRun
    <2>2. PICK lei2, rr, W :
            /\ lei2 \in Files /\ rr \in Files
            /\ \A f \in m.artifacts : /\ About[f].kind = "lei2" => f = lei2
                                      /\ About[f].kind = "rr" => f = rr
            /\ lei2 \in m.artifacts /\ About[lei2].kind = "lei2"
            /\ rr \in m.artifacts /\ About[rr].kind = "rr"
            /\ DOMAIN m.rows = {"entities", "relationships", "exceptions"}
            /\ m.rows.entities = Entities(lei2, W, Closure(rr, W))
            /\ m.rows.relationships = Relationships(rr, W)
      BY <2>1 DEF GoldenInv, Snapshot
    <2>3. /\ m.artifacts \subseteq latest
          /\ \A f \in m.artifacts : About[f].date = d
          /\ t.entities = m.rows.entities /\ t.relationships = m.rows.relationships
      <3>1. "golden" \in Commands
        BY DEF Commands
      <3> QED  BY <2>1, <2>2, <3>1 DEF IInv, ManifestInv
    <2> HIDE DEF m, t
    <2>4. /\ {g \in latest : About[g].kind = "rr" /\ About[g].date = d} = {rr}
          /\ {g \in latest : About[g].kind = "lei2" /\ About[g].date = d} = {lei2}
      <3>1. \A f, g \in latest : Key(f) = Key(g) => f = g
        BY DEF IInv, LatestInv
      <3>2. latest \subseteq Files
        BY DEF IInv, LatestInv
      <3> QED  BY <2>2, <2>3, <3>1, <3>2 DEF OneKeyEach
    <2>5. says("rr") = Rows(rr) /\ says("lei2") = Rows(lei2)
      <3>1. /\ {g \in m.artifacts : About[g].kind = "rr"} = {rr}
            /\ {g \in m.artifacts : About[g].kind = "lei2"} = {lei2}
        BY <2>2
      <3> QED  BY <3>1 DEF Rows, Said
    <2>6. \A l : profile(l) = ProfilesIn(lei2, l)
      BY <2>5 DEF ProfilesIn, ProfilesSaid
    <2> HIDE DEF says, profile
    <2>7. ASSUME NEW l
          PROVE  ProfileOf(d, l) = profile(l)
      <3> DEFINE loaded == {e.profile : e \in {x \in t.entities : x.lei = l}}
                 raw == {r.rec.profile : r \in Records(lei2, "lei", {l})}
      <3>1. raw = ProfilesIn(lei2, l) /\ loaded \in {{}, ProfilesIn(lei2, l)}
        <4>1. t.entities = Entities(lei2, W, Closure(rr, W))
          BY <2>2, <2>3
        <4> QED  BY <4>1, ProfilesAre
      <3>2. ProfileOf(d, l) = IF loaded # {} THEN loaded ELSE raw
        <4>1. UNION {{r.rec.profile : r \in Records(f, "lei", {l})} :
                        f \in {g \in latest : About[g].kind = "lei2" /\ About[g].date = d}} = raw
          BY <2>4
        <4> HIDE DEF raw
        <4> QED  BY <4>1 DEF ProfileOf, t
      <3> HIDE DEF loaded, raw
      <3> QED  BY <2>6, <3>1, <3>2
    <2>8. ASSUME NEW a, NEW b
          PROVE  (RawRelations(d, a, b)
                     \cup {r \in t.relationships : Between(r, a, b)} # {})
                     <=> (\E r \in says("rr") : Between(r, a, b))
      <3>1. \A r \in t.relationships : r \in Rows(rr)
        BY <2>2, <2>3, RecordsAre DEF Relationships
      <3>2. RawRelations(d, a, b) =
               {r.rec : r \in {x \in Records(rr, "lei", {a, b}) : Between(x.rec, a, b)}}
        BY <2>4 DEF RawRelations
      <3>3. \A r \in RawRelations(d, a, b) : r \in Rows(rr) /\ Between(r, a, b)
        BY <3>2, RecordsAre
      <3>4. ASSUME NEW r \in Rows(rr), Between(r, a, b)
            PROVE  r \in RawRelations(d, a, b)
        <4>1. r.lei \in {a, b}
          BY <3>4 DEF Between
        <4>2. PICK x \in Records(rr, "lei", {a, b}) : x.rec = r
          BY <4>1, RecordsAre
        <4> QED  BY <3>2, <3>4, <4>2
      <3> QED  BY <2>5, <3>1, <3>3, <3>4
    <2>9. \A a, b : Context(d, a, b) =
              KindOf(\E r \in says("rr") : Between(r, a, b), profile(a), profile(b))
      <3> TAKE a, b
      <3>1. Context(d, a, b) =
               KindOf(RawRelations(d, a, b)
                          \cup {r \in t.relationships : Between(r, a, b)} # {},
                      ProfileOf(d, a), ProfileOf(d, b))
        BY DEF Context, t
      <3>2. ProfileOf(d, a) = profile(a) /\ ProfileOf(d, b) = profile(b)
        BY <2>7
      <3> QED  BY <2>8, <3>1, <3>2 DEF KindOf
    <2> QED  BY <2>9 DEF says, profile, m
  <1> QED  BY <1>1, GoldenInvariant, PTL
-----------------------------------------------------------------------------
(***************************************************************************)
(* The ISIN-LEI and FIRDS ingests as exports of ResolutionSnapshots        *)
(***************************************************************************)
Resolutions == {"isin-lei", "firds"}

\* The tables of a resolution are written in their order.
LeftInv ==
    run.step = "write" =>
        /\ DateOf(run.given) \in Dates
        /\ DOMAIN run.rows = Names(run.command)
        /\ run.command \in Resolutions =>
              run.left \in {<<"observations", "candidates", "evidence">>,
                            <<"candidates", "evidence">>, <<"evidence">>, <<>>}

ExportInv == Shape /\ RunIs /\ LeftInv

LEMMA ResolutionNames ==
    /\ Commands = Resolutions \cup {"golden"} /\ "golden" \notin Resolutions
    /\ \A c \in Resolutions :
          /\ Names(c) = {"observations", "candidates", "evidence"}
          /\ TablesOf[c] = <<"observations", "candidates", "evidence">>
  <1>1. \A c \in Resolutions : TablesOf[c] = ResolutionTables
    BY DEF TablesOf, Commands, Resolutions
  <1>2. ToSet(ResolutionTables) = {"observations", "candidates", "evidence"}
    BY DEF ResolutionTables, ToSet
  <1> QED  BY <1>1, <1>2 DEF Names, ResolutionTables, Commands, Resolutions

\* What is left to write tells the step of an export.
LEMMA NextTableIs ==
    /\ NextTable(<<"observations", "candidates", "evidence">>) = "observations"
    /\ NextTable(<<"candidates", "evidence">>) = "candidates"
    /\ NextTable(<<"evidence">>) = "manifest" /\ NextTable(<<>>) = "manifest"
  <1>1. ToSet(<<"observations", "candidates", "evidence">>) = {"observations", "candidates", "evidence"}
    BY DEF ToSet
  <1>2. ToSet(<<"candidates", "evidence">>) = {"candidates", "evidence"}
    BY DEF ToSet
  <1>3. ToSet(<<"evidence">>) = {"evidence"} /\ ToSet(<<>>) = {}
    BY DEF ToSet
  <1> QED  BY <1>1, <1>2, <1>3 DEF NextTable

LEMMA InitExport == Init => ExportInv /\ Snapshots!Init
  <1> SUFFICES ASSUME Init
               PROVE  ExportInv /\ Snapshots!Init
    OBVIOUS
  <1>1. run.step = "idle" /\ run = Idle
    BY DEF Init, Idle
  <1>2. ExportInv
    BY <1>1 DEF Init, ExportInv, Shape, Names, RunIs, LeftInv
  <1>3. ASSUME NEW s \in Slots
        PROVE  /\ tables[s[1]][s[2]].observations = {} /\ tables[s[1]][s[2]].candidates = {}
               /\ manifest[s[1]][s[2]] = None
    <2>1. s[1] \in Resolutions /\ s[2] \in Dates /\ s[1] \in Commands
      BY ResolutionNames DEF Slots, Resolutions
    <2>2. tables[s[1]][s[2]] = [t \in Names(s[1]) |-> {}]
      BY <2>1 DEF Init, Names
    <2> QED  BY <2>1, <2>2, ResolutionNames DEF Init
  <1>4. /\ ObservedAt = [s \in Slots |-> {}] /\ CandidatesAt = [s \in Slots |-> {}]
        /\ NamedAt = [s \in Slots |-> None]
    BY <1>3 DEF ObservedAt, CandidatesAt, NamedAt, IsinsOf, PairsOf
  <1>5. Export = Idle /\ Idle = Snapshots!Idle
    BY <1>1 DEF Export, Idle, Snapshots!Idle
  <1> QED  BY <1>2, <1>4, <1>5 DEF Snapshots!Init

Writes(c, d, t, rows) ==
    tables' = IF rows = {} THEN tables ELSE [tables EXCEPT ![c][d][t] = rows]

\* What one write of a table does to the snapshots
LEMMA TableWritten ==
    ASSUME Shape, NEW c \in Commands, NEW d \in Dates, NEW t \in Names(c), NEW rows,
           Writes(c, d, t, rows)
    PROVE  /\ c \in Resolutions /\ t = "observations" =>
                 ObservedAt' = IF IsinsOf(rows) = {} THEN ObservedAt
                               ELSE [ObservedAt EXCEPT ![<<c, d>>] = IsinsOf(rows)]
           /\ c \in Resolutions /\ t = "candidates" =>
                 CandidatesAt' = IF PairsOf(rows) = {} THEN CandidatesAt
                                 ELSE [CandidatesAt EXCEPT ![<<c, d>>] = PairsOf(rows)]
           /\ c \notin Resolutions \/ t # "observations" => ObservedAt' = ObservedAt
           /\ c \notin Resolutions \/ t # "candidates" => CandidatesAt' = CandidatesAt
  <1>1. /\ DOMAIN tables = Commands
        /\ \A b \in Commands : DOMAIN tables[b] = Dates
        /\ \A b \in Commands, e \in Dates : DOMAIN tables[b][e] = Names(b)
    BY DEF Shape
  <1>2. ASSUME NEW b \in Commands, NEW e \in Dates, NEW u \in Names(b)
        PROVE  tables'[b][e][u] = IF b = c /\ e = d /\ u = t /\ rows # {} THEN rows
                                  ELSE tables[b][e][u]
    BY <1>1 DEF Writes
  <1>3. ASSUME NEW s \in Slots
        PROVE  /\ s[1] \in Resolutions /\ s[1] \in Commands /\ s[2] \in Dates /\ s = <<s[1], s[2]>>
               /\ "observations" \in Names(s[1]) /\ "candidates" \in Names(s[1])
    BY ResolutionNames DEF Slots, Resolutions
  <1>4. ASSUME NEW s \in Slots
        PROVE  /\ tables'[s[1]][s[2]].observations =
                      IF s = <<c, d>> /\ t = "observations" /\ rows # {} THEN rows
                      ELSE tables[s[1]][s[2]].observations
               /\ tables'[s[1]][s[2]].candidates =
                      IF s = <<c, d>> /\ t = "candidates" /\ rows # {} THEN rows
                      ELSE tables[s[1]][s[2]].candidates
    <2>1. s = <<c, d>> <=> s[1] = c /\ s[2] = d
      BY <1>3
    <2> QED  BY <1>2, <1>3, <2>1
  <1>5. (IsinsOf(rows) = {} <=> rows = {}) /\ (PairsOf(rows) = {} <=> rows = {})
    BY DEF IsinsOf, PairsOf
  <1>6. c \in Resolutions => <<c, d>> \in Slots
    BY DEF Slots, Resolutions
  <1>7. c \notin Resolutions => \A s \in Slots : s # <<c, d>>
    BY <1>3
  <1>8. ASSUME NEW s \in Slots
        PROVE  /\ ObservedAt[s] = IsinsOf(tables[s[1]][s[2]].observations)
               /\ ObservedAt'[s] = IsinsOf(tables'[s[1]][s[2]].observations)
               /\ CandidatesAt[s] = PairsOf(tables[s[1]][s[2]].candidates)
               /\ CandidatesAt'[s] = PairsOf(tables'[s[1]][s[2]].candidates)
    BY DEF ObservedAt, CandidatesAt
  <1>9. /\ ObservedAt = [s \in Slots |-> ObservedAt[s]] /\ ObservedAt' = [s \in Slots |-> ObservedAt'[s]]
        /\ CandidatesAt = [s \in Slots |-> CandidatesAt[s]]
        /\ CandidatesAt' = [s \in Slots |-> CandidatesAt'[s]]
    BY DEF ObservedAt, CandidatesAt
  <1>10. ASSUME NEW s \in Slots
         PROVE  /\ ObservedAt'[s] = IF s = <<c, d>> /\ t = "observations" /\ rows # {}
                                    THEN IsinsOf(rows) ELSE ObservedAt[s]
                /\ CandidatesAt'[s] = IF s = <<c, d>> /\ t = "candidates" /\ rows # {}
                                      THEN PairsOf(rows) ELSE CandidatesAt[s]
    BY <1>4, <1>8
  <1>11. c \in Resolutions /\ t = "observations" =>
             ObservedAt' = IF IsinsOf(rows) = {} THEN ObservedAt
                           ELSE [ObservedAt EXCEPT ![<<c, d>>] = IsinsOf(rows)]
    BY <1>5, <1>6, <1>9, <1>10
  <1>12. c \in Resolutions /\ t = "candidates" =>
             CandidatesAt' = IF PairsOf(rows) = {} THEN CandidatesAt
                             ELSE [CandidatesAt EXCEPT ![<<c, d>>] = PairsOf(rows)]
    BY <1>5, <1>6, <1>9, <1>10
  <1>13. c \notin Resolutions \/ t # "observations" => ObservedAt' = ObservedAt
    BY <1>7, <1>9, <1>10
  <1>14. c \notin Resolutions \/ t # "candidates" => CandidatesAt' = CandidatesAt
    BY <1>7, <1>9, <1>10
  <1> QED  BY <1>11, <1>12, <1>13, <1>14

\* The extraction covers the corpus, and names issuers for it only.
LEMMA ExtractedCovers ==
    ASSUME NEW c \in Resolutions, NEW given
    PROVE  /\ IsinsOf(Extracted(c, given).observations) = universe
           /\ \A x \in PairsOf(Extracted(c, given).candidates) : x[1] \in universe
  <1>1. CASE c = "isin-lei"
    <2>1. Extracted(c, given) = IsinLeiRows(given[1])
      BY <1>1 DEF Extracted
    <2>2. IsinsOf(IsinLeiRows(given[1]).observations) = universe
      <3> DEFINE count(i) == Cardinality({r \in Mapping(given[1]) : r.rec.isin = i})
                 state(i) == CASE count(i) = 0 -> "no_match"
                               [] count(i) = 1 -> "matched"
                               [] OTHER -> "multiple_candidates"
      <3>1. IsinLeiRows(given[1]).observations = {Observation(i, state(i)) : i \in universe}
        BY DEF IsinLeiRows
      <3> DEFINE observed(i) == Observation(i, state(i))
      <3>2. \A i : observed(i).isin = i
        <4> HIDE DEF state
        <4> QED  BY DEF Observation
      <3> HIDE DEF observed
      <3>3. IsinsOf({observed(i) : i \in universe}) = universe
        BY <3>2 DEF IsinsOf
      <3> QED  BY <3>1, <3>3 DEF observed
    <2>3. \A x \in PairsOf(IsinLeiRows(given[1]).candidates) : x[1] \in universe
      BY DEF IsinLeiRows, PairsOf, Evidence, Mapping, Records
    <2> QED  BY <2>1, <2>2, <2>3
  <1>2. CASE c = "firds"
    <2>1. Extracted(c, given) = FirdsRows(Used(given))
      BY <1>2 DEF Extracted
    <2>2. IsinsOf(FirdsRows(Used(given)).observations) = universe
      <3> DEFINE own(i) == {r \in RefData(Used(given)) : r.rec.isin = i}
                 issuers(i) == {r.rec.lei : r \in own(i)} \ {None}
                 state(i) == CASE own(i) = {} -> "no_match"
                               [] own(i) # {} /\ issuers(i) = {} -> "no_candidate"
                               [] Cardinality(issuers(i)) = 1 -> "matched"
                               [] OTHER -> "multiple_candidates"
      <3>1. FirdsRows(Used(given)).observations = {Observation(i, state(i)) : i \in universe}
        BY DEF FirdsRows
      <3> DEFINE observed(i) == Observation(i, state(i))
      <3>2. \A i : observed(i).isin = i
        <4> HIDE DEF state
        <4> QED  BY DEF Observation
      <3> HIDE DEF observed
      <3>3. IsinsOf({observed(i) : i \in universe}) = universe
        BY <3>2 DEF IsinsOf
      <3> QED  BY <3>1, <3>3 DEF observed
    <2>3. \A x \in PairsOf(FirdsRows(Used(given)).candidates) : x[1] \in universe
      BY DEF FirdsRows, PairsOf, Candidate
    <2> QED  BY <2>1, <2>2, <2>3
  <1> QED  BY <1>1, <1>2 DEF Resolutions

\* A step that writes nothing and is not the start of an export
LEMMA QuietExport ==
    ASSUME UNCHANGED <<universe, tables, manifest>>, Export' = Export
    PROVE  UNCHANGED Snapshots!vars
  BY DEF ObservedAt, CandidatesAt, NamedAt, Snapshots!vars

LEMMA ShapeStays == ASSUME Shape, UNCHANGED <<tables, manifest>> PROVE Shape'
  BY DEF Shape

\* What the running command is in
LEMMA RunningIs ==
    ASSUME ExportInv, run # Idle
    PROVE  /\ run.step \in {"put", "write"} /\ run.command \in Commands
           /\ run.given \in Given[run.command] /\ Admissible(run.command, run.given)
           /\ DateOf(run.given) \in Dates
  <1>1. /\ run.step \in {"put", "write"} /\ run.command \in Commands
        /\ run.given \in Given[run.command] /\ Admissible(run.command, run.given)
    BY DEF ExportInv, RunIs
  <1> QED  BY <1>1, BundleIs

LEMMA GrowExport ==
    ASSUME ExportInv, NEW i \in Isins, Grow(i)
    PROVE  ExportInv' /\ Snapshots!Grow
  <1>1. universe' = universe \cup {i} /\ UNCHANGED <<tables, manifest, run>>
    BY DEF Grow
  <1>2. ExportInv' /\ Export' = Export
    BY <1>1, ShapeStays DEF ExportInv, RunIs, LeftInv, Export
  <1>3. UNCHANGED <<ObservedAt, CandidatesAt, NamedAt>>
    BY <1>1 DEF ObservedAt, CandidatesAt, NamedAt
  <1> QED  BY <1>1, <1>2, <1>3 DEF Snapshots!Grow

LEMMA StartExport ==
    ASSUME ExportInv, NEW c \in Commands, NEW given \in Given[c], Start(c, given)
    PROVE  ExportInv' /\ UNCHANGED Snapshots!vars
  <1>1. /\ run = Idle /\ Admissible(c, given)
        /\ run' = [step |-> "put", command |-> c, given |-> given, todo |-> given, new |-> {}]
        /\ UNCHANGED <<universe, tables, manifest>>
    BY DEF Start
  <1>2. ExportInv'
    BY <1>1, ShapeStays DEF ExportInv, RunIs, LeftInv
  <1>3. Export' = Export
    BY <1>1, IdleIs DEF Export
  <1> QED  BY <1>1, <1>2, <1>3, QuietExport

LEMMA PutExport == ASSUME ExportInv, PutFile PROVE ExportInv' /\ UNCHANGED Snapshots!vars
  <1>1. /\ run.step = "put" /\ UNCHANGED <<universe, tables, manifest>>
        /\ \E x : run' = [run EXCEPT !.todo = Tail(run.todo), !.new = x]
    BY DEF PutFile
  <1>2. /\ run # Idle
        /\ DOMAIN run = {"step", "command", "given", "todo", "new"}
    BY <1>1, IdleIs DEF ExportInv, RunIs
  <1>3. /\ run'.step = "put" /\ run'.command = run.command /\ run'.given = run.given
        /\ DOMAIN run' = DOMAIN run
    BY <1>1, <1>2
  <1>4. ExportInv'
    BY <1>1, <1>2, <1>3, ShapeStays DEF ExportInv, RunIs, LeftInv
  <1>5. Export' = Export
    BY <1>1, <1>3 DEF Export
  <1> QED  BY <1>1, <1>4, <1>5, QuietExport

\* Answered, or refused: the command ends before its first table.
LEMMA EndExport ==
    ASSUME ExportInv, AnswerFromManifest \/ RefuseGolden
    PROVE  ExportInv' /\ UNCHANGED Snapshots!vars
  <1>1. run.step = "put" /\ run' = Idle /\ UNCHANGED <<universe, tables, manifest>>
    BY DEF AnswerFromManifest, RefuseGolden, AllPut
  <1>2. run'.step = "idle"
    BY <1>1, IdleIs
  <1>3. ExportInv'
    BY <1>1, <1>2, ShapeStays DEF ExportInv, RunIs, LeftInv, Idle
  <1>4. Export' = Export
    BY <1>1, <1>2 DEF Export
  <1> QED  BY <1>1, <1>3, <1>4, QuietExport

\* An extraction of a resolution starts an export of the corpus.
LEMMA ExtractExport ==
    ASSUME ExportInv, Extract
    PROVE  ExportInv' /\ [Snapshots!Next]_(Snapshots!vars)
  <1> DEFINE c == run.command
             d == DateOf(run.given)
             rows == Extracted(c, run.given)
  <1>1. /\ run.step = "put"
        /\ run' = [step |-> "write", command |-> c, given |-> run.given,
                   new |-> run.new, left |-> TablesOf[c], rows |-> rows]
        /\ UNCHANGED <<universe, tables, manifest>>
    BY DEF Extract, AllPut
  <1>2. run # Idle
    BY <1>1, IdleIs
  <1>3. c \in Commands /\ run.given \in Given[c] /\ Admissible(c, run.given) /\ d \in Dates
    BY <1>2, RunningIs
  <1>4. /\ run'.step = "write" /\ run'.command = c /\ run'.given = run.given
        /\ run'.left = TablesOf[c] /\ run'.rows = rows
        /\ DOMAIN run' = {"step", "command", "given", "new", "left", "rows"}
    BY <1>1
  <1>5. DOMAIN rows = Names(c)
    BY <1>3, ExtractedIs
  <1>6. ExportInv'
    <2> HIDE DEF rows
    <2>1. Shape' /\ RunIs'
      BY <1>1, <1>2, <1>3, <1>4, ShapeStays DEF ExportInv, RunIs
    <2>2. LeftInv'
      BY <1>3, <1>4, <1>5, ResolutionNames DEF LeftInv
    <2> QED  BY <2>1, <2>2 DEF ExportInv
  <1>7. Export = Idle
    BY <1>1 DEF Export
  <1>8. CASE c = "golden"
    <2>1. Export' = Idle
      BY <1>4, <1>8 DEF Export
    <2> QED  BY <1>1, <1>6, <1>7, <2>1, QuietExport
  <1>9. CASE c # "golden"
    <2>1. c \in Resolutions
      BY <1>3, <1>9, ResolutionNames
    <2>2. run'.left = <<"observations", "candidates", "evidence">>
      BY <1>4, <2>1, ResolutionNames
    <2>3. Export' = [step |-> "observations", slot |-> <<c, d>>,
                     of |-> IsinsOf(rows.observations), pairs |-> PairsOf(rows.candidates)]
      BY <1>4, <1>9, <2>2, NextTableIs DEF Export
    <2>4. /\ IsinsOf(rows.observations) = universe
          /\ \A x \in PairsOf(rows.candidates) : x[1] \in universe
      BY <2>1, ExtractedCovers
    <2>5. <<c, d>> \in Slots
      BY <1>3, <2>1 DEF Slots, Resolutions
    <2>6. UNCHANGED <<ObservedAt, CandidatesAt, NamedAt>>
      BY <1>1 DEF ObservedAt, CandidatesAt, NamedAt
    <2>7. Snapshots!Start(<<c, d>>)
      <3> HIDE DEF rows, c, d
      <3> DEFINE p == PairsOf(rows.candidates)
      <3>1. Export' = [step |-> "observations", slot |-> <<c, d>>, of |-> universe, pairs |-> p]
        BY <2>3, <2>4
      <3>2. Export'.pairs = p /\ \A x \in p : x[1] \in universe
        BY <2>4, <3>1
      <3> HIDE DEF p
      <3> QED  BY <1>1, <1>7, <2>6, <3>1, <3>2 DEF Snapshots!Start, Idle, Snapshots!Idle
    <2> QED  BY <1>6, <2>5, <2>7 DEF Snapshots!Next
  <1> QED  BY <1>8, <1>9

\* A write of a table is a write of the export, or of what nobody reads of it.
LEMMA TableExport ==
    ASSUME ExportInv, WriteTable
    PROVE  ExportInv' /\ [Snapshots!Next]_(Snapshots!vars)
  <1> DEFINE c == run.command
             d == DateOf(run.given)
             t == Head(run.left)
             of == IsinsOf(run.rows.observations)
             pairs == PairsOf(run.rows.candidates)
             At(step) == [step |-> step, slot |-> <<c, d>>, of |-> of, pairs |-> pairs]
  <1>1. /\ run.step = "write" /\ run.left # <<>>
        /\ tables' = IF run.rows[t] = {} THEN tables
                     ELSE [tables EXCEPT ![c][d][t] = run.rows[t]]
        /\ run' = [run EXCEPT !.left = Tail(run.left)]
        /\ UNCHANGED <<universe, manifest>>
    BY DEF WriteTable
  <1>2. /\ run # Idle /\ DOMAIN run = {"step", "command", "given", "new", "left", "rows"}
    BY <1>1, IdleIs DEF ExportInv, RunIs
  <1>3. c \in Commands /\ run.given \in Given[c] /\ Admissible(c, run.given) /\ d \in Dates
    BY <1>2, RunningIs
  <1>4. /\ run'.step = "write" /\ run'.command = c /\ run'.given = run.given
        /\ run'.left = Tail(run.left) /\ run'.rows = run.rows /\ DOMAIN run' = DOMAIN run
    BY <1>1, <1>2
  <1>5. NamedAt' = NamedAt
    BY <1>1 DEF NamedAt
  <1>6. RunIs'
    BY <1>2, <1>3, <1>4 DEF RunIs
  <1>7. Shape'
    <2> HIDE DEF c, d, t
    <2> QED  BY <1>1 DEF ExportInv, Shape
  <1>8. CASE c \notin Resolutions
    <2>1. c = "golden"
      BY <1>3, <1>8, ResolutionNames
    <2>2. LeftInv'
      BY <1>1, <1>4, <1>8 DEF ExportInv, LeftInv
    <2>3. Export' = Export
      BY <1>1, <1>4, <2>1 DEF Export
    <2>4. ObservedAt' = ObservedAt /\ CandidatesAt' = CandidatesAt
      <3>1. \A s \in Slots : s[1] # c
        BY <2>1 DEF Slots
      <3>2. \A s \in Slots : tables'[s[1]] = tables[s[1]]
        BY <1>1, <3>1
      <3> QED  BY <3>2 DEF ObservedAt, CandidatesAt
    <2> QED  BY <1>1, <1>5, <1>6, <1>7, <2>2, <2>3, <2>4 DEF ExportInv, Snapshots!vars
  <1>9. CASE c \in Resolutions
    <2>1. /\ c # "golden" /\ Names(c) = {"observations", "candidates", "evidence"}
          /\ <<c, d>> \in Slots
      BY <1>3, <1>9, ResolutionNames DEF Slots, Resolutions
    <2>2. run.left \in {<<"observations", "candidates", "evidence">>,
                        <<"candidates", "evidence">>, <<"evidence">>}
      BY <1>1, <1>9 DEF ExportInv, LeftInv
    <2>3. \/ /\ t = "observations" /\ run'.left = <<"candidates", "evidence">>
             /\ NextTable(run.left) = "observations" /\ NextTable(run'.left) = "candidates"
          \/ /\ t = "candidates" /\ run'.left = <<"evidence">>
             /\ NextTable(run.left) = "candidates" /\ NextTable(run'.left) = "manifest"
          \/ /\ t = "evidence" /\ run'.left = <<>>
             /\ NextTable(run.left) = "manifest" /\ NextTable(run'.left) = "manifest"
      <3>1. /\ Head(<<"observations", "candidates", "evidence">>) = "observations"
            /\ Tail(<<"observations", "candidates", "evidence">>) = <<"candidates", "evidence">>
            /\ Head(<<"candidates", "evidence">>) = "candidates"
            /\ Tail(<<"candidates", "evidence">>) = <<"evidence">>
            /\ Head(<<"evidence">>) = "evidence" /\ Tail(<<"evidence">>) = <<>>
        OBVIOUS
      <3> DEFINE l == run.left
                 k == run'.left
      <3>2. t = Head(l) /\ k = Tail(l)
        BY <1>4
      <3> HIDE DEF l, k, t
      <3> QED  BY <2>2, <3>1, <3>2, NextTableIs DEF l, k
    <2>4. Export = At(NextTable(run.left)) /\ Export' = At(NextTable(run'.left))
      BY <1>1, <1>4, <2>1 DEF Export
    <2>5. LeftInv'
      BY <1>1, <1>3, <1>4, <2>3 DEF ExportInv, LeftInv
    <2>6. ExportInv'
      BY <1>6, <1>7, <2>5 DEF ExportInv
    <2>7. /\ t \in Names(c) /\ Shape
      BY <2>1, <2>3 DEF ExportInv
    <2>8. /\ t = "observations" =>
                ObservedAt' = IF of = {} THEN ObservedAt ELSE [ObservedAt EXCEPT ![<<c, d>>] = of]
          /\ t = "candidates" =>
                CandidatesAt' = IF pairs = {} THEN CandidatesAt
                                ELSE [CandidatesAt EXCEPT ![<<c, d>>] = pairs]
          /\ t # "observations" => ObservedAt' = ObservedAt
          /\ t # "candidates" => CandidatesAt' = CandidatesAt
      <3> DEFINE rows == run.rows[t]
      <3>1. Writes(c, d, t, rows)
        BY <1>1 DEF Writes
      <3>2. /\ t = "observations" => rows = run.rows.observations
            /\ t = "candidates" => rows = run.rows.candidates
        OBVIOUS
      <3> HIDE DEF rows, c, d, t
      <3>3. /\ t = "observations" =>
                  ObservedAt' = IF IsinsOf(rows) = {} THEN ObservedAt
                                ELSE [ObservedAt EXCEPT ![<<c, d>>] = IsinsOf(rows)]
            /\ t = "candidates" =>
                  CandidatesAt' = IF PairsOf(rows) = {} THEN CandidatesAt
                                  ELSE [CandidatesAt EXCEPT ![<<c, d>>] = PairsOf(rows)]
            /\ t # "observations" => ObservedAt' = ObservedAt
            /\ t # "candidates" => CandidatesAt' = CandidatesAt
        <4>1. c \in Commands /\ d \in Dates /\ t \in Names(c) /\ Shape
          BY <1>3, <2>7
        <4>2. /\ c \in Resolutions /\ t = "observations" =>
                    ObservedAt' = IF IsinsOf(rows) = {} THEN ObservedAt
                                  ELSE [ObservedAt EXCEPT ![<<c, d>>] = IsinsOf(rows)]
              /\ c \in Resolutions /\ t = "candidates" =>
                    CandidatesAt' = IF PairsOf(rows) = {} THEN CandidatesAt
                                    ELSE [CandidatesAt EXCEPT ![<<c, d>>] = PairsOf(rows)]
              /\ c \notin Resolutions \/ t # "observations" => ObservedAt' = ObservedAt
              /\ c \notin Resolutions \/ t # "candidates" => CandidatesAt' = CandidatesAt
          BY <3>1, <4>1, TableWritten
        <4> QED  BY <1>9, <4>2
      <3> QED  BY <3>2, <3>3
    <2> HIDE DEF c, d, t, of, pairs
    <2>9. /\ At("observations").slot = <<c, d>> /\ At("observations").of = of
          /\ At("candidates").slot = <<c, d>> /\ At("candidates").pairs = pairs
          /\ [At("observations") EXCEPT !.step = "candidates"] = At("candidates")
          /\ [At("candidates") EXCEPT !.step = "manifest"] = At("manifest")
          /\ \A s : At(s).step = s
      OBVIOUS
    <2> HIDE DEF At
    <2>10. CASE t = "observations"
      <3>1. Snapshots!WriteObservations
        BY <1>1, <1>5, <2>3, <2>4, <2>8, <2>9, <2>10
           DEF Snapshots!WriteObservations, Snapshots!Written
      <3> QED  BY <2>6, <3>1 DEF Snapshots!Next
    <2>11. CASE t = "candidates"
      <3>1. Snapshots!WriteCandidates
        BY <1>1, <1>5, <2>3, <2>4, <2>8, <2>9, <2>11
           DEF Snapshots!WriteCandidates, Snapshots!Written
      <3> QED  BY <2>6, <3>1 DEF Snapshots!Next
    <2>12. CASE t = "evidence"
      BY <1>1, <1>5, <2>3, <2>4, <2>6, <2>8, <2>12 DEF Snapshots!vars
    <2> QED  BY <2>3, <2>10, <2>11, <2>12
  <1> QED  BY <1>8, <1>9

\* "No manifest" is not one.
NoneIsNoManifest == \A files, rows : [artifacts |-> files, rows |-> rows] # None

LEMMA ManifestExport ==
    ASSUME NoneIsNoManifest, ExportInv, WriteManifest
    PROVE  ExportInv' /\ [Snapshots!Next]_(Snapshots!vars)
  <1> DEFINE c == run.command
             d == DateOf(run.given)
             m == [artifacts |-> Used(run.given), rows |-> run.rows]
             of == IsinsOf(run.rows.observations)
             pairs == PairsOf(run.rows.candidates)
  <1>1. /\ run.step = "write" /\ run.left = <<>>
        /\ manifest' = [manifest EXCEPT ![c][d] = m]
        /\ run' = Idle
        /\ UNCHANGED <<universe, tables>>
    BY DEF WriteManifest
  <1>2. run # Idle /\ run'.step = "idle"
    BY <1>1, IdleIs
  <1>3. c \in Commands /\ d \in Dates
    BY <1>2, RunningIs
  <1>4. ExportInv'
    <2>1. Shape'
      <3> HIDE DEF c, d, m
      <3> QED  BY <1>1 DEF ExportInv, Shape
    <2> QED  BY <1>1, <1>2, <2>1 DEF ExportInv, RunIs, LeftInv
  <1>5. Export' = Idle /\ UNCHANGED <<ObservedAt, CandidatesAt>>
    BY <1>1, <1>2 DEF Export, ObservedAt, CandidatesAt
  <1>6. /\ DOMAIN manifest = Commands /\ \A b \in Commands : DOMAIN manifest[b] = Dates
    BY DEF ExportInv, Shape
  <1>7. \A s \in Slots : s[1] \in Commands /\ s[2] \in Dates /\ s = <<s[1], s[2]>>
    BY DEF Slots, Commands
  <1>8. \A s \in Slots : manifest'[s[1]][s[2]] = IF s = <<c, d>> THEN m ELSE manifest[s[1]][s[2]]
    <2> HIDE DEF c, d, m
    <2>1. \A b \in Commands, e \in Dates :
              manifest'[b][e] = IF b = c /\ e = d THEN m ELSE manifest[b][e]
      BY <1>1, <1>3, <1>6
    <2>2. \A s \in Slots : s = <<c, d>> <=> s[1] = c /\ s[2] = d
      BY <1>7
    <2> QED  BY <1>7, <2>1, <2>2
  <1>9. CASE c = "golden"
    <2>1. \A s \in Slots : s # <<c, d>>
      BY <1>9 DEF Slots
    <2>2. NamedAt' = NamedAt
      BY <1>8, <2>1 DEF NamedAt
    <2>3. Export = Idle
      BY <1>9 DEF Export
    <2> QED  BY <1>1, <1>4, <1>5, <2>2, <2>3 DEF Snapshots!vars
  <1>10. CASE c # "golden"
    <2>1. <<c, d>> \in Slots
      BY <1>3, <1>10, ResolutionNames DEF Slots, Resolutions
    <2>2. Export = [step |-> "manifest", slot |-> <<c, d>>, of |-> of, pairs |-> pairs]
      BY <1>1, <1>10, NextTableIs DEF Export
    <2>3. m # None /\ m.rows = run.rows
      BY DEF NoneIsNoManifest
    <2> DEFINE name(x) ==
                 IF x = None THEN None
                 ELSE [of |-> IsinsOf(x.rows.observations), pairs |-> PairsOf(x.rows.candidates)]
               named == [of |-> of, pairs |-> pairs]
    <2>4. name(m) = named
      BY <2>3
    <2>5. /\ NamedAt = [s \in Slots |-> name(manifest[s[1]][s[2]])]
          /\ NamedAt' = [s \in Slots |-> name(manifest'[s[1]][s[2]])]
      BY DEF NamedAt
    <2>6. /\ Export.step = "manifest" /\ Export.slot = <<c, d>>
          /\ Export.of = of /\ Export.pairs = pairs
      BY <2>2
    <2> HIDE DEF name, named, m, c, d
    <2>7. NamedAt' = [NamedAt EXCEPT ![<<c, d>>] = named]
      BY <1>8, <2>1, <2>4, <2>5
    <2> HIDE DEF of, pairs
    <2>8. Snapshots!WriteManifest
      BY <1>1, <1>5, <2>6, <2>7 DEF named, Snapshots!WriteManifest, Idle, Snapshots!Idle
    <2> QED  BY <1>4, <2>8 DEF Snapshots!Next
  <1> QED  BY <1>9, <1>10

\* Killed in an export or before one.
LEMMA CrashExport ==
    ASSUME ExportInv, Crash
    PROVE  ExportInv' /\ [Snapshots!Next]_(Snapshots!vars)
  <1>1. run' = Idle /\ UNCHANGED <<universe, tables, manifest>>
    BY DEF Crash
  <1>2. run'.step = "idle"
    BY <1>1, IdleIs
  <1>3. ExportInv'
    BY <1>1, <1>2, ShapeStays DEF ExportInv, RunIs, LeftInv
  <1>4. Export' = Idle
    BY <1>1, <1>2 DEF Export
  <1>5. CASE Export = Idle
    BY <1>1, <1>3, <1>4, <1>5, QuietExport
  <1>6. CASE Export # Idle
    <2>1. UNCHANGED <<ObservedAt, CandidatesAt, NamedAt>>
      BY <1>1 DEF ObservedAt, CandidatesAt, NamedAt
    <2>2. Snapshots!Crash
      BY <1>1, <1>4, <1>6, <2>1 DEF Snapshots!Crash, Idle, Snapshots!Idle
    <2> QED  BY <1>3, <2>2 DEF Snapshots!Next
  <1> QED  BY <1>5, <1>6

LEMMA StepExport ==
    NoneIsNoManifest /\ ExportInv /\ [Next]_vars
        => ExportInv' /\ [Snapshots!Next]_(Snapshots!vars)
  <1> SUFFICES ASSUME NoneIsNoManifest, ExportInv, [Next]_vars
               PROVE  ExportInv' /\ [Snapshots!Next]_(Snapshots!vars)
    OBVIOUS
  <1>1. CASE UNCHANGED vars
    <2>1. UNCHANGED <<universe, tables, manifest, run>>
      BY <1>1 DEF vars
    <2>2. ExportInv' /\ Export' = Export
      BY <2>1, ShapeStays DEF ExportInv, RunIs, LeftInv, Export
    <2> QED  BY <2>1, <2>2, QuietExport
  <1>2. ASSUME NEW i \in Isins, Grow(i)
        PROVE  ExportInv' /\ [Snapshots!Next]_(Snapshots!vars)
    BY <1>2, GrowExport DEF Snapshots!Next
  <1>3. ASSUME NEW c \in Commands, NEW given \in Given[c], Start(c, given)
        PROVE  ExportInv' /\ [Snapshots!Next]_(Snapshots!vars)
    BY <1>3, StartExport
  <1> QED
    BY <1>1, <1>2, <1>3, PutExport, EndExport, ExtractExport, TableExport, ManifestExport,
       CrashExport DEF Next

\* provider_ingest.py with storage.write_provider_resolution: however the files of a
\* bundle are registered, given again, refused and interrupted, every step is one of an
\* export of ResolutionSnapshots, which covers the corpus of its moment, or none.
THEOREM IngestsAreExports ==
    ASSUME NoneIsNoManifest
    PROVE  Spec => ImplementsSnapshots
  <1>1. Init => ExportInv /\ Snapshots!Init
    BY InitExport
  <1>2. ExportInv /\ [Next]_vars => ExportInv' /\ [Snapshots!Next]_(Snapshots!vars)
    BY StepExport
  <1> QED  BY <1>1, <1>2, PTL DEF Spec, ImplementsSnapshots, Snapshots!Spec
=============================================================================
