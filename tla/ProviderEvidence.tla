--------------------------- MODULE ProviderEvidence ---------------------------
(***************************************************************************)
(* Provider files record by record: provider_ingest.py                     *)
(* (ingest_gleif_isin_lei, ingest_gleif_golden, ingest_firds_fulins), the  *)
(* adapters gleif_isin_lei, gleif_golden and firds_fulins, the writers     *)
(* storage.write_provider_resolution and write_gleif_golden, and the       *)
(* context that adjudication.py reads for a conflict.  A command is given  *)
(* one or several files of one snapshot date, registers them one by one,   *)
(* extracts what concerns the corpus, writes its tables and at last its    *)
(* manifest; it may die between any two of these.  SecurityAdjudication    *)
(* has what the verdicts make of it.                                       *)
(*                                                                         *)
(* Abstractions: a file is a name, About[f] what it is and holds; the      *)
(* verbatim fields of a record are left out, but for a profile (category   *)
(* and jurisdiction) of an entity; an issuer of malformed LEI is None; a   *)
(* record is located by its file and ordinal; one command runs at a time.  *)
(***************************************************************************)
EXTENDS Integers, Sequences, FiniteSets, SequencesExt

CONSTANTS Isins,       \* valid ISINs the corpus will ever hold
          Initial,     \* those it holds at the start
          Dates,       \* snapshot dates
          About,       \* file -> [kind, letter, part, total, date, inside, rows]
          Given,       \* command -> the file lists an operator may give it
          MaxCrashes,  \* bound: commands that die
          None

Files == DOMAIN About
Commands == {"isin-lei", "golden", "firds"}
ResolutionTables == <<"observations", "candidates", "evidence">>
GoldenTables == <<"entities", "relationships", "exceptions">>
TablesOf == [c \in Commands |-> IF c = "golden" THEN GoldenTables ELSE ResolutionTables]

ASSUME IsinsAssumption == IsFiniteSet(Isins) /\ Initial \subseteq Isins /\ Initial # {}
ASSUME AboutAssumption == \A f \in Files : About[f].date \in Dates
ASSUME GivenAssumption == \A c \in Commands : Given[c] \subseteq Seq(Files)
ASSUME BoundAssumption == MaxCrashes \in Nat

VARIABLES
    universe,  \* ISINs of the stored positions
    latest,    \* the version registered last of every dedupe key
    tables,    \* command -> date -> table -> its rows
    manifest,  \* command -> date -> the manifest's artifacts and rows, or None
    run,       \* the command that runs
    behind,    \* history: exports that died over the manifest of an earlier one
    crashes

vars == <<universe, latest, tables, manifest, run, behind, crashes>>

Idle == [step |-> "idle"]

Init ==
    /\ universe = Initial
    /\ latest = {}
    /\ tables = [c \in Commands |-> [d \in Dates |-> [t \in ToSet(TablesOf[c]) |-> {}]]]
    /\ manifest = [c \in Commands |-> [d \in Dates |-> None]]
    /\ run = Idle
    /\ behind = {}
    /\ crashes = 0

\* another period's positions are exported
Grow(i) ==
    /\ i \notin universe
    /\ universe' = universe \cup {i}
    /\ UNCHANGED <<latest, tables, manifest, run, behind, crashes>>

-----------------------------------------------------------------------------
(***************************************************************************)
(* What the files say                                                      *)
(***************************************************************************)
\* (period, provider, source_family): of a FIRDS part, its letter and number
Key(f) == <<About[f].kind, About[f].date, About[f].letter, About[f].part>>

\* the name of the member, which artifacts are filed under
Member(f) == <<Key(f), About[f].total>>

DateOf(given) == About[given[1]].date

SameDate(given) == \A n \in DOMAIN given : About[given[n]].date = DateOf(given)

\* every part 1..N of each asset letter, N as the last part of it declares
Parts(files, l) == {About[f].part : f \in {g \in files : About[g].letter = l}}

Complete(given) ==
    \A n \in DOMAIN given :
        LET l == About[given[n]].letter
        IN  (\A k \in DOMAIN given : k > n => About[given[k]].letter # l)
                => Parts(ToSet(given), l) = 1..About[given[n]].total

Kinds(given) == [n \in DOMAIN given |-> About[given[n]].kind]

Admissible(c, given) ==
    CASE c = "isin-lei" -> Kinds(given) = <<"isin-lei">>
      [] c = "golden" -> Kinds(given) = <<"lei2", "rr", "repex">> /\ SameDate(given)
      [] c = "firds" ->
            /\ given # <<>>
            /\ \A n \in DOMAIN given :
                  /\ About[given[n]].kind = "firds"
                  /\ About[given[n]].inside \in {None, About[given[n]].date}
            /\ SameDate(given)
            /\ Complete(given)

\* the artifacts dictionary: the last file of every member
Used(given) ==
    {given[n] : n \in {m \in DOMAIN given :
        \A k \in DOMAIN given : k > m => Member(given[k]) # Member(given[m])}}

\* iter_*: the records that are about a wanted ISIN or LEI, and their ordinals
Records(f, key, wanted) ==
    {[at |-> <<f, n>>, rec |-> About[f].rows[n]] :
        n \in {m \in DOMAIN About[f].rows : About[f].rows[m][key] \in wanted}}

-----------------------------------------------------------------------------
(***************************************************************************)
(* The extractions                                                         *)
(***************************************************************************)
Observation(i, state) == [isin |-> i, state |-> state]
Candidate(i, l) == [isin |-> i, lei |-> l]
Evidence(r) == [isin |-> r.rec.isin, lei |-> r.rec.lei, at |-> r.at]

\* load_mapping, for the ISINs of the corpus
Mapping(f) == Records(f, "isin", universe)

\* every row of the mapping is a candidate, the same LEI twice counts twice
IsinLeiRows(f) ==
    LET count(i) == Cardinality({r \in Mapping(f) : r.rec.isin = i})
        state(i) == CASE count(i) = 0 -> "no_match"
                      [] count(i) = 1 -> "matched"
                      [] OTHER -> "multiple_candidates"
    IN  [observations |-> {Observation(i, state(i)) : i \in universe},
         candidates |-> {Evidence(r) : r \in Mapping(f)},
         evidence |-> {}]

RefData(files) == UNION {Records(f, "isin", universe) : f \in files}

\* Mutant: an observation for the ISINs of the records only.
FirdsRowsOfMatched(files) ==
    LET rows == RefData(files)
    IN  [observations |-> {Observation(r.rec.isin, "matched") : r \in rows},
         candidates |-> {Candidate(r.rec.isin, r.rec.lei) : r \in rows} \ {Candidate(i, None) : i \in Isins},
         evidence |-> {Evidence(r) : r \in rows}]

\* a venue's record is evidence; the distinct issuers are the candidates
FirdsRows(files) ==
    LET rows == RefData(files)
        own(i) == {r \in rows : r.rec.isin = i}
        issuers(i) == {r.rec.lei : r \in own(i)} \ {None}
        state(i) == CASE own(i) = {} -> "no_match"
                      [] own(i) # {} /\ issuers(i) = {} -> "no_candidate"
                      [] Cardinality(issuers(i)) = 1 -> "matched"
                      [] OTHER -> "multiple_candidates"
    IN  [observations |-> {Observation(i, state(i)) : i \in universe},
         candidates |-> UNION {{Candidate(i, l) : l \in issuers(i)} : i \in universe},
         evidence |-> {Evidence(r) : r \in rows}]

\* _wanted_leis: the candidates of every GLEIF snapshot
WantedLeis == {c.lei : c \in UNION {tables["isin-lei"][d].candidates : d \in Dates}}

Relationships(rr, wanted) ==
    {r.rec : r \in Records(rr, "lei", wanted)}

\* Mutant: of the relationships of everybody.
ClosureOfAll(rr, wanted) == {About[rr].rows[n].end : n \in DOMAIN About[rr].rows} \ (wanted \cup {None})

\* one hop: the ends that are not wanted themselves
Closure(rr, wanted) ==
    {r.end : r \in Relationships(rr, wanted)} \ (wanted \cup {None})

EntityRow(r, role) == [lei |-> r.lei, profile |-> r.profile, role |-> role]

Role(l, wanted) == IF l \in wanted THEN "resolved" ELSE "closure_end_node"

Entities(lei2, wanted, closure) ==
    {EntityRow(r.rec, Role(r.rec.lei, wanted)) :
        r \in Records(lei2, "lei", wanted \cup closure)}

Exceptions(repex, wanted) == {r.rec : r \in Records(repex, "lei", wanted)}

GoldenRows(lei2, rr, repex) ==
    [entities |-> Entities(lei2, WantedLeis, Closure(rr, WantedLeis)),
     relationships |-> Relationships(rr, WantedLeis),
     exceptions |-> Exceptions(repex, WantedLeis)]

Extracted(c, given) ==
    CASE c = "isin-lei" -> IsinLeiRows(given[1])
      [] c = "golden" -> GoldenRows(given[1], given[2], given[3])
      [] c = "firds" -> FirdsRows(Used(given))

-----------------------------------------------------------------------------
(***************************************************************************)
(* The commands                                                            *)
(***************************************************************************)
\* the gates read the files that were given; nothing is registered before
Start(c, given) ==
    /\ run = Idle
    /\ Admissible(c, given)
    /\ run' = [step |-> "put", command |-> c, given |-> given, todo |-> given, new |-> {}]
    /\ UNCHANGED <<universe, latest, tables, manifest, behind, crashes>>

\* store.put: new unless it is the version registered last
PutFile ==
    LET f == Head(run.todo)
    IN  /\ run.step = "put" /\ run.todo # <<>>
        /\ latest' = {g \in latest : Key(g) # Key(f)} \cup {f}
        /\ run' = [run EXCEPT !.todo = Tail(@),
                              !.new = IF f \in latest THEN @ \ {Member(f)}
                                                      ELSE @ \cup {Member(f)}]
        /\ UNCHANGED <<universe, tables, manifest, behind, crashes>>

AllPut == run.step = "put" /\ run.todo = <<>>

\* Mutant: the manifest answers for a bundle of which any file is known.
AnsweredIfAnyKnown ==
    /\ Cardinality(run.new) < Cardinality(Used(run.given))
    /\ manifest[run.command][DateOf(run.given)] # None

Answered == run.new = {} /\ manifest[run.command][DateOf(run.given)] # None

AnswerFromManifest ==
    /\ AllPut
    /\ Answered
    /\ run' = Idle
    /\ UNCHANGED <<universe, latest, tables, manifest, behind, crashes>>

\* "zero resolved candidate LEIs": the files stay registered
RefuseGolden ==
    /\ AllPut
    /\ ~Answered
    /\ run.command = "golden" /\ WantedLeis = {}
    /\ run' = Idle
    /\ UNCHANGED <<universe, latest, tables, manifest, behind, crashes>>

Extract ==
    /\ AllPut
    /\ ~Answered
    /\ run.command = "golden" => WantedLeis # {}
    /\ run' = [step |-> "write", command |-> run.command, given |-> run.given,
               new |-> run.new, left |-> TablesOf[run.command],
               rows |-> Extracted(run.command, run.given)]
    /\ UNCHANGED <<universe, latest, tables, manifest, behind, crashes>>

\* no row, no table: what was there stays
WriteTable ==
    LET t == Head(run.left)
    IN  /\ run.step = "write" /\ run.left # <<>>
        /\ tables' = IF run.rows[t] = {} THEN tables
                     ELSE [tables EXCEPT ![run.command][DateOf(run.given)][t] = run.rows[t]]
        /\ run' = [run EXCEPT !.left = Tail(@)]
        /\ UNCHANGED <<universe, latest, manifest, behind, crashes>>

WriteManifest ==
    LET at == <<run.command, DateOf(run.given)>>
    IN  /\ run.step = "write" /\ run.left = <<>>
        /\ manifest' = [manifest EXCEPT ![at[1]][at[2]] =
                            [artifacts |-> Used(run.given), rows |-> run.rows]]
        /\ behind' = behind \ {at}
        /\ run' = Idle
        /\ UNCHANGED <<universe, latest, tables, crashes>>

\* killed; a new file that is registered is never new again
Crash ==
    LET at == <<run.command, DateOf(run.given)>>
    IN  /\ run # Idle
        /\ crashes < MaxCrashes
        /\ crashes' = crashes + 1
        /\ behind' = IF run.new # {} /\ manifest[at[1]][at[2]] # None
                     THEN behind \cup {at} ELSE behind
        /\ run' = Idle
        /\ UNCHANGED <<universe, latest, tables, manifest>>

Next ==
    \/ \E i \in Isins : Grow(i)
    \/ \E c \in Commands : \E given \in Given[c] : Start(c, given)
    \/ PutFile
    \/ AnswerFromManifest \/ RefuseGolden \/ Extract
    \/ WriteTable \/ WriteManifest
    \/ Crash

Spec == Init /\ [][Next]_vars

-----------------------------------------------------------------------------
(***************************************************************************)
(* adjudication.py: the context of a conflict between two issuers          *)
(***************************************************************************)
Between(r, a, b) == {r.lei, r.end} = {a, b}

\* Mutant: the raw pass reads what the extraction has kept.
RawRelationsOfKnown(d, a, b) ==
    {r \in tables["golden"][d].relationships : Between(r, a, b)}

\* _raw_context_pass reads the artifact registered last, not the manifest's
RawRelations(d, a, b) ==
    UNION {{r.rec : r \in {x \in Records(f, "lei", {a, b}) : Between(x.rec, a, b)}} :
              f \in {g \in latest : About[g].kind = "rr" /\ About[g].date = d}}

\* _load_gleif_context, then the entities that it lacks
ProfileOf(d, l) ==
    LET loaded == {e.profile : e \in {x \in tables["golden"][d].entities : x.lei = l}}
        raw == UNION {{r.rec.profile : r \in Records(f, "lei", {l})} :
                  f \in {g \in latest : About[g].kind = "lei2" /\ About[g].date = d}}
    IN  IF loaded # {} THEN loaded ELSE raw

KindOf(related, pa, pb) ==
    IF related THEN "direct_gleif_relation"
    ELSE IF pa = {} /\ pb = {} THEN "unknown"
    ELSE IF pa # {} /\ pb # {} /\ pa # pb THEN "entity_metadata_difference"
    ELSE "no_direct_gleif_relation"

\* _conflict_context
Context(d, a, b) ==
    KindOf(RawRelations(d, a, b)
               \cup {r \in tables["golden"][d].relationships : Between(r, a, b)} # {},
           ProfileOf(d, a), ProfileOf(d, b))

-----------------------------------------------------------------------------
(***************************************************************************)
(* Properties                                                              *)
(***************************************************************************)
\* No command is at work, and none has died over this export.
Settled(c, d) == run = Idle /\ manifest[c][d] # None /\ <<c, d>> \notin behind

\* Whatever files come again, alone or with others, corrected or not: a
\* manifest names whole bundles of its date and the versions registered last,
\* so that no command answered from it stands for older bytes, and the tables
\* are the ones it counts (one that it counts empty may hold older rows).
ManifestCurrent ==
    \A c \in Commands, d \in Dates : Settled(c, d) =>
        LET m == manifest[c][d]
        IN  /\ m.artifacts \subseteq latest
            /\ \A f \in m.artifacts : About[f].date = d
            /\ c = "firds" => \A f \in m.artifacts :
                   Parts(m.artifacts, About[f].letter) = 1..About[f].total
            /\ \A t \in DOMAIN m.rows : m.rows[t] # {} => tables[c][d][t] = m.rows[t]

\* "The bounded one-hop closure": whichever candidates were known when a golden
\* snapshot was exported, every relationship starts at a resolved entity and
\* both its ends have their entity row if the LEI file has them, an entity is
\* in the closure only as such an end, and none has two roles.
ClosureComplete ==
    \A d \in Dates : Settled("golden", d) =>
        LET m == manifest["golden"][d]
            t == tables["golden"][d]
            known == UNION {{r.lei : r \in ToSet(About[f].rows)} :
                               f \in {g \in m.artifacts : About[g].kind = "lei2"}}
        IN  m.rows.entities # {} /\ m.rows.relationships # {} =>
            /\ \A r \in t.relationships :
                  /\ r.lei \in known =>
                         \E e \in t.entities : e.lei = r.lei /\ e.role = "resolved"
                  /\ r.end \in known => \E e \in t.entities : e.lei = r.end
            /\ \A e \in t.entities :
                  /\ e.role = "closure_end_node" => \E r \in t.relationships : r.end = e.lei
                  /\ \A o \in t.entities : o.lei = e.lei => o = e

\* What the golden files of a manifest say: all their records of a kind, and the
\* profiles they give an issuer.
Said(files, kind) ==
    UNION {ToSet(About[f].rows) : f \in {g \in files : About[g].kind = kind}}
ProfilesSaid(files, l) == {r.profile : r \in {x \in Said(files, "lei2") : x.lei = l}}
LeisSaid(files) == {r.lei : r \in Said(files, "lei2") \cup Said(files, "repex")}
                      \cup UNION {{r.lei, r.end} : r \in Said(files, "rr")}

\* The context of a conflict is what the pinned golden snapshot says of the two
\* issuers, related or not, although its extraction followed the candidates of
\* an earlier day and most records about FIRDS-only issuers are not in it.
ContextOfSnapshot ==
    \A d \in Dates : Settled("golden", d) =>
        LET m == manifest["golden"][d]
        IN  m.rows.entities # {} /\ m.rows.relationships # {} =>
            \A a, b \in LeisSaid(m.artifacts) \ {None} : a # b =>
                Context(d, a, b) =
                    KindOf(\E r \in Said(m.artifacts, "rr") : Between(r, a, b),
                           ProfilesSaid(m.artifacts, a), ProfilesSaid(m.artifacts, b))

(***************************************************************************)
(* The ISIN-LEI and FIRDS ingests implement ResolutionSnapshots            *)
(***************************************************************************)
Slots == {"isin-lei", "firds"} \X Dates

IsinsOf(observations) == {o.isin : o \in observations}
PairsOf(candidates) == {<<c.isin, c.lei>> : c \in candidates}

NextTable(left) ==
    CASE "observations" \in ToSet(left) -> "observations"
      [] "candidates" \in ToSet(left) /\ "observations" \notin ToSet(left) -> "candidates"
      [] OTHER -> "manifest"

\* the golden copy, and what comes before the first table, are no export
Export ==
    IF run.step = "write" /\ run.command # "golden"
    THEN [step |-> NextTable(run.left), slot |-> <<run.command, DateOf(run.given)>>,
          of |-> IsinsOf(run.rows.observations), pairs |-> PairsOf(run.rows.candidates)]
    ELSE Idle

ObservedAt == [s \in Slots |-> IsinsOf(tables[s[1]][s[2]].observations)]
CandidatesAt == [s \in Slots |-> PairsOf(tables[s[1]][s[2]].candidates)]
NamedAt ==
    [s \in Slots |->
        LET m == manifest[s[1]][s[2]]
        IN  IF m = None THEN None
            ELSE [of |-> IsinsOf(m.rows.observations), pairs |-> PairsOf(m.rows.candidates)]]

Snapshots == INSTANCE ResolutionSnapshots WITH
    obs <- ObservedAt, cand <- CandidatesAt, named <- NamedAt, run <- Export,
    Torn <- "torn"

\* Files registered one by one, records, venues, the golden copy in between and
\* commands that die amount to exports that cover the corpus of their moment.
ImplementsSnapshots == Snapshots!Spec
=============================================================================
