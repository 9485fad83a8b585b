--------------------------- MODULE DatasetQueries ---------------------------
(* query.py over a dataset that an update may be rewriting.                 *)
(*                                                                          *)
(* One writer exports a version of a period, table after table in the order *)
(* of storage.write_period and not atomically: a file is torn while it is   *)
(* being written, and stays so if the command dies; a table the version has *)
(* no rows for keeps those of an earlier one.  One reader runs `holdings`,  *)
(* which reads three tables one after the other without a snapshot.  The    *)
(* queries that read one table, or whose tables the reader adds nothing to, *)
(* are operators of PortfolioDiff, IssuerExposure, FundIdentity and         *)
(* Reconciliation, asked of every dataset that no export is writing and     *)
(* that can be read.                                                        *)
(*                                                                          *)
(* file[p][t] is the version the rows of table t of period p come from.     *)
EXTENDS PortfolioDiff, IssuerExposure, FundIdentity, Reconciliation

CONSTANTS
    Period,        \* the periods, numbered by month
    Versions,      \* Versions[p]: what CNMV publishes for p, at one time or another
    Zip,           \* Zip[v]: the rows of version v, family by family
    Identifiers,   \* what is asked for: [form, is]
    AsOf,          \* the months holdings is asked for
    Evidence,      \* Evidence[i]: the adjudication of ISIN i once it is run
    NoVersion, Torn,
    MaxDeaths,     \* bound: exports that die
    Beside         \* bound: holdings is asked while no period but these has a
                   \* file, and beside exports of these

\* The tables some query modelled here reads, in the order they are written.
Tables == <<"positions", "funds", "compartments", "share_classes",
            "daily", "quarterly", "patrimony", "derivative_coverage">>
Table == {Tables[n] : n \in 1..8}
RegistryTables == {"funds", "compartments", "share_classes"}

Version == UNION {Versions[p] : p \in Period}

ASSUME VersionsAssumption ==
    /\ Period \subseteq Nat /\ AsOf \subseteq Nat /\ Beside \subseteq Period
    /\ \E last \in Period : \A p \in Period : p <= last
    /\ NoVersion \notin Version /\ Torn \notin Version /\ Torn # NoVersion
    /\ \A v \in Version : Table \subseteq DOMAIN Zip[v]
    /\ MaxDeaths \in Nat
\* isin_state is computed from isin_raw, fondcart.py:101
ASSUME RowsAssumption ==
    /\ \A v \in Version : /\ IsFiniteSet(Zip[v].positions)
                            /\ \A r \in Zip[v].positions : r.value \in Int
    /\ \A v, w \in Version : \A r \in Zip[v].positions, s \in Zip[w].positions :
          r.isin_raw = s.isin_raw => r.isin_state = s.isin_state
\* fondtrim.py:129, fondmens.py:124 and fondpatrimdisvar.py:99 refuse a repeated
\* key; fondmens has one row per class and day, its patrimony may be negative.
ASSUME FiguresAssumption ==
    \A v \in Version :
        LET z == Zip[v]
        IN  /\ IsFiniteSet(z.daily) /\ IsFiniteSet(z.quarterly)
            /\ \A d, e \in z.daily : d.class = e.class /\ d.day = e.day => d = e
            /\ \A q, r \in z.quarterly : q.class = r.class => q = r
            /\ \A t, u \in z.patrimony : t.comp = u.comp => t = u
            /\ \A d \in z.daily : d.day \in Nat /\ d.aum \in Int \cup {Missing}
            /\ \A q \in z.quarterly : q.patrimonio \in Int \cup {Missing}
            /\ \A t \in z.patrimony : t.total \in Int \cup {Missing}
ASSUME EvidenceAssumption ==
    /\ IsFiniteSet(DOMAIN Evidence)
    /\ \A i \in DOMAIN Evidence :
          /\ Evidence[i].state \in DOMAIN Strength
          /\ Evidence[i].resolved = NoIssuer <=> Evidence[i].state \in Excluded

VARIABLES file, writer, reader, answer, deaths

vars == <<file, writer, reader, answer, deaths>>

NoAnswer == [status |-> "none"]
Idle == [step |-> "idle"]

Init ==
    /\ file = [p \in Period |-> [t \in Table |-> NoVersion]]
    /\ writer = Idle
    /\ reader = Idle
    /\ answer = NoAnswer
    /\ deaths = 0

\* The rows a query sees of one period.
RowsOf(v, t) == IF v \in Version THEN Zip[v][t] ELSE {}

Content(p, t) == RowsOf(file[p][t], t)

PeriodsOf(t) == {p \in Period : Content(p, t) # {}}

\* _fund_records_at: the registry of a period, read back from its three tables.
Registry(p) == [funds |-> Content(p, "funds"),
                compartments |-> Content(p, "compartments"),
                classes |-> Content(p, "share_classes")]

Exists(t) == \E p \in Period : file[p][t] # NoVersion

-----------------------------------------------------------------------------
(* The writer: write_period.                                                *)

\* A table without rows is not written, those of the registry always are.
IsWritten(v, t) == t \in RegistryTables \/ Zip[v][t] # {}

NextTable(v, n) ==
    LET later == {m \in n + 1 .. 8 : IsWritten(v, Tables[m])}
    IN  CHOOSE m \in later \cup {9} : \A k \in later : m <= k

WriterAt(p, v, n) ==
    IF n = 9 THEN Idle ELSE [step |-> "writing", period |-> p, version |-> v, at |-> n]

StartExport(p, v) ==
    /\ writer = Idle
    /\ reader # Idle => p \in Beside
    /\ \E t \in Table : IsWritten(v, t) /\ file[p][t] # v
    /\ answer' = NoAnswer
    /\ LET n == NextTable(v, 0)
       IN  /\ writer' = WriterAt(p, v, n)
           /\ file' = [file EXCEPT ![p][Tables[n]] = Torn]
    /\ UNCHANGED <<reader, deaths>>

Done == [file EXCEPT ![writer.period][Tables[writer.at]] = writer.version]

\* One table is complete, the next one is opened.
WriteTable ==
    /\ writer # Idle
    /\ answer' = NoAnswer
    /\ LET n == NextTable(writer.version, writer.at)
       IN  /\ writer' = WriterAt(writer.period, writer.version, n)
           /\ file' = IF n = 9 THEN Done
                      ELSE [Done EXCEPT ![writer.period][Tables[n]] = Torn]
    /\ UNCHANGED <<reader, deaths>>

\* The command dies inside a table, or before it opens the next one.
WriterDies ==
    /\ writer # Idle
    /\ deaths < MaxDeaths
    /\ deaths' = deaths + 1
    /\ answer' = NoAnswer
    /\ writer' = Idle
    /\ file' \in {file, Done}
    /\ UNCHANGED reader

-----------------------------------------------------------------------------
(* The reader: holdings.                                                    *)

Answered(status) ==
    /\ answer' = [status |-> status]
    /\ reader' = Idle

Whole == \A p \in Period, t \in Table : file[p][t] # Torn

FewFiles == \A p \in Period \ Beside, t \in Table : file[p][t] = NoVersion

\* The views are made of the tables there are when the query connects.
Ask(id, asOf, exact) ==
    /\ reader = Idle
    /\ FewFiles
    /\ Exists("positions")
    /\ reader' = [step |-> "period", id |-> id, asOf |-> asOf, exact |-> exact,
                  registered |-> Exists("share_classes"),
                  period |-> NoPeriod, registry |-> NoPeriod,
                  classes |-> NoVersion, resolution |-> NotResolved("not_found")]
    /\ answer' = NoAnswer
    /\ UNCHANGED <<file, writer, deaths>>

\* A view over a file that cannot be read is not made.
AskFails ==
    /\ reader = Idle
    /\ FewFiles
    /\ ~Whole
    /\ Answered("failed")
    /\ UNCHANGED <<file, writer, deaths>>

UpTo(periods, p) == IF p = NoPeriod THEN periods ELSE {q \in periods : q <= p}

Latest(periods) == CHOOSE q \in periods : \A r \in periods : r <= q

\* _positions_period: the as-of month itself, or the latest before it.  The
\* partitions that the condition on the period excludes are not opened.
Searched ==
    IF reader.exact /\ reader.asOf # NoPeriod
    THEN {reader.asOf}
    ELSE UpTo(Period, reader.asOf)

\* A file that is being written cannot be read.
Readable(t, periods) == \A p \in periods : file[p][t] # Torn

PickPeriod ==
    /\ reader.step = "period"
    /\ Readable("positions", Searched)
    /\ LET found == PeriodsOf("positions") \cap Searched
       IN  IF found = {}
           THEN Answered("not_found")
           ELSE /\ reader' = [reader EXCEPT !.step = "registry", !.period = Latest(found)]
                /\ UNCHANGED answer
    /\ UNCHANGED <<file, writer, deaths>>

\* Mutant: the registry is the latest of the month asked for.
RegistryCutoffAsked == reader.asOf

\* _registry_period: at most the period of the positions.
RegistryCutoff == reader.period

PickRegistry ==
    /\ reader.step = "registry"
    /\ Readable("share_classes", UpTo(Period, RegistryCutoff))
    /\ LET loaded == UpTo(PeriodsOf("share_classes"), RegistryCutoff)
           found == reader.registered /\ loaded # {}
       IN  reader' = [reader EXCEPT !.step = IF found THEN "classes" ELSE "rows",
                      !.registry = IF found THEN Latest(loaded) ELSE NoPeriod]
    /\ UNCHANGED <<file, writer, answer, deaths>>

\* _share_class_rows, then _fund_owners: two reads, then resolve.
ReadClasses ==
    /\ reader.step = "classes"
    /\ Readable("share_classes", {reader.registry})
    /\ reader' = [reader EXCEPT !.step = "owners",
                      !.classes = file[reader.registry]["share_classes"]]
    /\ UNCHANGED <<file, writer, answer, deaths>>

ReadOwners ==
    /\ reader.step = "owners"
    /\ Readable("compartments", {reader.registry})
    /\ LET found == Resolve(reader.id, RowsOf(reader.classes, "share_classes"),
                            Content(reader.registry, "compartments"))
       IN  IF found.kind \in {"ambiguous", "invalid_identifier"}
           THEN Answered("not_found")
           ELSE /\ reader' = [reader EXCEPT !.step = "rows", !.resolution = found,
                                            !.classes = NoVersion]
                /\ UNCHANGED answer
    /\ UNCHANGED <<file, writer, deaths>>

KeyForms == {"class", "compartment", "fund", "number"}

\* _positions_by_key: what FONDCART reports under the identifier itself; a bare
\* number is compared with the registry number of every entity type.
ByKey(id, rows) ==
    CASE id.form = "compartment" -> {r \in rows : r.owner = id.is}
      [] id.form = "fund"        -> {r \in rows : r.owner[1] = id.is}
      [] id.form = "number"      -> {r \in rows : r.owner[1][2] = id.is}
      [] OTHER                   -> {}

ReadPositions ==
    /\ reader.step = "rows"
    /\ Readable("positions", {reader.period})
    /\ LET rows == Content(reader.period, "positions")
           owners == reader.resolution.owners
       IN  IF owners = {} /\ reader.id.form \notin KeyForms
           THEN Answered("not_found")
           ELSE /\ answer' = [status |-> "rows", id |-> reader.id,
                      asOf |-> reader.asOf, exact |-> reader.exact,
                      period |-> reader.period, registry |-> reader.registry,
                      rows |-> IF owners = {} THEN ByKey(reader.id, rows)
                               ELSE {r \in rows : r.owner \in owners}]
                /\ reader' = Idle
    /\ UNCHANGED <<file, writer, deaths>>

\* What the reader needs next may be a file that is being written.
ReadFails ==
    /\ reader # Idle
    /\ LET t == CASE reader.step \in {"period", "rows"} -> "positions"
                  [] reader.step \in {"registry", "classes"} -> "share_classes"
                  [] OTHER -> "compartments"
       IN  ~Readable(t, Period)
    /\ Answered("failed")
    /\ UNCHANGED <<file, writer, deaths>>

Next ==
    \/ \E p \in Period : \E v \in Versions[p] : StartExport(p, v)
    \/ WriteTable \/ WriterDies
    \/ \E id \in Identifiers, p \in AsOf \cup {NoPeriod}, e \in BOOLEAN : Ask(id, p, e)
    \/ AskFails
    \/ PickPeriod \/ PickRegistry \/ ReadClasses \/ ReadOwners
    \/ ReadPositions \/ ReadFails

Spec == Init /\ [][Next]_vars

-----------------------------------------------------------------------------
(* Properties.                                                              *)

\* No export and no query runs, and every file can be read.
Settled == writer = Idle /\ reader = Idle /\ Whole

Loaded == PeriodsOf("positions")
Snapshot(p, owner) == {r \in Content(p, "positions") : r.owner = owner}
Owners == {r.owner : r \in UNION {Content(p, "positions") : p \in Period}}
Available(owner) == {p \in Loaded : Snapshot(p, owner) # {}}
\* They may be of several versions: one without rows, or an export that died,
\* leaves those of an earlier one.
Figures(p) == [daily |-> Content(p, "daily"),
               quarterly |-> Content(p, "quarterly"),
               patrimony |-> Content(p, "patrimony"),
               coverage |-> Content(p, "derivative_coverage")]

\* query.py:1371, "never fabricates pairings", and the conservation section of
\* every diff: each row of both snapshots is accounted for exactly once, as
\* matched, added, removed or in a group that nothing tells apart; and it calls
\* an ISIN removed just where position_history has it before and not after.
DiffConserves ==
    Settled => \A from, to \in Loaded, o \in Owners :
        LET old == Snapshot(from, o)
            new == Snapshot(to, o)
            snapshots == [p \in {from, to} |-> Snapshot(p, o)]
        IN  /\ Conserved(old, new)
            /\ \A isin \in Isins(old) \cup Isins(new) :
                  {p \in {from, to} : \E h \in History(snapshots, isin) : h.period = p}
                      = {from} \ {to}
                  <=> \E r \in Removed(old, new) : r.isin_raw = isin

\* The change ledger composes: a position that two consecutive diffs call
\* unchanged is one that the diff across both calls unchanged too.
UnchangedComposes ==
    Settled => \A o \in Owners : \A a, b, c \in Loaded :
        LET A == Snapshot(a, o)
            B == Snapshot(b, o)
            C == Snapshot(c, o)
        IN  \A p \in Unchanged(A, B), q \in Unchanged(B, C) :
                p[2] = q[1] => <<p[1], q[2]>> \in Unchanged(A, C)

\* Registry events accumulate: whatever differs between two months, for a fund
\* that three registries hold, was an event of one of the two steps between.
EventsAccumulate ==
    Settled => \A a, b, c \in PeriodsOf("share_classes") :
        \A e \in Events(Registry(a), Registry(c)) :
            e.fund \in FundKeys(Registry(b)) =>
                \E f \in Events(Registry(a), Registry(b))
                            \cup Events(Registry(b), Registry(c)) :
                    f.fund = e.fund /\ f.subject = e.subject

\* holdings, an export running beside it: what is answered is what one published
\* registry says of the identifier and one published portfolio says of its
\* owners, neither later than asked for, whichever tables were rewritten between
\* the reads.
AnswerIs(a, portfolio, registry) ==
    LET owners == Resolve(a.id, registry.share_classes, registry.compartments).owners
    IN  a.rows = IF owners = {} THEN ByKey(a.id, portfolio.positions)
                 ELSE {r \in portfolio.positions : r.owner \in owners}

Contents(p) == {Zip[v] : v \in Versions[p]}

AnswerOfOneVersion ==
    answer.status = "rows" =>
        /\ answer.asOf # NoPeriod =>
               /\ answer.period <= answer.asOf
               /\ answer.exact => answer.period = answer.asOf
        /\ answer.registry # NoPeriod => answer.registry <= answer.period
        /\ \E portfolio \in Contents(answer.period) :
               IF answer.registry = NoPeriod
               THEN answer.rows = ByKey(answer.id, portfolio.positions)
               ELSE \E registry \in Contents(answer.registry) :
                        AnswerIs(answer, portfolio, registry)

\* The exposures of a period add up: no position counts for two issuers or under
\* two strengths, none counts for an issuer it only names as a candidate, and
\* all issuers together are the resolved part of the coverage section; whatever
\* ISINs the adjudication was run over, before or after the positions came.
Issuers == {Evidence[i].resolved : i \in DOMAIN Evidence} \ {NoIssuer}

ExposureTiles ==
    Settled => \A p \in Loaded, covered \in SUBSET DOMAIN Evidence :
        LET rows == Content(p, "positions")
            verdicts == [i \in covered |-> Evidence[i]]
            Share(l, evidence) == Gross(Known(rows, verdicts, l, evidence))
            total == Coverage(rows, verdicts)
        IN  /\ SumFunction([l \in Issuers |-> Share(l, "all-resolved")])
                  = total.resolved
            /\ total.resolved + total.unresolved <= total.valid
            /\ SumFunction([s \in DOMAIN Strength |-> StateCount(verdicts, s)])
                  = Cardinality(covered)
            /\ \A l \in Issuers :
                  /\ Share(l, "all-resolved")
                        = Share(l, "corroborated") + Share(l, "single-source")
                  /\ Known(rows, verdicts, l, "all-resolved")
                        \cap Candidate(rows, verdicts, l) = {}
                  /\ \A r \in Known(rows, verdicts, l, "all-resolved") :
                        r.isin_raw \notin Conflicts(verdicts)

\* The rows one compartment is compared by.
OwnRows(z, t) == {q \in z.quarterly : q.comp = t.comp}
MonthRows(z, t) == {d \in MonthEnd(z.daily) : d.comp = t.comp}

AllMatch(z, t, own, month) ==
    /\ TotalState(t, z.quarterly) = "match"
    /\ {d.class : d \in month} = {q.class : q \in own}
    /\ \A q \in own : ClassState(q, z.daily) = "match"

ThirdNear(z, t, month) ==
    LET sizes == SumFunction([d \in month |-> Abs(d.aum)])
    IN  /\ AumState(t, z.daily) \in {"match", "diff"}
        /\ Abs(t.total - SumAum(month)) * 10000 <= 201 * sizes

ComparedOnce(z) ==
    LET made == Comparisons(z.daily, z.quarterly, z.patrimony)
                    \cup DerivativeCoverage(z.coverage, z.patrimony)
    IN  \A c, e \in made : c.metric = e.metric /\ c.subject = e.subject => c = e

\* The three comparisons cohere: where every class matches in FONDTRIM and
\* FONDMENS and their sum matches FONDPATRIMDISVAR, the third comparison, which
\* reads other rows, is made too and differs by the two tolerances at most, taken
\* of the sizes of the amounts: some may be negative.  No subject is compared
\* twice.  Both hold also of tables that different versions left.
ReconciliationCoheres ==
    Settled => \A p \in Period :
        LET z == Figures(p)
        IN  /\ ComparedOnce(z)
            /\ \A t \in z.patrimony :
                  AllMatch(z, t, OwnRows(z, t), MonthRows(z, t))
                      => ThirdNear(z, t, MonthRows(z, t))
=============================================================================
