-------------------------- MODULE LifecycleLedgers --------------------------
(***************************************************************************)
(* From stored documents to assertions, lifecycle_ingest.py                *)
(* (weekly_ledger, hr_ledger, _link_hr_corrections) with its two parsers,  *)
(* adapters/weekly_registry.py and adapters/relevant_information.py.  All  *)
(* of it is pure and reads stored documents only.                          *)
(*                                                                         *)
(* Abstractions: a bulletin is the lines of its fund section, one record   *)
(* per line: what the line is (a wrapped header is one line), the act it   *)
(* names, the register numbers it prints, whether it has a ", por" clause, *)
(* from which on its numbers are successors.  A notice is the set of words *)
(* that classify it with its numbers and dates, and whether a name follows *)
(* its last ", por".  What the names are, offsets, asserted dates and      *)
(* verbatim text are left out; the number in "(inscrito ... numero N)"     *)
(* that comes first is the first number of the text.                       *)
(***************************************************************************)
EXTENDS Integers, Sequences, SequencesExt

CONSTANT None

First(seq) == IF seq = <<>> THEN None ELSE seq[1]

(***************************************************************************)
(* _units: lines to table rows, prose acts and verbatim fragments          *)
(***************************************************************************)
Unit(kind, number, section, lines) ==
    [kind |-> kind, number |-> number, section |-> section, lines |-> lines]

\* units so far, the table header in force, lines of a name, lines of an act
\* and its number, the row an act may still take as its subject
Begun == [units |-> <<>>, table |-> None, names |-> <<>>, prose |-> <<>>,
          number |-> None, row |-> 0]

FlushNames(s) ==
    IF s.names = <<>> THEN s
    ELSE [s EXCEPT !.units = Append(@, Unit("verbatim", None, None, s.names)),
                   !.names = <<>>]

FlushProse(s) ==
    IF s.prose = <<>> THEN s
    ELSE [s EXCEPT !.units = Append(@, Unit("prose_act", s.number, None, s.prose)),
                   !.prose = <<>>, !.number = None]

\* a header closes a name, not an act: it may be injected in a sentence
Header(s, line) ==
    [FlushNames(s) EXCEPT !.table = IF line.act = None THEN @ ELSE line.act, !.row = 0]

\* Mutant: the row stays beside the act that it is the heading of.
OpenActKeepingRow(s, line) ==
    [FlushProse(FlushNames(s)) EXCEPT !.prose = <<line>>, !.row = 0,
        !.number = IF s.row = 0 THEN None ELSE s.units[s.row].number]

\* a verb opens an act; the row before it is its subject and no longer a row
OpenAct(s, line) ==
    [FlushProse(FlushNames(s)) EXCEPT !.prose = <<line>>, !.row = 0,
        !.number = IF s.row = 0 THEN None ELSE s.units[s.row].number,
        !.units = IF s.row = 0 THEN @ ELSE RemoveAt(@, s.row)]

AddRow(s, line) ==
    [s EXCEPT !.units = Append(@, Unit("table_row", line.number, s.table, Append(s.names, line))),
              !.row = Len(s.units) + 1,
              !.names = <<>>]

\* of a ninth line of a name the oldest five become a fragment
AddName(s, line) ==
    LET names == Append(s.names, line)
        n == Len(names)
    IN  IF n <= 8 THEN [s EXCEPT !.names = names]
        ELSE [s EXCEPT !.units = Append(@, Unit("verbatim", None, None, SubSeq(names, 1, n - 4))),
                       !.names = SubSeq(names, n - 3, n)]

\* _looks_name, with a bare number among the next three lines
BeginsRow(lines, n) ==
    /\ lines[n].is = "name"
    /\ \E k \in (n + 1)..(n + 3) : k \in DOMAIN lines /\ lines[k].is = "number"

ReadLine(s, lines, n) ==
    LET line == lines[n]
    IN  CASE line.is = "header" -> Header(s, line)
          [] line.is = "noise" -> s
          [] line.is = "verb" -> OpenAct(s, line)
          [] line.is = "number" /\ s.prose = <<>> -> AddRow(s, line)
          [] line.is = "number" /\ s.prose # <<>> -> [s EXCEPT !.prose = Append(@, line)]
          [] line.is \in {"name", "text"} ->
                IF s.prose = <<>> THEN AddName(s, line)
                ELSE IF BeginsRow(lines, n) THEN [FlushProse(s) EXCEPT !.names = <<line>>]
                ELSE [s EXCEPT !.prose = Append(@, line)]

Units(lines) ==
    LET read[n \in 0..Len(lines)] == IF n = 0 THEN Begun ELSE ReadLine(read[n - 1], lines, n)
    IN  FlushProse(FlushNames(read[Len(lines)])).units

(***************************************************************************)
(* parse_registry_document: units to observations                          *)
(***************************************************************************)
\* "numero N"; a number alone on a line of an act is one that was wrapped
NumbersIn(u, line) ==
    IF line.is # "number" THEN line.regs
    ELSE IF u.kind = "prose_act" THEN <<line.number>> ELSE <<>>

Numbers(u, lines) == FlattenSeq([n \in DOMAIN lines |-> NumbersIn(u, lines[n])])

\* _por_successors: what follows the last ", por"
SuccessorNumbers(u) ==
    LET at == SelectLastInSeq(u.lines, LAMBDA line : line.por)
    IN  IF at = 0 THEN <<>> ELSE Numbers(u, SubSeq(u.lines, at, Len(u.lines)))

\* other namespaces' acts are kept, and are no evidence about funds
Section(u) ==
    LET acts == SelectSeq(u.lines, LAMBDA line : line.act # None)
    IN  IF \A n \in DOMAIN u.lines : ~u.lines[n].fi THEN "OTHER_ENTITY_CONTEXT"
        ELSE IF u.kind = "table_row"
             THEN IF u.section = None THEN "UNKNOWN_TABLE" ELSE u.section
             ELSE IF acts = <<>> THEN "OTHER_REGISTRY_PROSE" ELSE acts[1].act

Observed(u) ==
    LET regs == Numbers(u, u.lines)
        own == IF u.number = None THEN <<>> ELSE <<u.number>>
    IN  [section |-> Section(u),
         subject |-> IF u.number = None THEN First(regs) ELSE u.number,
         regs |-> IF regs = <<>> THEN own ELSE regs,
         succ |-> SuccessorNumbers(u),
         verbatim |-> u.kind = "verbatim" \/ (u.kind = "prose_act" /\ regs \o own = <<>>)]

(***************************************************************************)
(* bulletin_assertions: <<type, subject, object>>                          *)
(***************************************************************************)
TypeOf(section) ==
    CASE section = "NUEVAS INSCRIPCIONES" -> "REGISTRATION_RECORDED"
      [] section = "BAJAS" -> "DEREGISTRATION_RECORDED"
      [] section = "FUSION" -> "MERGER_REGISTRATION_RECORDED"
      [] section = "DENOMINACION" -> "NAME_CHANGE_REGISTRATION_RECORDED"
      [] section = "UNKNOWN_TABLE" -> "UNKNOWN_REGISTRY_ASSERTION"
      [] OTHER -> "OTHER_REGISTRY_ACT"

AboutEach(type, numbers, object) ==
    [n \in DOMAIN numbers |-> <<type, numbers[n], object>>]

\* the funds that are not the successor's are absorbed, the subject if none is
MergerAssertions(o) ==
    LET named == SelectSeq(o.regs, LAMBDA r : r \notin ToSet(o.succ))
        to == First(o.succ)
        own == IF o.subject \in {None, to} THEN <<>> ELSE <<o.subject>>
        absorbed == IF named = <<>> THEN own ELSE named
    IN  IF absorbed # <<>> THEN AboutEach(TypeOf("FUSION"), absorbed, to)
        ELSE IF to # None THEN <<<<TypeOf("FUSION"), None, to>>>> ELSE <<>>

BulletinAssertions(o) ==
    IF o.section = "OTHER_ENTITY_CONTEXT" THEN <<>>
    ELSE IF o.verbatim THEN AboutEach("UNKNOWN_REGISTRY_ASSERTION", o.regs, None)
    ELSE IF o.section = "FUSION" THEN MergerAssertions(o)
    ELSE IF o.subject # None THEN <<<<TypeOf(o.section), o.subject, None>>>>
    ELSE AboutEach(TypeOf(o.section), o.regs, None)

\* weekly_ledger, the rows of one document
BulletinRows(lines) ==
    LET units == Units(lines)
        rows(o) == LET found == BulletinAssertions(o)
                   IN  [k \in DOMAIN found |->
                           [type |-> found[k][1], family |-> "weekly", regs |-> ToSet(o.regs),
                            succ |-> ToSet(o.succ), subject |-> found[k][2],
                            object |-> found[k][3], named |-> FALSE, entity |-> None]]
    IN  FlattenSeq([n \in DOMAIN units |-> rows(Observed(units[n]))])

-----------------------------------------------------------------------------
(***************************************************************************)
(* hr_assertions: the types one notice gives                               *)
(***************************************************************************)
\* an execution is looked for first, an authorisation before a registration
MergerStage(words) ==
    IF "desist" \in words THEN "MERGER_RENOUNCED"
    ELSE IF "ejecutad" \in words THEN "MERGER_EXECUTED"
    ELSE IF "autoriz" \in words THEN "MERGER_AUTHORIZED"
    ELSE IF "inscrib" \in words THEN "MERGER_REGISTERED"
    ELSE IF "proyecto" \in words THEN "MERGER_REQUESTED"
    ELSE "OTHER_LIFECYCLE_ASSERTION"

EndStages(words) ==
    (IF "disoluci" \in words THEN <<"DISSOLUTION_AGREED">> ELSE <<>>)
        \o (IF "liquidaci" \in words THEN <<"LIQUIDATION_EXECUTED">> ELSE <<>>)

OtherStage(words) ==
    IF "baja" \in words THEN "DEREGISTRATION_REPORTED"
    ELSE IF "transformaci" \in words THEN "TRANSFORMATION_RECORDED"
    ELSE IF words \cap {"sustituci", "revocaci"} # {} /\ "gestor" \in words
         THEN "MANAGER_SUBSTITUTION_REPORTED"
    ELSE IF words \cap {"sustituci", "cambio"} # {} /\ "depositar" \in words
         THEN "DEPOSITARY_SUBSTITUTION_REPORTED"
    ELSE "OTHER_LIFECYCLE_ASSERTION"

NoticeTypes(words) ==
    IF "rectific" \in words THEN <<"RECTIFICATION_REPORTED">>
    ELSE IF "fusi" \in words THEN <<MergerStage(words)>>
    ELSE IF EndStages(words) # <<>> THEN EndStages(words)
    ELSE <<OtherStage(words)>>

\* the first number that is no successor's
NoticeSubject(notice) ==
    First(SelectSeq(notice.regs, LAMBDA r : r \notin ToSet(notice.succ)))

(***************************************************************************)
(* hr_ledger: the rows of one page of an entity                            *)
(***************************************************************************)
\* one notice of the page that names the fund corroborates them all
ResolutionState(entity, page) ==
    IF \E n \in DOMAIN page.notices : entity \in ToSet(page.notices[n].regs)
    THEN "EXACT_REGNUM_CORROBORATED"
    ELSE IF page.empty THEN "NOT_FOUND"
    ELSE IF page.nifs > 1 THEN "AMBIGUOUS" ELSE "DISCOVERY_ONLY"

PageRows(entity, page) ==
    LET fund == IF ResolutionState(entity, page) = "EXACT_REGNUM_CORROBORATED"
                THEN entity ELSE None
        rows(o) == LET types == NoticeTypes(o.words)
                   IN  [k \in DOMAIN types |->
                           [type |-> types[k], family |-> "hr", regs |-> ToSet(o.regs),
                            succ |-> ToSet(o.succ), subject |-> NoticeSubject(o),
                            object |-> First(o.succ),
                            named |-> o.por /\ o.succ = <<>>, entity |-> fund]]
    IN  FlattenSeq([n \in DOMAIN page.notices |-> rows(page.notices[n])])

(***************************************************************************)
(* _link_hr_corrections, over the notices <<document, n>> of the documents *)
(* stored; content[d] is the page that is document d                       *)
(***************************************************************************)
Notice(content, o) == content[o[1]].notices[o[2]]

Notices(docs, content) ==
    UNION {{d} \X DOMAIN content[d].notices : d \in {x \in docs : x.family = "hr"}}

\* Mutant: of any fund.
TargetsOfAnyFund(docs, content, o) ==
    {t \in Notices(docs, content) :
        t # o /\ Notice(content, t).day = Notice(content, o).names}

Targets(docs, content, o) ==
    {t \in Notices(docs, content) :
        /\ t # o
        /\ t[1].of = o[1].of
        /\ Notice(content, t).day = Notice(content, o).names}

\* the target if there is one only: never "the closest previous one"
Correction(docs, content, o) ==
    LET targets == Targets(docs, content, o)
        notice == Notice(content, o)
    IN  IF "rectific" \in notice.words /\ notice.names # None /\ \E t \in targets : targets = {t}
        THEN CHOOSE t \in targets : TRUE ELSE None
=============================================================================
