------------------------ MODULE MCSourceAcquisition ------------------------
(* Two weeks with the same acts laid out in two ways each; fund X disappears *)
(* twice, Y is in the blind holdout, Z is identified by its first page only. *)
EXTENDS SourceAcquisition, TLC

CONSTANTS X, Y, Z, V, W

KeyOfFour == <<X, Y, X, Z>>

(* lines of a bulletin *)
Line(is) == [is |-> is, fi |-> FALSE, act |-> None, number |-> None, regs |-> <<>>, por |-> FALSE]
PlainHead == Line("header")
TableHead(act) == [PlainHead EXCEPT !.act = act]
Name == [Line("name") EXCEPT !.fi = TRUE]
Number(f) == [Line("number") EXCEPT !.number = f]
Verb(act, regs) == [Line("verb") EXCEPT !.act = act, !.regs = regs, !.fi = TRUE]
Text(regs) == [Line("text") EXCEPT !.regs = regs]
Por(regs) == [Text(regs) EXCEPT !.por = TRUE]
OtherRegistry == [Verb("FUSION", <<V>>) EXCEPT !.fi = FALSE]

Row(type, regs, succ, subject, object) ==
    [type |-> type, family |-> "weekly", regs |-> regs, succ |-> succ,
     subject |-> subject, object |-> object, named |-> FALSE, entity |-> None]

MergerOfX == Row("MERGER_REGISTRATION_RECORDED", {X, W}, {W}, X, W)
RemovalOfY == Row("DEREGISTRATION_RECORDED", {Y}, {}, Y, None)
ChangeOfZ == Row("OTHER_REGISTRY_ACT", {Z}, {}, Z, None)
MergerOfYZ(f) == Row("MERGER_REGISTRATION_RECORDED", {Y, Z, W}, {W}, f, W)
EntryOfV == Row("REGISTRATION_RECORDED", {V}, {}, V, None)

ActsOf == <<{MergerOfX, RemovalOfY, ChangeOfZ}, {MergerOfYZ(Y), MergerOfYZ(Z), EntryOfV}>>

\* rows and acts, a header in the middle of a sentence, a row that heads an act
Registro1 ==
    <<TableHead("BAJAS"), PlainHead, Line("noise"), Name, Name, Number(Y),
      PlainHead, Verb("FUSION", <<X>>), PlainHead, Text(<<>>), Por(<<W>>),
      Name, Number(Z), Verb("MODIFICACIONES EN REGLAMENTOS", <<>>), OtherRegistry>>
\* the acts first, wrapped numbers, other text before the name of the row
Boletin1 ==
    <<Name, Name, Number(Z), Verb("MODIFICACIONES EN REGLAMENTOS", <<>>), Text(<<>>),
      Verb("FUSION", <<>>), Text(<<>>), Number(X), Por(<<>>), Number(W), OtherRegistry,
      TableHead("BAJAS"), Name, Line("noise"), Number(Y)>>
Registro2 ==
    <<Verb(None, <<>>), [Text(<<Y>>) EXCEPT !.act = "FUSION"], Text(<<Z>>), Por(<<>>), Text(<<W>>),
      TableHead("NUEVAS INSCRIPCIONES"), Name, Number(V)>>
\* nine lines of a name: the oldest are a fragment
Boletin2 ==
    <<TableHead("NUEVAS INSCRIPCIONES")>> \o [n \in 1..9 |-> Name] \o
    <<Number(V), PlainHead, Verb("FUSION", <<Y, Z>>), Por(<<W>>)>>

LinesOf ==
    (Bulletin(1, "registro") :> Registro1) @@ (Bulletin(1, "boletin_completo") :> Boletin1) @@
    (Bulletin(2, "registro") :> Registro2) @@ (Bulletin(2, "boletin_completo") :> Boletin2)

(* pages of relevant information *)
Said(day, words, regs, succ) ==
    [day |-> day, words |-> words, regs |-> regs, succ |-> succ, por |-> succ # <<>>, names |-> None]
Corrects(day, regs) == [Said(9, {"rectific", "fusi"}, regs, <<>>) EXCEPT !.names = day]
Found(links, notices) == [empty |-> FALSE, nifs |-> 1, links |-> links, notices |-> notices]

PageOf ==
    (SearchPage(X) :> Found(1, <<Corrects(1, <<X>>), Corrects(2, <<X>>),
                                 Said(2, {"fusi", "autoriz"}, <<X, W>>, <<W>>)>>)) @@
    (HistoryPage(X, 1) :> Found(1, <<Said(1, {"fusi", "proyecto"}, <<X, W>>, <<W>>),
                                     Said(2, {"disoluci", "liquidaci"}, <<>>, <<>>),
                                     [Said(3, {"sustituci", "gestor"}, <<>>, <<>>) EXCEPT !.por = TRUE]>>)) @@
    (SearchPage(Y) :> [Found(0, <<>>) EXCEPT !.empty = TRUE]) @@
    (SearchPage(Z) :> Found(0, <<Said(1, {"fusi", "ejecutad"}, <<Z, W>>, <<W>>), Corrects(1, <<>>), Corrects(3, <<>>)>>))

CorrectedNotices ==
    (<<SearchPage(X), 1>> :> <<HistoryPage(X, 1), 1>>) @@
    (<<SearchPage(X), 2>> :> None) @@
    (<<SearchPage(Z), 2>> :> <<SearchPage(Z), 1>>) @@
    (<<SearchPage(Z), 3>> :> None)
=============================================================================
