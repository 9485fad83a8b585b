------------------------- MODULE MCProviderEvidence -------------------------
(* Two ISINs, one of them later, four issuers.  GLEIF names issuers on two    *)
(* dates and corrects two of its golden files of the first; FIRDS             *)
(* publishes a letter of one part, corrects it, and a letter of two parts.    *)
EXTENDS ProviderEvidence, TLC

CONSTANTS i1, i2, l1, l2, l3, l4

File(kind, date, rows) ==
    [kind |-> kind, letter |-> None, part |-> 1, total |-> 1, date |-> date,
     inside |-> None, rows |-> rows]
Part(letter, part, total, inside, rows) ==
    [kind |-> "firds", letter |-> letter, part |-> part, total |-> total, date |-> 1,
     inside |-> inside, rows |-> rows]

Isin(i, l) == [isin |-> i, lei |-> l]
Entity(l, p) == [lei |-> l, profile |-> p]
Rel(a, b) == [lei |-> a, end |-> b]
Exception(l) == [lei |-> l, reason |-> "NATURAL_PERSONS"]

AboutFiles ==
    ("map1" :> File("isin-lei", 1, <<Isin(i1, l1), Isin(i2, l2), Isin(i2, l4)>>)) @@
    ("map2" :> File("isin-lei", 2, <<Isin(i1, l2)>>)) @@
    ("lei" :> File("lei2", 1, <<Entity(l1, "ES"), Entity(l2, "ES"), Entity(l3, "LU")>>)) @@
    ("lei*" :> File("lei2", 1, <<Entity(l1, "LU"), Entity(l2, "ES"), Entity(l4, "ES")>>)) @@
    ("rr" :> File("rr", 1, <<Rel(l1, l3), Rel(l2, None), Rel(l3, l4)>>)) @@
    ("rr*" :> File("rr", 1, <<Rel(l3, l2), Rel(l2, l1)>>)) @@
    ("rr2" :> File("rr", 2, <<Rel(l1, l3)>>)) @@
    ("repex" :> File("repex", 1, <<Exception(l1)>>)) @@
    ("E" :> Part("E", 1, 1, 1, <<Isin(i1, l1), Isin(i1, l1)>>)) @@
    ("E*" :> Part("E", 1, 1, 1, <<Isin(i1, None), Isin(i2, l3)>>)) @@
    ("E!" :> Part("E", 1, 1, 2, <<Isin(i1, l1)>>)) @@
    ("D1" :> Part("D", 1, 2, None, <<Isin(i1, l3)>>)) @@
    ("D2" :> Part("D", 2, 2, None, <<Isin(i1, l1), Isin(i2, l2)>>))

GivenFiles ==
    [c \in {"isin-lei", "golden", "firds"} |->
        CASE c = "isin-lei" -> {<<"map1">>, <<"map2">>}
          [] c = "golden" -> {<<"lei", "rr", "repex">>, <<"lei*", "rr*", "repex">>,
                              <<"lei", "rr2", "repex">>}
          [] c = "firds" -> {<<"E">>, <<"E!">>, <<"D2">>, <<"E*", "D2", "D1">>}]
=============================================================================
