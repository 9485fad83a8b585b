-------------------------- MODULE MCDatasetQueries --------------------------
(* FI:9 with two compartments and FHF:9 with one, over two years of half-   *)
(* yearly portfolios and one month that has a registry alone.  The versions *)
(* of a period differ where a query could go wrong: an ISIN twice in one    *)
(* portfolio, rows without an ISIN that look alike, an owner that is absent,*)
(* a compartment that goes and comes back, a number two entity types share. *)
EXTENDS DatasetQueries, TLC

CONSTANTS isinA, isinB, isinC, lei1, lei2

Month(y, m) == 12 * y + m - 1
Dec24 == Month(2024, 12)
Jun25 == Month(2025, 6)
Sep25 == Month(2025, 9)
Dec25 == Month(2025, 12)
Months == {Dec24, Jun25, Sep25, Dec25}
ReaderMonths == {Jun25, Sep25}
AsOfMonths == {Jun25, Sep25}

fi9 == <<"FI", 9>>
fhf9 == <<"FHF", 9>>
main == <<fi9, 0>>
side == <<fi9, 1>>
hedge == <<fhf9, 0>>

With(seq, owner, isin, value, weight) ==
    [seq |-> seq, owner |-> owner, kind |-> "security", isin_raw |-> isin,
     isin_state |-> "valid", sig |-> "bond", value |-> value, weight |-> weight]
Without(seq, owner, kind, sig, value) ==
    [seq |-> seq, owner |-> owner, kind |-> kind, isin_raw |-> Missing,
     isin_state |-> "absent", sig |-> sig, value |-> value, weight |-> 1]

Fund(key, name) == [key |-> key, denominacion |-> name, gestora |-> "190",
                    depositario |-> "211", etf |-> "NO"]
Class(owner, class, isin) ==
    [fund |-> owner[1], comp |-> owner[2], class |-> class, isin |-> isin]

Rows(positions, funds, compartments, classes, figures) ==
    [positions |-> positions, funds |-> funds, compartments |-> compartments,
     share_classes |-> classes, daily |-> figures.daily, quarterly |-> figures.quarterly,
     patrimony |-> figures.patrimony, derivative_coverage |-> figures.coverage]

Day(comp, class, day, aum) == [comp |-> comp, class |-> <<comp[1], comp[2], class>>, day |-> day, aum |-> aum]
Quarter(comp, class, patrimonio, currency) ==
    [comp |-> comp, class |-> <<comp[1], comp[2], class>>, patrimonio |-> patrimonio, currency |-> currency]

NoFigures == [daily |-> {}, quarterly |-> {}, patrimony |-> {}, coverage |-> {}]
Agreeing ==
    [daily |-> {Day(main, 1, 1, 40), Day(main, 1, 30, 100), Day(main, 1, 31, Missing),
                Day(main, 2, 31, 200), Day(main, 3, 31, -20)},
     quarterly |-> {Quarter(main, 1, 101, Euro), Quarter(main, 2, 198, Euro),
                    Quarter(main, 3, -20, Euro)},
     patrimony |-> {[comp |-> main, total |-> 281, currency |-> Euro]},
     coverage |-> {[comp |-> main, n |-> 0]}]
\* FONDTRIM is not in it: the rows of an earlier version stay.
Late ==
    [daily |-> {Day(main, 1, 30, 107)}, quarterly |-> {},
     patrimony |-> {[comp |-> main, total |-> 109, currency |-> Euro]},
     coverage |-> {[comp |-> main, n |-> 1]}]
Differing ==
    [daily |-> {Day(main, 1, 30, 100), Day(hedge, 1, 30, 50)},
     quarterly |-> {Quarter(main, 1, 108, Euro), Quarter(side, 1, Missing, Euro),
                    Quarter(hedge, 1, 50, Missing)},
     patrimony |-> {[comp |-> main, total |-> 116, currency |-> Euro],
                    [comp |-> side, total |-> 0, currency |-> Missing],
                    [comp |-> hedge, total |-> 50, currency |-> Euro]},
     coverage |-> {[comp |-> hedge, n |-> 2]}]

VersionsOf ==
    (Dec24 :> {"dec", "dec-revised"}) @@ (Jun25 :> {"jun", "jun-revised"})
        @@ (Sep25 :> {"sep"}) @@ (Dec25 :> {"dec25"})

ZipOf == [v \in {"dec", "dec-revised", "jun", "jun-revised", "sep", "dec25"} |->
    CASE v = "dec" ->
        Rows({With(1, main, isinA, 10, 2), With(2, main, isinB, -5, 1),
              Without(3, main, "cash", "deposit", 3)},
             {Fund(fi9, "a")}, {main}, {Class(main, 1, isinA)}, Agreeing)
      [] v = "dec-revised" ->
        Rows({With(1, main, isinA, 10, 2), With(2, main, isinA, 4, 1),
              Without(3, main, "security", "deposit", 3),
              Without(4, main, "security", "deposit", 7)},
             {Fund(fi9, "a")}, {main},
             {Class(main, 1, isinA), Class(main, 2, isinC)}, NoFigures)
      [] v = "jun" ->
        Rows({With(1, side, isinC, 8, 3), Without(2, hedge, "cash", "deposit", 1)},
             {Fund(fi9, "b")}, {side}, {Class(side, 1, isinA)}, Differing)
      [] v = "jun-revised" ->
        Rows({With(1, main, isinA, 11, 2), With(2, main, isinB, -5, 2),
              Without(3, main, "cash", "deposit", 3), With(4, side, isinC, 8, 3)},
             {Fund(fi9, "a")}, {main, side},
             {Class(main, 1, isinA), Class(side, 1, isinC)}, Late)
      [] v = "sep" ->
        Rows({}, {Fund(fi9, "b")}, {main, side},
             {Class(main, 1, isinB), Class(side, 1, isinA)}, NoFigures)
      [] v = "dec25" ->
        Rows({With(1, main, isinA, 12, 2), With(2, main, isinC, 6, 2),
              Without(3, main, "cash", "deposit", 3),
              Without(4, hedge, "cash", "x", 2)},
             {Fund(fi9, "a"), Fund(fhf9, "h")}, {main, hedge},
             {Class(main, 1, isinB), Class(hedge, 1, isinC)}, Agreeing)]

Asked == {[form |-> "isin", is |-> isinA], [form |-> "class", is |-> <<fi9, 0, 1>>],
          [form |-> "compartment", is |-> side],
          [form |-> "fund", is |-> fi9], [form |-> "number", is |-> 9]}

Verdict(state, resolved, named) ==
    [state |-> state, resolved |-> resolved, named |-> named]
EvidenceOf == (isinA :> Verdict("corroborated", lei1, {}))
    @@ (isinB :> Verdict("firds_only", lei1, {}))
    @@ (isinC :> Verdict("conflict", NoIssuer, {lei1, lei2}))
=============================================================================
