--------------------------- MODULE Reconciliation ---------------------------
(* query.patrimony_reconciliation and derivative_reconciliation: the        *)
(* patrimony that three families report for one period end, side by side.   *)
(* Pure operators over the rows of one period:                              *)
(*   daily       [comp, class, day, aum], aum = Missing when not observed   *)
(*   quarterly   [comp, class, patrimonio, currency], each may be Missing   *)
(*   patrimony   [comp, total, currency], one row per compartment           *)
(*   coverage    [comp, n], the FONDDERI compartments                       *)
(* comp and class are keys: two classes are never equal.                    *)
EXTENDS Integers, FiniteSets, Functions

CONSTANTS Missing, Euro

ASSUME NoAmount == Missing \notin Int

Abs(n) == IF n < 0 THEN -n ELSE n

\* match within one per cent of the right-hand side
Tolerance == 100

\* Mutant: ten per cent.
StateLoose(left, right) ==
    IF left = Missing \/ right = Missing THEN "skipped_missing"
    ELSE IF Abs(left - right) * 10 <= Abs(right) THEN "match"
    ELSE "diff"

State(left, right) ==
    IF left = Missing \/ right = Missing THEN "skipped_missing"
    ELSE IF Abs(left - right) * Tolerance <= Abs(right) THEN "match"
    ELSE "diff"

\* SQL's sum: of the values there are, NULL when there are none.
SumAum(daily) ==
    LET stated == {d \in daily : d.aum # Missing}
    IN  IF stated = {} THEN Missing ELSE SumFunction([d \in stated |-> d.aum])

SumPatrimonio(quarterly) ==
    LET stated == {q \in quarterly : q.patrimonio # Missing}
    IN  IF stated = {} THEN Missing ELSE SumFunction([q \in stated |-> q.patrimonio])

\* mens_eom: the last observed day of each class.
MonthEnd(daily) ==
    LET observed == {d \in daily : d.aum # Missing}
    IN  {d \in observed :
            \A e \in observed : e.class = d.class => e.day <= d.day}

AumOf(daily, class) == SumAum({d \in MonthEnd(daily) : d.class = class})

Comparison(metric, subject, state) ==
    [metric |-> metric, subject |-> subject, state |-> state]

ClassState(q, daily) ==
    IF q.patrimonio = Missing \/ AumOf(daily, q.class) = Missing
    THEN "skipped_missing"
    ELSE IF q.currency # Euro THEN "skipped_currency"
    ELSE State(q.patrimonio, AumOf(daily, q.class))

TotalState(p, quarterly) ==
    LET own == {q \in quarterly : q.comp = p.comp}
        sum == SumPatrimonio(own)
        currencies == {q.currency : q \in own} \ {Missing}
    IN  IF p.total = Missing \/ sum = Missing THEN "skipped_missing"
        ELSE IF p.currency = Missing \/ currencies # {p.currency}
             THEN "skipped_currency"
        ELSE State(p.total, sum)

AumState(p, daily) ==
    LET sum == SumAum({d \in MonthEnd(daily) : d.comp = p.comp})
    IN  IF p.total = Missing \/ sum = Missing THEN "skipped_missing"
        ELSE IF p.currency # Euro THEN "skipped_currency"
        ELSE State(p.total, sum)

Comparisons(daily, quarterly, patrimony) ==
    {Comparison("patrimonio_vs_mens_aum", q.class, ClassState(q, daily)) :
        q \in quarterly}
    \cup
    {Comparison("total_vs_trim_class_sum", p.comp, TotalState(p, quarterly)) :
        p \in patrimony}
    \cup
    {Comparison("total_vs_mens_aum_sum", p.comp, AumState(p, daily)) :
        p \in patrimony}

\* FONDDERI has no value to compare: only whether the compartment is there.
DerivativeCoverage(coverage, patrimony) ==
    {Comparison("derivative_reporting_vs_patrimony", c.comp,
        IF \E p \in patrimony : p.comp = c.comp
        THEN "match" ELSE "missing_in_patrimony") : c \in coverage}
=============================================================================
