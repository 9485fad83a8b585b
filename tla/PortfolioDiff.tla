--------------------------- MODULE PortfolioDiff ----------------------------
(* How query.portfolio_diff compares two published FONDCART snapshots of one *)
(* portfolio owner: rows are matched first, and only matched rows are        *)
(* classified.  Pure operators; DatasetQueries holds the tables they read.   *)
(*                                                                           *)
(* A snapshot is a set of rows that differ in position_seq.  A row has       *)
(*   isin_raw, isin_state   the identifier as published, and its class       *)
(*   sig                    kind, clase_if, the descriptions and the         *)
(*                          currency, compared only for equality             *)
(*   value, weight          reported market value, derived weight            *)
(* Periods are numbered by month, 12 * year + month - 1.                     *)
EXTENDS Integers, FiniteSets

CONSTANT NoPeriod        \* None

ASSUME PeriodAssumption == NoPeriod \notin Int

-----------------------------------------------------------------------------
(* Identity matching.                                                        *)

Valid(rows) == {r \in rows : r.isin_state = "valid"}

Unvalidated(rows) == {r \in rows : r.isin_state # "valid"}

Of(rows, isin) == {r \in Valid(rows) : r.isin_raw = isin}

Signed(rows, sig) == {r \in Unvalidated(rows) : r.sig = sig}

Alone(rows) == \A r, s \in rows : r = s

Isins(rows) == {r.isin_raw : r \in Valid(rows)}

\* The ISINs of both snapshots whose rows nothing tells apart.
Ambiguous(old, new) ==
    {i \in Isins(old) \cap Isins(new) :
        ~ (Alone(Of(old, i)) /\ Alone(Of(new, i)))}

\* Mutant: the rows of a repeated ISIN are paired like any other.
IsinPairsRepeated(old, new) ==
    {p \in Valid(old) \X Valid(new) : p[1].isin_raw = p[2].isin_raw}

IsinPairs(old, new) ==
    {p \in Valid(old) \X Valid(new) :
        /\ p[1].isin_raw = p[2].isin_raw
        /\ Alone(Of(old, p[1].isin_raw))
        /\ Alone(Of(new, p[1].isin_raw))}

SignaturePairs(old, new) ==
    {p \in Unvalidated(old) \X Unvalidated(new) :
        /\ p[1].sig = p[2].sig
        /\ Alone(Signed(old, p[1].sig))
        /\ Alone(Signed(new, p[1].sig))}

Pairs(old, new) == IsinPairs(old, new) \cup SignaturePairs(old, new)

\* Rows of this side in an ambiguous group.
Unresolved(rows, ambiguous) == {r \in Valid(rows) : r.isin_raw \in ambiguous}

Removed(old, new) ==
    {r \in Valid(old) : r.isin_raw \notin Isins(new)}
        \cup {r \in Unvalidated(old) :
                \A p \in SignaturePairs(old, new) : p[1] # r}

Added(old, new) ==
    {r \in Valid(new) : r.isin_raw \notin Isins(old)}
        \cup {r \in Unvalidated(new) :
                \A p \in SignaturePairs(old, new) : p[2] # r}

-----------------------------------------------------------------------------
(* Change classification.                                                    *)

MetaChanged(a, b) == a.sig # b.sig \/ a.isin_raw # b.isin_raw

\* Mutant: values that differ by a unit count as equal.
ChangeTolerant(a, b) ==
    CASE a.value - b.value \notin -1 .. 1 /\ a.weight # b.weight
            -> "market_value_and_weight_changed"
      [] a.value - b.value \notin -1 .. 1 /\ a.weight = b.weight
            -> "market_value_changed"
      [] a.value - b.value \in -1 .. 1 /\ a.weight # b.weight -> "weight_changed"
      [] OTHER -> IF MetaChanged(a, b) THEN "source_metadata_changed"
                                       ELSE "unchanged_position"

Change(a, b) ==
    CASE a.value # b.value /\ a.weight # b.weight
            -> "market_value_and_weight_changed"
      [] a.value # b.value /\ a.weight = b.weight -> "market_value_changed"
      [] a.value = b.value /\ a.weight # b.weight -> "weight_changed"
      [] OTHER -> IF MetaChanged(a, b) THEN "source_metadata_changed"
                                       ELSE "unchanged_position"

Unchanged(old, new) ==
    {p \in Pairs(old, new) : Change(p[1], p[2]) = "unchanged_position"}

\* The change ledger of one owner, and the check it publishes of itself.
Diff(old, new) ==
    LET ambiguous == Ambiguous(old, new)
    IN  [matched |-> Pairs(old, new),
         removed |-> Removed(old, new),
         added |-> Added(old, new),
         before |-> Unresolved(old, ambiguous),
         after |-> Unresolved(new, ambiguous)]

Conserved(old, new) ==
    LET d == Diff(old, new)
        matched == Cardinality(d.matched)
    IN  /\ matched + Cardinality(d.removed) + Cardinality(d.before)
            = Cardinality(old)
        /\ matched + Cardinality(d.added) + Cardinality(d.after)
            = Cardinality(new)

-----------------------------------------------------------------------------
(* position_history of one owner; snapshots[p] are its rows in period p.      *)

\* Every row that carries the identifier, a repeated one as often as it is there.
History(snapshots, isin) ==
    UNION {{[period |-> p, row |-> r] : r \in {x \in snapshots[p] : x.isin_raw = isin}} :
           p \in DOMAIN snapshots}
=============================================================================
