--------------------------- MODULE IssuerExposure ---------------------------
(* query.funds_exposed_to and its neighbours: which reported positions are  *)
(* attributed to an issuer, and how much of a period is attributed at all.  *)
(* Pure operators over the positions of a period and one adjudication.      *)
(*                                                                          *)
(* A position has owner, kind, isin_raw, isin_state and value (signed).     *)
(* An adjudication maps each ISIN it covers to [state, resolved, named]:    *)
(* `resolved` is resolved_lei, `named` the issuers that a conflict's two    *)
(* candidate columns, or the candidate rows of a multiple match, name.      *)
EXTENDS Integers, FiniteSets, Functions

CONSTANT NoIssuer

Strength == [corroborated |-> "corroborated", gleif_only |-> "single_source",
             firds_only |-> "single_source", conflict |-> "unresolved",
             multiple_candidates |-> "unresolved",
             no_authoritative_match |-> "unresolved"]

Excluded == {"conflict", "multiple_candidates", "no_authoritative_match"}

\* The states an evidence filter lets into an issuer's total.
Admitted(evidence) ==
    {s \in DOMAIN Strength \ Excluded :
        \/ evidence = "all-resolved"
        \/ evidence = "corroborated" /\ Strength[s] = "corroborated"
        \/ evidence = "single-source" /\ Strength[s] = "single_source"}

Gross(rows) ==
    SumFunction([r \in rows |-> IF r.value < 0 THEN -r.value ELSE r.value])

\* Positions that join the adjudication: a valid ISIN that it covers.
Joined(rows, verdicts) ==
    {r \in rows : r.isin_state = "valid" /\ r.isin_raw \in DOMAIN verdicts}

InState(rows, verdicts, states) ==
    {r \in Joined(rows, verdicts) : verdicts[r.isin_raw].state \in states}

\* Mutant: the evidence filter is not applied to the rows.
KnownUnfiltered(rows, verdicts, lei, evidence) ==
    {r \in Joined(rows, verdicts) : verdicts[r.isin_raw].resolved = lei}

\* The rows behind known_resolved_value.
Known(rows, verdicts, lei, evidence) ==
    {r \in InState(rows, verdicts, Admitted(evidence)) :
        verdicts[r.isin_raw].resolved = lei}

ExposedOwners(rows, verdicts, lei, evidence) ==
    {r.owner : r \in Known(rows, verdicts, lei, evidence)}

\* Rows that name the issuer as a candidate: told, never added.
Candidate(rows, verdicts, lei) ==
    {r \in InState(rows, verdicts, {"conflict", "multiple_candidates"}) :
        lei \in verdicts[r.isin_raw].named}

\* The period universe of the coverage section.
Coverage(rows, verdicts) ==
    [resolved |-> Gross({r \in Joined(rows, verdicts) :
                            verdicts[r.isin_raw].resolved # NoIssuer}),
     corroborated |-> Gross(InState(rows, verdicts, {"corroborated"})),
     unresolved |-> Gross(InState(rows, verdicts, Excluded)),
     invalid |-> Gross({r \in rows : r.isin_state # "valid" /\ r.kind = "security"}),
     cash |-> Gross({r \in rows : r.kind = "cash"}),
     valid |-> Gross({r \in rows : r.isin_state = "valid"}),
     total |-> Gross(rows)]

\* resolution_coverage: how many ISINs of the adjudication are in each state.
StateCount(verdicts, state) ==
    Cardinality({i \in DOMAIN verdicts : verdicts[i].state = state})

\* resolution_conflicts.
Conflicts(verdicts) == {i \in DOMAIN verdicts : verdicts[i].state = "conflict"}
=============================================================================
