------------------------- MODULE ResolutionSnapshots -------------------------
(***************************************************************************)
(* What an adjudication may count on of the resolution tables of a         *)
(* provider and date, with no files, no registration and no records: an    *)
(* export is of the whole corpus of one moment, which it covers row for    *)
(* row; observations come before candidates and both before the manifest,  *)
(* which names what was exported; a table of no rows is not written, so    *)
(* that an older one stays; and a snapshot is changed by its own exports   *)
(* only, one at a time, none of which needs to come to its end: one that   *)
(* dies may leave the file torn that it had opened, and nothing else.      *)
(***************************************************************************)
CONSTANTS Slots,   \* a provider's snapshots
          None,    \* "no manifest"
          Torn     \* a file that cannot be read

VARIABLES universe,  \* ISINs of the stored positions
          obs,       \* slot -> the ISINs that have an observation
          cand,      \* slot -> pairs of an ISIN and an issuer
          named,     \* slot -> what the manifest names, or None
          run        \* the export that is being written

vars == <<universe, obs, cand, named, run>>

Idle == [step |-> "idle"]

Init ==
    /\ obs = [s \in Slots |-> {}]
    /\ cand = [s \in Slots |-> {}]
    /\ named = [s \in Slots |-> None]
    /\ run = Idle

Grow ==
    /\ universe \subseteq universe'
    /\ UNCHANGED <<obs, cand, named, run>>

\* whichever issuers the provider names for ISINs of the corpus
Start(s) ==
    /\ run = Idle
    /\ run' = [step |-> "observations", slot |-> s, of |-> universe, pairs |-> run'.pairs]
    /\ \A x \in run'.pairs : x[1] \in universe
    /\ UNCHANGED <<universe, obs, cand, named>>

\* no row, no table
Written(table, rows) == IF rows = {} THEN table ELSE [table EXCEPT ![run.slot] = rows]

WriteObservations ==
    /\ run.step = "observations"
    /\ obs' = Written(obs, run.of)
    /\ run' = [run EXCEPT !.step = "candidates"]
    /\ UNCHANGED <<universe, cand, named>>

WriteCandidates ==
    /\ run.step = "candidates"
    /\ cand' = Written(cand, run.pairs)
    /\ run' = [run EXCEPT !.step = "manifest"]
    /\ UNCHANGED <<universe, obs, named>>

WriteManifest ==
    /\ run.step = "manifest"
    /\ named' = [named EXCEPT ![run.slot] = [of |-> run.of, pairs |-> run.pairs]]
    /\ run' = Idle
    /\ UNCHANGED <<universe, obs, cand>>

\* An export dies between two of its writes, or inside one.
Crash ==
    /\ run # Idle
    /\ run' = Idle
    /\ \/ UNCHANGED <<obs, cand, named>>
       \/ /\ run.step = "observations" /\ run.of # {}
          /\ obs' = [obs EXCEPT ![run.slot] = Torn] /\ UNCHANGED <<cand, named>>
       \/ /\ run.step = "candidates" /\ run.pairs # {}
          /\ cand' = [cand EXCEPT ![run.slot] = Torn] /\ UNCHANGED <<obs, named>>
       \/ /\ run.step = "manifest"
          /\ named' = [named EXCEPT ![run.slot] = Torn] /\ UNCHANGED <<obs, cand>>
    /\ UNCHANGED universe

Next ==
    \/ Grow
    \/ \E s \in Slots : Start(s)
    \/ WriteObservations \/ WriteCandidates \/ WriteManifest
    \/ Crash

Spec == Init /\ [][Next]_vars
=============================================================================
