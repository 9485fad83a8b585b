--------------------------- MODULE VersionHistory ---------------------------
(***************************************************************************)
(* What the artifact ledger promises to its callers, with no files, no     *)
(* process steps and no failures: every dedupe key (period, provider,      *)
(* source family) has a chain of payload versions.  A publication extends  *)
(* the chain of one key by a payload that differs from the key's latest    *)
(* one, and records which payload it supersedes.  Nothing is ever          *)
(* withdrawn or rewritten.                                                 *)
(***************************************************************************)
CONSTANTS Keys,      \* dedupe keys: (period, provider, source family)
          Payloads,  \* payload bytes, identified by their SHA-256
          None       \* "no payload"

VARIABLES history,   \* every version ever published: [key, payload, supersedes]
          latest     \* latest[k]: the payload a reader of key k is given

Version == [key : Keys, payload : Payloads, supersedes : Payloads \cup {None}]

Init ==
    /\ history = {}
    /\ latest = [k \in Keys |-> None]

Publish(k, p) ==
    /\ latest[k] # p
    /\ history' = history \cup {[key |-> k, payload |-> p, supersedes |-> latest[k]]}
    /\ latest' = [latest EXCEPT ![k] = p]

Next == \E k \in Keys, p \in Payloads : Publish(k, p)

Spec == Init /\ [][Next]_<<history, latest>>
=============================================================================
