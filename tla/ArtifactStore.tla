--------------------------- MODULE ArtifactStore ----------------------------
(***************************************************************************)
(* artifacts/store.py: the immutable artifact store.  raw/ holds payloads  *)
(* named by content, artifacts.jsonl is an append-only ledger of one JSON  *)
(* line per registered version.  A put is a sequence of file operations    *)
(* with no lock around it, so the model has one action per operation, any  *)
(* number of writers (CLI processes), and a failure (a kill, an OSError)   *)
(* between or inside any two of them.                                      *)
(*                                                                         *)
(* Abstractions: a payload is a model value that stands for its SHA-256; a *)
(* key is the whole dedupe key; the ZIP member table, the URLs and the     *)
(* dates of an entry are left out.  Failures are those of a process, not   *)
(* of the machine: what a completed system call wrote stays written.       *)
(***************************************************************************)
EXTENDS Naturals, Sequences

CONSTANTS Writers,     \* processes that call put / put_blob
          Keys,        \* dedupe keys: (period, provider, source family)
          KeysOf,      \* KeysOf[w]: the keys that process w puts
          Payloads,    \* payload bytes
          SuffixOf,    \* SuffixOf[k]: raw_suffix the callers of key k pass
          None,        \* "no source_id"
          MaxEntries   \* bound: a put of new bytes starts below this length

ASSUME NoneAssumption == None \notin Payloads
ASSUME SuffixAssumption == DOMAIN SuffixOf = Keys
ASSUME KeysOfAssumption == KeysOf \in [Writers -> SUBSET Keys]

VARIABLES
    ledger,   \* the entries of artifacts.jsonl, oldest first
    tail,     \* how the file ends: "newline", "bare" (a whole line without
              \* its newline) or "torn" (a line that does not parse)
    raw,      \* raw[n]: the file of that name, "absent", "partial" or "whole"
    pc,       \* next step of each writer's put
    req,      \* what each writer is putting
    prior,    \* index of the entry the writer read as latest, 0 when none
    result    \* what each writer's last finished put answered

vars == <<ledger, tail, raw, pc, req, prior, result>>

Entry == [key : Keys, payload : Payloads, supersedes : Payloads \cup {None}]
Request == [key : Keys, payload : Payloads]
NoRequest == [key |-> None, payload |-> None]
RawNames == Payloads \X {SuffixOf[k] : k \in Keys}

\* raw_path: the name depends on the bytes and the suffix, not on the key
RawName(e) == <<e.payload, SuffixOf[e.key]>>

\* Mutant: the first match, as get() returns it, instead of the last.
FirstOfKey(i, k) ==
    /\ i \in 0..Len(ledger)
    /\ i # 0 => ledger[i].key = k
    /\ \A j \in 1..Len(ledger) : (i = 0 \/ j < i) => ledger[j].key # k

\* latest_for_period: the last matching entry of the file
IsLatest(i, k) ==
    /\ i \in 0..Len(ledger)
    /\ i # 0 => ledger[i].key = k
    /\ \A j \in (i + 1)..Len(ledger) : ledger[j].key # k

SourceId(i) == IF i = 0 THEN None ELSE ledger[i].payload

Init ==
    /\ ledger = <<>>
    /\ tail = "newline"
    /\ raw = [n \in RawNames |-> "absent"]
    /\ pc = [w \in Writers |-> "idle"]
    /\ req = [w \in Writers |-> NoRequest]
    /\ prior = [w \in Writers |-> 0]
    /\ result = [w \in Writers |-> "none"]

(***************************************************************************)
(* put, put_blob -> _append: load the ledger, compare with the latest.     *)
(***************************************************************************)
\* json.loads raises on the torn line: no caller gets past load()
PutUnreadable(w) ==
    /\ pc[w] = "idle"
    /\ tail = "torn"
    /\ result' = [result EXCEPT ![w] = "raised"]
    /\ UNCHANGED <<ledger, tail, raw, pc, req, prior>>

PutSame(w, k, p) ==
    /\ pc[w] = "idle"
    /\ tail # "torn"
    /\ \E i \in 1..Len(ledger) : IsLatest(i, k) /\ ledger[i].payload = p
    /\ req' = [req EXCEPT ![w] = [key |-> k, payload |-> p]]
    /\ result' = [result EXCEPT ![w] = "same"]
    /\ UNCHANGED <<ledger, tail, raw, pc, prior>>

\* Mutant: the digest is not compared with the latest entry's.
PutBeginNoDedupe(w, k, p) ==
    /\ pc[w] = "idle"
    /\ tail # "torn"
    /\ Len(ledger) < MaxEntries
    /\ \E i \in 0..Len(ledger) : IsLatest(i, k) /\ prior' = [prior EXCEPT ![w] = i]
    /\ req' = [req EXCEPT ![w] = [key |-> k, payload |-> p]]
    /\ pc' = [pc EXCEPT ![w] = "store"]
    /\ result' = [result EXCEPT ![w] = "none"]
    /\ UNCHANGED <<ledger, tail, raw>>

PutBegin(w, k, p) ==
    /\ pc[w] = "idle"
    /\ tail # "torn"
    /\ Len(ledger) < MaxEntries
    /\ \E i \in 0..Len(ledger) :
         /\ IsLatest(i, k)
         /\ SourceId(i) # p
         /\ prior' = [prior EXCEPT ![w] = i]
    /\ req' = [req EXCEPT ![w] = [key |-> k, payload |-> p]]
    /\ pc' = [pc EXCEPT ![w] = "store"]
    /\ result' = [result EXCEPT ![w] = "none"]
    /\ UNCHANGED <<ledger, tail, raw>>

(***************************************************************************)
(* _store_raw: skip an existing name, else temporary file, then replace.   *)
(***************************************************************************)
SkipExistingRaw(w) ==
    /\ pc[w] = "store"
    /\ raw[RawName(req[w])] # "absent"
    /\ pc' = [pc EXCEPT ![w] = "append"]
    /\ UNCHANGED <<ledger, tail, raw, req, prior, result>>

\* Mutant: the bytes are written in place, under the final name.
WriteInPlace(w) ==
    /\ pc[w] = "store"
    /\ raw[RawName(req[w])] = "absent"
    /\ raw' = [raw EXCEPT ![RawName(req[w])] = "partial"]
    /\ pc' = [pc EXCEPT ![w] = "replace"]
    /\ UNCHANGED <<ledger, tail, req, prior, result>>

\* the .part file has a name of its own: raw/<sha><suffix> is not touched
WriteTemp(w) ==
    /\ pc[w] = "store"
    /\ raw[RawName(req[w])] = "absent"
    /\ pc' = [pc EXCEPT ![w] = "replace"]
    /\ UNCHANGED <<ledger, tail, raw, req, prior, result>>

\* Mutant: the .part file is named after the digest, so that two writers
\* share it and one moves what the other has only begun to write.
ReplaceSharedTemp(w) ==
    /\ pc[w] = "replace"
    /\ raw' = [raw EXCEPT ![RawName(req[w])] =
         IF \E v \in Writers \ {w} : pc[v] = "replace" /\ RawName(req[v]) = RawName(req[w])
         THEN "partial" ELSE "whole"]
    /\ pc' = [pc EXCEPT ![w] = "append"]
    /\ UNCHANGED <<ledger, tail, req, prior, result>>

ReplaceRaw(w) ==
    /\ pc[w] = "replace"
    /\ raw' = [raw EXCEPT ![RawName(req[w])] = "whole"]
    /\ pc' = [pc EXCEPT ![w] = "append"]
    /\ UNCHANGED <<ledger, tail, req, prior, result>>

(***************************************************************************)
(* The ledger append: open("a"), write(line + "\n"), close.                *)
(***************************************************************************)
NewEntry(w) == [key |-> req[w].key, payload |-> req[w].payload,
                supersedes |-> SourceId(prior[w])]

Finish(w, answer) ==
    /\ pc' = [pc EXCEPT ![w] = "idle"]
    /\ result' = [result EXCEPT ![w] = answer]
    /\ UNCHANGED <<raw, req, prior>>

\* Mutant: the ledger is rewritten from what the writer had read of it, up
\* to the version it supersedes, instead of appended to.
RewriteLedger(w) ==
    /\ pc[w] = "append"
    /\ tail = "newline"
    /\ LET read == IF prior[w] <= Len(ledger) THEN prior[w] ELSE Len(ledger)
       IN  ledger' = Append(SubSeq(ledger, 1, read), NewEntry(w))
    /\ UNCHANGED tail
    /\ Finish(w, "new")

AppendLine(w) ==
    /\ pc[w] = "append"
    /\ tail = "newline"
    /\ ledger' = Append(ledger, NewEntry(w))
    /\ UNCHANGED tail
    /\ Finish(w, "new")

\* the write stops just before the newline: the line still parses
AppendWithoutNewline(w) ==
    /\ pc[w] = "append"
    /\ tail = "newline"
    /\ ledger' = Append(ledger, NewEntry(w))
    /\ tail' = "bare"
    /\ Finish(w, "raised")

\* the write stops inside the line: what it leaves does not parse
AppendTornLine(w) ==
    /\ pc[w] = "append"
    /\ tail' = "torn"
    /\ UNCHANGED ledger
    /\ Finish(w, "raised")

\* a line appended to a bare one joins it: two objects on one line do not
\* parse, and the writer is told that its put succeeded
AppendToBareLine(w) ==
    /\ pc[w] = "append"
    /\ tail # "newline"
    /\ tail' = "torn"
    /\ UNCHANGED ledger
    /\ Finish(w, "new")

(***************************************************************************)
(* The process is killed or an OSError escapes before the ledger is        *)
(* opened; a temporary file left behind has no reader.                     *)
(***************************************************************************)
Fail(w) ==
    /\ pc[w] # "idle"
    /\ UNCHANGED <<ledger, tail>>
    /\ Finish(w, "raised")

Next == \E w \in Writers :
    \/ PutUnreadable(w)
    \/ \E k \in KeysOf[w], p \in Payloads : PutSame(w, k, p) \/ PutBegin(w, k, p)
    \/ SkipExistingRaw(w)
    \/ WriteTemp(w)
    \/ ReplaceRaw(w)
    \/ AppendLine(w)
    \/ AppendWithoutNewline(w)
    \/ AppendTornLine(w)
    \/ AppendToBareLine(w)
    \/ Fail(w)

Spec == Init /\ [][Next]_vars

-----------------------------------------------------------------------------
(***************************************************************************)
(* Properties                                                              *)
(***************************************************************************)
\* Every variable keeps its shape.
TypeOK ==
    /\ ledger \in Seq(Entry)
    /\ tail \in {"newline", "bare", "torn"}
    /\ raw \in [RawNames -> {"absent", "partial", "whole"}]
    /\ pc \in [Writers -> {"idle", "store", "replace", "append"}]
    /\ req \in [Writers -> Request \cup {NoRequest}]
    /\ \A w \in Writers : pc[w] # "idle" => req[w] \in Request
    /\ prior \in [Writers -> Nat]
    /\ result \in [Writers -> {"none", "raised", "same", "new"}]

\* Every ledger entry's payload is on disk and whole, whatever the
\* interleaving of writers and wherever one of them dies: _store_raw comes
\* before the ledger line, and an existing raw file can be trusted because
\* only os.replace creates one.
LedgerBacked ==
    \A i \in 1..Len(ledger) : raw[RawName(ledger[i])] = "whole"

\* A put that answered (as new bytes or as the bytes already registered)
\* answered for its own key and bytes: while the ledger is readable it holds
\* such an entry, with its payload.
AnswerRegistered ==
    \A w \in Writers :
        (pc[w] = "idle" /\ result[w] \in {"same", "new"} /\ tail # "torn") =>
            \E i \in 1..Len(ledger) :
                /\ ledger[i].key = req[w].key
                /\ ledger[i].payload = req[w].payload
                /\ raw[RawName(ledger[i])] = "whole"

\* `supersedes` never dangles and never points forward, whatever two writers
\* do between each other's load() and append: it is empty, or names an
\* earlier entry of the same key (not always the latest: the chain may fork).
SupersedesEarlier ==
    \A i \in 1..Len(ledger) :
        ledger[i].supersedes # None =>
            \E j \in 1..(i - 1) :
                /\ ledger[j].key = ledger[i].key
                /\ ledger[j].payload = ledger[i].supersedes

\* j is the version of the same key just before i, 0 when i is the first
Precedes(j, i) ==
    /\ j \in 0..(i - 1)
    /\ j # 0 => ledger[j].key = ledger[i].key
    /\ \A m \in (j + 1)..(i - 1) : ledger[m].key # ledger[i].key

\* One process at most puts versions of this key.
Alone(k) == \A v, w \in Writers : k \in KeysOf[v] \cap KeysOf[w] => v = w

\* The versions of a key that one process puts form one chain, whatever others
\* append meanwhile to the same file and store under the same names: each entry
\* supersedes the version just before it and differs from it.
VersionChain ==
    \A i \in 1..Len(ledger) : Alone(ledger[i].key) =>
        \E j \in 0..(i - 1) :
            /\ Precedes(j, i)
            /\ ledger[i].supersedes = SourceId(j)
            /\ ledger[i].payload # ledger[i].supersedes

(***************************************************************************)
(* The entries of the keys that one process puts implement VersionHistory. *)
(***************************************************************************)
LatestPayload(k) == SourceId(CHOOSE i \in 0..Len(ledger) : IsLatest(i, k))

OwnKeys == {k \in Keys : Alone(k)}

History == INSTANCE VersionHistory WITH
    Keys <- OwnKeys,
    history <- {ledger[i] : i \in {n \in 1..Len(ledger) : ledger[n].key \in OwnKeys}},
    latest <- [k \in OwnKeys |-> LatestPayload(k)]

\* Every file operation of any writer, completed or broken off, either leaves
\* the versions of these keys as they are or publishes exactly one.
ImplementsVersionHistory == History!Spec
=============================================================================
