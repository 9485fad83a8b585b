--------------------------- MODULE PeriodDataset ----------------------------
(***************************************************************************)
(* From a published ZIP to the canonical tables of its period: ingest.py   *)
(* (update_period, export_artifact, backfill_periods), storage.py          *)
(* (write_period) and the period part of verify.py.                        *)
(*                                                                         *)
(* One operator runs one command at a time; CNMV may publish or republish  *)
(* a period's ZIP at any moment; the command may die between two steps, or *)
(* in the middle of writing a file; a stored raw ZIP may be removed by     *)
(* hand.  The artifact ledger is VersionHistory, which ArtifactStore       *)
(* implements for the keys that one process puts.                          *)
(*                                                                         *)
(* Abstractions: an artifact is a model value for the bytes of a ZIP; the  *)
(* tables of one member family (positions and quality for FONDCART, funds, *)
(* compartments and share_classes for FONDREGISTRO, ...) are one file      *)
(* whose content is the artifact its rows were parsed from; a fingerprint  *)
(* is recorded or not, since its value follows from the manifest's source. *)
(***************************************************************************)
EXTENDS Naturals, Sequences

CONSTANTS Periods,       \* the periods of a backfill, as a sequence
          Artifacts,     \* ZIP contents
          Members,       \* Members[a]: the families that have a member in a
          Rows,          \* Rows[a]: those among them that parse to some row
          Storable,      \* artifacts whose members zipfile can decompress
          Parseable,     \* artifacts that pass the schema gate and parse
          Legacy,        \* artifacts an early release exported FONDCART of
          None, Torn,
          MaxCrashes,    \* bound: crashes of a command
          MaxLosses,     \* bound: raw files removed by hand
          TornFiles      \* whether a crash may leave a half-written file

Families == {"FONDCART", "FONDREGISTRO", "FONDMENS", "FONDTRIM",
             "FONDPATRIMDISVAR", "FONDDERI"}

\* the order of the sections of write_period
WriteOrder == <<"FONDCART", "FONDREGISTRO", "FONDMENS", "FONDTRIM",
                "FONDPATRIMDISVAR", "FONDDERI">>

Period == {Periods[n] : n \in 1..Len(Periods)}

\* period_range: every month of the range once
ASSUME PeriodsAssumption ==
    /\ Periods \in Seq(Period) /\ Periods # <<>>
    /\ \A m, n \in 1..Len(Periods) : Periods[m] = Periods[n] => m = n
ASSUME ArtifactsAssumption ==
    /\ None \notin Artifacts /\ Torn \notin Artifacts /\ Torn # None
    /\ \A a \in Artifacts, F \in SUBSET Families :
           [src |-> a, fps |-> F] \notin {None, Torn}
    /\ Members \in [Artifacts -> SUBSET Families]
    /\ Rows \in [Artifacts -> SUBSET Families]
    /\ \A a \in Artifacts : Rows[a] \subseteq Members[a]
    /\ Storable \subseteq Artifacts
    /\ Parseable \subseteq {a \in Storable : Members[a] \ {"FONDDERI"} # {}}
    /\ Legacy \subseteq Parseable
ASSUME BoundsAssumption ==
    /\ MaxCrashes \in Nat /\ MaxLosses \in Nat /\ TornFiles \in BOOLEAN

VARIABLES
    site,      \* site[p]: what the CNMV index links for p, None when nothing
    history,   \* the artifact ledger: every version of every period
    latest,    \* latest_for_period
    raw,       \* artifacts whose ZIP is in raw/
    manifest,  \* manifests/<period>.json: None, Torn or [src, fps]
    tables,    \* tables[p][f]: the artifact family f's rows come from
    cmd,       \* the running command: its kind, step, period and artifact
    answer,    \* answer[p]: what the last command on p reported about it
    crashes, losses

store == <<history, latest>>
dataset == <<manifest, tables>>
bounds == <<crashes, losses>>
vars == <<site, history, latest, raw, manifest, tables, cmd, answer, crashes, losses>>

Store == INSTANCE VersionHistory WITH Keys <- Period, Payloads <- Artifacts

Readable(p) == manifest[p] \notin {None, Torn}
Recorded(p) == IF Readable(p) THEN manifest[p].fps ELSE {}

\* what write_period records: dataset_fingerprint always, the others when
\* the member is there
Fingerprints(a) == {"FONDCART"} \cup Members[a]

Idle == [kind |-> "none", step |-> "idle", at |-> 0, art |-> None, new |-> FALSE]
Current == Periods[cmd.at]

Init ==
    /\ site \in [Period -> Artifacts \cup {None}]
    /\ \E old \in [Period -> Legacy \cup {None}] :
        /\ history = {[key |-> p, payload |-> old[p], supersedes |-> None] :
                         p \in {q \in Period : old[q] # None}}
        /\ latest = old
        /\ raw = {old[p] : p \in Period} \ {None}
        /\ manifest = [p \in Period |->
               IF old[p] = None THEN None ELSE [src |-> old[p], fps |-> {"FONDCART"}]]
        /\ tables = [p \in Period |-> [f \in Families |->
               IF old[p] # None /\ f = "FONDCART" /\ f \in Rows[old[p]]
               THEN old[p] ELSE None]]
    /\ cmd = Idle
    /\ answer = [p \in Period |-> "none"]
    /\ crashes = 0 /\ losses = 0

(***************************************************************************)
(* The environment.                                                        *)
(***************************************************************************)
Republish(p, a) ==
    /\ site[p] # a
    /\ site' = [site EXCEPT ![p] = a]
    /\ UNCHANGED <<store, raw, dataset, cmd, answer, bounds>>

RemoveRaw(a) ==
    /\ losses < MaxLosses
    /\ a \in raw
    /\ raw' = raw \ {a}
    /\ losses' = losses + 1
    /\ UNCHANGED <<site, store, dataset, cmd, answer, crashes>>

(***************************************************************************)
(* How a command moves on.                                                 *)
(***************************************************************************)
\* the next period of a backfill, or the end of the command
Advance ==
    IF cmd.kind = "backfill" /\ cmd.at < Len(Periods)
    THEN [Idle EXCEPT !.kind = "backfill", !.step = "decide", !.at = cmd.at + 1]
    ELSE Idle

Report(status) ==
    /\ answer' = [answer EXCEPT ![Current] = status]
    /\ cmd' = Advance

\* an exception that is no CnmvIicError: the whole command ends
Abort ==
    /\ answer' = [answer EXCEPT ![Current] = "aborted"]
    /\ cmd' = Idle

StartUpdate(n) ==
    /\ cmd = Idle
    /\ cmd' = [Idle EXCEPT !.kind = "update", !.step = "download", !.at = n]
    /\ answer' = [answer EXCEPT ![Periods[n]] = "none"]
    /\ UNCHANGED <<site, store, raw, dataset, bounds>>

StartBackfill ==
    /\ cmd = Idle
    /\ cmd' = [Idle EXCEPT !.kind = "backfill", !.step = "decide", !.at = 1]
    /\ answer' = [p \in Period |-> "none"]
    /\ UNCHANGED <<site, store, raw, dataset, bounds>>

(***************************************************************************)
(* backfill_periods: what to do with one period.                           *)
(***************************************************************************)
\* the manifest is read outside the try
DecideUnreadable ==
    /\ cmd.step = "decide"
    /\ manifest[Current] = Torn
    /\ Abort
    /\ UNCHANGED <<site, store, raw, dataset, bounds>>

\* Mutant: a stored artifact is taken for a finished export.
DecideCompleteByArtifact ==
    /\ cmd.step = "decide"
    /\ latest[Current] # None
    /\ Report("complete")
    /\ UNCHANGED <<site, store, raw, dataset, bounds>>

DecideComplete ==
    /\ cmd.step = "decide"
    /\ latest[Current] # None
    /\ "FONDREGISTRO" \in Recorded(Current)
    /\ Report("complete")
    /\ UNCHANGED <<site, store, raw, dataset, bounds>>

\* Mutant: the first version of the period, as get() would find it.
DecideExportFirst ==
    /\ cmd.step = "decide"
    /\ manifest[Current] # Torn
    /\ "FONDREGISTRO" \notin Recorded(Current)
    /\ latest[Current] \in raw
    /\ \E v \in history :
         /\ v.key = Current /\ v.supersedes = None
         /\ cmd' = [cmd EXCEPT !.step = "export", !.art = v.payload, !.new = FALSE]
    /\ UNCHANGED <<site, store, raw, dataset, answer, bounds>>

DecideExport ==
    /\ cmd.step = "decide"
    /\ manifest[Current] # Torn
    /\ "FONDREGISTRO" \notin Recorded(Current)
    /\ latest[Current] \in raw
    /\ cmd' = [cmd EXCEPT !.step = "export", !.art = latest[Current], !.new = FALSE]
    /\ UNCHANGED <<site, store, raw, dataset, answer, bounds>>

DecideDownload ==
    /\ cmd.step = "decide"
    /\ manifest[Current] # Torn
    /\ latest[Current] = None \/ "FONDREGISTRO" \notin Recorded(Current)
    /\ latest[Current] \notin raw
    /\ cmd' = [cmd EXCEPT !.step = "download"]
    /\ UNCHANGED <<site, store, raw, dataset, answer, bounds>>

(***************************************************************************)
(* update_period: index, download, store.put.                              *)
(***************************************************************************)
\* no link for the period, or an index, network or ZIP validation failure:
\* validate_zip opens the ZIP and looks at its directory, not at its members
DownloadFails ==
    /\ cmd.step = "download"
    /\ Report("failed")
    /\ UNCHANGED <<site, store, raw, dataset, bounds>>

\* Mutant: the ZIP is exported without being registered.
PutUnregistered ==
    /\ cmd.step = "download"
    /\ site[Current] # None
    /\ latest[Current] # site[Current]
    /\ raw' = raw \cup {site[Current]}
    /\ cmd' = [cmd EXCEPT !.step = "export", !.art = site[Current], !.new = TRUE]
    /\ UNCHANGED <<site, store, dataset, answer, bounds>>

\* put hashes each member before it looks at the ledger: BadZipFile (a CRC)
\* or zlib.error is no CnmvIicError
PutUndecompressable ==
    /\ cmd.step = "download"
    /\ site[Current] \in Artifacts \ Storable
    /\ Abort
    /\ UNCHANGED <<site, store, raw, dataset, bounds>>

PutNewBytes ==
    /\ cmd.step = "download"
    /\ site[Current] \in Storable
    /\ Store!Publish(Current, site[Current])
    /\ raw' = raw \cup {site[Current]}
    /\ cmd' = [cmd EXCEPT !.step = "export", !.art = site[Current], !.new = TRUE]
    /\ UNCHANGED <<site, dataset, answer, bounds>>

\* the bytes already registered: the raw file is not looked at
PutSameBytes ==
    /\ cmd.step = "download"
    /\ site[Current] \in Storable
    /\ latest[Current] = site[Current]
    /\ cmd' = [cmd EXCEPT !.step = "export", !.art = site[Current], !.new = FALSE]
    /\ UNCHANGED <<site, store, raw, dataset, answer, bounds>>

(***************************************************************************)
(* export_artifact: skip, or parse every member and write.                 *)
(***************************************************************************)
ExportUnreadable ==
    /\ cmd.step = "export"
    /\ manifest[Current] = Torn
    /\ Abort
    /\ UNCHANGED <<site, store, raw, dataset, bounds>>

\* all six fingerprints are recorded: by whichever artifact
ExportComplete ==
    /\ cmd.step = "export"
    /\ ~cmd.new
    /\ Recorded(Current) = Families
    /\ Report("complete")
    /\ UNCHANGED <<site, store, raw, dataset, bounds>>

NeedsExport ==
    /\ cmd.step = "export"
    /\ manifest[Current] # Torn
    /\ cmd.new \/ Recorded(Current) # Families

\* zipfile.ZipFile raises FileNotFoundError
ParseMissingRaw ==
    /\ NeedsExport
    /\ cmd.art \notin raw
    /\ Abort
    /\ UNCHANGED <<site, store, raw, dataset, bounds>>

\* Mutant: the parse error ends the whole backfill.
ParseAborts ==
    /\ NeedsExport
    /\ cmd.art \in raw \ Parseable
    /\ Abort
    /\ UNCHANGED <<site, store, raw, dataset, bounds>>

\* unknown XSD fingerprint, element outside the schema, no known member
ParseFails ==
    /\ NeedsExport
    /\ cmd.art \in raw \ Parseable
    /\ Report("failed")
    /\ UNCHANGED <<site, store, raw, dataset, bounds>>

ParseSucceeds ==
    /\ NeedsExport
    /\ cmd.art \in raw \cap Parseable
    /\ cmd' = [cmd EXCEPT !.step = "FONDCART"]
    /\ UNCHANGED <<site, store, raw, dataset, answer, bounds>>

(***************************************************************************)
(* write_period: one table file after the other, the manifest last.        *)
(***************************************************************************)
\* Mutant: the manifest is written before the derivatives section.
StepAfterTooEarly(f) ==
    LET n == CHOOSE i \in 1..Len(WriteOrder) : WriteOrder[i] = f
    IN  IF n >= Len(WriteOrder) - 1 THEN "manifest" ELSE WriteOrder[n + 1]

StepAfter(f) ==
    LET n == CHOOSE i \in 1..Len(WriteOrder) : WriteOrder[i] = f
    IN  IF n = Len(WriteOrder) THEN "manifest" ELSE WriteOrder[n + 1]

\* FONDREGISTRO's tables are written whenever the member is there, the others
\* only when they have rows; a file that is not written is left as it is
Written(a) == Rows[a] \cup (Members[a] \cap {"FONDREGISTRO"})

\* Mutant: an existing partition is never replaced.
WriteFamilyOnce ==
    /\ cmd.step \in Families
    /\ tables' = IF cmd.step \in Written(cmd.art) /\ tables[Current][cmd.step] = None
                 THEN [tables EXCEPT ![Current][cmd.step] = cmd.art]
                 ELSE tables
    /\ cmd' = [cmd EXCEPT !.step = StepAfter(cmd.step)]
    /\ UNCHANGED <<site, store, raw, manifest, answer, bounds>>

WriteFamily ==
    /\ cmd.step \in Families
    /\ tables' = IF cmd.step \in Written(cmd.art)
                 THEN [tables EXCEPT ![Current][cmd.step] = cmd.art]
                 ELSE tables
    /\ cmd' = [cmd EXCEPT !.step = StepAfter(cmd.step)]
    /\ UNCHANGED <<site, store, raw, manifest, answer, bounds>>

WriteManifest ==
    /\ cmd.step = "manifest"
    /\ manifest' = [manifest EXCEPT ![Current] =
                       [src |-> cmd.art, fps |-> Fingerprints(cmd.art)]]
    /\ Report(IF cmd.new THEN "downloaded" ELSE "exported")
    /\ UNCHANGED <<site, store, raw, tables, bounds>>

(***************************************************************************)
(* The command dies: between two steps, or while it writes a file.         *)
(***************************************************************************)
Crash ==
    /\ cmd # Idle
    /\ crashes < MaxCrashes
    /\ crashes' = crashes + 1
    /\ cmd' = Idle
    /\ UNCHANGED <<site, store, raw, answer, losses>>
    /\ \/ UNCHANGED dataset
       \/ /\ TornFiles
          /\ cmd.step \in Families
          /\ cmd.step \in Written(cmd.art)
          /\ tables' = [tables EXCEPT ![Current][cmd.step] = Torn]
          /\ UNCHANGED manifest
       \/ /\ TornFiles
          /\ cmd.step = "manifest"
          /\ manifest' = [manifest EXCEPT ![Current] = Torn]
          /\ UNCHANGED tables

Operator ==
    \/ DecideUnreadable \/ DecideComplete \/ DecideExport \/ DecideDownload
    \/ DownloadFails \/ PutUndecompressable \/ PutNewBytes \/ PutSameBytes
    \/ ExportUnreadable \/ ExportComplete
    \/ ParseMissingRaw \/ ParseFails \/ ParseSucceeds
    \/ WriteFamily \/ WriteManifest

Next ==
    \/ \E p \in Period, a \in Artifacts : Republish(p, a)
    \/ \E a \in Artifacts : RemoveRaw(a)
    \/ \E n \in 1..Len(Periods) : StartUpdate(n)
    \/ StartBackfill
    \/ Operator
    \/ Crash

Spec == Init /\ [][Next]_vars

\* A command runs to its end unless it dies; the operator backfills again and
\* again; a period's download that is tried for ever is answered at last.
FairSpec ==
    /\ Spec
    /\ WF_vars(Operator)
    /\ SF_vars(StartBackfill)
    /\ \A n \in 1..Len(Periods) : SF_vars(cmd.at = n /\ (PutNewBytes \/ PutSameBytes))

-----------------------------------------------------------------------------
(***************************************************************************)
(* verify_dataset, one period: reads, never writes.                        *)
(***************************************************************************)
\* Mutant: the registry too is only compared with the re-parsed artifact.
NoRegistryCheck(p) == TRUE

\* the identity tables are the only ones read back from the dataset
RegistryCheck(p) ==
    "FONDREGISTRO" \in manifest[p].fps => tables[p]["FONDREGISTRO"] = manifest[p].src

InLedger(a) == \E v \in history : v.payload = a

Verdict(p) ==
    LET a == manifest[p].src
    IN  CASE ~InLedger(a)             -> "MISSING_SOURCE_ARTIFACT"
          [] InLedger(a) /\ a \notin raw \cap Parseable -> "LOCAL_DERIVATION_MISMATCH"
          [] InLedger(a) /\ a \in raw \cap Parseable /\ latest[p] # a
                                      -> "SOURCE_REVISION_DETECTED"
          [] OTHER                    -> "SAME_SOURCE_SET_SAME_DATASET"

\* verify has no problem to report about the period
VerifyOk(p) ==
    /\ Readable(p)
    /\ RegistryCheck(p)
    /\ Verdict(p) = "SAME_SOURCE_SET_SAME_DATASET"

-----------------------------------------------------------------------------
(***************************************************************************)
(* Properties                                                              *)
(***************************************************************************)
\* No row without a registered source: what a table or a manifest holds was
\* published for that very period and is in the ledger, whenever a command
\* dies (store.put comes before any write of the dataset).
RowsTraceable ==
    \A p \in Period : \A a \in Artifacts :
        (\/ Readable(p) /\ manifest[p].src = a
         \/ \E f \in Families : tables[p][f] = a)
        => \E v \in history : v.key = p /\ v.payload = a

\* "downloaded" and "exported" are honest: the manifest and every table the
\* artifact has rows for come from the latest version of the period.
FreshExport ==
    \A p \in Period : answer[p] \in {"downloaded", "exported"} =>
        /\ Readable(p)
        /\ manifest[p].src = latest[p]
        /\ \A f \in Rows[latest[p]] : tables[p][f] = latest[p]

\* What verify passes is the dataset of the latest version, table by table,
\* with one blind spot: an export at work, or one that died, may have left
\* other rows in the tables that verify does not read back, never in those of
\* the registry, which identity queries trust.
Writing(p) == cmd.step \in Families \cup {"manifest"} /\ Current = p

VerifiedDataset ==
    \A p \in Period : VerifyOk(p) =>
        \A f \in Written(latest[p]) \cap manifest[p].fps :
            \/ tables[p][f] = latest[p]
            \/ f # "FONDREGISTRO" /\ (Writing(p) \/ crashes > 0)

\* The manifest is the last write of an export: no step makes a manifest name
\* an artifact before every table that artifact has rows for is written.
ManifestLast ==
    [][\A p \in Period :
        (manifest'[p] # manifest[p] /\ manifest'[p] # Torn) =>
            \A f \in Rows[manifest'[p].src] : tables'[p][f] = manifest'[p].src]_vars

\* No step writes rows of a superseded version over the dataset.
WritesLatest ==
    [][\A p \in Period, f \in Families :
        (tables'[p][f] # tables[p][f] /\ tables'[p][f] # Torn) =>
            tables'[p][f] = latest[p]]_vars

\* What a report of a backfill says of a period
Reported == {"complete", "downloaded", "exported", "failed"}

\* What ends a backfill at the period it has come to
Blocked ==
    \/ manifest[Current] = Torn
    \/ cmd.step = "download" /\ site[Current] \in Artifacts \ Storable
    \/ cmd.step = "export" /\ cmd.art \notin raw

\* ingest.py:383, "Per-period failures are isolated and reported, never
\* silent", as far as the code keeps it: a backfill that has not died passes over
\* every failure of a period (no link, no network, a ZIP refused, an unknown
\* schema) and reports it, and stops short of its range at three kinds of
\* period only, each earlier one reported: one whose manifest a dead command left
\* half-written, one whose published ZIP does not decompress, one whose stored
\* ZIP is gone.
BackfillStopsOnlyAt ==
    [][(cmd.kind = "backfill" /\ cmd' = Idle /\ crashes' = crashes) =>
        \/ \A p \in Period : answer'[p] \in Reported
        \/ Blocked /\ \A n \in 1..(cmd.at - 1) : answer'[Periods[n]] \in Reported]_vars

\* The artifacts an export of which records the registry
Good == {a \in Parseable : "FONDREGISTRO" \in Members[a]}

\* ingest.py:378, "resumable": a period CNMV publishes, and publishes in a
\* form that parses, gets its registry tables however often a command died,
\* unless some period keeps a ZIP that does not decompress and ends every
\* backfill before it.
BackfillResumes ==
    \A p \in Period :
        (/\ [](site[p] \in Good \cup {None})
         /\ <>[](site[p] # None)
         /\ <>[](\A q \in Period : site[q] \in Storable \cup {None})) =>
            <>("FONDREGISTRO" \in Recorded(p))

\* docs/architecture/temporal-semantics.md:24-26, "canonical queries default
\* to latest artifact version": after a command that reported success the
\* dataset of the period is that of its latest version.
CanonicalIsLatest ==
    \A p \in Period :
        answer[p] \in {"downloaded", "exported", "complete"} =>
            Readable(p) /\ manifest[p].src = latest[p]
=============================================================================
