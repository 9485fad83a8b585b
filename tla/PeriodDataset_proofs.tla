------------------------ MODULE PeriodDataset_proofs ------------------------
(***************************************************************************)
(* What the export of a period leaves behind, for any periods, artifacts   *)
(* and number of crashes and removed files.  The argument: a command holds *)
(* the latest version of its period from store.put or the decision to      *)
(* export on, nobody else can make another one the latest meanwhile, and   *)
(* the sections of write_period come in one order, the manifest last.      *)
(***************************************************************************)
EXTENDS PeriodDataset, TLAPS

-----------------------------------------------------------------------------
(***************************************************************************)
(* The order of the sections                                               *)
(***************************************************************************)
\* Section n is the one at place n of the order, and is followed by the next.
LEMMA StepAfterIs ==
    /\ StepAfter("FONDCART") = "FONDREGISTRO"
    /\ StepAfter("FONDREGISTRO") = "FONDMENS"
    /\ StepAfter("FONDMENS") = "FONDTRIM"
    /\ StepAfter("FONDTRIM") = "FONDPATRIMDISVAR"
    /\ StepAfter("FONDPATRIMDISVAR") = "FONDDERI"
    /\ StepAfter("FONDDERI") = "manifest"
  <1> DEFINE At(f) == CHOOSE i \in 1..Len(WriteOrder) : WriteOrder[i] = f
  <1>1. Len(WriteOrder) = 6
    BY DEF WriteOrder
  <1>2. \A i \in 1..6 : WriteOrder[i] =
          IF i = 1 THEN "FONDCART" ELSE IF i = 2 THEN "FONDREGISTRO"
          ELSE IF i = 3 THEN "FONDMENS" ELSE IF i = 4 THEN "FONDTRIM"
          ELSE IF i = 5 THEN "FONDPATRIMDISVAR" ELSE "FONDDERI"
    BY DEF WriteOrder
  <1>3. \A i \in 1..6 : At(WriteOrder[i]) = i
    <2> TAKE i \in 1..6
    <2>1. At(WriteOrder[i]) \in 1..6 /\ WriteOrder[At(WriteOrder[i])] = WriteOrder[i]
      BY <1>1
    <2> HIDE DEF At
    <2> QED  BY <1>2, <2>1
  <1>4. \A f : StepAfter(f) = IF At(f) = 6 THEN "manifest" ELSE WriteOrder[At(f) + 1]
    BY <1>1 DEF StepAfter
  <1> HIDE DEF At
  <1>5. /\ WriteOrder[1] = "FONDCART" /\ WriteOrder[2] = "FONDREGISTRO"
        /\ WriteOrder[3] = "FONDMENS" /\ WriteOrder[4] = "FONDTRIM"
        /\ WriteOrder[5] = "FONDPATRIMDISVAR" /\ WriteOrder[6] = "FONDDERI"
    BY <1>2
  <1>6. /\ At("FONDCART") = 1 /\ At("FONDREGISTRO") = 2 /\ At("FONDMENS") = 3
        /\ At("FONDTRIM") = 4 /\ At("FONDPATRIMDISVAR") = 5 /\ At("FONDDERI") = 6
    BY <1>3, <1>5
  <1> QED  BY <1>4, <1>5, <1>6

\* The families whose sections come before step s
Done(f, s) ==
    CASE s = "FONDCART" -> FALSE
      [] s = "FONDREGISTRO" -> f = "FONDCART"
      [] s = "FONDMENS" -> f \in {"FONDCART", "FONDREGISTRO"}
      [] s = "FONDTRIM" -> f \in {"FONDCART", "FONDREGISTRO", "FONDMENS"}
      [] s = "FONDPATRIMDISVAR" ->
            f \in {"FONDCART", "FONDREGISTRO", "FONDMENS", "FONDTRIM"}
      [] s = "FONDDERI" -> f \in Families \ {"FONDDERI"}
      [] OTHER -> s = "manifest"

\* One section at a time, and all of them before the manifest.
LEMMA SectionsInOrder ==
    /\ \A f \in Families :
          /\ StepAfter(f) \in Families \cup {"manifest"}
          /\ \A g \in Families : Done(g, StepAfter(f)) => Done(g, f) \/ g = f
    /\ \A g \in Families : ~Done(g, "FONDCART") /\ Done(g, "manifest")
  BY StepAfterIs DEF Done, Families

-----------------------------------------------------------------------------
(***************************************************************************)
(* The invariant                                                           *)
(***************************************************************************)
Statuses == {"none", "complete", "downloaded", "exported", "failed", "aborted"}
Steps == {"idle", "decide", "download", "export", "manifest"} \cup Families
Manifest == [src : Artifacts, fps : SUBSET Families]
Command == [kind : {"none", "update", "backfill"}, step : Steps, at : 0..Len(Periods),
            art : Artifacts \cup {None}, new : BOOLEAN]

TypeInv ==
    /\ site \in [Period -> Artifacts \cup {None}]
    /\ latest \in [Period -> Artifacts \cup {None}]
    /\ raw \subseteq Artifacts
    /\ manifest \in [Period -> Manifest \cup {None, Torn}]
    /\ tables \in [Period -> [Families -> Artifacts \cup {None, Torn}]]
    /\ answer \in [Period -> Statuses]
    /\ cmd \in Command
    /\ cmd.step # "idle" => cmd.at \in 1..Len(Periods)

Published(p, a) == \E v \in history : v.key = p /\ v.payload = a

LatestPublished == \A p \in Period : latest[p] # None => Published(p, latest[p])

\* The command holds the latest version of its period, and the sections before
\* the one it is at are written.
ExportInv ==
    /\ cmd.step \in {"export", "manifest"} \cup Families =>
          cmd.art \in Artifacts /\ cmd.art = latest[Current]
    /\ cmd.step \in Families \cup {"manifest"} =>
          \A f \in Families : Done(f, cmd.step) /\ f \in Written(cmd.art) =>
              tables[Current][f] = cmd.art

\* Where no command has died, a manifest stands for every table of its artifact,
\* but for those of the period that is being written.
WholeInv ==
    /\ crashes \in Nat
    /\ crashes = 0 =>
          \A p \in Period : Readable(p) /\ ~Writing(p) =>
              \A f \in Families : f \in Written(manifest[p].src) \cap manifest[p].fps =>
                  tables[p][f] = manifest[p].src

\* A command has reported nothing yet of the periods ahead of it.
Ahead(c, n) == n = c.at \/ (c.kind = "backfill" /\ n > c.at)
AheadInv ==
    cmd.step # "idle" =>
        \A n \in 1..Len(Periods) : Ahead(cmd, n) => answer[Periods[n]] = "none"

Inv ==
    /\ TypeInv /\ LatestPublished /\ RowsTraceable
    /\ ExportInv /\ AheadInv /\ FreshExport /\ WholeInv

-----------------------------------------------------------------------------
(***************************************************************************)
(* Types                                                                   *)
(***************************************************************************)
\* A command is at a period of its range, and the periods are distinct.
LEMMA CurrentIs ==
    TypeInv /\ cmd.step # "idle" =>
        /\ cmd.at \in 1..Len(Periods) /\ Current \in Period
        /\ \A n \in 1..Len(Periods) : Periods[n] \in Period /\ (Periods[n] = Current => n = cmd.at)
  BY PeriodsAssumption DEF TypeInv, Current, Period

\* The next period of a backfill is ahead, and so is what is ahead of it.
LEMMA AdvanceIs ==
    TypeInv /\ cmd.step # "idle" =>
        /\ Advance \in Command /\ Advance.step \in {"idle", "decide"}
        /\ Advance.step # "idle" => Advance.at \in 1..Len(Periods)
        /\ Advance.step # "idle" =>
              \A n \in 1..Len(Periods) : Ahead(Advance, n) => Ahead(cmd, n) /\ n # cmd.at
  <1> SUFFICES ASSUME TypeInv, cmd.step # "idle"
               PROVE  /\ Advance \in Command /\ Advance.step \in {"idle", "decide"}
                      /\ Advance.step # "idle" => Advance.at \in 1..Len(Periods)
                      /\ Advance.step # "idle" =>
                            \A n \in 1..Len(Periods) :
                                Ahead(Advance, n) => Ahead(cmd, n) /\ n # cmd.at
    OBVIOUS
  <1>1. Len(Periods) \in Nat /\ cmd.at \in 1..Len(Periods)
    BY PeriodsAssumption DEF TypeInv
  <1>2. CASE cmd.kind = "backfill" /\ cmd.at < Len(Periods)
    <2>1. Advance = [kind |-> "backfill", step |-> "decide", at |-> cmd.at + 1,
                     art |-> None, new |-> FALSE]
      BY <1>2 DEF Advance, Idle
    <2>2. Advance \in Command
      BY <1>1, <1>2, <2>1 DEF Command, Steps
    <2> QED  BY <1>1, <1>2, <2>1, <2>2 DEF Ahead
  <1>3. CASE ~(cmd.kind = "backfill" /\ cmd.at < Len(Periods))
    BY <1>1, <1>3 DEF Advance, Idle, Command, Steps
  <1> QED  BY <1>2, <1>3

\* What a manifest or a fingerprint is of is an artifact.
LEMMA ManifestIs ==
    /\ \A a \in Artifacts : [src |-> a, fps |-> Fingerprints(a)] \in Manifest \ {None, Torn}
    /\ \A a \in Legacy : a \in Artifacts /\ [src |-> a, fps |-> {"FONDCART"}] \in Manifest
  BY ArtifactsAssumption DEF Manifest, Fingerprints, Families

LEMMA InitType == Init => TypeInv
  <1> SUFFICES ASSUME Init
               PROVE  TypeInv
    OBVIOUS
  <1>1. PICK old \in [Period -> Legacy \cup {None}] :
          /\ latest = old
          /\ raw = {old[p] : p \in Period} \ {None}
          /\ manifest = [p \in Period |->
               IF old[p] = None THEN None ELSE [src |-> old[p], fps |-> {"FONDCART"}]]
          /\ tables = [p \in Period |-> [f \in Families |->
               IF old[p] # None /\ f = "FONDCART" /\ f \in Rows[old[p]]
               THEN old[p] ELSE None]]
    BY DEF Init
  <1>2. Legacy \subseteq Artifacts
    BY ArtifactsAssumption
  <1>3. \A p \in Period : old[p] \in Artifacts \cup {None}
    BY <1>2
  <1>4. \A p \in Period : old[p] # None => [src |-> old[p], fps |-> {"FONDCART"}] \in Manifest
    BY ManifestIs
  <1>5. manifest \in [Period -> Manifest \cup {None, Torn}]
    BY <1>1, <1>4
  <1>6. tables \in [Period -> [Families -> Artifacts \cup {None, Torn}]]
    BY <1>1, <1>3
  <1>7. latest \in [Period -> Artifacts \cup {None}] /\ raw \subseteq Artifacts
    BY <1>1, <1>2, <1>3
  <1>8. answer \in [Period -> Statuses] /\ site \in [Period -> Artifacts \cup {None}]
    BY DEF Init, Statuses
  <1>9. cmd \in Command /\ cmd.step = "idle"
    BY PeriodsAssumption DEF Init, Idle, Command, Steps
  <1> QED  BY <1>5, <1>6, <1>7, <1>8, <1>9 DEF TypeInv

\* How a command may move: it stays at its period, goes on to the next one, or ends.
LEMMA CommandStays ==
    TypeInv /\ cmd.step # "idle" =>
        \A s \in Steps, a \in Artifacts \cup {None}, b \in BOOLEAN :
            [cmd EXCEPT !.step = s, !.art = a, !.new = b] \in Command
  BY DEF TypeInv, Command

LEMMA StepType == TypeInv /\ ExportInv /\ [Next]_vars => TypeInv'
  <1> SUFFICES ASSUME TypeInv, ExportInv, [Next]_vars
               PROVE  TypeInv'
    OBVIOUS
  <1> USE DEF store, dataset, bounds
  <1>1. Len(Periods) \in Nat /\ 1 <= Len(Periods)
    BY PeriodsAssumption
  <1>2. ASSUME NEW s \in Statuses, cmd.step # "idle", Report(s)
        PROVE  /\ answer' \in [Period -> Statuses] /\ cmd' \in Command
               /\ cmd'.step # "idle" => cmd'.at \in 1..Len(Periods)
    <2>1. answer' \in [Period -> Statuses]
      BY <1>2 DEF Report, TypeInv
    <2> QED  BY <1>2, <2>1, AdvanceIs DEF Report
  <1>3. ASSUME cmd.step # "idle", Abort
        PROVE  /\ answer' \in [Period -> Statuses] /\ cmd' \in Command
               /\ cmd'.step # "idle" => cmd'.at \in 1..Len(Periods)
    <2>1. answer' \in [Period -> Statuses]
      BY <1>3 DEF Abort, TypeInv, Statuses
    <2>2. Idle \in Command /\ Idle.step = "idle"
      BY <1>1 DEF Idle, Command, Steps
    <2> QED  BY <1>3, <2>1, <2>2 DEF Abort
  <1>4. ASSUME NEW p \in Period, NEW a \in Artifacts, Republish(p, a)
        PROVE  TypeInv'
    BY <1>4 DEF Republish, TypeInv
  <1>5. ASSUME NEW a \in Artifacts, RemoveRaw(a)
        PROVE  TypeInv'
    BY <1>5 DEF RemoveRaw, TypeInv
  <1>6. ASSUME NEW n \in 1..Len(Periods), StartUpdate(n)
        PROVE  TypeInv'
    <2>1. cmd' = [kind |-> "update", step |-> "download", at |-> n, art |-> None, new |-> FALSE]
      BY <1>6 DEF StartUpdate, Idle
    <2>2. cmd' \in Command /\ cmd'.at \in 1..Len(Periods)
      BY <1>1, <2>1 DEF Command, Steps
    <2>3. answer' \in [Period -> Statuses]
      BY <1>6 DEF StartUpdate, TypeInv, Statuses
    <2> QED  BY <1>6, <2>2, <2>3 DEF StartUpdate, TypeInv
  <1>7. CASE StartBackfill
    <2>1. cmd' = [kind |-> "backfill", step |-> "decide", at |-> 1, art |-> None, new |-> FALSE]
      BY <1>7 DEF StartBackfill, Idle
    <2>2. cmd' \in Command /\ cmd'.at \in 1..Len(Periods)
      BY <1>1, <2>1 DEF Command, Steps
    <2>3. answer' \in [Period -> Statuses]
      BY <1>7 DEF StartBackfill, Statuses
    <2> QED  BY <1>7, <2>2, <2>3 DEF StartBackfill, TypeInv
  <1>8. CASE DecideUnreadable \/ ExportUnreadable \/ ParseMissingRaw \/ PutUndecompressable
    <2>1. cmd.step # "idle" /\ Abort /\ UNCHANGED <<site, latest, raw, manifest, tables>>
      BY <1>8 DEF DecideUnreadable, ExportUnreadable, ParseMissingRaw, NeedsExport,
                  PutUndecompressable
    <2> QED  BY <1>3, <2>1 DEF TypeInv
  <1>9. CASE DecideComplete \/ DownloadFails \/ ExportComplete \/ ParseFails
    <2>1. /\ cmd.step # "idle" /\ \E s \in Statuses : Report(s)
          /\ UNCHANGED <<site, latest, raw, manifest, tables>>
      BY <1>9 DEF DecideComplete, DownloadFails, ExportComplete, ParseFails, NeedsExport, Statuses
    <2> QED  BY <1>2, <2>1 DEF TypeInv
  <1>10. CASE DecideExport \/ DecideDownload \/ PutSameBytes \/ ParseSucceeds
    <2>1. CASE DecideExport
      BY <2>1 DEF DecideExport, NeedsExport, TypeInv, Command, Steps, Current, Period
    <2>2. CASE DecideDownload
      BY <2>2 DEF DecideDownload, NeedsExport, TypeInv, Command, Steps, Current, Period
    <2>3. CASE PutSameBytes
      BY <2>3, ArtifactsAssumption DEF PutSameBytes, TypeInv, Command, Steps, Current, Period
    <2>4. CASE ParseSucceeds
      BY <2>4 DEF ParseSucceeds, NeedsExport, TypeInv, Command, Steps, Families
    <2> QED  BY <1>10, <2>1, <2>2, <2>3, <2>4
  <1>11. CASE PutNewBytes
    BY <1>11, ArtifactsAssumption
    DEF PutNewBytes, Store!Publish, TypeInv, Command, Steps, Current, Period
  <1>12. CASE WriteFamily
    <2>1. cmd' \in Command /\ cmd'.step # "idle" /\ cmd'.at = cmd.at
      BY <1>12, SectionsInOrder DEF WriteFamily, TypeInv, Command, Steps, Families
    <2>2. tables' \in [Period -> [Families -> Artifacts \cup {None, Torn}]]
      BY <1>12 DEF WriteFamily, TypeInv, Command
    <2>3. cmd.step # "idle"
      BY <1>12 DEF WriteFamily, Families
    <2> QED  BY <1>12, <2>1, <2>2, <2>3 DEF WriteFamily, TypeInv
  <1>13. CASE WriteManifest
    <2>1. manifest' \in [Period -> Manifest \cup {None, Torn}]
      BY <1>13, ManifestIs DEF WriteManifest, TypeInv, ExportInv
    <2>2. cmd.step # "idle" /\ \E s \in Statuses : Report(s)
      BY <1>13 DEF WriteManifest, Statuses
    <2> QED  BY <1>2, <1>13, <2>1, <2>2 DEF WriteManifest, TypeInv
  <1>14. CASE Crash
    <2>1. cmd' = Idle /\ UNCHANGED <<site, latest, raw, answer>>
      BY <1>14 DEF Crash
    <2>2. /\ manifest' \in [Period -> Manifest \cup {None, Torn}]
          /\ tables' \in [Period -> [Families -> Artifacts \cup {None, Torn}]]
      <3>1. /\ manifest \in [Period -> Manifest \cup {None, Torn}]
            /\ tables \in [Period -> [Families -> Artifacts \cup {None, Torn}]]
        BY DEF TypeInv
      <3>2. CASE manifest' = manifest /\ tables' = tables
        BY <3>1, <3>2
      <3>3. CASE /\ cmd.step \in Families
                 /\ tables' = [tables EXCEPT ![Current][cmd.step] = Torn]
                 /\ manifest' = manifest
        BY <3>1, <3>3
      <3>4. CASE manifest' = [manifest EXCEPT ![Current] = Torn] /\ tables' = tables
        BY <3>1, <3>4
      <3> QED  BY <1>14, <3>2, <3>3, <3>4 DEF Crash
    <2>3. Idle \in Command /\ Idle.step = "idle"
      BY <1>1 DEF Idle, Command, Steps
    <2> QED  BY <2>1, <2>2, <2>3 DEF TypeInv
  <1>15. CASE UNCHANGED vars
    BY <1>15 DEF vars, TypeInv
  <1> QED
    BY <1>4, <1>5, <1>6, <1>7, <1>8, <1>9, <1>10, <1>11, <1>12, <1>13, <1>14, <1>15
    DEF Next, Operator

-----------------------------------------------------------------------------
(***************************************************************************)
(* The kinds of steps                                                      *)
(***************************************************************************)
Outside == UNCHANGED <<history, latest, manifest, tables, cmd, answer>>

Starts ==
    /\ cmd.step = "idle"
    /\ UNCHANGED <<history, latest, manifest, tables>>
    /\ cmd'.step \in {"download", "decide"}
    /\ \/ cmd'.kind = "backfill" /\ cmd'.at = 1 /\ answer' = [p \in Period |-> "none"]
       \/ /\ cmd'.kind = "update"
          /\ answer' = [answer EXCEPT ![Periods[cmd'.at]] = "none"]

\* The running command goes on with its period.
Works ==
    /\ cmd.step # "idle" /\ cmd'.at = cmd.at /\ cmd'.kind = cmd.kind
    /\ UNCHANGED answer
    /\ \/ DecideExport \/ DecideDownload \/ PutNewBytes \/ PutSameBytes
       \/ ParseSucceeds \/ WriteFamily

\* It leaves its period without having written.
Leaves ==
    /\ cmd.step \in {"decide", "download", "export"}
    /\ UNCHANGED <<history, latest, manifest, tables>>
    /\ (Abort /\ Blocked) \/ Report("complete") \/ Report("failed")

\* Every step is of one of these kinds.
LEMMA KindsOfSteps ==
    TypeInv /\ [Next]_vars =>
        Outside \/ Starts \/ Works \/ Leaves \/ WriteManifest \/ Crash
  <1> SUFFICES ASSUME TypeInv, [Next]_vars
               PROVE  Outside \/ Starts \/ Works \/ Leaves \/ WriteManifest \/ Crash
    OBVIOUS
  <1> USE DEF store, dataset, bounds
  <1>1. ASSUME NEW p \in Period, NEW a \in Artifacts, Republish(p, a)
        PROVE  Outside
    BY <1>1 DEF Republish, Outside
  <1>2. ASSUME NEW a \in Artifacts, RemoveRaw(a)
        PROVE  Outside
    BY <1>2 DEF RemoveRaw, Outside
  <1>3. CASE UNCHANGED vars
    BY <1>3 DEF vars, Outside
  <1>4. ASSUME NEW n \in 1..Len(Periods), StartUpdate(n)
        PROVE  Starts
    BY <1>4 DEF StartUpdate, Starts, Idle
  <1>5. CASE StartBackfill
    BY <1>5 DEF StartBackfill, Starts, Idle
  <1>6. CASE DecideExport \/ DecideDownload \/ PutNewBytes \/ PutSameBytes \/ ParseSucceeds
    BY <1>6 DEF DecideExport, DecideDownload, PutNewBytes, PutSameBytes, ParseSucceeds,
                NeedsExport, Works, TypeInv, Command
  <1>7. CASE WriteFamily
    BY <1>7 DEF WriteFamily, Works, TypeInv, Command, Families
  <1>8. CASE DecideUnreadable \/ ExportUnreadable \/ ParseMissingRaw \/ PutUndecompressable
    BY <1>8 DEF DecideUnreadable, ExportUnreadable, ParseMissingRaw, NeedsExport,
                PutUndecompressable, Leaves, Blocked
  <1>9. CASE DecideComplete \/ DownloadFails \/ ExportComplete \/ ParseFails
    BY <1>9 DEF DecideComplete, DownloadFails, ExportComplete, ParseFails, NeedsExport, Leaves
  <1> QED  BY <1>1, <1>2, <1>3, <1>4, <1>5, <1>6, <1>7, <1>8, <1>9 DEF Next, Operator

-----------------------------------------------------------------------------
(***************************************************************************)
(* Rows and manifests are of registered artifacts                          *)
(***************************************************************************)
LEMMA InitTraceable == Init => LatestPublished /\ RowsTraceable
  <1> SUFFICES ASSUME Init
               PROVE  LatestPublished /\ RowsTraceable
    OBVIOUS
  <1>1. PICK old \in [Period -> Legacy \cup {None}] :
          /\ history = {[key |-> p, payload |-> old[p], supersedes |-> None] :
                           p \in {q \in Period : old[q] # None}}
          /\ latest = old
          /\ manifest = [p \in Period |->
               IF old[p] = None THEN None ELSE [src |-> old[p], fps |-> {"FONDCART"}]]
          /\ tables = [p \in Period |-> [f \in Families |->
               IF old[p] # None /\ f = "FONDCART" /\ f \in Rows[old[p]]
               THEN old[p] ELSE None]]
    BY DEF Init
  <1>2. \A p \in Period : old[p] # None => Published(p, old[p])
    <2> SUFFICES ASSUME NEW p \in Period, old[p] # None
                 PROVE  Published(p, old[p])
      OBVIOUS
    <2>1. [key |-> p, payload |-> old[p], supersedes |-> None] \in history
      BY <1>1
    <2> QED  BY <2>1 DEF Published
  <1>3. LatestPublished
    BY <1>1, <1>2 DEF LatestPublished
  <1>4. ASSUME NEW p \in Period, NEW a \in Artifacts,
               (Readable(p) /\ manifest[p].src = a) \/ (\E f \in Families : tables[p][f] = a)
        PROVE  old[p] = a /\ a # None
    BY <1>1, <1>4, ArtifactsAssumption DEF Readable
  <1> QED  BY <1>2, <1>3, <1>4 DEF RowsTraceable, Published

\* What was published stays published.
LEMMA StaysPublished ==
    Works => \A p, a : Published(p, a) => Published(p, a)'
  BY DEF Works, DecideExport, DecideDownload, PutNewBytes, PutSameBytes, ParseSucceeds,
         WriteFamily, Store!Publish, store, Published

LEMMA StepTraceable ==
    TypeInv /\ ExportInv /\ LatestPublished /\ RowsTraceable /\ [Next]_vars
        => LatestPublished' /\ RowsTraceable'
  <1> SUFFICES ASSUME TypeInv, ExportInv, LatestPublished, RowsTraceable, [Next]_vars
               PROVE  LatestPublished' /\ RowsTraceable'
    OBVIOUS
  <1> USE DEF store, dataset, bounds
  <1>1. CASE UNCHANGED <<history, latest, manifest, tables>>
    BY <1>1 DEF LatestPublished, RowsTraceable, Published, Readable
  <1>2. cmd.step \in {"manifest"} \cup Families =>
            Current \in Period /\ cmd.art \in Artifacts /\ Published(Current, cmd.art)
    BY CurrentIs, ArtifactsAssumption DEF ExportInv, LatestPublished, Families
  <1>3. CASE PutNewBytes
    <2>1. /\ latest' = [latest EXCEPT ![Current] = site[Current]]
          /\ history' = history \cup
                {[key |-> Current, payload |-> site[Current], supersedes |-> latest[Current]]}
          /\ UNCHANGED <<manifest, tables>>
      BY <1>3 DEF PutNewBytes, Store!Publish
    <2>2. \A p, a : Published(p, a) => Published(p, a)'
      BY <2>1 DEF Published
    <2>3. Published(Current, site[Current])'
      <3>1. [key |-> Current, payload |-> site[Current], supersedes |-> latest[Current]] \in history'
        BY <2>1
      <3>2. \E v \in history' : v.key = Current /\ v.payload = site[Current]
        BY <3>1
      <3>3. UNCHANGED site /\ Current' = Current
        BY <1>3 DEF PutNewBytes, Current, TypeInv, Command
      <3> QED  BY <3>2, <3>3 DEF Published
    <2>4. UNCHANGED site /\ Current' = Current
      BY <1>3 DEF PutNewBytes, Current, TypeInv, Command
    <2>5. LatestPublished'
      BY <2>1, <2>2, <2>3, <2>4 DEF LatestPublished, TypeInv
    <2>6. RowsTraceable'
      BY <2>1, <2>2 DEF RowsTraceable, Readable, Published
    <2> QED  BY <2>5, <2>6
  <1>4. CASE WriteFamily
    <2>1. /\ UNCHANGED <<history, latest, manifest>>
          /\ cmd.step \in Families
          /\ \A p \in Period, f \in Families :
                tables'[p][f] = tables[p][f] \/ (p = Current /\ tables'[p][f] = cmd.art)
      BY <1>4 DEF WriteFamily, TypeInv
    <2> QED  BY <1>2, <2>1 DEF LatestPublished, RowsTraceable, Published, Readable
  <1>5. CASE WriteManifest
    <2>1. /\ UNCHANGED <<history, latest, tables>>
          /\ cmd.step = "manifest"
          /\ \A p \in Period :
                \/ manifest'[p] = manifest[p]
                \/ p = Current /\ manifest'[p].src = cmd.art
      BY <1>5 DEF WriteManifest, TypeInv
    <2> QED  BY <1>2, <2>1 DEF LatestPublished, RowsTraceable, Published, Readable
  <1>6. CASE Crash
    <2>1. /\ UNCHANGED <<history, latest>>
          /\ \A p \in Period, f \in Families :
                tables'[p][f] = tables[p][f] \/ tables'[p][f] = Torn
          /\ \A p \in Period : manifest'[p] = manifest[p] \/ manifest'[p] = Torn
      <3>1. UNCHANGED <<history, latest>>
        BY <1>6 DEF Crash
      <3>2. \A p \in Period : manifest'[p] = manifest[p] \/ manifest'[p] = Torn
        BY <1>6 DEF Crash, TypeInv
      <3>3. tables' = tables \/ tables' = [tables EXCEPT ![Current][cmd.step] = Torn]
        BY <1>6 DEF Crash
      <3>4. \A p \in Period, f \in Families :
               tables'[p][f] = tables[p][f] \/ tables'[p][f] = Torn
        BY <3>3 DEF TypeInv
      <3> QED  BY <3>1, <3>2, <3>4
    <2> QED
      BY <2>1, ArtifactsAssumption DEF LatestPublished, RowsTraceable, Published, Readable
  <1>7. CASE Works
    BY <1>1, <1>3, <1>4, <1>7
    DEF Works, DecideExport, DecideDownload, PutSameBytes, ParseSucceeds
  <1> QED
    BY <1>1, <1>5, <1>6, <1>7, KindsOfSteps DEF Outside, Starts, Leaves

-----------------------------------------------------------------------------
(***************************************************************************)
(* The command and the sections it has written                             *)
(***************************************************************************)
LEMMA StepExport == TypeInv /\ ExportInv /\ [Next]_vars => ExportInv'
  <1> SUFFICES ASSUME TypeInv, ExportInv, [Next]_vars
               PROVE  ExportInv'
    OBVIOUS
  <1> USE DEF store, dataset, bounds
  <1>1. CASE Outside
    BY <1>1 DEF Outside, ExportInv, Current
  <1>2. ASSUME cmd'.step \in {"idle", "decide", "download"}
        PROVE  ExportInv'
    BY <1>2 DEF ExportInv, Families
  <1>3. CASE Starts
    BY <1>2, <1>3 DEF Starts
  <1>4. CASE Leaves \/ WriteManifest
    <2>1. cmd.step # "idle" /\ cmd' \in {Advance, Idle}
      BY <1>4 DEF Leaves, Report, Abort, WriteManifest
    <2> QED  BY <1>2, <2>1, AdvanceIs DEF Idle
  <1>5. CASE Crash
    BY <1>2, <1>5 DEF Crash, Idle
  <1>6. CASE Works /\ ~WriteFamily
    <2>1. cmd'.step \in {"download", "export", "FONDCART"} /\ Current' = Current
      BY <1>6 DEF Works, DecideExport, DecideDownload, PutNewBytes, PutSameBytes, ParseSucceeds,
                  TypeInv, Command, Current
    <2>2. Current \in Period
      BY <1>6, CurrentIs DEF Works
    <2>3. CASE ParseSucceeds
      <3>1. UNCHANGED latest /\ cmd'.art = cmd.art /\ cmd'.step = "FONDCART"
        BY <2>3 DEF ParseSucceeds, TypeInv, Command
      <3>2. cmd.step = "export"
        BY <2>3 DEF ParseSucceeds, NeedsExport
      <3> QED  BY <2>1, <3>1, <3>2, SectionsInOrder DEF ExportInv
    <2>4. CASE PutNewBytes \/ PutSameBytes
      <3>1. /\ cmd'.step = "export" /\ cmd'.art = site[Current]
            /\ site[Current] \in Artifacts /\ latest'[Current] = site[Current]
        BY <2>2, <2>4, ArtifactsAssumption
        DEF PutNewBytes, PutSameBytes, Store!Publish, TypeInv, Command
      <3> QED  BY <2>1, <3>1 DEF ExportInv, Families
    <2>5. CASE DecideExport
      <3>1. cmd'.step = "export" /\ cmd'.art = latest[Current] /\ UNCHANGED latest
        BY <2>5 DEF DecideExport, TypeInv, Command
      <3>2. latest[Current] \in Artifacts
        BY <2>5 DEF DecideExport, TypeInv
      <3> QED  BY <2>1, <3>1, <3>2 DEF ExportInv, Families
    <2>6. CASE DecideDownload
      BY <1>2, <2>6 DEF DecideDownload, TypeInv, Command
    <2> QED  BY <1>6, <2>3, <2>4, <2>5, <2>6 DEF Works
  <1>7. CASE WriteFamily
    <2>1. cmd.step \in Families /\ cmd.step # "idle"
      BY <1>7 DEF WriteFamily, Families
    <2>2. /\ cmd'.step = StepAfter(cmd.step) /\ cmd'.art = cmd.art /\ Current' = Current
          /\ UNCHANGED latest
      BY <1>7 DEF WriteFamily, TypeInv, Command, Current
    <2>3. Current \in Period /\ cmd.art \in Artifacts /\ cmd.art = latest[Current]
      BY <2>1, CurrentIs DEF ExportInv
    <2>4. ASSUME NEW f \in Families, Done(f, cmd'.step), f \in Written(cmd.art)
          PROVE  tables'[Current][f] = cmd.art
      <3>1. Done(f, cmd.step) \/ f = cmd.step
        BY <2>1, <2>2, <2>4, SectionsInOrder
      <3>3. CASE f = cmd.step
        BY <1>7, <2>3, <2>4, <3>3 DEF WriteFamily, TypeInv
      <3>4. CASE f # cmd.step
        <4>1. tables[Current][f] = cmd.art
          BY <2>1, <2>4, <3>1, <3>4 DEF ExportInv
        <4> QED  BY <1>7, <2>3, <3>4, <4>1 DEF WriteFamily, TypeInv
      <3> QED  BY <3>3, <3>4
    <2> QED  BY <2>2, <2>3, <2>4 DEF ExportInv
  <1> QED  BY <1>1, <1>3, <1>4, <1>5, <1>6, <1>7, KindsOfSteps

-----------------------------------------------------------------------------
(***************************************************************************)
(* What the command has reported                                           *)
(***************************************************************************)
LEMMA StepAhead == TypeInv /\ AheadInv /\ [Next]_vars => AheadInv'
  <1> SUFFICES ASSUME TypeInv, AheadInv, [Next]_vars
               PROVE  AheadInv'
    OBVIOUS
  <1> USE DEF store, dataset, bounds
  <1>1. CASE Outside
    BY <1>1 DEF Outside, AheadInv, Ahead
  <1>2. CASE Starts
    <2>1. CASE cmd'.kind = "backfill" /\ answer' = [p \in Period |-> "none"]
      BY <2>1, PeriodsAssumption DEF AheadInv
    <2>2. CASE cmd'.kind = "update" /\ answer' = [answer EXCEPT ![Periods[cmd'.at]] = "none"]
      <3>1. \A n \in 1..Len(Periods) : Ahead(cmd', n) => n = cmd'.at
        BY <2>2 DEF Ahead
      <3>2. \A n \in 1..Len(Periods) : n = cmd'.at => answer'[Periods[n]] = "none"
        BY <2>2, PeriodsAssumption DEF TypeInv
      <3> QED  BY <3>1, <3>2 DEF AheadInv, Ahead
    <2> QED  BY <1>2, <2>1, <2>2 DEF Starts
  <1>3. CASE Works
    BY <1>3 DEF Works, AheadInv, Ahead
  <1>4. ASSUME NEW s, cmd.step # "idle", Report(s)
        PROVE  AheadInv'
    <2>1. cmd' = Advance /\ answer' = [answer EXCEPT ![Current] = s]
      BY <1>4 DEF Report
    <2>2. ASSUME cmd'.step # "idle", NEW n \in 1..Len(Periods), Ahead(cmd', n)
          PROVE  answer'[Periods[n]] = "none"
      <3>1. Ahead(cmd, n) /\ n # cmd.at
        BY <1>4, <2>1, <2>2, AdvanceIs
      <3>2. Periods[n] \in Period /\ Periods[n] # Current /\ answer[Periods[n]] = "none"
        BY <1>4, <3>1, CurrentIs DEF AheadInv
      <3> QED  BY <2>1, <3>2 DEF TypeInv
    <2> QED  BY <2>2 DEF AheadInv, Ahead
  <1>5. CASE cmd' = Idle
    BY <1>5 DEF Idle, AheadInv
  <1>6. CASE Leaves
    BY <1>4, <1>5, <1>6 DEF Leaves, Abort
  <1>7. CASE WriteManifest
    BY <1>4, <1>7 DEF WriteManifest
  <1>8. CASE Crash
    BY <1>5, <1>8 DEF Crash
  <1> QED  BY <1>1, <1>2, <1>3, <1>6, <1>7, <1>8, KindsOfSteps

\* An answer of success of a period, and what it stands for
Success == {"downloaded", "exported"}
Fresh(p) ==
    /\ Readable(p)
    /\ manifest[p].src = latest[p]
    /\ \A f \in Rows[latest[p]] : tables[p][f] = latest[p]

LEMMA StepFresh == Inv /\ [Next]_vars => FreshExport'
  <1> SUFFICES ASSUME Inv, [Next]_vars
               PROVE  FreshExport'
    OBVIOUS
  <1> USE DEF store, dataset, bounds
  <1>1. \A p \in Period : answer[p] \in Success => Fresh(p)
    BY DEF Inv, FreshExport, Fresh, Success
  <1>2. SUFFICES ASSUME NEW p \in Period, answer'[p] \in Success
                 PROVE  Fresh(p)'
    BY DEF FreshExport, Fresh, Success
  <1>3. cmd.step # "idle" => Current \in Period /\ answer[Current] = "none"
    BY CurrentIs DEF Inv, AheadInv, Ahead, Current
  <1>4. ASSUME answer[p] = answer'[p], manifest'[p] = manifest[p], tables'[p] = tables[p],
               latest'[p] = latest[p]
        PROVE  Fresh(p)'
    BY <1>1, <1>2, <1>4 DEF Fresh, Readable
  <1>5. CASE Outside
    BY <1>4, <1>5 DEF Outside
  <1>6. CASE Starts
    <2>1. answer'[p] = answer[p]
      BY <1>2, <1>6 DEF Starts, Success, Inv, TypeInv
    <2> QED  BY <1>4, <1>6, <2>1 DEF Starts
  <1>7. CASE Works
    <2>1. p # Current /\ answer'[p] = answer[p]
      BY <1>2, <1>3, <1>7 DEF Works, Success
    <2>2. manifest'[p] = manifest[p] /\ tables'[p] = tables[p] /\ latest'[p] = latest[p]
      BY <1>7, <2>1 DEF Works, DecideExport, DecideDownload, PutNewBytes, PutSameBytes,
                        ParseSucceeds, WriteFamily, Store!Publish, Inv, TypeInv
    <2> QED  BY <1>4, <2>1, <2>2
  <1>8. CASE Leaves
    <2>1. answer'[p] = answer[p]
      BY <1>2, <1>8 DEF Leaves, Abort, Report, Success, Inv, TypeInv
    <2> QED  BY <1>4, <1>8, <2>1 DEF Leaves
  <1>9. CASE WriteManifest
    <2>1. cmd.step = "manifest" /\ Current \in Period
      BY <1>3, <1>9 DEF WriteManifest
    <2>2. /\ manifest' = [manifest EXCEPT ![Current] =
                             [src |-> cmd.art, fps |-> Fingerprints(cmd.art)]]
          /\ \E s : answer' = [answer EXCEPT ![Current] = s]
          /\ UNCHANGED <<latest, tables>>
      BY <1>9 DEF WriteManifest, Report
    <2>3. CASE p # Current
      BY <1>4, <2>1, <2>2, <2>3 DEF Inv, TypeInv
    <2>4. CASE p = Current
      <3>1. /\ cmd.art \in Artifacts /\ cmd.art = latest[p]
            /\ \A f \in Rows[cmd.art] : tables[p][f] = cmd.art
        BY <2>1, <2>4, SectionsInOrder, ArtifactsAssumption DEF Inv, ExportInv, Written
      <3>2. manifest'[p] = [src |-> cmd.art, fps |-> Fingerprints(cmd.art)]
        BY <2>2, <2>4 DEF Inv, TypeInv
      <3>3. manifest'[p] \notin {None, Torn} /\ manifest'[p].src = cmd.art
        BY <3>1, <3>2, ManifestIs
      <3> QED  BY <2>2, <3>1, <3>3 DEF Fresh, Readable
    <2> QED  BY <2>3, <2>4
  <1>10. CASE Crash
    <2>1. UNCHANGED <<latest, answer>>
      BY <1>10 DEF Crash
    <2>2. CASE UNCHANGED dataset
      BY <1>4, <2>1, <2>2
    <2>3. CASE ~(UNCHANGED dataset)
      <3>1. cmd.step # "idle"
        BY <1>10, <2>3 DEF Crash, Families
      <3>2. p # Current
        BY <1>2, <1>3, <2>1, <3>1 DEF Success
      <3>3. manifest'[p] = manifest[p] /\ tables'[p] = tables[p]
        BY <1>10, <3>2 DEF Crash, Inv, TypeInv
      <3> QED  BY <1>4, <2>1, <3>3
    <2> QED  BY <2>2, <2>3
  <1> QED  BY <1>5, <1>6, <1>7, <1>8, <1>9, <1>10, KindsOfSteps DEF Inv

\* An early release wrote and recorded FONDCART alone.
LEMMA InitWhole == Init => WholeInv
  <1> SUFFICES ASSUME Init, NEW p \in Period, Readable(p), NEW f \in Families,
                      f \in Written(manifest[p].src) \cap manifest[p].fps
               PROVE  tables[p][f] = manifest[p].src
    <2>1. Init => crashes = 0
      BY DEF Init
    <2> QED  BY <2>1 DEF WholeInv
  <1>1. PICK old \in [Period -> Legacy \cup {None}] :
          /\ manifest = [q \in Period |->
               IF old[q] = None THEN None ELSE [src |-> old[q], fps |-> {"FONDCART"}]]
          /\ tables = [q \in Period |-> [g \in Families |->
               IF old[q] # None /\ g = "FONDCART" /\ g \in Rows[old[q]]
               THEN old[q] ELSE None]]
    BY DEF Init
  <1>2. old[p] # None /\ manifest[p].src = old[p] /\ f = "FONDCART"
    BY <1>1 DEF Readable
  <1>3. f \in Rows[old[p]]
    BY <1>2 DEF Written
  <1> QED  BY <1>1, <1>2, <1>3

\* Tables change only while their period is being written, and a period is
\* being written until its manifest is.
LEMMA StepWhole == Inv /\ [Next]_vars => WholeInv'
  <1> SUFFICES ASSUME Inv, [Next]_vars
               PROVE  WholeInv'
    OBVIOUS
  <1> USE DEF store, dataset, bounds
  <1>1. CASE Crash
    BY <1>1 DEF Crash, Inv, WholeInv
  <1>2. UNCHANGED crashes \/ Crash
    <2>1. ASSUME NEW p \in Period, NEW a \in Artifacts, Republish(p, a)
          PROVE  UNCHANGED crashes
      BY <2>1 DEF Republish
    <2>2. ASSUME NEW a \in Artifacts, RemoveRaw(a)
          PROVE  UNCHANGED crashes
      BY <2>2 DEF RemoveRaw
    <2>3. ASSUME NEW n \in 1..Len(Periods), StartUpdate(n)
          PROVE  UNCHANGED crashes
      BY <2>3 DEF StartUpdate
    <2>4. Operator => UNCHANGED crashes
      BY DEF Operator, DecideUnreadable, DecideComplete, DecideExport, DecideDownload,
             DownloadFails, PutUndecompressable, PutNewBytes, PutSameBytes, ExportUnreadable, ExportComplete,
             ParseMissingRaw, ParseFails, ParseSucceeds, WriteFamily, WriteManifest
    <2>5. StartBackfill \/ UNCHANGED vars => UNCHANGED crashes
      BY DEF StartBackfill, vars
    <2> QED  BY <2>1, <2>2, <2>3, <2>4, <2>5 DEF Next
  <1>3. SUFFICES ASSUME ~Crash, UNCHANGED crashes, crashes = 0, NEW p \in Period,
                        Readable(p)', ~Writing(p)', NEW f \in Families,
                        f \in (Written(manifest[p].src) \cap manifest[p].fps)'
                 PROVE  tables'[p][f] = manifest'[p].src
    BY <1>1, <1>2 DEF WholeInv, Inv
  <1>4. ASSUME manifest'[p] = manifest[p], tables'[p] = tables[p], ~Writing(p)
        PROVE  tables'[p][f] = manifest'[p].src
    BY <1>3, <1>4 DEF Inv, WholeInv, Readable, Written
  <1>5. CASE Outside
    BY <1>3, <1>4, <1>5 DEF Outside, Writing, Current
  <1>6. CASE Starts
    BY <1>4, <1>6 DEF Starts, Writing, Families
  <1>7. CASE Leaves
    BY <1>4, <1>7 DEF Leaves, Writing, Families
  <1>8. CASE Works
    <2>1. CASE p = Current /\ cmd.step \in Families
      <3>1. WriteFamily
        BY <1>8, <2>1 DEF Works, DecideExport, DecideDownload, PutNewBytes, PutSameBytes,
                          ParseSucceeds, NeedsExport, Families
      <3>2. cmd'.step = StepAfter(cmd.step) /\ Current' = Current
        BY <3>1 DEF WriteFamily, Inv, TypeInv, Command, Current
      <3> QED  BY <1>3, <2>1, <3>2, SectionsInOrder DEF Writing
    <2>2. CASE ~(p = Current /\ cmd.step \in Families)
      <3>1. UNCHANGED manifest /\ tables'[p] = tables[p]
        BY <1>8, <2>2 DEF Works, DecideExport, DecideDownload, PutNewBytes, PutSameBytes,
                          ParseSucceeds, WriteFamily, Inv, TypeInv
      <3>2. ~Writing(p)
        BY <1>8, <2>2 DEF Writing, Works, DecideExport, DecideDownload, PutNewBytes,
                          PutSameBytes, ParseSucceeds, NeedsExport, WriteFamily, Families
      <3> QED  BY <1>4, <3>1, <3>2
    <2> QED  BY <2>1, <2>2
  <1>9. CASE WriteManifest
    <2>1. cmd.step = "manifest" /\ Current \in Period
      BY <1>9, CurrentIs DEF WriteManifest, Inv
    <2>2. CASE p = Current
      <3>1. manifest'[p].src = cmd.art /\ UNCHANGED tables
        BY <1>9, <2>2 DEF WriteManifest, Inv, TypeInv
      <3>2. f \in Written(cmd.art)
        BY <1>3, <3>1 DEF Written
      <3> QED  BY <2>1, <2>2, <3>1, <3>2, SectionsInOrder DEF Inv, ExportInv
    <2>3. CASE p # Current
      BY <1>4, <1>9, <2>1, <2>3 DEF WriteManifest, Writing, Inv, TypeInv
    <2> QED  BY <2>2, <2>3
  <1> QED  BY <1>3, <1>5, <1>6, <1>7, <1>8, <1>9, KindsOfSteps DEF Inv

-----------------------------------------------------------------------------
(***************************************************************************)
(* The theorems                                                            *)
(***************************************************************************)
LEMMA InitInv == Init => Inv
  <1> SUFFICES ASSUME Init
               PROVE  Inv
    OBVIOUS
  <1>1. cmd.step = "idle" /\ answer = [p \in Period |-> "none"]
    BY DEF Init, Idle
  <1>2. ExportInv /\ AheadInv /\ FreshExport
    BY <1>1 DEF ExportInv, AheadInv, FreshExport, Families
  <1> QED  BY <1>2, InitType, InitTraceable, InitWhole DEF Inv

LEMMA StepInv == Inv /\ [Next]_vars => Inv'
  BY StepType, StepTraceable, StepExport, StepAhead, StepFresh, StepWhole DEF Inv

LEMMA Invariant == Spec => []Inv
  BY InitInv, StepInv, PTL DEF Spec

\* No row and no manifest is of bytes that are not registered for its period
\* (ingest.update_period registers before it exports), whenever a command dies.
THEOREM RowsAreTraceable == Spec => []RowsTraceable
  <1>1. Inv => RowsTraceable
    BY DEF Inv
  <1> QED  BY <1>1, Invariant, PTL

\* update_period and backfill_periods say "downloaded" or "exported" of the
\* latest version only, with every table it has rows for.
THEOREM SuccessIsFresh == Spec => []FreshExport
  <1>1. Inv => FreshExport
    BY DEF Inv
  <1> QED  BY <1>1, Invariant, PTL

\* storage.write_period: a manifest names an artifact once all its tables are
\* written, whatever was written before.
THEOREM ManifestComesLast == Spec => ManifestLast
  <1> DEFINE Last == \A p \in Period :
                 (manifest'[p] # manifest[p] /\ manifest'[p] # Torn) =>
                     \A f \in Rows[manifest'[p].src] : tables'[p][f] = manifest'[p].src
  <1>1. Inv /\ [Next]_vars => [Last]_vars
    <2> SUFFICES ASSUME Inv, [Next]_vars, NEW p \in Period,
                        manifest'[p] # manifest[p], manifest'[p] # Torn
                 PROVE  \A f \in Rows[manifest'[p].src] : tables'[p][f] = manifest'[p].src
      OBVIOUS
    <2>1. WriteManifest
      <3>1. ~Crash
        BY DEF Crash, Inv, TypeInv, dataset
      <3>2. ~Works
        BY DEF Works, DecideExport, DecideDownload, PutNewBytes, PutSameBytes, ParseSucceeds,
               WriteFamily, dataset
      <3> QED  BY <3>1, <3>2, KindsOfSteps DEF Outside, Starts, Leaves, Inv
    <2>2. cmd.step = "manifest" /\ p = Current /\ manifest'[p].src = cmd.art /\ UNCHANGED tables
      BY <2>1 DEF WriteManifest, Inv, TypeInv
    <2>3. cmd.art \in Artifacts /\ Rows[cmd.art] \subseteq Families
      BY <2>2, ArtifactsAssumption DEF Inv, ExportInv
    <2> QED  BY <2>2, <2>3, SectionsInOrder DEF Inv, ExportInv, Written
  <1> QED  BY <1>1, Invariant, PTL DEF Spec, ManifestLast

\* No export writes rows of a superseded version: from the decision to export
\* on, the version at hand is the latest one of its period.
THEOREM OnlyLatestWritten == Spec => WritesLatest
  <1> DEFINE Current_ == \A p \in Period, f \in Families :
                 (tables'[p][f] # tables[p][f] /\ tables'[p][f] # Torn) =>
                     tables'[p][f] = latest[p]
  <1>1. Inv /\ [Next]_vars => [Current_]_vars
    <2> SUFFICES ASSUME Inv, [Next]_vars, NEW p \in Period, NEW f \in Families,
                        tables'[p][f] # tables[p][f], tables'[p][f] # Torn
                 PROVE  tables'[p][f] = latest[p]
      OBVIOUS
    <2>1. WriteFamily
      <3>1. ~Crash
        BY DEF Crash, Inv, TypeInv, dataset
      <3>2. Works => WriteFamily
        BY DEF Works, DecideExport, DecideDownload, PutNewBytes, PutSameBytes, ParseSucceeds,
               dataset
      <3> QED  BY <3>1, <3>2, KindsOfSteps DEF Outside, Starts, Leaves, WriteManifest, Inv
    <2>2. cmd.step \in Families /\ p = Current /\ tables'[p][f] = cmd.art
      BY <2>1 DEF WriteFamily, Inv, TypeInv
    <2> QED  BY <2>2 DEF Inv, ExportInv
  <1> QED  BY <1>1, Invariant, PTL DEF Spec, WritesLatest

\* What verify passes is, table by table, the dataset of the latest version,
\* except where an export is at work or has died; the registry tables are it
\* even then, since verify_dataset reads them back (verify.py:180).
THEOREM VerifiedIsLatest == Spec => []VerifiedDataset
  <1>1. Inv => VerifiedDataset
    <2> SUFFICES ASSUME Inv, NEW p \in Period, VerifyOk(p),
                        NEW f \in Written(latest[p]) \cap manifest[p].fps,
                        f = "FONDREGISTRO" \/ (~Writing(p) /\ ~(crashes > 0))
                 PROVE  tables[p][f] = latest[p]
      BY DEF VerifiedDataset
    <2>1. Readable(p) /\ manifest[p].src = latest[p]
      BY DEF VerifyOk, Verdict
    <2>2. CASE f = "FONDREGISTRO"
      BY <2>1, <2>2 DEF VerifyOk, RegistryCheck
    <2>3. CASE f # "FONDREGISTRO"
      <3>1. crashes = 0 /\ ~Writing(p)
        BY <2>3 DEF Inv, WholeInv
      <3>2. f \in Families
        BY <2>1 DEF Inv, TypeInv, Readable, Manifest
      <3> QED  BY <2>1, <3>1, <3>2 DEF Inv, WholeInv
    <2> QED  BY <2>2, <2>3
  <1> QED  BY <1>1, Invariant, PTL

-----------------------------------------------------------------------------
(***************************************************************************)
(* A backfill reports the periods it passes, and where it stops            *)
(***************************************************************************)
ReportedInv ==
    cmd.kind = "backfill" =>
        /\ cmd.step # "idle"
        /\ \A n \in 1..Len(Periods) : n < cmd.at => answer[Periods[n]] \in Reported

\* The report holds each period that the backfill has passed.
LEMMA StepReported == Inv /\ ReportedInv /\ [Next]_vars => ReportedInv'
  <1> SUFFICES ASSUME Inv, ReportedInv, [Next]_vars
               PROVE  ReportedInv'
    OBVIOUS
  <1>1. CASE Outside
    BY <1>1 DEF Outside, ReportedInv
  <1>2. CASE Starts
    <2>1. cmd'.kind = "backfill" => cmd'.at = 1 /\ cmd'.step # "idle"
      BY <1>2 DEF Starts
    <2> QED  BY <2>1 DEF ReportedInv
  <1>3. CASE Works
    <2>1. cmd'.step # "idle"
      BY <1>3, SectionsInOrder DEF Works, DecideExport, DecideDownload, PutNewBytes,
         PutSameBytes, ParseSucceeds, WriteFamily, Inv, TypeInv, Command, Families
    <2> QED  BY <1>3, <2>1 DEF Works, ReportedInv
  <1>4. ASSUME NEW s \in Reported, cmd.step # "idle", Report(s)
        PROVE  ReportedInv'
    <2>1. cmd' = Advance /\ answer' = [answer EXCEPT ![Current] = s]
      BY <1>4 DEF Report
    <2>2. SUFFICES ASSUME Advance.kind = "backfill"
                   PROVE  ReportedInv'
      BY <2>1 DEF ReportedInv
    <2>3. cmd.kind = "backfill" /\ Advance.at = cmd.at + 1 /\ Advance.step # "idle"
      BY <2>2 DEF Advance, Idle
    <2>4. ASSUME NEW n \in 1..Len(Periods), n < cmd.at + 1
          PROVE  answer'[Periods[n]] \in Reported
      <3>1. Periods[n] \in Period /\ (n = cmd.at \/ n < cmd.at) /\ Periods[cmd.at] = Current
        BY <1>4, <2>4, CurrentIs DEF Inv, Current
      <3> QED  BY <1>4, <2>1, <2>3, <3>1 DEF ReportedInv, Inv, TypeInv
    <2> QED  BY <2>1, <2>3, <2>4 DEF ReportedInv
  <1>5. CASE Leaves
    <2>1. CASE Abort
      BY <2>1 DEF Abort, Idle, ReportedInv
    <2> QED  BY <1>4, <1>5, <2>1 DEF Leaves, Reported
  <1>6. CASE WriteManifest
    BY <1>4, <1>6 DEF WriteManifest, Reported
  <1>7. CASE Crash
    BY <1>7 DEF Crash, ReportedInv, Idle
  <1> QED  BY <1>1, <1>2, <1>3, <1>5, <1>6, <1>7, KindsOfSteps DEF Inv

\* ingest.backfill_periods isolates every failure of a period but three: a
\* half-written manifest, a ZIP that does not decompress, a stored ZIP that is
\* gone.  It ends at one of those with every earlier period reported, or at the
\* end of its range with all of them.
THEOREM BackfillStopsWhere == Spec => BackfillStopsOnlyAt
  <1> DEFINE I == Inv /\ ReportedInv
             All == \A p \in Period : answer'[p] \in Reported
             Before == \A n \in 1..(cmd.at - 1) : answer'[Periods[n]] \in Reported
             Ends == (cmd.kind = "backfill" /\ cmd' = Idle /\ crashes' = crashes) =>
                         All \/ (Blocked /\ Before)
  <1>1. Init => I
    <2>1. Init => cmd.kind = "none"
      BY DEF Init, Idle
    <2> QED  BY <2>1, InitInv DEF ReportedInv
  <1>2. I /\ [Next]_vars => I'
    BY StepInv, StepReported
  <1>3. I /\ [Next]_vars => [Ends]_vars
    <2> SUFFICES ASSUME I, [Next]_vars, cmd.kind = "backfill", cmd' = Idle, crashes' = crashes
                 PROVE  All \/ (Blocked /\ Before)
      OBVIOUS
    <2>1. /\ cmd.step # "idle" /\ cmd.at \in 1..Len(Periods) /\ Current \in Period
          /\ Len(Periods) \in Nat
      BY CurrentIs, PeriodsAssumption DEF ReportedInv, Inv
    <2>2. Leaves \/ WriteManifest
      <3>1. ~Crash
        BY DEF Crash, Inv, WholeInv
      <3>2. ~Works /\ ~Outside /\ ~Starts
        BY <2>1 DEF Works, Outside, Starts, Idle
      <3> QED  BY <3>1, <3>2, KindsOfSteps DEF Inv
    <2>3. ASSUME NEW n \in 1..Len(Periods), n < cmd.at, NEW s,
                 answer' = [answer EXCEPT ![Current] = s]
          PROVE  answer'[Periods[n]] \in Reported
      <3>1. Periods[n] \in Period /\ Periods[n] # Current
        BY <2>1, <2>3, CurrentIs DEF Inv
      <3> QED  BY <2>3, <3>1 DEF ReportedInv, Inv, TypeInv
    <2>4. CASE Abort /\ Blocked
      <3>1. Before
        <4>1. \A n \in 1..(cmd.at - 1) : n \in 1..Len(Periods) /\ n < cmd.at
          BY <2>1
        <4> QED  BY <2>3, <2>4, <4>1 DEF Abort
      <3> QED  BY <2>4, <3>1
    <2>5. ASSUME NEW s \in Reported, Report(s)
          PROVE  All
      <3>1. Advance = Idle
        BY <2>5 DEF Report
      <3>2. cmd.at = Len(Periods)
        <4>1. CASE cmd.at < Len(Periods)
          <5>1. Advance.kind = "backfill" /\ Idle.kind = "none"
            BY <4>1 DEF Advance, Idle
          <5> QED  BY <3>1, <5>1
        <4> QED  BY <2>1, <4>1
      <3>3. answer' = [answer EXCEPT ![Current] = s]
        BY <2>5 DEF Report
      <3>4. ASSUME NEW n \in 1..Len(Periods)
            PROVE  answer'[Periods[n]] \in Reported
        <4>1. CASE n = cmd.at
          BY <2>1, <2>5, <3>3, <4>1 DEF Current, Inv, TypeInv
        <4>2. CASE n < cmd.at
          BY <2>3, <3>3, <4>2
        <4> QED  BY <2>1, <3>2, <4>1, <4>2
      <3> QED  BY <3>4 DEF Period
    <2>6. CASE Leaves
      BY <2>4, <2>5, <2>6 DEF Leaves, Reported
    <2>7. CASE WriteManifest
      BY <2>5, <2>7 DEF WriteManifest, Reported
    <2> QED  BY <2>2, <2>6, <2>7
  <1> QED  BY <1>1, <1>2, <1>3, PTL DEF Spec, BackfillStopsOnlyAt
=============================================================================
