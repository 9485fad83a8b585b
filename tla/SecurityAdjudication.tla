------------------------- MODULE SecurityAdjudication -------------------------
(***************************************************************************)
(* Provider evidence and the verdicts derived from it: the GLEIF/ANNA and  *)
(* FIRDS ingests of provider_ingest.py, storage.write_provider_resolution, *)
(* adjudication.py (discover_bundle, adjudicate) and                       *)
(* storage.write_adjudication.  A provider file of one date is joined with *)
(* the ISINs of the corpus and exported; an adjudication pins the latest   *)
(* evidence of every family in a bundle and derives, once per bundle, one  *)
(* verdict for each ISIN.  Everything is a command that an operator types, *)
(* and each of its file writes is a step.  A write is made in place: a     *)
(* command may die between two of them or inside one, whose file is torn   *)
(* then and cannot be read.  The corpus may grow at any moment.            *)
(*                                                                         *)
(* Abstractions: a file's content is File[p][d][v], the issuers its rows   *)
(* list for each ISIN; a fingerprint is the content it is taken over;      *)
(* OpenFIGI evidence is the set of ISINs that its last ingestion covered,  *)
(* and an instrument family is its ISIN; the GLEIF golden copy, which only *)
(* words the context of a conflict, is left out; one command runs at a     *)
(* time.  disturbed and interrupted are history: no command reads them.    *)
(***************************************************************************)
EXTENDS Integers, Sequences, FiniteSets

CONSTANTS Isins,        \* valid ISINs the corpus will ever hold
          Initial,      \* those it holds at the start
          Leis,         \* issuers
          MaxDate,      \* bound: snapshot dates of a provider
          File,         \* provider -> date -> its files -> ISIN -> issuers listed
          MaxFiles,     \* bound: provider files registered and campaigns ingested
          MaxCrashes,   \* bound: commands that die
          None,
          Torn          \* a file that a command died in

Providers == {"gleif", "firds"}
Dates == 1..MaxDate

ASSUME IsinsAssumption == IsFiniteSet(Isins) /\ Initial \subseteq Isins /\ Initial # {}
ASSUME DatesAssumption == MaxDate \in Nat \ {0}
ASSUME FileAssumption == File \in [Providers -> [Dates -> Seq([Isins -> Seq(Leis)])]]
\* firds_fulins.py:169 lists an issuer once per ISIN, gleif_isin_lei.py:104 every row
ASSUME FirdsAssumption ==
    \A d \in Dates : \A v \in DOMAIN File["firds"][d] : \A i \in Isins :
        LET leis == File["firds"][d][v][i]
        IN  \A m, n \in DOMAIN leis : leis[m] = leis[n] => m = n
ASSUME BoundsAssumption == {MaxFiles, MaxCrashes} \subseteq Nat
Rows == UNION {[S -> Seq(Leis)] : S \in SUBSET Isins}
Manifests == [version : Nat, rows : Rows]
States == {"multiple_candidates", "no_authoritative_match", "gleif_only", "firds_only",
           "corroborated", "conflict"}
Verdicts == [state : States, lei : Leis \cup {None}]
ASSUME NoneAssumption ==
    /\ None \notin Nat \cup Leis \cup Manifests
    /\ None \notin [date : Nat, version : Nat, rows : Rows]
    /\ \A S \in SUBSET Isins : None # S
\* a file that cannot be read is none that can
ASSUME TornAssumption ==
    /\ Torn # None /\ Torn \notin Manifests
    /\ \A S \in SUBSET Isins :
          Torn # S /\ Torn \notin [S -> Seq(Leis)] /\ Torn \notin [S -> Verdicts]

VARIABLES
    universe,   \* ISINs of the stored positions
    stored,     \* provider -> date -> version last registered, or None
    obs,        \* provider -> date -> ISINs of resolution_observations, or None
    cand,       \* provider -> date -> ISIN -> issuers (resolution_candidates)
    manifest,   \* provider -> date -> what the manifest fingerprints, or None
    figi,       \* ISINs of the OpenFIGI evidence, or None
    sec,        \* security_resolution partitions, in the order of adjudicated_at
    fam,        \* instrument_family_resolution partitions
    published,  \* adjudication manifests
    run,        \* the command that runs
    files,      \* registrations and campaigns so far
    crashes,
    disturbed,  \* evidence over whose exported tables an ingestion died
    interrupted \* bundles over which an adjudication died

evidence == <<stored, files, obs, cand, manifest, figi>>
verdicts == <<sec, fam, published>>
deaths == <<crashes, disturbed, interrupted>>
vars == <<universe, evidence, verdicts, run, deaths>>

Idle == [step |-> "idle"]

Init ==
    /\ universe = Initial
    /\ stored = [p \in Providers |-> [d \in Dates |-> None]]
    /\ obs = [p \in Providers |-> [d \in Dates |-> None]]
    /\ cand = [p \in Providers |-> [d \in Dates |-> <<>>]]
    /\ manifest = [p \in Providers |-> [d \in Dates |-> None]]
    /\ figi = None
    /\ sec = <<>> /\ fam = {} /\ published = {}
    /\ run = Idle
    /\ files = 0 /\ crashes = 0
    /\ disturbed = {} /\ interrupted = {}

\* another period's positions are exported
Grow(i) ==
    /\ i \notin universe
    /\ universe' = universe \cup {i}
    /\ UNCHANGED <<evidence, verdicts, run, deaths>>

-----------------------------------------------------------------------------
(***************************************************************************)
(* ingest_gleif_isin_lei, ingest_firds_fulins                              *)
(***************************************************************************)
\* is_new, or no manifest: else the command answers from the manifest, or fails
\* to read it
NeedsExport(p, d, v) == stored[p][d] # v \/ manifest[p][d] = None

\* the file is registered, then joined with the corpus as it is now
StartIngest(p, d, v) ==
    /\ run = Idle
    /\ NeedsExport(p, d, v)
    /\ stored[p][d] # v => files < MaxFiles
    /\ files' = IF stored[p][d] # v THEN files + 1 ELSE files
    /\ stored' = [stored EXCEPT ![p][d] = v]
    /\ run' = [step |-> "observations", p |-> p, d |-> d, v |-> v, of |-> universe,
               rows |-> [i \in universe |-> File[p][d][v][i]]]
    /\ UNCHANGED <<universe, obs, cand, manifest, figi, verdicts, deaths>>

WriteObservations ==
    /\ run.step = "observations"
    /\ obs' = [obs EXCEPT ![run.p][run.d] = run.of]
    /\ run' = [run EXCEPT !.step = "candidates"]
    /\ UNCHANGED <<universe, stored, files, cand, manifest, figi, verdicts, deaths>>

Naming(rows) == \E i \in DOMAIN rows : rows[i] # <<>>

\* no candidate, no table: what was there stays
WriteCandidates ==
    /\ run.step = "candidates"
    /\ cand' = IF Naming(run.rows)
               THEN [cand EXCEPT ![run.p][run.d] = run.rows]
               ELSE cand
    /\ run' = [run EXCEPT !.step = "manifest"]
    /\ UNCHANGED <<universe, stored, files, obs, manifest, figi, verdicts, deaths>>

\* Mutant: of the corpus as it is by now.
WriteManifestOfNow ==
    LET rows == [i \in universe |-> File[run.p][run.d][run.v][i]]
    IN  /\ run.step = "manifest"
        /\ manifest' = [manifest EXCEPT ![run.p][run.d] = [version |-> run.v, rows |-> rows]]
        /\ run' = Idle
        /\ UNCHANGED <<universe, stored, files, obs, cand, figi, verdicts, deaths>>

WriteManifest ==
    /\ run.step = "manifest"
    /\ manifest' = [manifest EXCEPT ![run.p][run.d] = [version |-> run.v, rows |-> run.rows]]
    /\ run' = Idle
    /\ UNCHANGED <<universe, stored, files, obs, cand, figi, verdicts, deaths>>

\* ingest_openfigi: OpenFigiCampaign models it; it rewrites its tables always
IngestOpenFigi ==
    /\ run = Idle
    /\ files < MaxFiles
    /\ files' = files + 1
    /\ figi' = universe
    /\ UNCHANGED <<universe, stored, obs, cand, manifest, verdicts, run, deaths>>

-----------------------------------------------------------------------------
(***************************************************************************)
(* adjudicate                                                              *)
(***************************************************************************)
\* _latest_manifest: the last date that has one, torn or not
LatestOf(p) ==
    LET dates == {d \in Dates : manifest[p][d] # None}
    IN  IF dates = {} THEN None ELSE CHOOSE d \in dates : \A e \in dates : e <= d

\* an evidence id: family, date and fingerprint
IdAt(p, d) == [date |-> d, version |-> manifest[p][d].version, rows |-> manifest[p][d].rows]

EvidenceId(p) == IF LatestOf(p) = None THEN None ELSE IdAt(p, LatestOf(p))

\* discover_bundle
Bundle == [gleif |-> EvidenceId("gleif"), firds |-> EvidenceId("firds"), openfigi |-> figi]

NoEvidence == [gleif |-> None, firds |-> None, openfigi |-> None]

\* Mutant: the candidates of the first snapshot are read.
FirstCandidates(p, i) ==
    LET dates == {d \in Dates : cand[p][d] # Torn /\ i \in DOMAIN cand[p][d]}
    IN  IF dates = {} THEN <<>> ELSE cand[p][CHOOSE d \in dates : \A e \in dates : d <= e][i]

\* _load_observations, _load_candidates: the tables of the bundle's date
Candidates(p, i) ==
    LET d == LatestOf(p)
    IN  IF d = None \/ i \notin obs[p][d] \/ i \notin DOMAIN cand[p][d] THEN <<>>
        ELSE cand[p][d][i]

State(g, f) ==
    CASE Len(g) > 1 \/ Len(f) > 1 -> "multiple_candidates"
      [] Len(g) = 0 /\ Len(f) = 0 -> "no_authoritative_match"
      [] Len(g) = 1 /\ Len(f) = 0 -> "gleif_only"
      [] Len(g) = 0 /\ Len(f) = 1 -> "firds_only"
      [] Len(g) = 1 /\ Len(f) = 1 -> IF g = f THEN "corroborated" ELSE "conflict"

Verdict(g, f) ==
    [state |-> State(g, f),
     lei |-> CASE State(g, f) \in {"corroborated", "gleif_only"} -> g[1]
               [] State(g, f) = "firds_only" -> f[1]
               [] OTHER -> None]

VerdictNow(i) == Verdict(Candidates("gleif", i), Candidates("firds", i))

\* Mutant: idempotent per date, whatever the fingerprints.
AlreadyAdjudicatedDate ==
    \E m \in published : \A p \in Providers :
        LET id == m.bundle[p]
        IN  (id = None) = (Bundle[p] = None) /\ (id # None => id.date = Bundle[p].date)

\* idempotent per bundle: the manifest of an earlier run is answered, if it can
\* be read
AlreadyAdjudicated == \E m \in published : m.bundle = Bundle

HasEvidence == Bundle # NoEvidence

\* A manifest that is read for the bundle, or a table behind it, is torn
\* (figi, the campaign, is OpenFigiCampaign's).
NameReadable(p) == LatestOf(p) # None => manifest[p][LatestOf(p)] # Torn
TablesReadable(p) ==
    LatestOf(p) # None => Torn \notin {obs[p][LatestOf(p)], cand[p][LatestOf(p)]}

StartAdjudicate ==
    /\ run = Idle
    /\ \A p \in Providers : NameReadable(p)
    /\ HasEvidence
    /\ ~AlreadyAdjudicated
    /\ \A p \in Providers : TablesReadable(p)
    /\ run' = [step |-> "securities", bundle |-> Bundle,
               rows |-> [i \in universe |-> VerdictNow(i)]]
    /\ UNCHANGED <<universe, evidence, verdicts, deaths>>

HasSec(b) == \E k \in DOMAIN sec : sec[k].bundle = b
HasFam(b) == \E x \in fam : x.bundle = b

\* Mutant: the partition is written again, whatever is there.
WriteSecuritiesAgain ==
    /\ run.step = "securities"
    /\ sec' = Append(SelectSeq(sec, LAMBDA x : x.bundle # run.bundle),
                     [bundle |-> run.bundle, rows |-> run.rows])
    /\ run' = [run EXCEPT !.step = "families"]
    /\ UNCHANGED <<universe, evidence, fam, published, deaths>>

\* write-once: an existing partition is left as it is, a torn one too
WriteSecurities ==
    /\ run.step = "securities"
    /\ sec' = IF HasSec(run.bundle) THEN sec
              ELSE Append(sec, [bundle |-> run.bundle, rows |-> run.rows])
    /\ run' = [run EXCEPT !.step = "families"]
    /\ UNCHANGED <<universe, evidence, fam, published, deaths>>

\* Mutant: the manifest goes before the families.
WriteFamiliesLast ==
    /\ run.step = "families"
    /\ published' = published \cup {[bundle |-> run.bundle, rows |-> run.rows]}
    /\ run' = [run EXCEPT !.step = "late_families"]
    /\ UNCHANGED <<universe, evidence, sec, fam, deaths>>

WriteFamilies ==
    /\ run.step = "families"
    /\ fam' = IF HasFam(run.bundle) THEN fam
              ELSE fam \cup {[bundle |-> run.bundle, isins |-> DOMAIN run.rows]}
    /\ run' = [run EXCEPT !.step = "publish"]
    /\ UNCHANGED <<universe, evidence, sec, published, deaths>>

Publish ==
    /\ run.step = "publish"
    /\ published' = published \cup {[bundle |-> run.bundle, rows |-> run.rows]}
    /\ run' = Idle
    /\ UNCHANGED <<universe, evidence, sec, fam, deaths>>

-----------------------------------------------------------------------------
(***************************************************************************)
(* A command dies                                                          *)
(***************************************************************************)
\* The file that was being written, if one was opened.
TearObservations ==
    /\ run.step = "observations"
    /\ obs' = [obs EXCEPT ![run.p][run.d] = Torn]
    /\ UNCHANGED <<cand, manifest, verdicts>>

TearCandidates ==
    /\ run.step = "candidates" /\ Naming(run.rows)
    /\ cand' = [cand EXCEPT ![run.p][run.d] = Torn]
    /\ UNCHANGED <<obs, manifest, verdicts>>

TearManifest ==
    /\ run.step = "manifest"
    /\ manifest' = [manifest EXCEPT ![run.p][run.d] = Torn]
    /\ UNCHANGED <<obs, cand, verdicts>>

TearSecurities ==
    /\ run.step = "securities" /\ ~HasSec(run.bundle)
    /\ sec' = Append(sec, [bundle |-> run.bundle, rows |-> Torn])
    /\ UNCHANGED <<obs, cand, manifest, fam, published>>

TearFamilies ==
    /\ run.step = "families" /\ ~HasFam(run.bundle)
    /\ fam' = fam \cup {[bundle |-> run.bundle, isins |-> Torn]}
    /\ UNCHANGED <<obs, cand, manifest, sec, published>>

TearPublished ==
    /\ run.step = "publish"
    /\ published' = published \cup {[bundle |-> run.bundle, rows |-> Torn]}
    /\ UNCHANGED <<obs, cand, manifest, sec, fam>>

TearNone == UNCHANGED <<obs, cand, manifest, verdicts>>

Ingesting == {"observations", "candidates", "manifest"}

Crash ==
    /\ run # Idle
    /\ crashes < MaxCrashes
    /\ crashes' = crashes + 1
    /\ \/ TearObservations \/ TearCandidates \/ TearManifest
       \/ TearSecurities \/ TearFamilies \/ TearPublished
       \/ TearNone
    /\ disturbed' = IF run.step \in Ingesting /\ manifest[run.p][run.d] \notin {None, Torn}
                    THEN disturbed \cup {<<run.p, IdAt(run.p, run.d)>>}
                    ELSE disturbed
    /\ interrupted' = IF run.step \in Ingesting THEN interrupted
                      ELSE interrupted \cup {run.bundle}
    /\ run' = Idle
    /\ UNCHANGED <<universe, stored, files, figi>>

Work ==
    \/ WriteObservations \/ WriteCandidates \/ WriteManifest
    \/ WriteSecurities \/ WriteFamilies \/ Publish

Next ==
    \/ \E i \in Isins : Grow(i)
    \/ \E p \in Providers, d \in Dates : \E v \in DOMAIN File[p][d] : StartIngest(p, d, v)
    \/ IngestOpenFigi
    \/ StartAdjudicate
    \/ Work
    \/ Crash

Spec == Init /\ [][Next]_vars

\* the ingestion of a registered file, once more
Repeat(p, d) == stored[p][d] # None /\ StartIngest(p, d, stored[p][d])

\* A command that runs goes on, and the operator does not stop repeating
\* ingestions that died and adjudicating what is new (each ends by itself).
FairSpec ==
    /\ Spec
    /\ WF_vars(Work)
    /\ SF_vars(StartAdjudicate \/ \E p \in Providers, d \in Dates : Repeat(p, d))

-----------------------------------------------------------------------------
(***************************************************************************)
(* Properties                                                              *)
(***************************************************************************)
Named(id, i) == IF id = None \/ i \notin DOMAIN id.rows THEN <<>> ELSE id.rows[i]

\* The rows of a partition are the verdicts that the evidence of its bundle gives.
Pinned(b, rows) ==
    \A i \in DOMAIN rows : rows[i] = Verdict(Named(b.gleif, i), Named(b.firds, i))

\* Evidence that lists an issuer, over whose tables no ingestion died
Undisturbed(b) ==
    \A p \in Providers : b[p] # None => Naming(b[p].rows) /\ <<p, b[p]>> \notin disturbed

\* "What pins the input is EvidenceBundle.fingerprint": the verdicts filed
\* under a bundle are the ones its own evidence gives, although evidence is
\* named by its manifest and read from tables that are written before it.
\* Of other evidence it does not hold: a revision that lists no issuer of the
\* corpus leaves the candidates of the one before, and an ingestion that dies
\* leaves tables newer than the manifest.
PinnedInput ==
    \A k \in DOMAIN sec :
        sec[k].rows # Torn /\ Undisturbed(sec[k].bundle) => Pinned(sec[k].bundle, sec[k].rows)

\* A manifest stands for one partition of each kind, wherever a command died, and
\* counts every ISIN of theirs that can be read; unless an adjudication of the
\* bundle died, both hold what it counts.
PublishedWhole ==
    \A m \in published :
        /\ \E k \in DOMAIN sec :
              /\ \A j \in DOMAIN sec : sec[j].bundle = m.bundle <=> j = k
              /\ {sec[k].rows, m.rows} \cap {Torn} = {} => DOMAIN sec[k].rows \subseteq DOMAIN m.rows
              /\ m.bundle \notin interrupted => m.rows # Torn /\ sec[k].rows = m.rows
        /\ \E x \in fam :
              /\ \A y \in fam : y.bundle = m.bundle <=> y = x
              /\ {x.isins, m.rows} \cap {Torn} = {} => x.isins \subseteq DOMAIN m.rows
              /\ m.bundle \notin interrupted => x.isins = DOMAIN m.rows

\* "New evidence or new rules -> new partition, never overwrite": no later
\* command changes a verdict that can be read.
NeverRewritten ==
    [][ /\ Len(sec') >= Len(sec)
        /\ SubSeq(sec', 1, Len(sec)) = sec
        /\ fam \subseteq fam' /\ published \subseteq published' ]_vars

\* An export that died over a snapshot without a manifest is made good by
\* repeating the command (over one with a manifest it is not, nor is a torn
\* manifest, until another revision is published).  Once the evidence of both
\* providers covers the corpus and can be read, its adjudication has a manifest,
\* and a verdict for every ISIN unless its partition is torn.
Exported == \A p \in Providers, d \in Dates :
    \/ stored[p][d] = None \/ manifest[p][d] = Torn
    \/ /\ manifest[p][d] # None
       /\ manifest[p][d].version = stored[p][d] \/ <<p, IdAt(p, d)>> \in disturbed

Covered == \A p \in Providers :
    /\ LatestOf(p) # None /\ NameReadable(p) /\ TablesReadable(p)
    /\ DOMAIN EvidenceId(p).rows = universe

CatchesUp ==
    <>[](Exported /\ (Covered =>
            /\ \E m \in published : m.bundle = Bundle
            /\ \E k \in DOMAIN sec :
                  /\ sec[k].bundle = Bundle
                  /\ sec[k].rows = Torn \/ DOMAIN sec[k].rows = universe))

\* "never picks a winner inside a conflict": no issuer is given to an ISIN for
\* which the two files that the bundle names name one issuer each, and differ.
NoWinnerInConflict ==
    \A k \in DOMAIN sec : sec[k].rows # Torn => \A i \in DOMAIN sec[k].rows :
        LET b == sec[k].bundle
            says(p) == IF b[p] = None THEN <<>> ELSE File[p][b[p].date][b[p].version][i]
        IN  State(says("gleif"), says("firds")) = "conflict" => sec[k].rows[i].lei = None

(***************************************************************************)
(* The ingests implement ResolutionSnapshots                               *)
(***************************************************************************)
Slots == Providers \X Dates

PairsOf(rows) ==
    {x \in (DOMAIN rows) \X Leis : \E n \in DOMAIN rows[x[1]] : rows[x[1]][n] = x[2]}

Export ==
    IF run.step \in Ingesting
    THEN [step |-> run.step, slot |-> <<run.p, run.d>>, of |-> run.of,
          pairs |-> PairsOf(run.rows)]
    ELSE Idle

ObservedAt ==
    [s \in Slots |-> LET o == obs[s[1]][s[2]] IN IF o = None THEN {} ELSE o]
CandidatesAt ==
    [s \in Slots |-> LET c == cand[s[1]][s[2]] IN IF c = Torn THEN Torn ELSE PairsOf(c)]
NamedAt ==
    [s \in Slots |->
        LET m == manifest[s[1]][s[2]]
        IN  IF m \in {None, Torn} THEN m ELSE [of |-> DOMAIN m.rows, pairs |-> PairsOf(m.rows)]]

Snapshots == INSTANCE ResolutionSnapshots WITH
    obs <- ObservedAt, cand <- CandidatesAt, named <- NamedAt, run <- Export

\* What the verdicts are derived from is exported as ResolutionSnapshots says,
\* which the record-by-record ingests of ProviderEvidence implement too.
ImplementsSnapshots == Snapshots!Spec
=============================================================================
