# TLA+ verification of cnmv-iic (OpenFunds)

`cnmv-iic` downloads what the CNMV publishes about Spanish investment funds (a
monthly ZIP of XML, the weekly registry bulletin, the relevant-information
pages), joins it with provider files (GLEIF, FIRDS, OpenFIGI), stores every
byte immutably and derives a Parquet dataset each row of which names the
artifact it came from. It is a set of command-line programs over one data
directory: no server, no lock, no transaction. What is hard about it is not
throughput but *order*: what happens to the directory when commands die, are
repeated, or meet a source that corrects itself.

All paths below are relative to `src/src/cnmv_iic/` unless they start with `src/`.

## 1. Inventory

| Component | State it keeps | Operations | Correct when |
|---|---|---|---|
| Artifact store, `artifacts/store.py` | `raw/<sha><suffix>`, `artifacts.jsonl` | `put`, `put_blob`, `latest_for_period`, `get` | every ledger line has its whole bytes; the versions of a key form one chain |
| Period ingest, `ingest.py` | none of its own | `update_period`, `export_artifact`, `backfill_periods` | after a success the dataset is that of the latest version; a backfill reports every period and can be resumed |
| Period partitions, `storage.py` (`write_period`) | Parquet tables, `manifests/<period>.json` | one export | the manifest never names tables that are not there; no row without a registered source |
| Verification, `verify.py` | none | `verify_dataset` | what it passes can be trusted |
| Weekly and HR crawls, `lifecycle_ingest.py`, `acquisition/weekly.py`, `acquisition/hr.py` | `weekly_index.json`, `hr_index.json` | `acquire_weeks`, `acquire_hr` | evidence is taken once; a restarted crawl settles; the indexes do not overstate the store |
| Bulletin and notice parsers, `adapters/weekly_registry.py`, `adapters/relevant_information.py`; ledgers of `lifecycle_ingest.py` | none (pure) | `weekly_ledger`, `hr_ledger`, `_link_hr_corrections` | each act of a bulletin is one assertion, in whatever layout the PDF comes; each notice is read once and a correction points at what it corrects |
| Lifecycle evidence, `lifecycle_research.py`, `lifecycle_adjudicate.py` | none (pure) | participants, profiles, R1–R7, edges | conclusions follow the evidence, and conflicts stay conflicts |
| Lifecycle export, `lifecycle_storage.py`, `cli.py` | lifecycle tables, `lifecycle/manifest.json` | `lifecycle-export`, last step of `sync` | lineage on disk is backed, coherent when verified, and never flips |
| OpenFIGI campaign, `openfigi_client.py`, `adapters/openfigi.py` | a directory of batches per day | `fetch-openfigi`, `ingest-openfigi` | answers belong to the ISIN they are given to; gaps are told; resuming completes |
| Provider files, `provider_ingest.py`, `adapters/gleif_isin_lei.py`, `gleif_golden.py`, `firds_fulins.py` | tables and manifest per provider and date | `ingest-gleif`, `ingest-gleif-golden`, `ingest-firds` | a manifest stands for the bytes registered last; the extraction is closed; the context read from it is what the files say |
| Security adjudication, `adjudication.py`, `storage.py` | write-once partitions per evidence bundle | `adjudicate` | verdicts follow the pinned bundle, are never rewritten, never pick a winner in a conflict |
| Fund identity, `identity.py` | none (pure) | `resolve`, `diff_registry` | an identifier has one answer or none; what differs between two registries is an event on every way through a third |
| Queries, `query.py`, `api.py` | none | ~30 read operations, `portfolio_diff` | an answer is of one published version; a diff accounts for every row; exposures and comparisons add up |
| XML and page parsers, other `adapters/*.py` | none (pure) | bytes to rows | — |
| Clients, `acquisition/client.py`, `acquisition/months.py` | none | one HTTP request, month arithmetic | — |
| Schemas, domain records, `cli.py` plumbing | none | — | — |

**How they interact.** By calls inside one process, and by files between
processes. `update`, `backfill` and `sync` call the store and then the period
export; exported positions define the *corpus* of ISINs; the crawls consult the
store (`latest_for_period`), not a checkpoint, to know what is done; the
lifecycle export reads the store and the registry tables of every month;
provider ingests join a file with the corpus of that moment; adjudication reads
the tables of the latest evidence of each family but names its input by their
manifests. `verify` and the queries read everything and write nothing.

**What is hard.** (1) Every export is a sequence of file writes with the
manifest last: what does a reader, or the next command, find if it stops in
between? (2) "Already done" is decided from what is on disk, so each shortcut
(`is_new`, a fingerprint that is present, a stored page, an equal batch, a
manifest of the same bundle) may be taken in a state it was not meant for.
(3) Sources correct themselves, publish late and in either order, and may return
to earlier bytes. (4) The corpus grows while evidence that was joined with it
does not. (5) Two processes may run at once, without a lock.

## 2. Modules

| Module | Models | State and its counterpart |
|---|---|---|
| `VersionHistory` | abstract: what the ledger promises | `history` (all versions), `latest` |
| `ArtifactStore` | `put`/`put_blob`, one action per file operation | `ledger`, `tail` = `artifacts.jsonl` and how it ends; `raw` = `raw/`; `pc`, `req`, `prior`, `result` = locals of each writer's put; `KeysOf` (constant) = the keys a process puts |
| `PeriodDataset` | `update_period`, `export_artifact`, `backfill_periods`, `write_period`, the period part of `verify_dataset` | `history`, `latest` = the store (`VersionHistory`); `site` = what CNMV serves; `raw` = stored ZIPs; `tables`, `manifest` = the dataset; `cmd` = locals of the command; `answer` = what it printed |
| `LifecycleLedgers` | `_units` of a bulletin line by line, its acts and assertions; classification of notices; `weekly_ledger`, `hr_ledger`, corrections | none: operators on stored documents |
| `SourceAcquisition` | `acquire_weeks`, `acquire_hr` | `ledger` = the store's entries of both families; `windex`, `hindex` = the two index files; `run` = locals, the index in memory included |
| `LifecycleEvidence` | participants, evidence profiles, R1–R7, edges, candidates, markers | none: operators on sets of assertions and a registry |
| `LifecycleExport` | `lifecycle-export` over time, lifecycle part of `verify` | `ledger` = assertions of all stored documents; `registry` = the funds table of each month; `tables`, `manifest` = `lifecycle/`; `step`, `rows` = locals |
| `OpenFigiCampaign` | planning, fetching, resuming and ingesting a campaign | `batches` = the campaign directories; `run` = the batches ahead; `evidence` = what ingestion wrote |
| `ProviderEvidence` | the three file ingests record by record, their gates, registration of a bundle file by file, extraction and one-hop closure, tables, manifest; the context of a conflict | `universe` = ISINs of stored positions; `latest` = the version registered last per dedupe key; `tables`, `manifest` per provider and date; `run` = locals |
| `SecurityAdjudication` | GLEIF/FIRDS ingest, bundle, verdicts, write-once export; a command dies between two writes or inside one, whose file is torn | `stored`, `obs`, `cand`, `manifest` = the snapshots; `sec`, `fam`, `published` = the adjudication partitions; `disturbed`, `interrupted` = history: what commands died over |
| `ResolutionSnapshots` | abstract: what an adjudication may count on of the resolution tables | `universe`; `obs`, `cand`, `named` = rows of the tables and of the manifest per provider and date; `run` = the export being written |
| `PortfolioDiff` | matching and classification of two snapshots, `position_history` | none: operators on position rows |
| `FundIdentity` | `resolve`, `diff_registry` | none: operators on registry rows |
| `IssuerExposure` | `funds_exposed_to`, `resolution_coverage`, `resolution_conflicts` | none: operators on positions and one adjudication |
| `Reconciliation` | `patrimony_reconciliation`, `derivative_reconciliation` | none: operators on the rows of a period |
| `DatasetQueries` | an export table by table, which may die, beside `holdings` read by read; asks the four modules above of the stored tables | `file` = the version each of eight tables of a period is of, or torn; `writer`, `reader` = locals; `answer` = what `holdings` returned |
| `*_proofs` | theorems about the module of that name | |
| `MC*` | instances for TLC: small constants only | |

Composition. `PeriodDataset` instantiates `VersionHistory` for the store, and
`ArtifactStore` is shown to implement `VersionHistory` for the keys that one
process puts, whatever others put beside it and failures included, which is what
entitles the other modules, where one command runs at a time, to treat a put as
one step.
`SourceAcquisition` extends `LifecycleLedgers`, so that its properties are about
the acts and notices that the stored documents amount to, and not only about which
documents are stored. `LifecycleExport` extends `LifecycleEvidence`, and its
instance derives part of its assertions from documents through `LifecycleLedgers`.
`DatasetQueries` extends the four pure query modules. `ProviderEvidence` and
`SecurityAdjudication` meet at the resolution tables: the first has them record by
record for one adjudication context, the second has the issuers listed per ISIN
and what many adjudications make of it. Both implement `ResolutionSnapshots`: an
export is of the whole corpus of one moment and covers it row for row, its tables
come before its manifest, which names what was exported, the file being written
may be lost to a dying command, and nothing else changes a snapshot.
(`ProviderEvidence` has commands die between writes only.) This is what entitles
the verdicts to be studied over the simpler ingest. Neither implements the other:
files are registered one by one in `ProviderEvidence`, before anything is
extracted and with the golden copy in between, and in one step in
`SecurityAdjudication`, so that what is registered corresponds only once a
snapshot is exported.

Conventions. A command's local variables are model variables, because losing
them is what a crash does. A file that is replaced as a whole is one step; a
file that is written in place can be left torn where the property is about it.
Operators commented `Mutant:` are plausible slips of the code next to the
definition they distort; substituting one must break the property it is paired
with in `PROJECT.json`, which shows that the property depends on the code. No
module uses RECURSIVE; iteration is a fold or a function, so that every module
can be proved about.

## 3. Runs

| Run | Question | Bounds |
|---|---|---|
| `store` (1 190 493 states) | With two processes that put at once and fail inside and between file operations: is every ledger line backed, are answers honest, does a `supersedes` name an earlier entry of its key, and is the history of a key that one process puts a chain that implements `VersionHistory`? | 2 processes with a shared key and one of their own each, two of the keys with a suffix, hence raw files, in common; 2 payloads, 4 entries |
| `dataset_update` (1 110 164) | Rows traceable, "downloaded"/"exported" honest, what `verify` passes is the latest version, manifest last, never a superseded version written over a newer one; where does a backfill stop? | 1 period, 2 readable versions (one drops FONDCART), one unreadable and one that does not decompress, 1 crash (may tear a file), 1 lost ZIP, dataset of an early release or none |
| `backfill` (525 568) | Is every publishable period eventually complete, and every period reported before the one a backfill stops at? | 2 periods, 3 versions (one does not parse, one does not decompress), 1 crash between steps, failures without bound |
| `dataset_latest` (**violated**) | Do commands that report success leave the latest version exported? | 1 period, 1 crash |
| `lifecycle_export` (1 062 564) | Edges backed, verified read model coherent, successor never flips, conflict never resolved, tables settle | 3 funds, assertions that agree, disagree and contradict, 2 months, 2 imports, 1 crash |
| `lifecycle_rules` (**violated**) | Are outcomes those of the registered rules? | 2 assertions |
| `source_acquisition` (861 296) | Is every act and every notice in the ledgers once, with its correction linked; indexes backed; does the crawl settle? | 2 weeks with the same acts laid out in two ways each, 4 disappearances of 3 funds (one twice, one sealed, one known by its search page alone), 1 failure, 1 kill |
| `openfigi_campaign` (92 165) | Answers faithful, gaps told, resuming completes | 3 ISINs (one arrives later), 2 days, 1 failed batch, 1 abort |
| `provider_bundles` (239 465) | Manifests current, closure complete, context of a conflict that of the snapshot, ISIN ingests are exports of `ResolutionSnapshots` | 2 ISINs (one later), 4 issuers, 2 dates, corrected LEI, relationship and FIRDS files, a letter of two parts, 1 crash |
| `security_adjudication` (174 301) | Do verdicts follow their bundle, what does a manifest stand for, is nothing rewritten; are the ingests exports of `ResolutionSnapshots`; do evidence and verdicts come to cover the corpus? | 2 ISINs (one later), 2 issuers, GLEIF on two dates with one file republished without an issuer and one that lists an issuer twice, FIRDS once, 3 registrations or OpenFIGI campaigns, 1 crash between writes or inside one |
| `security_conflict` (**violated**) | Does adjudication never pick a winner inside a conflict? | 2 ISINs, no crash, no republication |
| `dataset_queries` (437 593) | Diffs conserve rows and compose, registry events accumulate, exposures tile, reconciliations cohere, also over tables that two versions left; is what `holdings` answers while exports run and die that of one registry and one portfolio? | 4 months, two of them in two versions, 1 export that dies; 3 owners under two entity types; an ISIN twice, rows without ISIN that look alike, an absent owner, a compartment that goes and comes back, a version without quarterly figures; 5 identifiers and 2 dates, asked while two of the months have files (`Beside`) |

Why the bounds are enough. Every action is reached in these runs, and each bound
is the smallest for which the case that makes the property hard occurs: two
versions for "superseded", three for A, B, A; two keys with one suffix for raw
files shared between keys; two processes with a key in common for two entries
that supersede the same one; two periods for a failure that ends a range early;
two months for a disappearance; two assertions that disagree plus one that
contradicts for rules R1–R3 against R4; one ISIN later than the others for a
corpus that grows between two ingestions; two files of one date for evidence that
is revised, and a second date for the choice of the latest; a bundle of three
files of which one is corrected; three months for a composition of two diffs, and
a fourth, between two of the half-yearly ones, with a registry alone. `holdings`
reads one portfolio and one registry at most as late: two months hold every
choice it has, and the other two only multiply its interleavings. One crash can
hit any step, and since nothing but the directory survives it, a second one only
repeats the situation from a state the first can also leave. The theorems of
section 5 remove the bounds for most safety properties. Symmetry is not used: the
runs are small without it and many check temporal properties. Without a lock the
versions of a key that two processes put may fork, which is why `VersionChain`
and `ImplementsVersionHistory` are about the keys that one process puts.

Deadlock checking is on in every run but the two of `SecurityAdjudication`: there
nothing is left to do when the registrations that the bound allows are used up,
since a command that only answers from a manifest, or fails to read it, is no
step.

**Fairness.** A command that runs goes on to its end unless it dies (WF on the
command's steps: `Operator`, `FetchStep`, `Work`, `WeekStep \/ HrStep`; the code
never waits for anything but requests that have timeouts). Crashes and failures
of a bounded number may hit anywhere. What is started by hand is assumed to be
started again and again (SF on `StartBackfill`, `StartWeeks(1, Weeks)`,
`StartFetch` of some batch size, `Ingest(today)`, and on "adjudicate or repeat an
unfinished ingest"), which is how the documentation tells operators to use the
resumable commands; each of these carries only the liveness property about
resuming. `PeriodDataset` also assumes that a download that is tried for ever
succeeds at last (SF per period, for the download step alone); without it
CNMV's failures could last for ever. A period whose published ZIP does not
decompress ends every backfill before the periods behind it, so that
`BackfillResumes` asks that CNMV in the end publishes none. `LifecycleExport` has
WF on "a step of an export that is not a crash, the start of one included": an
export is run again some day after the last import, and goes on once it runs.

## 4. Disagreements between code and documents

Shown by a run:

1. `dataset_latest`: `export_artifact` decides with `is_new` (a local variable)
   and with the presence of fingerprints, never with the artifact the manifest
   names. A correction stored by a command that died before `write_period` is
   reported "complete" ever after (`ingest.py:130`;
   `src/docs/architecture/temporal-semantics.md:24-26`).
2. `lifecycle_rules`: R4 accepts any merger notice, a mere proposal included
   (`lifecycle_adjudicate.py:102`; `src/docs/g9/adjudication-rules.md:63`).
3. `security_conflict`: a stored file is joined with the corpus once; an ISIN
   that arrives between two ingestions is resolved from one provider although
   the other's stored file names another issuer (`provider_ingest.py:116`;
   `adjudication.py:4`).

Seen while modelling, without a run of their own. Where a property had to be
stated around one of them, this says so.

*Store and periods*

- Bytes A, B, A of one key give two ledger entries with one `source_id`, while
  `store.py:8` says that the same bytes give the same artifact.
- "Per-period failures are isolated and reported, never silent"
  (`ingest.py:383`) holds of what is a `CnmvIicError`. Three failures are none and
  end the backfill without a report on its period or on those behind it: a
  published ZIP with a sound directory and a damaged member passes `validate_zip`
  and raises inside `store.put` (`artifacts/store.py:194`, past `ingest.py:423`); a
  manifest torn by a crash raises outside the per-period `try` (`ingest.py:395`);
  and a stored ZIP that is gone cannot be opened. `BackfillStopsOnlyAt` names these
  three (`Blocked`) and holds everything else to the sentence; the `backfill` run,
  which asks what repeating it achieves, has no torn file.
- A raw ZIP that is lost is downloaded again but not stored again when its bytes
  are the latest ones (`ingest.py:410`).
- A correction that drops a family leaves the rows of the superseded version
  (`storage.py:782`), and `verify`, which re-parses the source for all families
  but the registry, passes. `FreshExport` speaks of the families of the exported
  version for this reason.
- For the same reason `VerifiedDataset` excepts, after a crash, the tables that
  `verify` does not read back: when a correction's export dies halfway and the
  source returns to the earlier bytes, tables of two versions pass under a
  manifest of the latest.

*Crawls, bulletins and notices*

- A week without a document when it was first asked for is never asked for
  again (`lifecycle_ingest.py:213`); a weekly index torn by a kill stops every
  later crawl (`:284`), hence the exception in `CrawlSettles`; a fund whose
  history pages fail once never gets the rest of them (`:581`).
- A correction is linked on the pages stored so far (`:806-809`), so after a
  crawl that failed at `:581` it may be linked to one of two notices of a day.
  `NoticesOnce` asks for the right link only once all pages are stored.
- `hr_ledger` keeps one resolution per fund and overwrites it page by page (`:702`).
- Inside a sentence, a line of capitals with a bare number within three lines is
  taken for a table row (`weekly_registry.py:313`), and `pending_table` is never
  reset by a plain header. The layouts of the instance keep them apart. A row
  stays eligible as the subject of an act after other name lines.
- `relevant_information.py` says that AUTHORIZED is never promoted to EXECUTED,
  but tests the words of EXECUTED first; `MERGER_PROPOSED` (`lifecycle.py:67`)
  is emitted by no parser.

*Providers and adjudication*

- An OpenFIGI campaign resumed under another batch size plans other batches, and
  every ingestion of that day refuses ISINs that two batches mapped
  (`openfigi_client.py:228` against its own line 22). `CampaignCompletes` is about
  campaigns planned one way.
- A read timeout is no `URLError`: it leaves `run_campaign`, against the comment
  at `openfigi_client.py:242`; the model has it as `Abort`.
- What pins a verdict is not always what it was derived from
  (`adjudication.py:10`). A republished file that names no ISIN of the corpus
  leaves the candidates of the one before (`storage.py:1006`). An ingestion that
  dies over a snapshot exported before leaves new tables under an old manifest, and
  repeating it does not help, since the file is registered and the old manifest
  answers (`provider_ingest.py:116`). Adjudication then files verdicts of the one
  under the fingerprint of the other. Both cases are in the run; `PinnedInput`
  excepts them (`Undisturbed`), and without the exception TLC finds each.
- A torn manifest makes every later ingestion and adjudication that reads it fail
  (`storage.py:1045`). This too lasts until another revision is published:
  `CatchesUp` excepts it and dying over an export, `ManifestCurrent` excepts such a
  date (`behind`).
- An adjudication that dies inside a partition leaves a file that a repetition
  does not write again, since it exists, and publishes (`storage.py:689`, `:1486`),
  although "an existing manifest means the derivation already ran"
  (`adjudication.py:392`). `PublishedWhole` says what remains: one partition of
  each kind, which may be torn where a run of the bundle died.
- The letters of one FIRDS date ingested in turn replace one another's evidence,
  and giving the first ones again answers from the manifest of the others
  (`storage.py:994`: "append-only, never overwritten").
- A corrected file that is listed twice in one `ingest-firds` counts as known
  (`provider_ingest.py:476`), so the manifest of the older bytes answers; parts
  that disagree about their total pass or fail the completeness gate by their
  order (`:448`). The theorems assume neither (`ProperBundles`).
- The merge of raw and extracted relationships never finds a duplicate, since the
  two differ in `source` (`adjudication.py:479`).
- An adjudication that dies between its tables and resumes after the corpus grew
  publishes a manifest that counts ISINs its first table lacks
  (`storage.py:1486`). `PublishedWhole` asks that a manifest counts all that a
  partition has, and no more unless a run of the bundle died.

*Queries*

- Queries serve the adjudication with the latest timestamp (`query.py:2069`),
  although evidence may have returned to an earlier bundle.
- Where no registry resolves it, a bare number matches the registry number of every
  entity type (`query.py:286-288`), although `identity.py:8` reads it as FI.
- `holdings` answers a well-formed key that no registry has as exact, with no
  rows (`query.py:222-234`), and does not disclose the registry month it used.
- SQL sums ignore NULL: a class without a value or a currency drops out of one
  side of a reconciliation (`query.py:794`). `ReconciliationCoheres` asks where
  every class has a match of its own.
- ISINs that enter the corpus after an adjudication are in the valid value of a
  coverage section but in none of its parts (`query.py:2334`); hence the
  inequality in `ExposureTiles`.
- A version without rows of a table leaves those of an earlier one
  (`storage.py:782`), so quarterly figures can be compared with a patrimony of
  another version. `ReconciliationCoheres` holds of such mixtures too.
- A view is made of every table before a query runs (`query.py:50`), so that one
  file being written fails queries that would not read it.
- `--previous` is said never to skip "a measured published snapshot"
  (`query.py:1602`, `src/docs/g6/contract.md:154`), and to take "the owner's latest
  available snapshot" (`query.py:1597`); the two are not one when the month due is
  loaded and does not report the owner (`:1651` against `:1661`). The tests ask for
  the latest available one, off-cadence months included
  (`src/tests/test_portfolio_diff.py:234`). No property is stated of it.
- `portfolio_diff` names the earlier period of its first compartment only;
  `identity_events` of an ISIN that the later registry lacks is empty
  (`query.py:553`).

## 5. Proofs

Checked by TLAPS for every value of the constants that meets the named
assumptions of the modules, and the hypotheses given here. 38 theorems in 8
modules. With them every safety invariant and every action property of a passing
run is a theorem; four say what no run asks:
`ActsAreKept` and `NumbersAreKept`, and the type invariants of the two modules
whose runs leave them to the proof (`TypeCorrect`).
A hypothesis that is not an assumption of a module is met by the instance of the
run that checks the property; each says below why the code or the documents at
hand entitle one to it.

**`ArtifactStore_proofs`** (any number of writers, any keys each):

| Theorem | States |
|---|---|
| `TypeCorrect` | `TypeOK`. Needs that an index a writer read as latest stays inside the ledger, which only grows |
| `BackedLedger` | `LedgerBacked`. Inductive with: a writer about to append has its raw file whole, and no raw file is ever partial (only `os.replace` creates one), so that an existing name can be trusted |
| `SupersessionEarlier` | `SupersedesEarlier`: what a writer read as prior is an entry of its key that stays where it was |
| `AnswersRegistered` | `AnswerRegistered`: a writer that answered has its entry in an unreadable or a backed ledger |
| `OwnKeyChain` | `VersionChain`, for the keys that one process puts. Inductive with: between its read and its append the prior entry is still the latest |
| `OwnKeysImplement` | `ImplementsVersionHistory`, for the same keys; a step maps to `Publish` or to a stutter, those on other keys to a stutter. Inductive with: every key has a latest index |

**`PeriodDataset_proofs`** (any periods, versions, crashes and lost ZIPs):

| Theorem | States |
|---|---|
| `RowsAreTraceable` | `RowsTraceable` |
| `SuccessIsFresh` | `FreshExport` |
| `ManifestComesLast`, `OnlyLatestWritten` | the action properties `ManifestLast`, `WritesLatest` |
| `VerifiedIsLatest` | `VerifiedDataset` |
| `BackfillStopsWhere` | `BackfillStopsOnlyAt`: torn files, lost ZIPs and ZIPs that do not decompress included. Inductive with `ReportedInv`: the periods a backfill has passed are reported |

One invariant carries all but the last. `ExportInv`: a command that exports
holds the latest version of its period (one command runs at a time, so nobody
publishes in between), and the sections before the one it is at hold that
version. `AheadInv`: nothing has been reported yet of the periods ahead.
`WholeInv`: as long as no command has died, a manifest speaks for every table it
has a fingerprint of. `StepAfterIs` computes the order of the sections from
`WriteOrder` once.

**`LifecycleExport_proofs`** (any funds, months, assertions, any number of imports and crashes):

| Theorem | States |
|---|---|
| `TypeCorrect` | `TypeOK`; in particular R4 always finds a successor, so an edge joins two funds |
| `EdgesAreBacked` | `EdgesBacked`, at every moment of every export |
| `SuccessorIsFinal` | `SuccessorNeverFlips` |
| `ConflictIsFinal` | `ConflictNeverResolved` |
| `VerifiedIsCoherent` | `VerifiedReadModel` |

The argument. Evidence profiles are monotone: more assertions name the same
successors and types, and maybe more (`SuccessorsMonotone`, `TypesMonotone`,
`AbsorbedMonotone`), and they are blind to registry markers, which, unlike
assertions, come and go when a month is corrected; a marker has no absorbed or
absorbing participant and none of the types of R1–R3. `Grown(K, L)` says that
L has the assertions of K, markers apart. So R1, R2 and R3, once one of them
applies, keep applying one way or another (`StuckMonotone`), while R4 needs
*exactly one* successor (`AbsorbedByOne`). The invariant `EdgeInv` adds the
running export: the assertions it derives from include those every published
edge was concluded from, and name a single successor for each fund it is about
to publish. A new edge of a fund that has a published one therefore names the
same successor. `ConflictInv` is the same with "stuck" for "has this
successor". Finiteness of `Funds` is used where cardinalities are compared.
`EdgeInv` is inductive on its own: neither types nor the order of the files
matter, which is why the theorems hold wherever an export dies. That R4 accepts
proposals (section 4) does not break them.

**`SourceAcquisition_proofs`** (any weeks, candidates, pages, failures, kills):

| Theorem | States |
|---|---|
| `IndexesAreBacked` | `IndexesBacked` |
| `WeeksEnterOnce` | `ActsOnce`, if the layouts of a bulletin agree (`LayoutsAgree`) |
| `NoticesEnterOnce` | `NoticesOnce`, if corrections are linked as they are meant when every page is at hand (`CorrectionsOfAllPages`) |
| `ActsAreKept` | about `_units`, for any lines in any order: each verb line heads one act of its own, in the order of the document, and an act has no second verb |
| `NumbersAreKept` | about `_units`, for any lines in any order: a number printed alone on a line is in a unit |

`IInv` adds the index a crawl holds in memory: an entry is only made of what is
stored, and the ledger only grows, so an index may be written late, or lost with
its run, without ever overstating. `DocInv` says which documents are stored: one
of a week at most (`StoredOnce`: `PriorRoles` looks before a crawl downloads),
each page of a fund once, and a search page before its history pages; while a
crawl is at a page, the pages behind it are stored and that one is not
(`AtPage`). The ledgers flatten the rows of the documents; rows of documents
that come once come once (`RowsOnce`, by induction over the documents). Whether
two layouts of one bulletin read as the same acts is a question about the lines
they are made of: that is what `LayoutsAgree` leaves to the instance, where TLC
reads them through `_units`, while the two last theorems say what the reader does
on any lines at all. Their invariant `Reads` is kept line by line: it relates the
units so far, the name and the act being collected and the row an act may still
take (`RowIs`) to the lines read. It is the row that makes them hard: `OpenAct`
removes a unit, and its number survives only as the number of the act (or, when
no act is opened, where it is).

**`OpenFigiCampaign_proofs`** (any corpus, batch sizes, days, failures):
`AnswersAreOfTheIsin` states `EvidenceFaithful`, `CompleteIsAnswered` states
`CompleteMeansAnswered`. `Inv` says that stored batches have an answer in the
place of every job (`StoredInv`); the planner's batches are shown to be tuples
for any corpus and size.

**`SecurityAdjudication_proofs`** (any ISINs, issuers, files):

| Theorem | States |
|---|---|
| `PublishedIsWhole` | `PublishedWhole`, wherever commands die, inside a partition too. Inductive with `WholeInv`, below |
| `VerdictsAreFinal` | the action property `NeverRewritten`, from the same invariant |
| `RowsArePinned` | `PinnedInput`, for any files and any number of dying commands. Inductive with `PinInv`: the tables of a snapshot that lists an issuer are those its manifest fingerprints, except of the one being written and of those in `disturbed` |
| `IngestsAreExports` | `ImplementsSnapshots`, wherever an ingestion dies, inside a file too. A repeated ingest is a new export, an adjudication is a stutter |

`WholeInv` has one partition of a kind per bundle, torn ones included, securities
before families before the manifest. What makes it inductive is what it says of a
bundle that has partitions and no manifest: its run goes on, or died and left the
bundle in `interrupted` (`SecInv`, `FamInv`). Only there may a partition be torn or
count less than a later run does; and since the corpus only grows, it counts no
more (`RunInv`).

**`ProviderEvidence_proofs`** (any files, dates, growth of the corpus, crashes;
`ProperBundles`: no file twice in a bundle, parts of a letter agree on their number):

| Theorem | States |
|---|---|
| `ManifestsAreCurrent` | `ManifestCurrent` |
| `ClosureIsComplete` | `ClosureComplete`, if a LEI file has one record per entity (`OneRecordEach`) |
| `ContextIsOfSnapshot` | `ContextOfSnapshot`, if the LEI and the relationship files of a date are of one key each (`OneKeyEach`) |
| `IngestsAreExports` | `ImplementsSnapshots`, without `ProperBundles`. A step maps to an export's or to a stutter (all of the golden copy's do); the abstract export starts when the rows are extracted |

A manifest loses an artifact to a newer version only while a command on the same
provider and date is at work. That command then knows a new file (`PutInv`:
what it found new is among the files it has registered), so it cannot answer
from the manifest: it writes another, or dies, which `behind` remembers.
`WriteInv` keeps the tables not left to write equal to the rows extracted. For
the golden copy `GoldenInv` adds that the rows are those of one LEI and one
relationship file for *some* set of wanted issuers; closedness (`SnapshotClosed`)
and the profiles (`ProfilesAre`) hold for any such set, which is why candidates
that come later do not matter. `IngestsAreExports` rests on what the extraction
gives: one observation of every ISIN of the corpus, and candidates for ISINs of
the corpus only; and on tables being written in the order the code has them in.

Both refinements need that `None` is told apart from data, which the model value
`None` of the instances is: `SecurityAdjudication` assumes it of `None` and of
`Torn` (`NoneAssumption`, `TornAssumption`), and `IngestsAreExports` of
`ProviderEvidence` has it as a hypothesis (`NoneIsNoManifest`).

**`DatasetQueries_proofs`** (any versions, identifiers and steps):

| Theorem | States |
|---|---|
| `DiffsConserve` | `DiffConserves`, from `OnePairEach`: a row is in one pair at most |
| `UnchangedIsTransitive` | `UnchangedComposes`: a row matched in both steps is alone of its ISIN, or of its signature, in all three portfolios |
| `EventsAddUp` | `EventsAccumulate`, for each kind of event in turn |
| `OneVersionAnswers` | `AnswerOfOneVersion`. `Inv`: a table is of a version of its period or torn, classes appear after compartments, and a resolution is at any moment that of one version (`ReaderInv`) although classes and compartments are read apart |
| `ExposuresTile` | `ExposureTiles`: the exposures to the issuers and the coverage classes are both a partition of the same amounts |
| `ComparisonsCohere` | `ReconciliationCoheres`, whatever the signs of the figures and whichever are missing |

The diffs, registry events, exposures and reconciliations are facts about the
operators for any sets of rows, asked of the tables of a state, which may be of
several versions; `holdings` is about the interleaving.

**How sums and readings are proved.** The library's induction theorems take an
operator and cannot be used. An induction over one fixed set can: `NatSetInduction`
(a set of naturals with 0 and with the successor of each of its members is `Nat`),
from the well-foundedness of `<`, is applied to the set of n for which the fact
holds. From it come the defining equation of the library's fold over a set, the
laws of a sum (`SumFirst`, `SumAgrees`, `SumAdds`), those of `FlattenSeq`, and
what the function `Units` is made of says after n lines. This works where what is
needed of an iteration is one invariant of it; it does not give what an iteration
computes in general.

**Model-checked only.** All liveness properties (`BackfillResumes`,
`ExportCatchesUp`, `CrawlSettles`, `CampaignCompletes`, `CatchesUp`): the prover
has no rule for fairness and ENABLED that would reach them. That the two layouts
of a bulletin in the instance do read alike (`LayoutsAgree`) and that its
corrections are linked as meant (`CorrectionsOfAllPages`) is evaluated by TLC as
part of `ActsOnce` and `NoticesOnce`.

## 6. What is not modelled

- XML and page parsers, schemas, domain validators: pure functions of bytes. What
  a parse yields is a constant (`Members`, `Rows`, `Parseable`, `Says`, `File`,
  `About`, `Page`, `Zip`). The bulletin and notice parsers, which keep state
  between lines, are modelled from what the regular expressions tell of a line.
- HTTP: view-state, redirects, origins, byte caps, pacing, back-off. A request
  is one outcome, an answer or a failure after the client's retries.
- The fields of rows, names, texts, reports and fingerprints' digests. A
  fingerprint is the content it is taken over.
- A machine crash that loses what a completed system call wrote.
- Of `query.py`, the lookups that select rows of one table (`funds_holding`,
  `fund_info`, `daily_series`, `quarterly_metrics`, `security_evidence` and the
  like), the choice of the earlier snapshot by `--previous` (section 4), and the API
  that routes to them: what each of
  them reads is one WHERE clause (`fund_info` reads three tables apart, with the
  hazard that `AnswerOfOneVersion` is about in `holdings`).
- Of `verify.py`, the provider and adjudication checks and the aggregation of
  verdicts.
- `sync` as one command: `update`, the crawls and the export are modelled from
  any state the others leave, which is all that one sees of another.

## 7. What a next step would add

1. `sync` (`cli.py:1181-1306`) over abstract versions of its three steps, with a
   failing one; the aggregation of verdicts in `verify` as an abstract
   specification over the modules' `VerifyOk`.
2. The SQL lookups, if they grow joins.

The violated runs are kept as regressions for the three disagreements: when the
code changes, the model follows it and the run turns into one that passes.
