# Specifications of the payments data platform

TLA+ specifications of the platform in this repository: a change-data pipeline
(Postgres → Debezium/Kafka → bronze → silver → gold, on Iceberg) with a serving API on
top, and a batch pipeline into Snowflake beside it. The modules are written from the
code; `PROJECT.json` says for every definition which lines it stands for.

## 1. Inventory

| Component (code) | State it keeps | Operations | Correct when |
|---|---|---|---|
| **Source and connector** (`config/postgres`, `config/connect`; external) | payments table, WAL, connector offset, Kafka topic | insert/update/delete; publish; flush offset; restart | (assumed) in WAL order, at least once |
| **Bronze job** (`config/spark/jobs/bronze_from_kafka.py`) | `payments_bronze`, its streaming checkpoint | plan batch, mask, append, commit, replay check | every record once; a replay is noticed before silver reads it |
| **Silver job** (`silver_payments.py`, `payment_rules.py`) | `payments_silver`, `payments_dlq`, its checkpoint | plan batch, dead-letter, validate, MERGE, commit | the newest change of each payment; never back; rejects once; no bad rows |
| **Gold job** (`gold_metrics.py`) | `gold_payments_hourly` | INSERT OVERWRITE | the report on one state of silver |
| **payments_pipeline DAG** (`airflow/dags/payments_pipeline.py`) | active run, task, attempts | trigger, succeed, retry, give up | one run at a time, tasks in order |
| **Gold API** (`api/src`) | `SnapshotCache`, one repository | hourly page, summary, health, ready | no answer is older than its request's arrival; the cache mixes up no endpoints, pages or spellings of filters |
| **Console** (`api/src/console.html`) | what is shown | load, load more | lists each row once and misses none that stayed |
| **Snowflake runs** (`snowflake_etl/src/stage_to_s3.py`, `load_to_snowflake.py`, `airflow/dags/snowflake_fx_etl.py`) | S3 parts, RAW tables, COPY history, run registry | stage, register, COPY, reconcile, complete | a complete run holds what was extracted; the newest complete run is visible |
| **dbt models** (`snowflake_etl/dbt`) | views and marts | rebuild, test | facts reconcile with the visible snapshot; every day the calendar reaches has a rate |
| **Extraction** (`extract_payments.py`, `extract_fx_rates.py`) | none | fetch with retries | a payment gets the last rate published up to its day |
| **Bootstrap** (`scripts/init_object_store.py`, `init_iceberg_catalog.py`) | buckets, warehouse, its profile | check, create, adjust | idempotent, also when two run |
| **Trino scripts** (`trino_http.py`, `publish_trino_tables.py`, `validate_trino.py`, `maintain_iceberg.py`) | a statement's state at Trino; tables' files and snapshots | run statement, compact, expire, clean | an error of a statement is noticed; a task succeeds only when all its statements were carried out |
| Validators, acceptance checks, Databricks port, alerts, metrics, deployment, CI, demo data | none, or configuration | | not modelled (section 8) |

How they interact: the connector appends to the topic while jobs run; the DAG runs the
jobs one after the other; each job reads the table of the one before it and commits to
its own table and, separately, to its own checkpoint; the API reads gold through Trino
and asks for gold's snapshot id; the Snowflake pipeline reads the same Postgres table
on its own schedule. The hard parts are the commits that belong together and are made
one after the other (table, DLQ, checkpoint), redelivery, and readers that look twice.
`hazards` in `PROJECT.json` lists them line by line with the
properties that would catch each going wrong; section 8 names those no property covers.

## 2. Modules and plan

`EXTENDS` chains (an arrow points to the module that extends):

    CdcChanges ← CdcSource ─┐
                PipelineRun ─┴─ BronzeJob ← SilverJob ← GoldJob ← PaymentsLakehouse ← MCPaymentsLakehouse
                                                                   └ INSTANCE SourceMirror
    SnapshotStaging ← SnapshotLoad ← SnowflakeRuns ← MCSnowflakeRuns
                                       └ INSTANCE SnapshotReport
    FxRates ← MCFxRates
    SnapshotCache ← GoldApi ← MCGoldApi
    CatalogBootstrap ← MCCatalogBootstrap
    TrinoTasks ← MCTrinoTasks

| Part | Specification | Abstract specification | Proofs | Status |
|---|---|---|---|---|
| Lakehouse | `PaymentsLakehouse` and below | `SourceMirror` | `PaymentsLakehouseProofs`, `LakehouseClaimsProofs` | done |
| Snowflake run protocol, dbt | `SnowflakeRuns` and below | `SnapshotReport` | `SnowflakeRunsProofs` | done |
| Rates: extraction, calendar, fill | `FxRates` | reference definition in `BuildsFromWhatWasPublished` | `FxRatesProofs` | done |
| API, cache, console, probe | `GoldApi` and below | none | `GoldApiProofs` | done |
| Bootstrap | `CatalogBootstrap` | none | `CatalogBootstrapProofs` | done |
| Publication, validation, maintenance | `TrinoTasks` | none | `TrinoTasksProofs` | done |

Every safety property that a passing run checks is also a theorem. Left, in this order:
weaker hypotheses for the theorems that have some (section 6), foremost what still holds of
the Snowflake branch when a run is staged again; a clock for snapshot expiry against the
silver stream.

## 3. Modules, state and actions

### 3.1 The lakehouse

**`CdcChanges`** holds what silver does to a batch and a table as functions:
`LatestPerKey` is the `row_number()` window of `_build_changes` (highest LSN, then
highest Kafka offset), `PassesQuality` is `_validate_upserts`, `MergeRow`/`Merge` is
`silver_merge_sql`. A payment's columns are one value of `Rows`; `BadRows` are those
that some rule refuses. The snapshot read `r` is treated as `c` by every line of the
code and is not modelled apart. A WAL index serves as the LSN, so two changes share an
LSN only when they are the same change; snapshot reads, which share one LSN between
*different* payments, never meet in the window or in the MERGE, which work payment by
payment.

**`CdcSource`** (external) is the payments table `db`, the `wal`, and the connector,
which has published `wal[1..sent]` and restarts from `flushed`; everything past it is
then published again under new offsets. `OtherKinds` are the topic's records that are
no changes: without an operation (`null_op`), with one silver does not know
(`unexpected_op`), null-valued (`tombstone`), and JSON that is no object
(`non_object`). One partition, the default for this topic.

**`PipelineRun`** is the run of the DAG: `task` and the next step `pc` of its job.
`Fail` leaves open whether a retry is left (`retries: 3`) or the run ends; `Crash` may
happen between any two steps. `max_active_runs=1` is what makes one `task` enough.

**`BronzeJob`** and **`SilverJob`** model a Structured Streaming query in the steps in
which state becomes durable. `bCkpt`/`sCkpt` is the end of the last committed batch,
`bPlan`/`sPlan` the end of the batch that is written to the offset log, `bTarget`/
`sTarget` the end of the input when the query started (`availableNow`). A batch that was
planned and not committed is run again with its old range. Bronze's sink commits once
per batch (`bSinkDone`); silver's `foreachBatch` function makes three commits —
`SilverDlqNullOp`, `SilverDlqUnexpectedOp`, `SilverMerge` — with the data-quality gate
between them, and the checkpoint is a fourth. `LoseBronzeCheckpoint` and
`LoseSilverCheckpoint` model the loss of a path of the checkpoint bucket.
`auxMerged` is a history variable: the rows `1..auxMerged` of bronze have been merged.
A dead-letter MERGE with no rows to write, which the code skips, and one that writes
none are the same step.

**`GoldJob`** keeps per group (hour, country, method) the set of payments it is computed
from; count, volumes and rate are functions of that set. `INSERT OVERWRITE` replaces the
whole table: nothing in the repository sets `partitionOverwriteMode`.

**`PaymentsLakehouse`** composes them: `Environment` (source, connector, losses,
crashes) interleaves with `Pipeline`. Sections 4 and 6 are about its properties.

**`SourceMirror`** is the promise for a source that delivers once and in order: `mirror`
is the source's table at WAL position `pos`, which only grows, and `report` is the
report on it at some moment. `MirrorsSource` is the refinement: `pos` is the highest LSN
merged.

### 3.2 The Snowflake branch

**`SnapshotStaging`** is `stage_to_s3.py` over `extract_payments.py`. A row is a pair
⟨payment, version⟩. An attempt fixes its rows when its SELECT is run (`StartAttempt`),
writes them in key order, `ChunkRows` at a time, as numbered objects of its run's prefix
(`PutPart`; an empty extract still writes one), and returns their number as XCom
(`FinishAttempt`). It may die before any of these steps (`AbortAttempt`); a retry
overwrites the parts it reaches and leaves the rest. `staged` is that XCom, with the set
of rows instead of their number so that properties can compare it. One SELECT sees one
moment of the table; `stg_payments.sql:20` provides for extracts that straddle an update, of
which this loader makes none.

**`SnapshotLoad`** is `load_to_snowflake.py`, statement by statement: `Register` (the
MERGE into `SNAPSHOT_RUNS`), `Copy`, `Reconciles` (`reconcile_snapshot` does not raise),
`Complete` (`UPDATE ... WHERE completed_at IS NULL`), and the view `StgPayments` over the
newest complete run. `COPY INTO` is external: it loads objects it has not loaded with
that content before, maybe not all of them (`partialCopies`), names those it left out as
skipped or does not name them at all, and keeps a history that a run outlives after seven
days (`ForgetHistory`). `Reconciles` refuses a run with skipped files.

**`SnowflakeRuns`** is the DAG `snowflake_fx_etl`: `task[r]` is the task a run is at,
`pos` the statement of it. `RegisterRuns`, `LoadRaw` and `ValidateSnapshotLoad` take the
rates first and the payments second. `FailTask` and `FailStaging` fail a task between two
statements and leave open whether Airflow retries it; a staging attempt that fails before
its first part leaves nothing behind and may do so any number of times, one that fails later
is counted (`MaxStagingFails`). `ClearFailed` and `ClearAll` are
the operator's; `LoadByHand` is the loader's `main`. `BuildFact`, `BuildReport` and
`DbtTest` are `dbt run` and `dbt test`.

**`SnapshotReport`** is the promise: the fact is replaced by one whole, non-empty state of
the payments table as one run read it, moves only forward as long as no failed run has been
cleared (`cleared`), and the report is taken from it. `PublishesWholeExtracts` is the
refinement, with what the run's attempt has read as `reads`; an attempt that dies before its
first part maps to `Abandon`.

**`FxRates`** is about which day's rate a payment gets: `Fetch` is an attempt of
`_get_json_with_retry` over `DefaultWindow`, `Load` adds the window to RAW, which keeps
all rates, `DimDate` is the capped calendar of `dim_date.sql`, `DimFxRate` the forward
and backward fill of `dim_fx_rates.sql`, `Build` the join of `fct_payments_usd`. `DbtTest`
runs the tests that speak of rates and dates (`TestsPass`): `not_null` of `usd_amount`,
`not_null` of the dimension's `rate_to_usd` with `no_null_or_zero_fx_rate`, and
`no_future_timestamps`, whose slack of a day is none or one in days. `Load` refuses a dataset
without rows. Days, publications and payments go on independently; `BadDays` are wrong dates
of payments, long past or ahead.

### 3.3 Serving

**`SnapshotCache`** is `cache.py`: an LRU sequence whose entries all belong to `cacheId`;
`Get` resets it when asked under another id, `Put` evicts. Each holds the lock throughout,
so each is one step.

**`GoldApi`** is a request of the thread pool in the steps at which others can come in
between: `Receive`, `CurrentSnapshot` (the id lookup), `AskCache`, `Query` (the read,
which takes the table as it is by then), `FillCache`, `Reply`, or `Fail` when Trino is
away. A gold row is its position in the sort order; `Answer` and `NextCursor` are the
keyset predicate and the `has_more` row of `queries.py` and `app.py`. A filter is a
combination of `start`, `end`, `country_code` and `payment_method`: the rows it lets through
(`Selects`) and what it leaves in the cache key (`KeyText`). `CacheKey` is not injective:
`app.py` joins the fields with an unescaped `|` and writes `None` and `""` alike, so filters
that let different rows through may share a key. `ConsoleReset` and `ConsoleMore` are
`load(true)` and `load(false)` of `console.html`, which read the form each time: with the
cursor goes the filter as the form has it now, which need not be that of the page before.
`Commit` stands for the gold job and for `optimize`, which changes the id and not the data.
`Probe` is the readiness probe, which gets status 200 in either case.

### 3.4 Around the Spark tasks

**`CatalogBootstrap`** has one action per HTTP call of `init_object_store.py` and
`init_iceberg_catalog.py`, made by several processes that may die between any two
(`Die`) and be started again (`Start`). The catalog is external; a 400 to the bootstrap
call may be a real refusal (`refusals`), which the script takes for "already done".

**`TrinoTasks`** runs the statements of the three tasks through `run_statement`: `Post`
and `Poll` receive a page, `KeepPage` is `raise_for_query_error` and the `nextUri` loop,
`ConnectionBreaks` leaves open whether the statement took effect, and `TaskFails` is
Airflow's retry. Tables may be missing at the start, and silver may move on by hand.

## 4. Runs

| Run | Instance | States | Checks |
|---|---|---|---|
| `lakehouse_redelivery` | 2 payments, 1 row, 3 changes, 1 connector restart, 1 crash, fair | 1.2 M | `TypeOK`, `NewestUpsertStands`, `NewestDeleteStands`, `BatchesLeaveNoGap`, `RowsComeFromChanges`, `CaughtUpMeansCurrent`, `NeverRegresses`, `RetriedBatchChangesNothing`, `EventuallyCurrent` |
| `lakehouse_mirror` | 1 payment, good rows in two gold groups and a bad one, 2 changes, 1 other record of any of four kinds, 1 crash, 2 lost checkpoints | 4.1 M | `RejectsAreKeptOnce`, `BadRowsNeverLand`, `ReplayNeverReachesSilver`, `CaughtUpMeansCurrent`, `MirrorsSource` |
| `snapshots_faults` | 2 payments, 2 runs, parts of 1 row, 2 changes, 1 partial COPY, 1 failed task, 1 clear, 1 load by hand, any failures before a first part | 4.3 M | `TypeOK`, `PaymentsOnlyWithRates`, `NeverEmptied`, `FactNeverEmptied`, `OnlyLoadedRunsComplete`, `SnapshotStandsUntilNextCompletes`, `SuccessPublishesTheExtract`, `PublishesWholeExtracts` |
| `snapshots_restaged` | 2 payments, 1 run, 2 changes, 1 partial COPY, 1 forgotten history, 1 staging that fails after a part, 1 failed task, 1 clear, 1 re-run, 1 load by hand | 4.4 M | `PaymentsOnlyWithRates`, `NeverEmptied` |
| `fx_rates` | EUR and USD, windows of 2 days before today, 5 days, wrong dates 3 days before the first rate and a day after the last, a calendar of 5 days, 2 payments, 1 attempt | 5.1 M | `TypeOK`, `OnlyFarDatesStopRuns`, `BuildsFromWhatWasPublished`, `RatesSettle` |
| `gold_api` | 1 client, 1 console, 2 rows, pages of 1, cache of 1, 2 commits, 1 outage, a form left empty or with a country, two client filters spelled alike | 10.3 M | `TypeOK`, `AnswersAreFresh`, `AnswersFit`, `ListedInOrder`, `WalkMissesNothing` |
| `bootstrap` | 3 processes, 2 deaths, 1 refusal, fair | 13 k | `FinishedMeansReady`, `EventuallyReady` |
| `trino_tasks` | answers of up to 3 pages, 3 failures, silver once by hand | 2.4 k | `TypeOK`, `ReturnedMeansFinished`, `SucceedsMeansAllDone` |
| `lakehouse_resurrection` | 1 payment, 2 changes, 1 restart | | `DeletedStaysDeleted` — **violated** |
| `lakehouse_bad_json` | 1 change, 1 record that is no object, fair | | `EveryRecordReachesBronze` — **violated** |
| `snapshots_ghost` | 2 payments, 1 run, 1 change, 1 failed staging | | `ServedPaymentsWereRead` — **violated** |
| `gold_api_label` | 1 client, 1 row, 2 commits | | `PageIsOfItsSnapshot` — **violated** |

`PROJECT.json` says of each run in a sentence what it shows. Each property has a mutant
in the module it mutates (definitions named `Mutant...`, listed under `mutants`): a
plausible bug under which TLC finds the property violated in that very run.

**Why these bounds are enough to see something.**
*Lakehouse*: insert, delete and re-creation of one payment need three changes; an
out-of-order delivery needs one restart with two of them published; the second payment
shows that payments do not disturb one another. The crash falls between any two steps, so
one is enough for each pair of commits; the second lost checkpoint meets a table already
replayed. `lakehouse_mirror` has no restart: the refinement is the promise for a
connector that delivers once. Its two good rows are in different groups, so an update
moves a payment and leaves a group empty.
*Snowflake*: with one row per part, two payments make snapshots of zero, one and two
parts, so that a snapshot can be loaded in half and a retry can need fewer parts; the
second run makes "newest complete" a choice and the stale fact and report visible; with one
failure and one clear the first run completes after the second.
`snapshots_faults` has no re-staging, under which several of its properties are false
(findings 3 and section 7); `snapshots_restaged` has it and keeps those that survive, with a
history that is forgotten.
*FX*: five days hold a window, the day it leaves behind, a holiday and the day a later
run corrects; with a payment three days before the first rate a calendar of `Cap = 5` ends
before today, and without one it holds all days.
*API*: the third step of any interference — a request holding an old id, one holding the
new, and the cache of one entry they fight for — needs two threads and two snapshots; two
rows and pages of one make a full page, a last page and a page after the cursor's row went.
One of the two filters that are spelled alike selects a row and the other none, so their
answers differ.
*Bootstrap*: two deaths are as many as three processes can suffer with one left to finish.
*Trino*: three pages are a first, a middle and a last; three failures use up the
only retry of `maintain_iceberg`, and a missing table uses up all those of publication.

`CHECK_DEADLOCK FALSE` is set where the system comes to rest: all runs triggered and the
bounds of changes used up (Snowflake), the last day (FX), the last task (Trino).

**Fairness.** `PaymentsLakehouse!FairSpec`: weak fairness of publishing — Kafka Connect
runs all the time — and of `Pipeline`, which says that runs go on being triggered and
that a job that can step does; with `schedule=None` the former is up to whoever operates
the platform. Nothing is assumed of the source, and no fault need happen.
`CatalogBootstrap!FairSpec`: a call that is made ends, and a process that stopped is
started again; `payments_pipeline` gives its tasks three retries, which is as many as
there are deaths and refusals in the instance. No fairness is assumed anywhere else.

**Bounds by name.** `MaxWal`, `MaxOthers`, `MaxRestarts`, `MaxCrashes`, `MaxLosses`;
`MaxRuns`, `MaxChanges`, `MaxPartialCopies`, `MaxForgotten`, `MaxStagingFails`,
`MaxFails`, `MaxClears`, `MaxReruns`, `MaxManualLoads`; `MaxDay`, `MaxPayments`,
`MaxAttempts` (the code's own); `MaxCommits`, `MaxOutages`, `MaxImpatient`; `MaxDeaths`,
`MaxRefusals`; `MaxPages`, `MaxFails`, `MaxByHand`. Lakehouse retries and triggered runs
are not bounded: they do not add states.

## 5. Findings

1. **A deleted payment can come back** (`lakehouse_resurrection`). The connector
   publishes the insert (LSN 1) and the delete (LSN 2); both are merged; the connector
   restarts from an offset before them and publishes the insert again; a run merges it
   before the delete is published again. Silver has no row, hence no LSN, for
   `s.source_lsn > t.source_lsn` to compare with. It heals when the delete is delivered
   again (`CaughtUpMeansCurrent`, `EventuallyCurrent` hold). `payment_rules.py:79` and
   `docs/architecture-lakehouse.md:79` claim more.
2. **JSON that is no object stops bronze** (`lakehouse_bad_json`): `mask_pii_fields`
   raises an `AttributeError` on it; its docstring (`payment_rules.py:51`) says that it
   must not raise.
3. **Payments nobody read are served** (`snapshots_ghost`). A staging attempt dies after
   its second part; a payment is deleted; the next attempt needs one part. The part left
   over lies under the same prefix, is copied with the run, and `reconcile_snapshot`
   accepts more files and rows than were staged. `stg_payments.sql:1` and `:8` promise the
   current state of the source.
4. **A page names a snapshot it was not read from** (`gold_api_label`). The id is looked up
   first, the table read afterwards without `AS OF`; a commit in between makes
   `models.py:77` wrong. The cache stays sound: the data are newer than the label, never
   older (`AnswersAreFresh`).

## 6. Proofs

Eight modules hold theorems; all hold for every value of the constants under the
assumptions the modules name (bounds are natural numbers, `BadRows` a subset of `Rows`,
`Keys` a finite non-empty set of numbers in the Snowflake branch, and so on).

| Theorem | States | Module |
|---|---|---|
| `TypeCorrect` | `Spec => []TypeOK` | `PaymentsLakehouseProofs` |
| `NoGap` | `[]BatchesLeaveNoGap` | |
| `Provenance` | `[]RowsComeFromChanges` | |
| `NewestUpsertWins`, `NewestDeleteWins` | `[]NewestUpsertStands`, `[]NewestDeleteStands` | |
| `SilverNeverRegresses` | `NeverRegresses` | |
| `CaughtUpIsCurrent` | `[]CaughtUpMeansCurrent` | `LakehouseClaimsProofs` |
| `RejectsEndInTheDlq` | `[]RejectsAreKeptOnce` | |
| `BadRowsStayOut` | `[]BadRowsNeverLand` | |
| `ReplayStopsBeforeSilver` | `[]ReplayNeverReachesSilver` | |
| `RetriesChangeNothing` | `RetriedBatchChangesNothing` | |
| `LakehouseMirrorsSource` | `MirrorsSource`, if `MaxRestarts = 0` | |
| `SnowflakeTypeCorrect` | `Spec => []TypeOK` | `SnowflakeRunsProofs` |
| `PaymentsComeWithRates` | `[]PaymentsOnlyWithRates` | |
| `SnapshotsAreNeverEmpty`, `FactIsNeverEmptied` | `[]NeverEmptied`, `FactNeverEmptied` | |
| `ReconciledRunsAreLoaded` | `OnlyLoadedRunsComplete`, if `StagedOnce` | |
| `SnapshotStands` | `SnapshotStandsUntilNextCompletes`, if `StagedOnce` | |
| `SuccessIsPublished` | `SuccessPublishesTheExtract`, if `StagedOnce` | |
| `WholeExtractsArePublished` | `PublishesWholeExtracts`, if `StagedOnce` | |
| `FxTypeCorrect` | `Spec => []TypeOK` | `FxRatesProofs` |
| `DatesStopNoRun` | `OnlyFarDatesStopRuns` | |
| `LastPublishedRate` | `BuildsFromWhatWasPublished` | |
| `RatesStaySettled` | `RatesSettle` | |
| `ApiTypeCorrect` | `Spec => []TypeOK` | `GoldApiProofs` |
| `AnswersAlwaysFresh`, `AnswersAlwaysFit` | `[]AnswersAreFresh`, `[]AnswersFit` | |
| `ListIsOrdered` | `[]ListedInOrder`, if `MaxImpatient = 0` | |
| `WalkIsComplete` | `WalkMissesNothing`, if `MaxImpatient = 0` and `OwnText` | |
| `TrinoTypeCorrect` | `Spec => []TypeOK` | `TrinoTasksProofs` |
| `StatementsReturnFinished`, `TasksDoAllTheirStatements` | `[]ReturnedMeansFinished`, `SucceedsMeansAllDone` | |
| `BootstrapSound` | `[]FinishedMeansReady` | `CatalogBootstrapProofs` |

The hypotheses are three facts about what happens around the code, each also met by the run of
section 4 that checks the property:
- `MaxRestarts = 0`: the connector delivers once, as `SourceMirror` presumes.
- `StagedOnce` (`MaxStagingFails = 0`, `MaxReruns = 0`): no staging attempt fails once it has
  written a part, and no run is staged twice. Attempts that fail before their first part,
  later tasks that fail, are retried or cleared, partial and repeated COPYs, COPYs by hand and
  forgotten histories are all allowed.
- `MaxImpatient = 0`, and `OwnText`: nobody submits the console's form while a load is under
  way, and no filter in use is spelled in the cache key like a filter of the form. In the code
  every filter of the form has such a double, the same with an empty field, so `OwnText` is
  about what API clients ask.

TLC refutes each of these properties on a small instance without its hypothesis: with one
restart of the connector, one failed or repeated staging, one overlapping load, one filter
spelled like the form's. Sections 5, 7 and 8 say what the code does then.

`PaymentsLakehouseProofs` and `NumberLemmas` hold lemmas about operators: the window keeps a
change of every payment in the batch (`LatestOfEachKey`) and one no other exceeds
(`LatestIsHighest`); the guards (`MergeOlder`, `MergeNewer`); merging a change twice is
merging it once (`MergeRowIdempotent`); least and greatest numbers of bounded sets. In `GoldApiProofs`, the rank
of a row in a set (`RanksAreAll`) says what a page and its cursor are (`PageRows`).

**Lakehouse.** The inductive invariant is `IInv`. `TypeOK` is not inductive by itself:
that a MERGE leaves well-typed rows needs that the topic names changes that were made and
that exactly the deletes have no columns. `NewestUpsertStands` is not either: in a step
that merges a batch, the newest change of a payment may lie in the batch or before it. If
in it, the window keeps a change with its LSN and the MERGE applies it unless silver has a
row that is not older — which, as every row of silver is that of a merged upsert, has the
same LSN and so the same columns. If before, nothing in the batch can beat the row it
left. Both cases need that the merged rows and the batch make one prefix of bronze
(`BatchesLeaveNoGap`). The claims of `LakehouseClaimsProofs` add one invariant each about
the batch under way on top of `IInv`: what the validated batch holds, which of its rejects
are in the DLQ, and that duplicates in bronze lie past everything planned. For
`CaughtUpIsCurrent` (`CaughtUpInv`): the last copies of the WAL's changes are on the topic
in the WAL's order (`PublishedInOrder`), bronze is the topic read in order up to a replay
(`BronzeShape`), and the source's table is that of the last change of each payment
(`TableOfWal`); so with everything published and merged, the newest change of a payment
was merged and a delete that is the newest is also the last delivered. The refinement
`MirrorsSource` asks for a connector that is never restarted: then the topic's changes are
the WAL's, in its order, so the merged rows of bronze hold a prefix of the WAL, silver is
the table at the end of that prefix, and a batch moves both forward together.

**Snowflake.** The invariant `SInv` has three layers: rows are finitely many known ones; a
run whose RAW is empty has no rows in its history, so `reconcile_snapshot` refuses it; and
the control table is in step with the task and statement a run is at (`TableOf`), which
is what makes rates complete before payments, also for a run that failed in between and
resumes at the first statement. `ReconciledRunsAreLoaded` and `SnapshotStands` are stated
under `StagedOnce` (no staging fails after a part, none is repeated): with it the objects of a
run are the parts of one attempt (`AttemptsInv`) and the history counts distinct parts of
it (`LoadedInv`), so that the counts of `reconcile_snapshot` decide. Without it they are
false (section 7). For what is published (`PubInv`) more is needed: runs complete one after
the other (`OrderInv`); the RAW rows of a run are those its attempt wrote (`RawInv`), which hold
one version of each payment, none newer than the source (`ReadsInv`); so the view is the extract
of the newest complete run, and the fact and the report are it, one after the other
(`PublishedInv`). As long as no failed run has been cleared, runs also complete in the order in
which they were triggered (`InOrder`), hence read: then the run dbt works for is the newest, and
what it read is not older than the fact. That last step is all a clear takes away: a cleared
run may complete after a later one, and the whole extract that is published then is the older
one (`cleared` in `SnapshotReport`, `FactNeverGoesBack` in section 7).

**Rates.** A day that is over gets no further publication, and the windows of consecutive
extractions overlap, so RAW has every rate published up to the last extraction; the forward
fill then finds the last one up to the payment's day, and for the same day finds it again.
The calendar of `dim_date.sql` starts at the first date in the data and is cut off after 3660
days; `Reached` says of a day that it lies within it, and the properties speak of those days.
If all dates lie within a calendar's length and none is ahead of today, every date has a rate
of every currency, so no test stops the run (`OnlyFarDatesStopRuns`):
a currency without a rate on a day, a holiday, a rate that comes late and a wrong date within
that length do not.

**API.** An entry filed under an id was read from that snapshot or a later one, since a
thread looks up the id before it reads; and a thread only takes entries filed under the
id it looked up itself, after its request came in (`FreshInv`). It is filed under the
`CacheKey` of the request it was read for; equal keys mean the same endpoint, the same cursor
and the same `KeyText` (`KeyFields`), which is all `AnswersAlwaysFit` can say, and with
`OwnText` the same filter for the console's requests. For the console's walk
(`WalkInv`): between loads, and during one, every row up to the cursor that has been in the
table since the first page is listed, and no row after it. A row that stays is in the
snapshot looked up and in every later one, so it is in the one the page is read from; and a
page with a cursor holds every row that its filter lets through up to that cursor; a row that
every filter of the form since the reset lets through is among them. With an overlapping load
there are two cursors, which is why `MaxImpatient = 0`.

**Trino and bootstrap.** `Attempt` relates what the client knows to the coordinator's
state and the statements carried out to the task's list; `BInv` says of each call that
every earlier call has left something nobody takes away again.

**Model-checked only.** `EventuallyCurrent` and `EventuallyReady`, which need fairness and
are out of the prover's reach. The violations of section 5 and the disagreements of section 7
are TLC's. The theorems with a hypothesis say nothing of the instances beyond it;
`snapshots_restaged` checks what survives re-staging, and the theorems about it
(`PaymentsComeWithRates`, `SnapshotsAreNeverEmpty`) have no hypothesis.

## 7. Known disagreements

Statements of the repository's docs, comments and tests that the code does not keep,
beyond the findings of section 5. Each is defined as a property in its module; no run
checks it, and TLC refutes it in the module's MC instance with the constants given here
(all others as in the passing run, or 0).

| Property | Claim | What the code does | Instance |
|---|---|---|---|
| `RecreatedInOneBatchIsDeleted` (`PaymentsLakehouse`) | `docs/design.md:100`: delete and re-creation in one batch end deleted | better: the window keeps the later of the two | 1 payment, `MaxWal` 3 |
| `LoadingRunsAreIncomplete` (`SnowflakeRuns`) | `load_to_snowflake.py:261`: a registered run's `completed_at` stays NULL | `:276` leaves the `completed_at` of an earlier completion: a run all of whose tasks were cleared serves while it loads | 1 payment, 1 run, `MaxReruns` 1 |
| `FactNeverGoesBack` (`SnowflakeRuns`) | `stg_payments.sql:1`, `:6`: the current state of the source | `load_to_snowflake.py:400` orders runs by completion, so an older run that is cleared and completes later wins | 1 payment, 2 runs, `MaxChanges`, `MaxFails`, `MaxClears` 1 |
| `OnlyLoadedRunsComplete` with re-staging | `reconcile_snapshot`: the load accounts for the staged snapshot | `load_to_snowflake.py:368` counts the loads of both attempts | 1 payment, 1 run, `MaxChanges`, `MaxPartialCopies`, `MaxFails`, `MaxReruns` 1 |
| `ClientErrorsAreNotRetried` (`FxRates`) | `extract_fx_rates.py`: 4xx are not worth a retry | `raise_for_status` at `:59` is caught at `:62` with all the rest | `MaxAttempts` 2, `MaxDay` 2 |
| `NoRunStopped` (`FxRates`) | `tests/no_future_timestamps.sql:6-7`: a bad timestamp can no longer stop the pipeline | that test stops it for a date ahead; `dim_date.sql:18` for one long past: the calendar of 3660 days starts there and ends before today, where there is no rate. As RAW keeps every rate, ten years of rates stop it too | as `fx_rates.cfg`; only ahead or only past with `BadDays` cut accordingly |
| `NoneMeansUnconstrained` (`GoldApi`) | `queries.py:39`: None means "do not constrain" | `app.py:144-145` writes `None` and `""` alike into the cache key, `queries.py:70` filters on `""`: a request without filters is given the empty page of `?payment_method=`, and a walk of the console that meets it ends early | 1 client, 1 row, `MaxCommits` 1, `MaxEntries` 1; filters: none, and a blank one that is spelled like it and selects no row |
| `NeverExpiresEarly` (`GoldApi`) | `cache.py:6`: an entry never expires early | `cache.py:66`: a request that holds an older id empties the cache | 2 clients, `MaxEntries` 2, `MaxCommits` 2 |
| `DegradedTakesNoTraffic` (`GoldApi`) | `k8s/base/api.yaml:72-73`: a pod that cannot reach Trino leaves the endpoints | `app.py:245` answers 200 with a degraded body | `MaxOutages` 1 |
| `MaintainsReconciledData` (`TrinoTasks`) | `payments_pipeline.py:91-92`: maintenance runs on reconciled data | `validate_trino.py` looks at no row of its counts | `MaxByHand` 1 |

## 8. Not modelled

**Parts.** The read-only validators (`validate_schema.py`, `validate_connector.py`,
`acceptance_checks.py`) keep no state and only compare. The Databricks port is declarative
and its engine does the sequencing. Alerts and metrics are read back by nothing.
Deployment, CI, demo data and the benchmark are configuration or tools outside the system.
Of `payments_pipeline`, the validators' tasks and the launching of Spark applications are
left out; the other tasks are in `PaymentsLakehouse`, `CatalogBootstrap` and `TrinoTasks`,
each of which starts where the one before it ends.

**Detail.** Column values beyond good, bad and their gold group; hashing, timestamps,
decimals, wording. Spark and Iceberg internals: what is taken from them is that a table
commit is atomic, that the offset log is written before a batch and the commit log after
it, and that the Iceberg sink recognises a batch id it has committed for the same query.
Kafka retention: the topic keeps everything, as `docs/architecture-lakehouse.md` demands.
Operators' resets of tables and checkpoints are procedures, not code.

**Assumptions of the Snowflake branch.**
The runs are of one date and are full ones: the DAG has no schedule, so its windowed branch
is never taken. Rates are not in question in `SnowflakeRuns` (one row that stays) and are
all there is in `FxRates`, which runs without staging faults. In `FxRates` rates are
extracted at least once per window; an interval longer than the window leaves days whose
rate is never loaded, and no part of the code claims otherwise. A rate is named by its day:
that the ECB revises one, and that `stg_fx_rates.sql` keeps the one loaded last, is not seen.
Of the dates of a payment only the day of its creation is there.

**Assumptions of the API.** All requests have one limit, and a cursor is one the API gave
out. The console's passing run has `MaxImpatient = 0`: nobody submits the form
while a load is under way; the filters that are spelled alike there are those of API clients
(`OwnText`).

**Hazards without a property.** Snapshot expiry by age against a silver stream that has
not run for long (`maintain_iceberg.py:68`: Iceberg has the clock); the degraded readiness
answer (`app.py:245`) and the unread validation counts (`validate_trino.py:33`), which are
disagreements of section 7, as are a completed run that is registered again
(`load_to_snowflake.py:250`) and an older run that completes last
(`load_to_snowflake.py:383`); the Trino poll loop without a deadline (`trino_http.py:126`:
nothing bounds it); overlapping loads of the console (`console.html:213`: no document
promises anything). Changes without an LSN cannot come from this connector and are not
modelled.
