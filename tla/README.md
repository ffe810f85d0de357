# A TLA+ model of smart-home-energy

This directory holds TLA+ specifications of the smart home energy system, the
TLC configurations that model-check them and machine-checked proofs about every
component that changes state. Every definition is translated from the code under `src/`;
`PROJECT.json` names the lines each one stands for. Paths below are relative to
the repository.

Contents: [the system](#the-system) · [modules](#modules) ·
[how to run](#how-to-run) · [what the runs check](#what-the-runs-check) ·
[bounds](#bounds) · [fairness](#fairness) · [proofs](#proofs) ·
[divergences](#divergences) · [abstractions](#abstractions) ·
[not modelled](#not-modelled) · [plan](#plan)

## The system

A simulated house sends readings to Kafka. Two paths carry them to PostgreSQL:
a streaming query that keeps five-minute windows for the dashboard and the AI
report (the *hot path*), and notebooks that pile them up as parquet in layers
(the *medallion path*: bronze, silver, gold). Airflow asks an executor to run
the notebooks. A FastAPI dashboard shows tables and writes overrides and
preferences, which the simulator obeys.

```
 dashboard --devices_status, user_preferences--> simulator
     ^                                              | Kafka: energy_events
     |                            +-----------------+-------------+
     |                            v                               v
     |                     spark_stream.py                raw_bronze_parquet
     |                            | upsert, purge                 | parquet
     |                            v                               v
     |               spark_windowed_energy              clean_silver_pipeline
     |                 |                |                         | parquet
     |                 v                v            +------------+-----------+
     |             ml_data --pkl--> ai_report        v                        v
     |                                  |      spark_dwh_batch     process_parquet_batch
     +---------- PostgreSQL <-----------+------------+------------------------+

 Airflow --POST /run-notebook--> processing/app.py --papermill--> the notebooks
```

| Component | State it keeps | Operations | What is hard | What makes it correct |
|---|---|---|---|---|
| Hot path, `processing/spark_stream.py` | state of the query (watermark, keys seen, open windows), checkpoint, `spark_windowed_energy` | micro-batch, upsert per partition, purge every fifth batch, restart | duplicates, late and future readings, upserts that fail one by one, restarts that throw the state away | every admitted reading counted once; the table agrees with the query; a batch always ends |
| Bronze, `raw_bronze_parquet.ipynb` | Spark's offset and commit logs, the sink's log | remove the checkpoint, run the query once | batch numbers that start over under a sink that remembers | no reading twice; no run that wedges |
| Silver, `clean_silver_pipeline.ipynb` | the same logs, and that of the file source | list new files, filter, append | overlapping runs on one checkpoint, death at any step | every clean reading once |
| Gold, `spark_dwh_batch.ipynb` | staging tables, `dwh_energy_analytics`, `dwh_monthly_energy_reports` | stage and merge each batch; recompute the monthly report | overwrites that drop or truncate, create and insert partition by partition; shared staging table, replay, refused merges; a room left within the hour | whole batches merged, newest last; a device-hour in two rows only for a room that was left; a report of one reading of silver |
| Orchestration, `smarthome_pipeline.py`, `processing/app.py` | DAG runs, HTTP posts, background tasks | schedule, post, time out, retry, accept, run | the answer comes before the work; a crash loses accepted work | no task done without its notebook taken on; bounded repetition; runs end |
| Simulator, settings | the cache and its stamp | refresh in two queries, pulse, sleep | changes between the queries, failing queries, the end of the process and its restart | a stamp that promises no more than the cache holds; the dashboard is obeyed in the end |
| Simulator, devices | none beyond a reading | rules from hour, zone, type, override and eco mode to a power; injected faults | factors and ceilings against the ceilings of two filters | sound readings pass, faults do not, eco mode saves |
| Model and report, `ml_data`, `ai_report_generator` | `energy_model.pkl`, `ai_reports` | train, dump, load, judge, insert | a file being written, mixed or cut off; overrides that change during a run | a report whenever there are rows; silence on devices that are off |
| Historical summary, `process_parquet_batch` | `historical_analytics_summary` | read silver, aggregate, overwrite | truncate and insert apart, overlapping runs | rows of one reading of the archive; complete after a good run |
| Dashboard, `src/dashboard` | `user_preferences`, `device_thresholds`, `devices_status` | control a device, add one, save preferences, show pages | settings read by others while they change; five queries in one transaction, each of which may fail | a save seen whole or not at all; a failure stays in its section; no false alarm |
| Starting the archive over, cells of `clean_silver_pipeline` and `delete_historical_parquet` | the directories of silver | remove archive, remove checkpoint | two removals with runs between them, one of a directory nobody uses | everything comes back after a whole reset; nothing comes twice |

## Modules

| Module | Code | State and actions |
|---|---|---|
| `ReadingFilters` | the filters of `spark_stream.py` and of the silver notebook | operators only: `StreamKeeps`, `SilverKeeps` |
| `EnergyStream` | `spark_stream.py` | `topic` (unread readings), `phase`/`run`/`batchId` (where the process is), `wm`/`wmLate`, `dedup`, `agg` (the query's state), `unwritten` (rows of the batch still to be upserted), `table`. `StartBatch`/`EmptyBatch` are a trigger with its whole plan; `WritePartition`/`FailPartition` the upserts of `foreachPartition`; `SkipPurge`/`Purge`/`FailPurge` the end of `write_to_postgres_only`; `Crash`/`Start` the container |
| `MicroBatch` | external: Spark's micro-batch engine and file sink, as the notebooks use them | `cp` (offset and commit log), `run` (program counter and batch of each runner). One action per write to a log |
| `AppendOnlyFeed` | — | abstract: what a layer promises the next |
| `BronzeIngest` | `raw_bronze_parquet.ipynb` | `MicroBatch` plus `topic` and `bronze`; `Ingest` removes the checkpoint, whole, in part (`Remnants`) or not at all |
| `SilverClean` | `clean_silver_pipeline.ipynb` | `MicroBatch` plus `listed` and `silver`; `List` enters new files, `Publish` the filtered batch |
| `Medallion` | both notebooks and the cells that start the archive over | instances of `BronzeIngest` and `SilverClean` on one topic and one `bronze`; `EraseArchive` and `EraseCheckpoint` are the lines of those cells |
| `Warehouse` | `spark_dwh_batch.ipynb`, `schema.sql` | `MicroBatch` plus `staging` (tables by batch id), `writes` (each run's overwrite of one), `dwh`, `monthly`, `report` (part 2 of each run); `DropStaging`, `CreateStaging`, `InsertStaging` per partition, `Merge`, `FailMerge`, then `ReadAll`, `Truncate`, `InsertMonths` per partition, `RefuseMonths` |
| `NotebookPipeline` | `smarthome_pipeline.py`, `processing/app.py` | `dagRuns` (Airflow), `posts` (requests), `jobs` (background tasks), `executorUp` |
| `SimulatorCache` | loop and `get_cached_system_state` of `appliance_simulator.py`; `control_device`, `add_new_device`, `update_preferences` | `devices`/`eco` (database), `cache` with its `age`, `pc` (the loop); `ReadDevices`, `ReadEco` are the two queries; `Die` and `Restart` the end of the script and `run_simulator.bat` |
| `ApplianceLogic` | the body of the simulator's loop | `hour`, `ecoMode`, `reading`; `Emit` goes from settings to a reading |
| `AiReport` | `ml_data.ipynb`, `ai_report_generator.ipynb` | `file` in two pieces, `trainer`, `reporter`, `report`; `Dump` writes a piece, `InsertReport` judges and inserts |
| `HistoricalSummary` | `process_parquet_batch.ipynb` | `silver`, `summary`, `run`, `containerUp`; `Read`, `Truncate`, `Insert` per partition, `RefusePartition`; `LoseExecutor` and `StartExecutor` the container |
| `Dashboard` | `preferences.py`, `get_dashboard_page` and `get_violated_devices` of `analytics.py` | `budget`/`limits` (tables), `save` and `form` (the requests of the preferences), `page` (the dashboard, with the state `tx` of its transaction); `Answer`, `Refuse`, `Shun`, `LoseConnection` are what may become of a query |

An `MC...` module gives a specification's constants their small values;
specifications that need none of their own are run as they are. A `...Proofs`
module holds the theorems about the module it is named for; `MedallionProofs`
those about both of its notebooks, `SimulatorProofs` those about
`SimulatorCache` and `ApplianceLogic`, `NotebookProofs` those about
`NotebookPipeline`, `AiReport` and `HistoricalSummary`, and `OrderLemmas` the
lemmas several of them use: least and greatest numbers, and induction on the
subsets of a finite set. Modules that one proof module extends share no
names, hence `ReportSpec`, `SummarySpec` and `ApplianceSpec`.

**Refinement and composition.** `AppendOnlyFeed` says what bronze promises
silver and silver promises gold: records come from the source, none twice,
nothing is taken back. `BronzeIngest` implements it with
`source <- 1 .. Len(topic)`, `sink <- bronze`, `SilverClean` with
`source <- CleanIn(Files)`, `sink <- silver`; every step of the logs other than
a publication is a stutter. Assume and guarantee meet in two ways. `SilverClean`
sees bronze through the promise only: its `PublishBronze` is any delivery
`AppendOnlyFeed` allows, so what holds of it holds over every bronze that keeps
the promise. `Medallion` puts the two detailed modules side by side and adds
what neither knows of, the removal of the archive; that its bronze is one of
those `SilverClean` is about is the theorem `SilverAsModelled`.

**Mutants.** A definition with a comment "Mutant of X" is X as a plausible bug
would have it. No specification uses it; put in the place of X it makes the
property it is listed with in `PROJECT.json` fail, which shows that the property
depends on what X does.

## How to run

    tlc -workers 2 -config EnergyStream.cfg MCEnergyStream.tla
    tlapm EnergyStreamProofs.tla

Every run ends within about two and a half minutes on two workers, every proof within a
few minutes.

## What the runs check

Ten runs pass. Distinct states are in parentheses.

**`stream`** (620,000), `EnergyStream`. Over readings sent twice, out of order
and ahead of the clock, partitions and purges that fail and a restart:
- `StateCoversAdmitted`, `CountsAreExact`: a reading that passes the age filter
  is counted exactly once in each of its windows. The 15-minute watermark never
  overtakes the 10-minute filter, so nothing admitted is dropped as late, and
  the key of a copy is still in the state when the copy comes.
- `TableFaithful`: between batches a row of the table is the one the query
  holds, unless its last upsert failed, or the purge took it.
- `RowsOnlyGrow`: within a run of the process a row is never replaced by one
  that knows less. Across a restart it is, since the state starts from nothing.
- `BacklogDrains`: whatever fails, the stream goes on.

**`medallion`** (326,000), `Medallion`, one runner of each notebook, bronze's
checkpoint removed whole, in part or not, deaths anywhere, the archive started
over once:
- `BronzeIsFeed`: reading the topic from its beginning each time never delivers
  a reading twice, because the sink skips batch ids it has, and an end that is
  entered lies behind all earlier batches. Silver and the erasures do not
  disturb this.
- `RunsEnd`: a bronze run with coherent logs and a silver run that is alone get
  through whatever deaths, torn checkpoints and erasures left.
- `ArchiveIsRebuilt`: after archive *and* checkpoint were removed with no run
  in between, a run that ends well has brought back every clean reading. After
  half of it, it has not (see the divergences).
- `DeliveredOnce`: an erasure, whole or half, never brings a reading in twice.

**`silver`** (3,480,000 up to symmetry), `SilverClean`, two runners on one
checkpoint over any bronze that keeps its promise. `SilverIsFeed`: each clean
reading at most once. `SuccessMeansClean`: a run that ended well, whoever did
the work, leaves nothing of what it found behind.

**`warehouse`** (3,150,000 up to symmetry), `Warehouse`, two runners that may
drop, create and fill each other's tables, a failing merge, deaths, with the
unique key the merge asks for. Spark's overwrite is no transaction: the table is
dropped and created, or truncated, and each partition is inserted with a commit
of its own, so a run may die with half a staging table or half a report written.
Whatever overlaps:
- `CountedTwiceOnlyIfLeft`: a row counts a device-hour once, and two rows count
  the same one only if the room was left, or entered, within it. That they then
  may is one of the [divergences](#divergences).
- `MonthlyRowsTrue`: the months of the report may be of two readings of silver,
  but each is of one: the primary key refuses a month that is there.

As long as no two runs overlap:
- `MergesWholeBatch`: what a merge brings in holds every reading of its batch;
  half a table that a dead run left is dropped by the replay first.
- `NewestBatchWins`: no older batch replaces the rows of a newer one.
- `MonthlyIsOneReading`: whenever the report is shown, also half filled, its
  months come from one reading of silver.
- `MonthlyCoversProcessed`: a run that inserts the last months of its report has
  in it all that part 1 has marked as processed, merged or not.

**`notebooks`** (1,000,000), `NotebookPipeline`, two DAGs, one thread, a
missing notebook and a crash of the executor. `NoTaskWithoutJob`: a run never
moves past a notebook the executor did not take on in that run.
`BoundedRepetition`: late and lost answers cost at most `1 + Retries` runs of a
notebook. `DagRunsEnd`: no dead executor or lost answer holds a DAG.

**`simulator`** (179,000), `SimulatorCache`, with failing queries and a process
that ends in the middle of a round. `StampIsHonest`: the cache's stamp is taken
before the queries, so what is cached was true at that time or later, whatever
changed between the queries, and a round whose refresh did not fail works on
settings no older than the interval. `EventuallyObeyed`: failures delay, and
nothing is missed for good while the process runs.

**`appliances`** (4,600; a state is an hour, a mode and a reading),
`ApplianceLogic`, one device per rule. `SoundReachesSilver` and
`StreamTellsFaults` relate the simulator's ceilings to the two filters', with
loads entered far beyond them and below zero: silver keeps every sound reading,
and the hot path's filter lets a reading through exactly when it is sound. But
for the EV charger, whose overdraw the hot path drops, and for a device with a
negative load, which the devices panel accepts: while it is on, its readings are
below zero and both filters drop them. `EcoNeverCosts` compares the two modes
rule by rule, for loads that are not negative.

**`ai_report`** (530,000), `AiReport`, two trainings that may overlap, overrides
at any moment, a crash, a device whose id is part of the other's type. `RunEndsInReport`: a missing, half-written or mixed
model never costs the report. `AllOffIsSilent`: no alert for a type all of
whose devices were forced OFF from the beginning of the run to its end.

**`historical`** (182,000), `HistoricalSummary`, two runners, runs that die alone
or with the executor's container. `RowsAreTrue` with overlap too;
`SummaryIsOneReading`, with the completeness of a run that ended well, until two
runs overlap; `EventuallyCurrent` if they never do and the container, which
nothing but a person brings up again, is up for good in the end.

**`dashboard`** (3,500,000), `Dashboard`, a save, two pages, two failures:
- `FailuresStayLocal`: a refused query aborts the transaction that the five
  sections share. The rollback of every `except` brings it back, so a page that
  is shown lacks only the sections whose own query failed, and its banner
  compares the two sums on the page.
- `SavesAreWhole`: the limits are deleted and inserted one by one, yet no page
  shows part of a save, nor budget and limits of two.
- `AlarmIsJust`: limits are joined by substring and the largest is shown, so a
  type in red has cost more than every limit of its own.

Two runs look for a violation and find it; they are the first two of the
[divergences](#divergences): **`bronze_saved`** (`SuccessMeansSaved`) and
**`warehouse_monthly`** (`DailyMatchesMonthly`).

`CHECK_DEADLOCK FALSE` stands wherever a bound on launches, sends, changes or
failures brings an instance to rest once it is used up. `ApplianceLogic` and
its configuration have no such bound and deadlock is checked.

## Bounds

Bounds are constants whose comment begins with "bound:"; they appear in guards only.

- `EnergyStream`: the minutes are scaled so that their order stays: window 2,
  filter 2, watermark 4, purge 2, skew 1 (5, 10, 15, 10 and less than 5 in the
  code); the purge comes every second batch. Six minutes let the watermark pass
  the first windows; three readings are a reading, its copy and one that moves
  the watermark; two devices share a row's zone but not its type, and the one
  load is sane for one of them and a spike for the other. Two runs of the
  process are one restart.
- `BronzeIngest`, `SilverClean`: three or four launches let a run
  find what a dead run left, after that one found what another had left; the
  topic is as long as there are launches, so each may find something new.
- `SilverClean`: three readings, three files, three launches by two runners,
  which are alike (symmetry; no liveness is checked): a run finds files, another
  overlaps with it, a third comes after a death.
- `Medallion`: two readings, three launches of each notebook, one erasure: a run
  before, between and after its two lines.
- `Warehouse`: four readings of one device. Three are of one hour, two of them
  with the room occupied, one with it left; the last is of a peak hour of the
  next day and month. So a key can come back in a later batch, an hour can be
  split or change its key on replay, and a batch and a report can have two rows,
  each in a partition of its own or both in one. At most two silver files; one
  may be empty. Two runners have two launches, one after the other, the second
  beside the first or after it died. They are alike, as are the two readings
  with the room occupied (no liveness is checked). One merge may fail.
  `warehouse_monthly` has one runner with three launches and three readings;
  nobody leaves and both hours are of one day, so that the merge alone is at
  fault.
- `NotebookPipeline`: two DAG runs (of one DAG or of both), one retry as in the
  code, one thread, so that posts and notebooks compete for it.
- `SimulatorCache`: an interval of two rounds (12 in the code); three changes,
  three failures: one change before, between and after the queries, a refresh
  that fails twice in a row and a process that ends besides.
- `Dashboard`: two types of which one contains the other's name, and a blank
  name; two amounts, one below and one above; one save beside two pages, as a
  page can see at most the state before it and after it; two failures are a
  query refused after a connection lost, or before.
- `AiReport`: two devices in two zones, of two types, the id of one being part of
  the other's type; two limits, so that mixed dumps can be told apart.
- `HistoricalSummary`: two groups, three readings: a run can insert one group
  and not the other.

## Fairness

- `EnergyStream`: the trigger fires every 10 seconds, `foreachBatch` runs on
  unless the process dies, docker has `restart: always` for the streamer. The
  outcome of a transaction is not fair: it may always fail.
- `MicroBatch` users: a run that has started goes on as long as it can. Runs
  need not be launched.
- `NotebookPipeline`: the scheduler (`restart: always`) handles its runs, since
  a post is answered or times out after 15 seconds. Nothing is assumed of the
  executor, which has no restart policy.
- `SimulatorCache`: the loop goes round while the process runs; queries end.
  It is started by hand (`run_simulator.bat`); that it is started again is
  not assumed.
- `Medallion`: a run of either notebook that has started goes on.
- `HistoricalSummary`: Airflow keeps asking for the notebook, and a run that has
  started goes on. Nothing is asked of `StartExecutor`, as the container has no
  restart policy: that it is up in the end is a hypothesis of the property. `AiReport` and `Dashboard` need no fairness.

## Proofs

What TLC shows of small instances is proved for every value of the constants:

| Module | Theorem | For |
|---|---|---|
| `EnergyStreamProofs` | `StreamTypeCorrect`, `StreamStateCovers`, `StreamCountsExact` | `TypeOK`, `StateCoversAdmitted`, `CountsAreExact` |
| | `StreamTableFaithful`, `StreamRowsGrow` | `TableFaithful`, `RowsOnlyGrow` |
| | `BatchesAreShort` | what of `BacklogDrains` is not fairness |
| `MedallionProofs` | `BronzeImplementsFeed`, `ArchiveComesBack`, `NothingTwice`, `PathTypeCorrect` | `BronzeIsFeed`, `ArchiveIsRebuilt`, `DeliveredOnce`, `TypeOK`, for one bronze runner and any set of silver runners |
| | `SilverAsModelled`, `PathImplementsFeeds` | silver in its place is `SilverClean`; both layers implement `AppendOnlyFeed`, while nothing is erased |
| | `RunsAreShort`, `UndisturbedRunsAdvance`, `RunsStayUndisturbed` | what of `RunsEnd` is not fairness |
| `SilverCleanProofs` | `SilverImplementsFeed`, `SilverComplete` | `SilverIsFeed`, `SuccessMeansClean`, for any set of runners |
| `WarehouseProofs` | `WarehouseCountsTwiceOnlyIfLeft`, `WarehouseMonthsTrue` | `CountedTwiceOnlyIfLeft`, `MonthlyRowsTrue`, for any set of runners |
| | `WarehouseMonthly`, `WarehouseKeepsNewest`, `WarehouseMergesWhole`, `WarehouseCoversProcessed`, `WarehouseTypeCorrect` | `MonthlyIsOneReading`, `NewestBatchWins`, `MergesWholeBatch`, `MonthlyCoversProcessed`, `TypeOK` |
| `NotebookProofs` | `TasksHaveJobs`, `RepetitionBounded`, `PipelineTypeCorrect` | `NoTaskWithoutJob`, `BoundedRepetition`, `PipelineTypeOK` |
| | `DagRunsAreShort` | what of `DagRunsEnd` is not fairness |
| | `ReportSilentOnOff`, `ReportIsMade`, `ReportTypeCorrect` | `AllOffIsSilent`, `RunEndsInReport`, `ReportTypeOK` |
| | `SummaryShowsOneReading`, `SummaryRowsTrue`, `SummaryTypeCorrect` | `SummaryIsOneReading`, `RowsAreTrue`, `SummaryTypeOK` |
| | `SummaryRowsMadeOnce`, `RefusalNeedsOverlap` | whence a row comes; when the primary key refuses one |
| | `SummaryRunsAreShort` | what of `EventuallyCurrent` is not fairness |
| `SimulatorProofs` | `CacheStampHonest`, `CacheTypeCorrect` | `StampIsHonest`, `TypeOK` |
| | `SoundReadingsPass`, `StreamTellsApart`, `EcoModeNeverCosts`, `ReadingTypeCorrect` | `SoundReachesSilver`, `StreamTellsFaults`, `EcoNeverCosts`, `ReadingTypeOK` |
| `DashboardProofs` | `SavesSeenWhole`, `PageFailuresLocal`, `AlarmRaisedJustly`, `DashboardTypeCorrect` | `SavesAreWhole`, `FailuresStayLocal`, `AlarmIsJust`, `TypeOK` |

Each safety property and action property of the passing runs is stated by a
theorem. `SummaryTypeOK` and `ReadingTypeOK` are proved and not in a run's
configuration. TLC checked each inductive invariant on the instance of its run,
or on a smaller one, before it was proved. Assumptions on constants are the named `ASSUME`s of the modules, which
the runs evaluate.

### The hot path

Assumptions: `ClockAssumption`, `DeviceAssumption`, `BoundAssumption` (types),
and `SkewAssumption == Horizon + MaxSkew < Delay`. The last is the design
decision the code rests on: the watermark's 15 minutes exceed the filter's 10
by more than the simulator's clock may run ahead. Without it a reading stamped
ahead could push the watermark past readings the filter still admits.

*Why an invariant of its own.* `CountsAreExact` is not inductive: from a state
in which counts are right but a key is missing from `dedup`, a copy is counted
twice. `StateCoversAdmitted` adds what is missing:

1. no reading in the topic is stamped more than `MaxSkew` ahead of the clock;
2. the watermarks are 0 or at most `now + MaxSkew - Delay`, thus below
   `now - Horizon`, the age at which the filter cuts off;
3. `dedup` is exactly the admitted keys above the last watermark, and `agg`'s
   rows exactly their windows above it;
4. each count is the number of admitted keys in its window.

`AdmittedIsFresh`: by 1 and 2 what the filter lets through lies above the
watermark, so the late-data filter drops none of it. `AggregateCovers`: what is
not in `dedup` was never admitted, by 3, so the new keys and the counted ones
are disjoint and their numbers add up (`CountDisjoint`, from the library's
facts on cardinalities). Upserts, purges and the clock leave 3 and 4 alone and
only help 2; a crash empties both sides.

*Batches end.* Finitely many fresh keys fall in finitely many windows, which is
what a batch has to write; every transaction, refused or not, leaves fewer, and
what arrives meanwhile goes to the next batch (`BatchesAreShort`). That one can
be planned whatever is in the topic needs a newest reading, which exists as
stamps are bounded by the clock and the skew.

*The table.* `TableInv` adds where the rows come from: no window of the query's
state lies ahead of the clock, what is still to be written is the state's own
rows, a row of the table written in this run counts no more than the state's,
and one that was neither refused nor purged counts as much. A row of the table
can then only be replaced by one that counts more. The newest row, on which the
purge depends, is a `CHOOSE` from a set of minutes; `OrderLemmas` shows that it
exists.

### Bronze

The checkpoint may be anything a removal leaves of an earlier one, so nothing
can be said of which batches are in the log. What survives every removal
(`Covers`, in `BronzeInv` of `MedallionProofs`) is that *if* an end stands in
the log, it lies behind everything in the sink under that id or a lower one. A run preserves this because it reads to
the end of the topic, hence behind all earlier runs, and because recovery needs
the end of the batch before the last one. A batch that is published under a new
highest id therefore begins behind all that is there. With overlapping runs it
fails: the older runner's end may be the smaller. `SoleRunner` is a hypothesis.

### Silver

Here runs do overlap, and the logs are never removed. The invariant says that
planned batches are consecutive (`Rising`), each is planned when all before it
are published (`LogsInOrder`), they leave out no file (`NoGap`), what was
published is the filtered batch (`SinkIsFiltered`), and every runner, however
old its view, works on a planned batch or stands behind a published one
(`RunnersInOrder`). Two runners may hold the same batch; then both hold the
same files, the sink's log takes one, and the other skips or fails. Disjoint
stretches of a log that names each file once give `SilverIsFeed`; `NoGap` and
the order of publications give `SuccessMeansClean`. The step that lists files
needs that a surjection onto a set from as many indices is injective, from the
library's facts on finite sets.

### The archive started over

`MedallionProofs` puts the two together. Every step of `Medallion` is one of
bronze, one of silver, or an erasure, and what was proved of the notebooks is
cited for their steps. Bronze's invariant is untouched by the other two.
Silver's is not: an erasure breaks it, and if only one of archive and checkpoint
goes it is not restored. So `SilverCleanProofs` also proves what survives half an
erasure, in two parts:

- `Settled`: the logs are in order by themselves, whatever the sink holds.
- `SinkInherits`: the sink's entries fall into two sets. The new ones are the
  filtered batches of the present checkpoint. The old ones were written with a
  checkpoint that is gone; they have lower ids, are disjoint, and what they hold
  lies in the *first* batch of the present checkpoint.

The last clause is the point. A run without a checkpoint enters every file there
is before it plans batch 0, so every old reading is in batch 0; the sink knows
id 0 and skips it; later batches begin behind it. Hence `DeliveredOnce`, although
readings may be missing. `ArchiveIsRebuilt` is about the other case: when
archive and checkpoint are gone with no run in between (`whole`), silver's own
invariant holds anew, and with it that a run that ends well leaves nothing
behind. `PathTypeCorrect` follows with what is known of the counters (`Counts`).

TLC checked `SinkInherits` with two silver runners and two erasures, which is
more than the run's own instance has.

### Silver in its place

`SilverClean` takes bronze for an environment (`PublishBronze`): it publishes
under the id after the last one what has not been delivered, and at most
`MaxFiles` batches, for which `Medallion` has the bound on bronze's launches.
Neither is plain of the notebook, whose ids start over with 0 or go on from a
torn log. `Paced` is the invariant that shows it. Of the ids: a batch is planned
only when the one before it is in the sink (`Follows`), and entered in the
commit log only when it is there itself, or a later one (`Overtaken`); so a run
that starts over passes the ids the sink knows one launch after the other, and
what it publishes is the next. Of the number: there have been more launches than
there are ids, and one more yet while a run may still plan a batch (`Unspent`,
`RunnerPaced`). Hence `SilverAsModelled`: while the archive is not erased, a
behaviour of `Medallion` is one of `SilverClean`, so that what is proved there
holds here. `PathImplementsFeeds` puts it together with bronze's promise.
TLC checked `Paced` on the instance of the run, with each publication of bronze
a step of `SilverClean` (326,000 states).

### Runs get through

`RunsEnd` is a liveness property. What it asks of the logs is proved, for any
number of silver runners; the fairness of a run's steps is all that is left.

- `RunsAreShort`: every step of a run brings it nearer to its end, of nine at
  most (`StepsLeft`), since a run takes up one batch again and plans one more.
- `UndisturbedRunsAdvance`: a run wedges when a log file that it is about to
  create is there already (`MayAdvance` lists the guards). `Undisturbed` says
  that the logs hold nothing beyond the run's own batch; coherent logs give it,
  and so do all of silver's, which are removed whole or not (`SilverLogs`).
- `RunsStayUndisturbed`: only another run on the same checkpoint can end that.

The prover has no ENABLED; that `MayAdvance` holds exactly where a step of the
run is enabled was checked with TLC, with two silver runners (169,000 states).
`BatchesAreShort`, `DagRunsAreShort` and `SummaryRunsAreShort` are the like for
the other components, whose steps nothing stands in the way of.

### The warehouse

`Rows`: a daily row, merged, staged or still to be inserted, holds the cells of
its own key in some batch, under the occupancies some run took for them. Then
`RowKey`: a device-hour determines every part of its key but the occupancy, and
that is the occupancy of one of its readings. So two rows with the same
device-hour differ in nothing else, and readings of that hour differ in it
(`CountedTwiceOnlyIfLeft`). It does not matter whose rows a staging table holds.

`Reports`: every month of the table, and of a report on its way there, is that
of some beginning of silver (`MonthlyRowsTrue`); a month that is there can only
be removed, never written over. `PartsInOrder` separates the two parts of a run.

Until two runs overlap more holds. `Alone`: one run at most is in progress, at
the last planned batch, so that no row is of a newer one. `Staged`: what it has
inserted into the staging table and what it has left hold its whole batch, as it
found the table dropped and created it itself; at the merge nothing is left.
`OneReading`: the months of the table are of one reading; while a run fills it,
these and the months it has left make up a reading that covers every batch that
is done (`Making`), so the table is complete with the last of them. Where a run
died half-way, what remains is part of a reading still.

### The simulator

For `SimulatorCache` it matters only how long ago a cached value ceased to be
true (`Ages`), and that this is no longer ago than the stamp says (`Honest`),
also between the two queries of a refresh. `ApplianceLogic` is bounds and cases:
`Possible` lists what the rules may draw in percent of the load, `Made` says that
every reading was drawn so, and two of the results compare that with the
ceilings of the filters, for any whole loads, of either sign: what is left of a
negative one is negative (`BelowZero`). `EcoModeNeverCosts` goes through the
rules and finds for every draw in eco mode one without that is as high, which
is so of loads that are not negative.

### The other notebooks

- `NotebookPipeline`: "queued" is answered only with a background task at hand,
  and the current attempt of a run that waits is among the posts (`Accounted`);
  hence no task is passed without its job. Jobs belong to posts and posts to
  attempts, of which a task has `1 + Retries` (`Shape`): `RepetitionBounded`
  counts them with the library's facts on finite sets. `Pool` counts the
  notebooks that run against the threads, with the same facts.
- `AiReport`: while a run is in progress the history `awake` has every type not
  wholly OFF now, and every one that was not when the devices were read
  (`Informed`); a group that is alerted was matched to a device of such a type.
- `HistoricalSummary`: until two runs overlap, the table is what the run in
  progress has inserted of its reading, or what the last one left
  (`Undisturbed`). The archive only grows, so that what was read of it could be
  read again. With overlap each row by itself is still the aggregate of its
  group over some beginning of the archive (`RowsOfReadings`). Whether that is
  the truth about the group is a question about the two folds (`SumOf`,
  `PeakOf`). A fold is a `CHOOSE` of a function on the subsets of the places
  that satisfies the fold's equation; `SumIsFixpoint` and `PeakIsFixpoint` show
  by induction on finite sets (`SubsetInduction` of `OrderLemmas`, over a set
  instead of a predicate) that any such function is a sum, or a peak, for which
  the numbers themselves must exist first (`Units`). `AggregateIsTrue` follows.
  A run alone finds the table without the groups it has left, so the primary
  key has nothing to refuse (`RefusalNeedsOverlap`).

### The dashboard

A section finds the transaction open or the connection lost before its eyes
(`Local`); no save is served while the preferences page is made, as both
handlers keep the event loop (`Whole`). `AlarmRaisedJustly` has the hypothesis
that amounts are bounded, as a DECIMAL column's are: of unbounded limits none
would be the largest.

### Model-checked only

Liveness: `BacklogDrains`, `RunsEnd`, `DagRunsEnd`, `EventuallyObeyed`,
`EventuallyCurrent`. The prover has neither fairness nor ENABLED. For all but
`EventuallyObeyed` the steps they need are proved to be few, as said above.

## Divergences

Where the code does something else than the repository says of it.

1. `bronze_saved`. The notebook deletes the checkpoint
   (`raw_bronze_parquet.ipynb:84-90`); the query starts over with batch 0,
   which the sink's own log has, and skips it. Nothing is written and the
   notebook prints that the data was saved (line 105).
2. `warehouse_monthly`. The merge replaces the sums of a day
   (`spark_dwh_batch.ipynb:199-205`), so the second batch of a day erases the
   first, and the daily rows hold less than the monthly report, which "all
   agree" (line 284).

Met while modelling and kept out of the runs; the models behave as the code does:

- A task is done when its notebook has been queued (`smarthome_pipeline.py:24-26`,
  `processing/app.py:51`): silver may start before bronze has ended, or started
  (comment at line 56: bronze first). For the same reason `max_active_runs=1` does
  not keep notebooks from overlapping (line 40).
- A batch that changes no window returns before the purge
  (`spark_stream.py:119-120`, `EmptyBatch`), so "every 5 batches"
  (`README(eng).md:146`) is not always kept.
- The staging upsert is there "to guarantee zero-duplicate warehousing"
  (`README(eng).md:63`), but `first("is_room_occupied")` is part of a daily row's
  key (`spark_dwh_batch.ipynb:140,158,198`) and the simulator draws the occupancy
  anew each round. An hour that is split over two batches, or whose batch is
  replayed after a death so that another reading comes first
  (`OccupancyChoices`), is upserted under either occupancy and stays in two rows.
  `CountedTwiceOnlyIfLeft` is what holds.
- `schema.sql:13-25` declares no unique constraint on the columns that
  `ON CONFLICT` names (`spark_dwh_batch.ipynb:198`): with it every merge is
  refused, printed and passed over (`UniqueKey = FALSE`, `FailMerge`).
- The EV charger forced ON draws up to 2200 watts, the hot path's filter cuts
  off at 2000 (`appliance_simulator.py:94,134`, `spark_stream.py:91`); this is
  the exception in `StreamTellsFaults`.
- The devices panel takes any number for a base load (`devices.py:55`), and the
  simulator's ceilings are a `min` that lets a negative one through: the sound
  readings of such a device are below zero, and both filters drop them. This is
  the other exception (`BelowZero`).
- `total_power_watts` sums the readings of a window, also of one that has only
  begun, so the kWh and costs of a report grow with the number of readings so far
  (`ai_report_generator.ipynb:218`).
- Lost signals have no power (`appliance_simulator.py:182`) and silver drops
  nulls, so the warehouse's count of lost signals is always 0.
- The report looks at the override of the first device of a *type*, or with an id
  that is part of the type's name (`ai_report_generator.ipynb:221`, `Matches`): a
  group may be reported although its own device is forced OFF, or passed over
  because one elsewhere is.
  `AllOffIsSilent` is what holds.
- The deletion notebook removes `checkp_parquet_increment` and calls it the
  right name (`delete_historical_parquet.ipynb:38-39`), but the query's
  checkpoint is `checkp_silver_clean` (`clean_silver_pipeline.ipynb:68`). After
  its two cells the query goes on behind the files it knows and what was deleted
  does not come back (`EraseOtherCheckpoint`, the mutant of `EraseCheckpoint`).
- The limits of the preferences are said to be per appliance
  (`README(eng).md:303`). The page joins them by substring and shows the largest
  (`analytics.py:26-32`): a type whose name contains another's passes its own
  limit unnoticed while the other's is larger. `AlarmIsJust` is one direction.
- The "last ten minutes" of the page end at the newest row
  (`analytics.py:33`): when the stream has halted the costs shown are old.
- When the sum of the month cannot be read the banner says neither that the
  budget is kept nor that it is not, and looks as if it were kept; when the
  preferences cannot be read the page fails (`target_budget_yer`, line 136).
- `historical_reports.html` does not exist, so `/historical-reports` always
  fails (`analytics.py:182`); its `max_watts` of a zone is that of the zone's
  first row, and its rows are ordered by average (line 167).
- The handlers of `devices.py` redirect to `/devices-panel` (lines 45, 74),
  which is served under `/api/devices` only (`dashboard/app.py:17`).
- `schema.sql` creates no `user_preferences`, `device_thresholds`,
  `devices_status` or `electricity_prices`, which the services use.
- `overall_avg_watts` is the sum of the powers over 1000
  (`process_parquet_batch.ipynb:105`), not an average.

## Abstractions

- Prices, costs and the texts of reports are left out: they are functions of
  the sums and rows modelled.
- An energy in `Warehouse` is the set of device-hour cells it is computed from,
  a row in `EnergyStream` the number of readings behind it: to lose or double a
  reading changes them as it changes the sums.
- The plan of a micro-batch is one step, since only its end is visible; the
  optimizer may move the sanity filter before or behind the watermark, so
  `NextWatermark` allows both.
- `MicroBatch` models Spark from what the notebooks rely on: atomic creation of
  log files, recovery from the last planned batch, the file sink's skipping of
  known ids. `rmtree` takes the two logs one after the other; a log whose last
  but one entry is gone is unusable and the run ends in an exception.
- `Medallion` erases only while no silver run is active (`Quiet`): what Spark
  does when logs vanish under a running query is not in this repository. The
  third line of the reset cell, the warehouse's checkpoint, is left out, as the
  warehouse is not part of that module.
- `Dashboard`: figures that other components write meanwhile are arbitrary
  amounts; the price and the list of devices are read and shown, and only
  whether their sections fail matters. The handlers of the preferences are
  coroutines that never await, so the event loop runs one at a time, beside the
  dashboard page in a pool thread.
- `Warehouse` and `HistoricalSummary` have a history variable `overlapped`, and
  properties that hold only until two runs overlap name it; `newest`,
  `admitted`, `failed`, `awake` and `ended` are history too. No guard
  reads them.
- `AiReport` follows one run of the report at a time, as runs only insert; the
  tree is one limit for all groups; a dump is written in two pieces. Which
  ids are part of which types' names is the constant `NamedIn`.
- Silver has no nulls, so the null filter of `process_parquet_batch.ipynb` does
  nothing and is left out.
- A random power in `ApplianceLogic` is an end of its interval, rounded outwards.
  Loads are whole watts; what `float()` takes for infinite or not a number is
  left out.
- An overwrite through JDBC is a drop and a create, or a truncation, and then a
  commit for each partition; how Spark divides the rows is left open, so any
  part of what is left may be inserted next.

## Not modelled

- `/historical-reports` and `/dashboard/batch-analytics` are one SELECT each of
  the table `HistoricalSummary` is about and change nothing.
- Templates, styles, scripts: presentation, but for the comparison in
  `index.html` that `Flagged` models. `toggleDevice` of `static/js/main.js` is
  loaded by every page and called by none.
- `output_*.ipynb` (generated by papermill), Metabase and Jupyter (images used
  as they are), compose files and scripts, whose restart policies are in the
  models of the services they concern.
- `airflow/custom_libs`: third-party packages (tornado, black, idna, ...), by
  far the most of the lines in `src/`. They are no part of this system's
  logic, and so the share of all lines that the models cover is small; of the
  system's own Python and notebook code they cover nearly everything that
  changes state.

## Plan

1. *Composition*: `Warehouse` and `HistoricalSummary` over `Medallion`'s
   silver, with the warehouse's checkpoint in the erasures.
2. *Proofs*: bronze runs that overlap, for which the weaker promise that holds
   has yet to be found; the hypotheses of `Alone` in terms of the orchestration,
   which does allow an overlap.
