# Verification of the transit reliability streaming platform

TLA+ models of this repository's stateful code, checked with TLC, and proofs
about them, checked with TLAPS. Line references are to files of the repository;
`PROJECT.json` maps every definition to its lines.

## 1. The system

```
MBTA feeds -> producer -> Kafka topics -> three Spark jobs -> staging tables -> dbt marts -> dashboard
                             |               | listener          ^                            ^
                             |               +-> ops tables -----|----------------------------+
                             +--- end offsets -------------------|----------------------------+
MBTA static zip -> refresh_gtfs_static -> raw.gtfs_* ------------+   dbt build
```

| Component | State it keeps | Operations | Correct means |
|---|---|---|---|
| Producer (`producer/src/main.py`, `publishers/kafka_publisher.py`) | Kafka client queue, delivery errors, totals of the cycle | `run_once`, `publish_events`, `publish`, `flush`, `_on_delivery` | the printed line of a cycle is true; reporting resumes after failures |
| Parsers, validator, dead letters (`producer/src/parsers`, `schemas`, `dead_letter`) | none | one feed to events, one event to a topic | each event goes to exactly one topic |
| Kafka | append-only logs | append, acknowledge | (assumed) |
| Spark jobs (`spark/jobs`, `spark/common`) | checkpoint (offset log, commit log, deduplication state, watermark), running tasks | plan, run, write partitions, commit; restart | staging tables hold whole events, once, and lose none silently |
| Staging tables (`database/migrations/002-004`) | rows with primary keys and checks | insert on conflict do nothing | see above |
| Listener and health page (`spark/common/metrics`, `dashboard/queries/pipeline_health.py`) | `ops.spark_application_status`, `ops.spark_streaming_progress` | store events, read, label, backlog | the page never paints too good a picture |
| GTFS static refresh (`scripts/refresh_gtfs_static.py`, `load_gtfs_static.py`) | archive directory, `raw.gtfs_*`, `raw.gtfs_feed_state`, advisory lock | download, inspect, archive, load | tables hold one sound feed, the one the state row names |
| Vehicle and alert views, Live Operations page (`dbt/models/marts/vehicle_latest_state.sql`, `service_alerts_latest_snapshot.sql`, `dashboard/queries/live_operations.py`) | none; four queries, each at its own time | `SELECT` | a vehicle's state never goes back; alerts of two feeds are never mixed; a stopped feed is not shown as current |
| Trip monitoring marts (`dbt/models/marts/fct_trip_monitoring_samples.sql`, `route_health_5m.sql` and the views they select from) | two tables, rebuilt one after the other | `dbt build` | a sample is the newest event of its trip and bucket; a delay is the distance to the nearest scheduled instant; route health counts the samples |
| Route Reliability page (`dashboard/pages/2_route_reliability.py`, `dashboard/queries/route_reliability.py`) | none; six queries, each at its own time | `SELECT` | the windows it compares share no sample; stale data are never shown without the warning |
| Overview page, dimensions, alert periods | views and tables that others derive | `dbt build`, `SELECT` | (not modelled, see 5) |

How they interact: by messages (Kafka), by shared tables (PostgreSQL, READ
COMMITTED transactions, one advisory lock) and by files (the GTFS archive, the
Spark checkpoints). No component calls another.

Hard behaviours: delivery reports and listener events arrive later than the call
that caused them; a micro-batch is written by several independent transactions
and replayed after a crash; task attempts outlive their driver; deduplication
state expires while duplicates may still come; refreshes run concurrently; every
process may be killed at any step. The list with lines and properties is
`hazards` in `PROJECT.json`.

Airflow, replay, the bunching detector and operational alerts appear in the docs
or as directories, but hold no code.

## 2. Modules

### `StreamJob`, `EventStore`, `StreamJobProofs`

`StreamJob` is one Spark job with its topic, checkpoint, tasks and staging
table. `Width` makes it any of the three: an event explodes into one row
(vehicles), one per stop (trip updates; none if there are none) or one per
informed entity (alerts).

| Code | Model |
|---|---|
| offset log, commit log | `planned` with `open`, `committed` |
| watermark and the previous batch's | `watermark`, `lateWatermark` |
| state of `dropDuplicatesWithinWatermark` | `seen` |
| `_quality` filter, late filter, state lookup | `ValidOffsets`, `Late`, `Eligible` |
| explode and `to_date` | `Expand`; a value they refuse is `Poison` |
| `coalesce(4).foreachPartition(write_partition)` | `tasks`, `WritePartition` |
| `INSERT ... ON CONFLICT DO NOTHING` | `Insert` |
| attempts that the driver no longer waits for | `orphans` |
| container restart | `StartQuery` (starting offsets count only without a checkpoint) |

Facts about Spark the model takes from how the code uses it: records with one
`event_id` have one Kafka key, so they lie in one partition (an entity does not
change its vehicle or trip within one timestamp) and the shuffle before the
deduplication keeps their order, so the first offset survives on every replay;
all rows of an event leave the deduplication in one partition, and neither
explode nor coalesce splits a partition; the late filter of a batch uses the
watermark of the batch before, eviction the current one; a batch without data
runs to evict state. Each executor has one core (README.md:75), so a task
partition is one sequential transaction.

`EventStore` is the promise: an event is absent or is one published valid
record, appears in one step and never changes. `StreamJob` implements it
(`ImplementsEventStore`, with `Stored` as the refinement mapping). Which of the
records with one id is stored, and when the table stands still, is more than
`EventStore` says: `FirstRecordWins` and `QuietBetweenBatches`.

### `Producer`, `Delivery`, `ProducerProofs`

The loop of `main` with the Kafka client and broker around it. `queue` is
what librdkafka still tries to send, `acked` and `expired` the reports not yet
served, `wire` what may still reach a log, `errors` is `_delivery_errors`.
`PublishEvent` is one iteration of `publish_events` including the `poll(0)` that
serves reports; `QueueFull` is `BufferError`; `FlushReturns`, `FlushTimesOut` and
`Exit` are the two uses of `flush`; `Crash` is SIGTERM or SIGKILL at any step;
`Restart` is the container policy. Cycles have names that are
reused in turn; what is recorded of the older cycle is forgotten then, so the
loop never stops and the state space is finite.

`Delivery` is the promise to those who read the topics and the log: a response
makes the cycle owe messages, these become durable one by one, in any order or
never, and a cycle is reported at most once, with the true totals, when all it
owes is durable. `Producer` implements it (`ImplementsDelivery`); the mapping
`Promise` reads off what has been owed, what is in the topics and what has been
printed, and hides the process, the client and its queue.

### `GtfsRefresh`, `FeedStore`, `GtfsRefreshProofs`

Any number of `refresh_gtfs_static` and `load_gtfs_static` runs over one archive
and one schema. A run is a record with its program counter; a download consists
of chunks so that a transfer can break off, be short, or be retried; the
transaction of `load_gtfs` is what it has deleted and inserted per table
(`deleted`, `inserted`, with `left` still to replace); it becomes visible at
`Commit`, and its statements see what was committed before each of them, as
READ COMMITTED does. `Abort` is any exception or kill at any step: it releases
the lock and rolls the transaction back. `Damage` is a disk fault under the archive, the
reason for the code's verification of existing archives.

`FeedStore` is the promise to the readers of the tables: together they are
empty or hold one sound feed, and another takes its place in one step.
`GtfsRefresh` implements it (`ImplementsFeedStore`): `Shown` looks at the rows only,
and a mixture, a broken feed or tables emptied again would be no state of a `FeedStore`.

### `PipelineHealth`, `PipelineHealthProofs`

The listener of one job and the page that reads its tables. Events travel
through `bus` (asynchronous, in order, dropped at `removeListener` and at a
crash), a handler's database error is only logged, and ages count ticks up to
just beyond the threshold. `ReadDatabase` and `ReadWatermarks` are the two reads
of the page, with anything in between.

### `LiveOperations`, `LiveOperationsProofs`

The readers of the staging tables. Two instances of `EventStore` stand for the
position and the alert table with the jobs that fill them, so that what
`StreamJob` is shown to implement is all that the readers may rely on. Both marts
are views (`marts.yml:51`, `marts.yml:171`), hence operators on the tables:
`LatestState` is `position_rank = 1`, `Snapshot` the alerts of the newest
`feed_timestamp`. A run of the page is four actions, one per query, since each
opens its own transaction; `page` is what it has read so far. Positions have
arbitrary times of the event and of ingestion, so they arrive late and out of
order. Filters are not set, and the GTFS tables that resolve a route are fixed.

| Code | Model |
|---|---|
| `vehicle_status`, `alert_status` | `latestEvent`, `anyFresh`, `latestFeed`, `alertFresh` of `page` |
| `vehicle_rows`, `alert_rows` | `vehicles`, `alerts` of `page` |
| `CURRENT_TIMESTAMP` | `now` |
| `LIMIT :limit` with one extra row | `Limited(rows, limit + 1)` |
| the `except` clause | `ReadFails` |

`activeStored` is not in the code: it remembers whether the snapshot had an active
alert when the last query ran, which one property is about.

### `TripDelay`, `Marts`, `RouteReliability`, and their proofs

`TripDelay` is the arithmetic of the delay: `AT TIME ZONE` in both directions with
one change of the offset, the service day that the SQL infers by rounding, and
`IsNearest`, which says what the result should be. `Marts` is the dbt build over
the staging table of trip updates (an `EventStore` again) and the GTFS tables
(a `FeedStore`, which `GtfsRefresh` is shown to implement). `RouteReliability` is the
page that reads the marts. A trip is a `trip_instance_key`; a sample is named by
the record it was computed from, which together with the joined feed determines
its whole row.

| Code | Model |
|---|---|
| `monitoring_bucket_minutes`, `observation_bucket` | `Bucket`, `BucketOf` |
| `event_rank = 1`, `stop_rank = 1` | `Sampled` with `Precedes`, `NextStop` with `Sooner` |
| join with `int_gtfs_trip_stop_schedule` | `Scheduled`, `Route`, `OnBus` |
| `delay_basis`, `predicted_delay_seconds` | `Bases`, `Delay` with `DelayFrom` |
| `scheduled_local_candidate`, `scheduled_prediction_timestamp` | `Candidate`, `ScheduledInstant` |
| `GROUP BY` of `route_health_5m` | `HealthOf` |
| dbt's table materialization | `StartSamples` (the query sees what is committed), `SwapSamples` (rename), `BuildHealth`; `StopBuild` is a failed model or a kill |
| `end_time`, the queries of `show_route_reliability` in their order | `ReadLatest`, `ReadTrend`, `ReadCurrent`, `ReadPrevious`, `ReadComparison`, `ReadDetails` |
| `st.warning` about stale data | `Stale` |
| `ORDER BY ... LIMIT` of `get_trip_samples` | `Comes`, `FirstRows` |

`page` keeps what a later step or a property needs and drops what has been
rendered. `BuildHealth` is one step because nothing but the build itself writes
what it reads. That, and `SamplesNeverBackwards`, are about one build of these
marts at a time, which the model assumes: nothing in the repository builds them but
the operator's own command. Percentiles and averages are functions of the counted
samples and are left out, as are columns that are passed through.

`FiniteOrders` holds the two facts about `ORDER BY ... LIMIT 1` and `MAX` that the
proofs about views and pages share.

`MCxxx` modules give the constants of the runs. Definitions marked "faulty" in
the modules are variants of the definition after them; nothing refers to them.
They are the mutants of `PROJECT.json`, which show that the properties
depend on the code that is modelled.

## 3. Runs

| Run | Bounds | Shows |
|---|---|---|
| `stream_job_safety` | 3 events, 5 records, 2 partitions of 2 records, 2 tasks, 2 failures, starting at latest | `TypeOK`, `NoTornEvent`, `NoSilentLoss`, `FirstRecordWins`, `IInv`, `BurstKept`, `QuietBetweenBatches`, `ImplementsEventStore` |
| `stream_job_liveness` | 3 events, 4 records of which 1 is poison, 1 failure, starting at earliest | `EventuallyConsumed` under `Fairness`, `PoisonBlocks` |
| `producer_report` | 2 feeds of at most 2 events, client queue 2, 2 cycles, 1 failure | `TypeOK`, `ReportTrue`, `NothingCarriedOver`, `ImplementsDelivery`; `KeepsReporting` under `Fairness` |
| `gtfs_tables` | 2 processes, 3 feeds (one expired, one with dangling references), 2 tables, 2 chunks, 2 attempts | `TypeOK`, `TablesMatchState`, `OnlyFitFeeds`, `ArchiveNamed`, `LoadsOnce`, `ImplementsFeedStore`, `RunsAdvance` |
| `gtfs_ends` | 2 processes, 1 feed, 1 table, 1 chunk, 2 attempts | `RefreshEnds` |
| `health_page` | 2 records, 3 batches, 2 undelivered events, 2 retained rows | `TypeOK`, `BacklogNotUnderstated`, `ProgressConsistent`, `RunningMeansRecent`, `ProgressNeverBackwards`; `CrashDegrades` while time passes |
| `health_idle` | 1 of each | a documented meaning of Idle that does not hold (below) |
| `live_page` | 3 positions of 2 buses, 4 alerts in 2 feeds, clock 0..3, limits 1, thresholds 1 | `TypeOK`, `AlertsOfOneFeed`, `StateNeverBackwards`, `StoppedFeedShown` |
| `live_empty` | the same | a documented distinction the page does not keep (below) |
| `route_page` | 4 updates of 2 trips, 2 feeds, clock 0..3, bucket 2, window 2, threshold 0, 1 row of details, a day of 8 | `TypeOK`, `HealthFollowsSamples`, `DelayTrue`, `NoDoubleCount`, `UnwarnedMeansRecent`, `SamplesNeverBackwards`, `StoppedDataShown` |
| `route_delay` | the same, with the clock set back near a prediction | a documented delay that is not always what is computed (below) |
| `route_largest` | as `route_page` | a documented order of rows that does not hold (below) |

Why the bounds are enough to be interesting: the topic of `stream_job_safety` has
two records of one event with different content and width, an event so much newer
that it makes the first late and lets its state expire, a record without rows
and an invalid one; two records per partition are enough for a duplicate in the
same batch and in a later one; two failures give a crash during a replay, or a
stray attempt and a crash. `stream_job_liveness` has one record per event and a
second one of `mid`, whose row PostgreSQL refuses. In `producer_report` a cycle
may be larger than the client's queue, so that it fills up; a cycle that can
never fit is refused for ever, which is why `KeepsReporting` asks that in the end
all cycles fit (`CycleFits`). Two feeds are the least for one to fail after
another was enqueued. Two GTFS runs are what the lock arbitrates between. In
`health_page` retention is below the number of batches, so rows are deleted, and
the threshold is below the possible delays. In `MCLiveOperations` one bus has an
older position that is ingested last, the first feed has more alerts than the
page has room for, the second repeats one of them, and the clock runs past both
thresholds. In `MCRouteReliability` a window begins in the middle of a bucket, so
that an update moves a trip's sample from one window to the other; two updates
have the same time and are ordered by their ids; one feed lacks a trip, has
another time of day for the other one and makes its route no bus; one update has
no stop in the schedule, hence no delay; and the clock runs past the threshold.

Deadlock is checked everywhere except in `StreamJob`, whose topic may fall
silent, and in `RouteReliability`, whose clock stops at its bound.

### Fairness

- `StreamJob`: weak fairness of the driver's own steps (`StartQuery`,
  `PlanBatch`, `RunBatch`, `WritePartition`, `CommitBatch`). The containers have
  `restart: unless-stopped`, the query is triggered every 30 seconds, and Spark
  schedules the tasks of a running batch. Failures are bounded, stray attempts
  and records need not happen.
- `Producer`: the process' own steps and restart (`on-failure`), and the client's
  promise to report each message as delivered or expired.
- `GtfsRefresh`: steps of a started run; strong fairness for the lock, which
  PostgreSQL grants in the order of arrival. Timeouts bound each download.
- `PipelineHealth`: time passes. Nothing else is assumed.
- `LiveOperations`: time passes, and the page's fragment is run every 30 seconds
  (`run_every="30s"`). Nothing need be stored.
- `RouteReliability`: time passes and the page is run. Nothing in the repository
  runs dbt on a schedule, so no build is assumed to start or to end.

### Disagreements with the documentation

`docs/dashboard-operations.md:167` says that Idle is shown when "Spark emitted a
recent idle event". `display_status` (`dashboard/queries/pipeline_health.py:218`)
compares only the last progress event with the threshold and does not read the
time of the idle event. Since an idle query reports no progress, it is shown as
Stale after two minutes although it goes on reporting itself idle. `health_idle`
finds such a state.

`docs/testing/dashboard-live-operations.tdd.md:10` says that stale feeds and
fresh-but-empty selections have distinct UI states. The page decides which of
them it shows by `alert_fresh`, from the query before the one that returns the
alerts, and that one tests freshness again. When the snapshot passes the
threshold between the two queries, the page counts no active alert and says that
the latest snapshot has none, although it has some; 30 seconds later it says that
the status is unknown. `live_empty` finds such a state.

`dbt/models/marts/marts.yml:128` calls `predicted_delay_seconds` the prediction minus
the nearest matching scheduled timestamp.
`dbt/models/marts/fct_trip_monitoring_samples.sql:105` looks for the nearest service
day in local time and converts the result with `AT TIME ZONE`, which takes a local
time that occurs twice for the later instant. In the hour before clocks are set
back, the delay is off by that hour. `route_delay` finds such a sample;
`DelayTrue` is what holds away from the change.

`dashboard/components/filters.py:41` offers the order "Largest predicted delay".
`dashboard/queries/route_reliability.py:179` orders by the delay, descending, and
PostgreSQL puts `NULL` first, so samples without a delay take the places that the
limit leaves. `route_largest` finds a page that leaves out a delay and shows a
sample that has none.

## 4. Proofs

`StreamJobProofs` proves, for every topic, partitioning, content, delay and
bound that meets `ConstantsAssumption`:

- `StreamJobTypes`: `Spec => []TypeOK`;
- `StreamJobInvariant`: `Spec => []IInv`;
- `StreamJobNoTornEvent`: `Spec => []NoTornEvent`;
- `StreamJobNoSilentLoss`: `Spec => []NoSilentLoss`;
- `StreamJobPoisonBlocks`: `Spec => PoisonBlocks`;
- `StreamJobFirstRecordWins`: `Spec => []FirstRecordWins`;
- `StreamJobBurstKept`: `Spec => BurstKept`;
- `StreamJobQuietBetweenBatches`: `Spec => QuietBetweenBatches`;
- `StreamJobImplements`: `Spec => ImplementsEventStore`.

None of the safety properties is inductive: a task or a stray attempt holds rows
outside the table, and whether writing them tears an event depends on what the
batch would write if it were replayed. `IInv` says of each place where
rows can come from why they agree:

- what a running task still has to write is what the open batch writes now and at
  every replay (`TasksCurrent`);
- a stray attempt holds the same, or events of committed batches whose rows
  are all in the table (`OrphansHarmless`);
- rows in the table belong to the open batch or to committed events
  (`RowsExplained`), and what a running batch has no task for is written
  (`RunCovers`);
- a consumed event is in the deduplication state until the late filter holds it
  back (`ConsumedSettled`), and everything in the state is in the table
  (`SeenDone`);
- a watermark was reached by a consumed event (`WatermarksReached`), offsets are
  ordered and records lie in the partition of their key (`OffsetsOrdered`,
  `Keyed`).

The proof has one lemma per action. `PoisonBlocks` needs one more invariant, that
no row of a poison record is stored or on its way (`NoPoisonRows`): a batch that
has to write one can then never find everything written. The lemma that needs the whole invariant is
that of the commit of a batch: the eligible events become done, the late watermark
moves up to the watermark, and exactly the events that the new late filter holds
back may leave the state. The assumptions are those on the constants; among them
`TimeOf` is positive and poison records have rows.

`FirstRecordWins` follows the offsets: a record that survives the deduplication of
the open batch has no valid record of its id before it that the batch could
have seen, and one in an earlier batch would be in the state or make the event
late (`ConsumedSettled`), so it is the first since the initial offsets
(`CurrentIsFirst`); appending to the topic leaves the first one alone
(`FirstStays`), and rows that are written belong to it (`WritesFirst`). `BurstKept`
uses the facts about a commit that `CommitBatchIInv` rests on too (`CommitFacts`):
what the batch consumed is done, or was late by a watermark of earlier
batches. `QuietBetweenBatches` is `OrphansHarmless` once no batch is open: a stray
attempt then holds only rows that the table has.

The last part of the module proves the refinement. What the mapping reads off the table is the record that all rows of an event come
from, which `NoTornEvent` makes unique. Appending to a partition maps to
`Publish`; an insert by a task or a stray attempt maps to `Store` of the events
that had no rows, and `IInv` says that what it inserts for the others is there
already; all other steps stutter.

`ProducerProofs` proves, for any number of feeds, events, cycles and failures and
any capacity of the client's queue, `ProducerReportTrue`,
`ProducerNothingCarriedOver` and `ProducerTypes`. The report is written when the
flush has returned with nothing left and no error, so what has to be carried
through the cycle is that every message handed to the client is durable, still in the
queue, or known to have failed (`SentKept`), that an acknowledged message is in
its topic, that the totals count exactly the messages handed over (`TotalsTrue`),
and that the feeds are taken in order, each to its end (`FeedsInOrder`). Between
cycles the client is empty (`ClientEmpty`): an error or a queue that does not
drain ends the process.

`ProducerImplements` proves `Spec => ImplementsDelivery` with the same invariant.
Four kinds of step are visible: `NewCycleBegins` (what is recorded under the reused
name is forgotten), `FetchFetches` (nothing has been reported in the cycle yet),
`AppendDelivers` (only owed messages reach a topic), and `FlushReports`, which uses
`ReportTrue` of the next state: what is durable when the line is printed is all
that is owed. A message appended once more and every step within the process or the
client stutter (`UnseenStep`).

`GtfsRefreshProofs` proves, for any number of processes, feeds, tables, chunks and
attempts, `RefreshTablesMatchState`, `RefreshOnlyFitFeeds`, `RefreshArchiveNamed`,
`RefreshLoadsOnce` and `RefreshTypes`. The invariant says of each process (`Good`):
its file and its digest agree; past the inspection the digest is that of a feed
that passed it; past the archive step that feed has its directory; it is between
`compare` and `commit` exactly if it holds the lock; the tables it has replaced
hold the inspected feed and nothing else; and without `--force` that feed is not
the loaded one. No other process writes while one holds the lock, so a process
that rests stays `Good`, which leaves the proof of each action with its own process.

For `RefreshLoadsOnce` it matters that the property speaks of the commit itself, not
of what it changes, since loading the loaded feed once more changes no row. What a
run found when it compared, that its feed is another one than the loaded one
(`Differs`), still holds when it commits, because it keeps the lock.

Two more results rest on the invariant. `RefreshImplements` proves `Spec => ImplementsFeedStore`:
nothing but a commit changes what is shown (`OnlyCommitsShow`), and a commit shows
the sound feed that `Good` says all tables were replaced by (`ShowsFeed`).
`RefreshRunsAdvance` proves `Spec => RunsAdvance`, the safety half of `RefreshEnds`: each
step of a started run takes it to a later place, to its next attempt, or to one
chunk or table fewer, all of which are bounded, and no step of another process
moves it (`OthersRest`). That the run takes those steps at all is left to `RefreshEnds`.

`PipelineHealthProofs` proves, for every threshold, retention and bound,
`HealthBacklogNotUnderstated`, `HealthProgressConsistent`, `HealthProgressNeverBackwards`,
`HealthRunningMeansRecent` and `HealthTypes`. Two things are carried along: no event and no stored row is ahead
of what the job has committed, nor younger than its last commit (`BusTrue`,
`RowsTrue`, `AppTrue`); and batches are on the bus in their order, all of them
after the stored ones (`BusOrdered`, `RowsBeforeBus`), also when a crash has
emptied the bus. Both also order the offsets, which `HealthProgressNeverBackwards`
needs: a handled event is the first of the bus, so the row it becomes is not
behind the newest stored one (`ProgressAdvances`), and retention never takes the
newest row (`RowsStep`).

`LiveOperationsProofs` proves, for all positions, alerts, limits and thresholds:

- `LiveNeverBackwards`: `Spec => StateNeverBackwards`;
- `LiveAlertsOfOneFeed`: `Spec => []AlertsOfOneFeed`;
- `LiveTypes`: `Spec => []TypeOK`.

All of it rests on `TablesGrow`: what an `EventStore` holds, it keeps. A vehicle that
has a position has a latest one (`LatestStateExists`), because the order of the view
is a strict one (`PrecedesOrder`) and a finite set has a first element in it. The
former latest position is among those the new one precedes, and the order begins
with the time of the event. Hence no vehicle leaves the view or goes back. For the
alerts the invariant adds that the feed of the caption has been stored
(`FeedWasRead`), so the snapshot read later cannot be older.

`RouteReliabilityProofs` proves, for all updates, feeds, schedules and thresholds,
`PageSamplesNeverBackwards`, `PageNoDoubleCount`, `PageUnwarnedMeansRecent`,
`PageHealthFollowsSamples` and `PageTypes`. The staging table only grows, and among a
finite set of events the order of `event_rank` has a first one (`FirstExists` of
`FiniteOrders`: where one would induct over finite sets, it takes a smallest element
of the well-founded order of strict subsets), so a build finds a successor of each
sample: the same trip and bucket, not older (`SampledCovers`). The table under
construction covers the visible one (`CreatedCovers`), and each build covers the
one before (`CoversTransitive`). The route health is the aggregate of some samples that
the visible ones cover (`HealthBehind`), of these themselves after a completed build
(`HealthCurrent`); successors are of the same trip and bucket, hence different for
different samples, so a row of it never counts more trips than there are samples in its
bucket (`CoveredAreFewer`), also after builds that stopped between the two
tables. For the two windows: what was counted in the
current one has a successor when the previous one is read (`CurrentCovered`), which
is too late for that window, and a table has one sample for a trip and a bucket.

`TripDelayProofs` proves `PageDelayTrue`: `Spec => []DelayTrue`, for every day length,
pair of offsets and time of day. Rounding leaves a difference of at most half a
day in local time; far from the change both conversions use one offset; and any other
instant with the scheduled local time lies whole days away, hence farther off.

Assumptions: those on the constants, named in the modules. They say that bounds
are positive, that `None` is no value of a type it joins, and what the
environment fixes: keys and partitions of records, one schedule entry for a trip and
a stop in each feed, distinct ranks of event ids.

Only model-checked: the liveness properties (`EventuallyConsumed`,
`KeepsReporting`, `RefreshEnds`, `CrashDegrades`, `StoppedFeedShown`,
`StoppedDataShown`), which rest on fairness and are out of this prover's reach.
Every other property of a passing run is a theorem.

## 5. Not modelled

- Parsing of protobuf fields and of Spark columns: functions of one record
  without state, whose outcomes (accepted, rejected, poison) the models choose.
- The filters of the pages, the vehicle map and the selection of single vehicles
  or alerts: parameters of the queries that are modelled for all routes.
- The Overview page: sums over the marts that `LiveOperations` and
  `RouteReliability` model, read in the same way. Averages and percentiles.
- Dimensions and alert periods: `dim_dates` can lack a day that the samples of the
  same build have, which fails the relationship test of the build and is listed
  as a hazard; no page joins them, and only the options of the route filter are
  read from `dim_routes`.
- Recreated Kafka topics, whose offsets start again, and Kafka retention.
- Records that conform to the contract but not to the Spark quality filter: the
  code discards them, and no state records it.
- The order of feeds: a slow refresh may put back an older feed. Nothing in the
  code compares feeds by date, so there is no promise to check.
- The refresh wrapper's second command, which builds views; dbt run history, which
  nothing in the repository writes; session settings, logging, the console sink
  and CI; the directories without code.

## 6. Possible extensions

1. `Producer` and `StreamJob` through one topic: a reported event is in the end
   stored under its id however often both restart.
2. `StreamJob` with a recreated topic, under the uniqueness of Kafka positions.
3. The dimensions as further steps of the build in `Marts`, with the relationship
   tests that may fail it.
