-------------------------------- MODULE Marts --------------------------------
(***************************************************************************)
(* The trip monitoring marts: two tables that a dbt build computes one     *)
(* after the other, the trip samples from the staged trip updates and the  *)
(* GTFS tables, and the route health from the samples, while Spark stores  *)
(* more updates and a refresh replaces the GTFS feed.                      *)
(*                                                                         *)
(* The staging table is an EventStore, which is what StreamJob implements; *)
(* the GTFS tables are a FeedStore, which is what GtfsRefresh implements.  *)
(* A sample is named by the record it was computed from: with the feed     *)
(* that the build joined, the record determines the whole row.  A route    *)
(* stands for a route and a direction.                                     *)
(***************************************************************************)
EXTENDS TripDelay, Sequences, FiniteSets

CONSTANTS
    Event,          \* event_ids of trip updates
    Record,         \* their records
    IdOf,           \* Record -> Event
    IdRank,         \* Event -> place of the event_id in their order
    TimeOf,         \* Record -> event_timestamp
    TripOf,         \* Record -> trip_instance_key, the trip_id included
    RouteOf,        \* Record -> route_id, or None
    StopsOf,        \* Record -> sequence of stop updates: stop is the
                    \* stop_sequence, a number no feed uses if unknown
    Feed,           \* GTFS feeds
    Schedule,       \* Feed -> entries: trip, stop, route, arrival, departure
    Buses,          \* Feed -> routes of route_type 3
    Bucket,         \* monitoring_bucket_minutes
    Late,           \* predicted_late_threshold_seconds
    MaxNow,         \* bound: the clock
    None

Optional(S) == S \cup {None}
Trip == {TripOf[r] : r \in Record}
StopUpdate == [stop : Nat, arrival : Optional(Nat), departure : Optional(Nat)]
Entry(R) == [trip : Trip, stop : Nat, route : R,
             arrival : Optional(Nat), departure : Optional(Nat)]

ASSUME MartsAssumption ==
    /\ IsFiniteSet(Record)
    /\ IdOf \in [Record -> Event]
    /\ IdRank \in [Event -> Nat]
    /\ \A d, e \in Event : IdRank[d] = IdRank[e] => d = e
    /\ TimeOf \in [Record -> Nat]
    /\ DOMAIN RouteOf = Record
    /\ StopsOf \in [Record -> Seq(StopUpdate)]
    /\ Feed # {}
    /\ \A f \in Feed :
          /\ Schedule[f] \subseteq Entry({e.route : e \in Schedule[f]})
          /\ None \notin Buses[f] \cup {e.route : e \in Schedule[f]}
          /\ \A d, e \in Schedule[f] : d.trip = e.trip /\ d.stop = e.stop => d = e
    /\ Bucket \in Nat \ {0}
    /\ Late \in Nat
    /\ MaxNow \in Nat
    /\ None \notin Record \cup Nat

VARIABLES
    now,            \* the clock
    updates,        \* staging.trip_stop_updates
    gtfs,           \* the feed that the GTFS tables hold
    build,          \* the running or last dbt build: "idle" (none or failed),
                    \* "samples" (that table is being created), "health"
                    \* (it is there, the next one is not), "done"
    created,        \* the table that the build is creating
    samples,        \* mart.fct_trip_monitoring_samples
    health          \* mart.route_health_5m

sources == <<now, updates, gtfs>>
marts == <<build, created, samples, health>>

Published == {r \in Record : TimeOf[r] <= now}

Updates == INSTANCE EventStore WITH
    Valid <- Record, topic <- Published, stored <- updates

\* The first feed is loaded before the first build.
Gtfs == INSTANCE FeedStore WITH feed <- gtfs

-----------------------------------------------------------------------------
(* fct_trip_monitoring_samples *)

Stored == {r \in Record : \E e \in Event : updates[e] = r}

NextBucket(r) == (TimeOf[r] + Bucket - 1) \div Bucket      \* faulty: rounds up
BucketOf(r) == TimeOf[r] \div Bucket
SameSample(r, s) == BucketOf(r) = BucketOf(s) /\ TripOf[r] = TripOf[s]

\* COALESCE(predicted_arrival, predicted_departure)
Prediction(u) == IF u.arrival # None THEN u.arrival ELSE u.departure

AnyStop(r) == {i \in DOMAIN StopsOf[r] : Prediction(StopsOf[r][i]) # None}     \* faulty
Upcoming(r) ==
    {i \in DOMAIN StopsOf[r] :
        /\ Prediction(StopsOf[r][i]) # None
        /\ Prediction(StopsOf[r][i]) >= TimeOf[r]}

\* ORDER BY event_timestamp DESC, event_id DESC
LastId(r, s) == IdRank[IdOf[r]] > IdRank[IdOf[s]]   \* faulty: not by time
Precedes(r, s) ==
    \/ TimeOf[r] > TimeOf[s]
    \/ TimeOf[r] = TimeOf[s] /\ IdRank[IdOf[r]] > IdRank[IdOf[s]]

\* event_rank = 1: the newest event with an upcoming stop.
Observed == {r \in Record : Upcoming(r) # {}}
EachEvent == Stored \cap Observed      \* faulty: the partition lacks the trip
Sampled ==
    {r \in Stored \cap Observed :
        \A s \in Stored \cap Observed : SameSample(r, s) => s = r \/ Precedes(r, s)}

\* stop_rank = 1: by prediction, stop_sequence and stop_update_index.
Sooner(r, i, j) ==
    LET u == StopsOf[r][i]
        v == StopsOf[r][j]
    IN \/ Prediction(u) < Prediction(v)
       \/ Prediction(u) = Prediction(v) /\ u.stop < v.stop
       \/ Prediction(u) = Prediction(v) /\ u.stop = v.stop /\ i < j

NextStop == [r \in Observed |->
    StopsOf[r][CHOOSE i \in Upcoming(r) : \A j \in Upcoming(r) : j = i \/ Sooner(r, i, j)]]

\* LEFT JOIN int_gtfs_trip_stop_schedule
Scheduled(r, f) ==
    {e \in Schedule[f] : e.trip = TripOf[r] /\ e.stop = NextStop[r].stop}

\* resolved_route_id
Route == [f \in Feed |-> [r \in Observed |->
    IF RouteOf[r] # None THEN RouteOf[r]
    ELSE IF Scheduled(r, f) = {} THEN None
    ELSE (CHOOSE e \in Scheduled(r, f) : TRUE).route]]

\* COALESCE(sc.route_type, r.route_type) = 3
OnBus == [f \in Feed |-> [r \in Observed |->
    IF Scheduled(r, f) = {} THEN RouteOf[r] \in Buses[f]
    ELSE \E e \in Scheduled(r, f) : e.route \in Buses[f]]]

\* delay_basis: what is compared, arrival times if both sides have one.
Bases(r, f) ==
    LET u == NextStop[r] IN
    {[predicted |-> u.arrival, scheduled |-> e.arrival] :
        e \in {x \in Scheduled(r, f) : u.arrival # None /\ x.arrival # None}}
    \cup
    {[predicted |-> u.departure, scheduled |-> e.departure] :
        e \in {x \in Scheduled(r, f) :
                  /\ u.arrival = None \/ x.arrival = None
                  /\ u.departure # None /\ x.departure # None}}

\* predicted_delay_seconds
DelayIn(r, f) ==
    IF Bases(r, f) = {} THEN None
    ELSE LET b == CHOOSE b \in Bases(r, f) : TRUE IN DelayFrom(b.predicted, b.scheduled)
Delay == [f \in Feed |-> [r \in Observed |-> DelayIn(r, f)]]

-----------------------------------------------------------------------------
(* route_health_5m *)

Eligible(S, f) == {r \in S : Delay[f][r] # None}
LateOf(S, f) == {r \in Eligible(S, f) : Delay[f][r] > Late}
RouteIn(t, r) == Route[t.feed][r]
BusRows(t) == {r \in t.rows : OnBus[t.feed][r] /\ RouteIn(t, r) # None}

\* GROUP BY observation_bucket, route_id
GroupOf(t, r) ==
    {s \in BusRows(t) : BucketOf(s) = BucketOf(r) /\ RouteIn(t, s) = RouteIn(t, r)}
HealthRow(t, r) ==
    [bucket |-> BucketOf(r), route |-> RouteIn(t, r),
     observed |-> Cardinality(GroupOf(t, r)),
     eligible |-> Cardinality(Eligible(GroupOf(t, r), t.feed)),
     late |-> Cardinality(LateOf(GroupOf(t, r), t.feed))]
HealthOf(t) == {HealthRow(t, r) : r \in BusRows(t)}

-----------------------------------------------------------------------------
\* The first build found no trip updates.
MartsInit ==
    /\ now = 0
    /\ updates = [e \in Event |-> None]
    /\ gtfs \in Feed
    /\ build = "done"
    /\ created = None
    /\ samples = [feed |-> gtfs, rows |-> {}]
    /\ health = {}

Tick ==
    /\ now < MaxNow
    /\ now' = now + 1
    /\ UNCHANGED <<updates, gtfs, marts>>

\* A transaction of the Spark job stores some events, perhaps late.
StoreUpdates ==
    /\ UNCHANGED <<now, gtfs, marts>>
    /\ \E S \in SUBSET Event : Updates!Store(S)

\* A refresh commits another feed.
LoadGtfs(f) ==
    /\ Gtfs!Load(f)
    /\ UNCHANGED <<now, updates, marts>>

\* dbt build: CREATE TABLE ... AS SELECT begins, on what is committed now.
StartSamples ==
    /\ build \in {"idle", "done"}
    /\ build' = "samples"
    /\ created' = [feed |-> gtfs, rows |-> Sampled]
    /\ UNCHANGED <<sources, samples, health>>

\* The new table takes the name of the old one.
SwapSamples ==
    /\ build = "samples"
    /\ build' = "health"
    /\ samples' = created
    /\ created' = None
    /\ UNCHANGED <<sources, health>>

\* Only this build writes what the second table reads: one step.
UnfinishedSamples == [feed |-> gtfs, rows |-> Sampled]      \* faulty: no ref()
HealthSource == samples

BuildHealth ==
    /\ build = "health"
    /\ build' = "done"
    /\ health' = HealthOf(HealthSource)
    /\ UNCHANGED <<sources, created, samples>>

\* A model fails or dbt is killed: the models that depend on it are skipped.
StopBuild ==
    /\ build \in {"samples", "health"}
    /\ build' = "idle"
    /\ created' = None
    /\ UNCHANGED <<sources, samples, health>>

MartsNext ==
    \/ Tick
    \/ StoreUpdates
    \/ \E f \in Feed : LoadGtfs(f)
    \/ StartSamples \/ SwapSamples \/ BuildHealth \/ StopBuild

-----------------------------------------------------------------------------
Table == [feed : Feed, rows : SUBSET Observed]

\* Every variable has its type, and the samples' grain is kept: one row for
\* a trip and a bucket (assert_mart_grains.sql).
MartsTypeOK ==
    /\ now \in 0 .. MaxNow
    /\ updates \in [Event -> Optional(Record)]
    /\ gtfs \in Feed
    /\ build \in {"idle", "samples", "health", "done"}
    /\ created \in Optional(Table)
    /\ samples \in Table
    /\ \A r, s \in samples.rows : SameSample(r, s) => r = s

\* A sample, once there, stays, and its event never becomes an older one:
\* not when updates arrive late and out of order, nor when a build begins
\* before and ends after other updates or another feed are committed.
SamplesNeverBackwards ==
    [][\A r \in samples.rows :
          \E s \in samples'.rows : SameSample(r, s) /\ TimeOf[s] >= TimeOf[r]]_samples

\* The samples that readers of the route health find for a bucket.
SamplesIn(b) == {r \in samples.rows : BucketOf(r) = b}

\* After a completed build the route health is the aggregate of the samples
\* that readers see (assert_route_health_uses_all_calculable_delays.sql).
\* Between the two tables of a build, and after builds that stopped there,
\* it is behind them and never ahead: no row counts more trips than there
\* are samples in its bucket, whatever was committed meanwhile.
HealthFollowsSamples ==
    /\ build = "done" => health = HealthOf(samples)
    /\ \A h \in health : h.observed <= Cardinality(SamplesIn(h.bucket))

\* A delay is measured from the nearest scheduled instant, on whatever
\* service day, unless the clock is changed near the prediction.
DelayTrue ==
    \A r \in samples.rows : \A b \in Bases(r, samples.feed) :
        ~NearChange(b.predicted)
        => IsNearest(Delay[samples.feed][r], b.predicted, b.scheduled)

\* dbt/models/marts/marts.yml, line 128: prediction timestamp minus the
\* nearest matching scheduled timestamp.
DelayIsNearest ==
    \A r \in samples.rows : \A b \in Bases(r, samples.feed) :
        IsNearest(Delay[samples.feed][r], b.predicted, b.scheduled)
=============================================================================
