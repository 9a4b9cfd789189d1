--------------------------- MODULE LiveOperations ---------------------------
(***************************************************************************)
(* The Live Operations page over the staging tables: two dbt views (the    *)
(* latest state of every vehicle, the latest alert snapshot) and a page    *)
(* that reads them in four queries while Spark stores more events and time *)
(* passes.  The tables are two EventStores: what StreamJob implements.     *)
(*                                                                         *)
(* The page is shown for all routes and directions.                        *)
(***************************************************************************)
EXTENDS Integers, FiniteSets

CONSTANTS
    Position,       \* event_ids of vehicle positions
    PositionRecord, \* their records
    PositionId,     \* PositionRecord -> Position
    VehicleOf,      \* PositionRecord -> vehicle_id
    TimeOf,         \* PositionRecord -> event_timestamp
    IngestedAt,     \* PositionRecord -> ingested_at
    IdRank,         \* Position -> place of the event_id in their order
    OnBusRoute,     \* records whose resolved route has route_type 3
    Alert,          \* event_ids of service alerts
    AlertRecord,    \* their records
    AlertEventId,   \* AlertRecord -> Alert
    AlertOf,        \* AlertRecord -> alert_id
    FeedOf,         \* AlertRecord -> feed_timestamp
    ActiveAt,       \* AlertRecord -> times within its active periods
    Freshness,      \* realtime_freshness_seconds
    AlertFreshness, \* alert_freshness_seconds
    VehicleLimit,   \* VEHICLE_LIMIT
    AlertLimit,     \* ALERT_LIMIT
    MaxNow,         \* bound: the clock
    None

ASSUME ConstantsAssumption ==
    /\ IsFiniteSet(PositionRecord) /\ IsFiniteSet(AlertRecord)
    /\ PositionId \in [PositionRecord -> Position]
    /\ TimeOf \in [PositionRecord -> Nat]
    /\ IngestedAt \in [PositionRecord -> Nat]
    /\ IdRank \in [Position -> Nat]
    /\ \A d, e \in Position : IdRank[d] = IdRank[e] => d = e
    /\ OnBusRoute \subseteq PositionRecord
    /\ AlertEventId \in [AlertRecord -> Alert]
    /\ FeedOf \in [AlertRecord -> Nat]
    /\ ActiveAt \in [AlertRecord -> SUBSET Nat]
    /\ Freshness \in Nat /\ AlertFreshness \in Nat
    /\ VehicleLimit \in Nat \ {0} /\ AlertLimit \in Nat \ {0} /\ MaxNow \in Nat
    /\ None \notin PositionRecord \cup AlertRecord \cup Nat

VARIABLES
    positionTopic, positions,   \* transit.vehicle_positions.v1 and its table
    alertTopic, alerts,         \* transit.service_alerts.v1 and its table
    now,                        \* the database's clock
    page                        \* what one run of the page has read so far

stores == <<positionTopic, positions, alertTopic, alerts>>
vars == <<stores, now, page>>

Positions == INSTANCE EventStore WITH
    Event <- Position, Record <- PositionRecord, IdOf <- PositionId,
    Valid <- PositionRecord, topic <- positionTopic, stored <- positions

Alerts == INSTANCE EventStore WITH
    Event <- Alert, Record <- AlertRecord, IdOf <- AlertEventId,
    Valid <- AlertRecord, topic <- alertTopic, stored <- alerts

-----------------------------------------------------------------------------
(* vehicle_latest_state *)

StoredPositions == {r \in PositionRecord : \E e \in Position : positions[e] = r}

\* ORDER BY event_timestamp DESC, ingested_at DESC, event_id DESC
LastIngested(r, s) ==               \* faulty: ingested_at first
    \/ IngestedAt[r] > IngestedAt[s]
    \/ IngestedAt[r] = IngestedAt[s] /\ IdRank[PositionId[r]] > IdRank[PositionId[s]]
Precedes(r, s) ==
    \/ TimeOf[r] > TimeOf[s]
    \/ /\ TimeOf[r] = TimeOf[s]
       /\ \/ IngestedAt[r] > IngestedAt[s]
          \/ /\ IngestedAt[r] = IngestedAt[s]
             /\ IdRank[PositionId[r]] > IdRank[PositionId[s]]

LatestState ==
    {r \in StoredPositions :
        \A s \in StoredPositions : VehicleOf[s] = VehicleOf[r] => s = r \/ Precedes(r, s)}

BusState == LatestState \cap OnBusRoute
IsFresh(r) == TimeOf[r] >= now - Freshness

(* service_alerts_latest_snapshot *)

StoredAlerts == {r \in AlertRecord : \E e \in Alert : alerts[e] = r}

LatestPerAlert ==                   \* faulty: the newest row of each alert
    {r \in StoredAlerts :
        \A s \in StoredAlerts : AlertOf[s] = AlertOf[r] => FeedOf[s] <= FeedOf[r]}
Snapshot == {r \in StoredAlerts : \A s \in StoredAlerts : FeedOf[s] <= FeedOf[r]}

NeverOutdated(r) == TRUE            \* faulty: no freshness
IsFeedFresh(r) == FeedOf[r] >= now - AlertFreshness
IsActive(r) == now \in ActiveAt[r]

-----------------------------------------------------------------------------
\* MAX, which is NULL for no rows.
Newest(S) ==
    IF \E t \in S : \A u \in S : u <= t
    THEN CHOOSE t \in S : \A u \in S : u <= t
    ELSE None

\* LIMIT n; the order of the rows is left open.
Unlimited(S, n) == {S}              \* faulty
Limited(S, n) == {T \in SUBSET S :
                    Cardinality(T) = IF Cardinality(S) < n THEN Cardinality(S) ELSE n}

Page == [at : {"start", "vehicleStatus", "alertStatus", "vehicles", "shown"},
         latestEvent : Nat \cup {None}, anyFresh : BOOLEAN,
         latestFeed : Nat \cup {None}, alertFresh : BOOLEAN,
         vehicles : SUBSET OnBusRoute, alerts : SUBSET AlertRecord,
         activeStored : BOOLEAN]

NoPage == [at |-> "start", latestEvent |-> None, anyFresh |-> FALSE,
           latestFeed |-> None, alertFresh |-> FALSE, vehicles |-> {}, alerts |-> {},
           activeStored |-> FALSE]

Init ==
    /\ Positions!Init
    /\ Alerts!Init
    /\ now = 0
    /\ page = NoPage

\* A position or an alert is published, or a transaction stores some.
StoreStep ==
    /\ \/ Positions!Next /\ UNCHANGED <<alertTopic, alerts>>
       \/ Alerts!Next /\ UNCHANGED <<positionTopic, positions>>
    /\ UNCHANGED <<now, page>>

Tick ==
    /\ now < MaxNow
    /\ now' = now + 1
    /\ UNCHANGED <<stores, page>>

\* show_live_operations begins or is run again: get_vehicle_feed_status.
ReadVehicleStatus ==
    /\ page.at \in {"start", "shown"}
    /\ page' = [NoPage EXCEPT !.at = "vehicleStatus",
                              !.latestEvent = Newest({TimeOf[r] : r \in BusState}),
                              !.anyFresh = \E r \in BusState : IsFresh(r)]
    /\ UNCHANGED <<stores, now>>

\* get_alert_feed_status
ReadAlertStatus ==
    /\ page.at = "vehicleStatus"
    /\ page' = [page EXCEPT !.at = "alertStatus",
                            !.latestFeed = Newest({FeedOf[r] : r \in Snapshot}),
                            !.alertFresh = \E r \in Snapshot : IsFeedFresh(r)]
    /\ UNCHANGED <<stores, now>>

\* get_live_vehicles; one row beyond the limit reveals a truncated map.
ReadVehicles ==
    /\ page.at = "alertStatus"
    /\ \E T \in Limited({r \in BusState : IsFresh(r)}, VehicleLimit + 1) :
          page' = [page EXCEPT !.at = "vehicles", !.vehicles = T]
    /\ UNCHANGED <<stores, now>>

\* get_active_alerts, and the page is rendered.  activeStored is not read: it
\* remembers whether the snapshot has an active alert at this moment.
ReadAlerts ==
    /\ page.at = "vehicles"
    /\ \E T \in Limited({r \in Snapshot : IsActive(r) /\ IsFeedFresh(r)}, AlertLimit + 1) :
          page' = [page EXCEPT !.at = "shown", !.alerts = T,
                               !.activeStored = \E r \in Snapshot : IsActive(r)]
    /\ UNCHANGED <<stores, now>>

\* PostgreSQL does not answer: the page shows an error instead.
ReadFails ==
    /\ page # NoPage
    /\ page' = NoPage
    /\ UNCHANGED <<stores, now>>

ShowPage == ReadVehicleStatus \/ ReadAlertStatus \/ ReadVehicles \/ ReadAlerts

Next ==
    \/ StoreStep
    \/ Tick
    \/ ReadVehicleStatus \/ ReadAlertStatus \/ ReadVehicles \/ ReadAlerts
    \/ ReadFails

Spec == Init /\ [][Next]_vars

\* Time passes, and the fragment runs every 30 seconds.
FairSpec == Spec /\ WF_vars(Tick) /\ WF_vars(ShowPage)

-----------------------------------------------------------------------------
\* Every variable has its type; LIMIT bounds what the page holds
\* (get_live_vehicles, get_active_alerts).
TypeOK ==
    /\ positionTopic \subseteq PositionRecord
    /\ positions \in [Position -> PositionRecord \cup {None}]
    /\ alertTopic \subseteq AlertRecord
    /\ alerts \in [Alert -> AlertRecord \cup {None}]
    /\ now \in 0 .. MaxNow
    /\ page \in Page
    /\ Cardinality(page.vehicles) <= VehicleLimit + 1
    /\ Cardinality(page.alerts) <= AlertLimit + 1

\* A vehicle that has a latest state keeps one, and it never goes back in
\* time, although positions arrive late, out of order and twice
\* (vehicle_latest_state.sql).
StateNeverBackwards ==
    [][\A r \in LatestState :
          LET states == {s \in LatestState' : VehicleOf[s] = VehicleOf[r]} IN
          states # {} /\ \A s \in states : TimeOf[s] >= TimeOf[r]]_vars

\* The alerts shown belong to one feed, and that feed is not older than the
\* one whose timestamp the caption gives, although snapshots are stored in
\* parts between the page's queries (service_alerts_latest_snapshot.sql).
AlertsOfOneFeed ==
    \A r \in page.alerts :
        /\ page.latestFeed # None => FeedOf[r] >= page.latestFeed
        /\ \A s \in page.alerts : FeedOf[s] = FeedOf[r]

\* When no newer feed arrives, the page in the end stops showing alerts and
\* says that their status is unknown (README.md, lines 43-46).
StoppedFeedShown == <>[](page.at = "shown" => ~page.alertFresh /\ page.alerts = {})

\* docs/testing/dashboard-live-operations.tdd.md, line 10: stale feeds and
\* fresh-but-empty selections have distinct UI states.  "No active alerts"
\* is rendered when the feed was fresh and no alert was returned.
EmptyMeansNoActiveAlert ==
    page.at = "shown" /\ page.alertFresh /\ page.alerts = {} => ~page.activeStored
=============================================================================
