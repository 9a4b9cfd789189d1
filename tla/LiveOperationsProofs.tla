------------------------ MODULE LiveOperationsProofs ------------------------
(***************************************************************************)
(* The safety properties of LiveOperations, for every set of positions and *)
(* alerts, any order of arrival, and all limits and thresholds.  They rest *)
(* on one fact about the tables: what an EventStore holds, it keeps.       *)
(***************************************************************************)
EXTENDS LiveOperations, FiniteOrders, FiniteSetTheorems, TLAPS

\* The feed named by the caption has been stored, and a run of the page has no
\* alerts before its last query.
FeedWasRead ==
    /\ page.latestFeed # None => \E r \in StoredAlerts : FeedOf[r] = page.latestFeed
    /\ page.at # "shown" => page.alerts = {}

\* A row of the table is the record of its event.
IdsMatch == \A e \in Position : positions[e] # None => PositionId[positions[e]] = e

IInv == TypeOK /\ AlertsOfOneFeed /\ FeedWasRead

-----------------------------------------------------------------------------
(* The operators of the views and queries. *)

\* A row that precedes another one is not earlier.
LEMMA PrecedesInTime ==
    ASSUME NEW r \in PositionRecord, NEW s \in PositionRecord, Precedes(r, s)
    PROVE  TimeOf[r] >= TimeOf[s]
BY ConstantsAssumption DEF Precedes, ConstantsAssumption

\* The order of the view is one: it is irreflexive and transitive, and it is
\* total on rows that belong to different events.
LEMMA PrecedesOrder ==
    /\ \A r \in PositionRecord : ~Precedes(r, r)
    /\ \A r, s, t \in PositionRecord : Precedes(r, s) /\ Precedes(s, t) => Precedes(r, t)
    /\ \A r, s \in PositionRecord :
          PositionId[r] # PositionId[s] => Precedes(r, s) \/ Precedes(s, r)
<1>1. \A r \in PositionRecord :
        /\ TimeOf[r] \in Nat /\ IngestedAt[r] \in Nat /\ PositionId[r] \in Position
        /\ IdRank[PositionId[r]] \in Nat
  BY ConstantsAssumption DEF ConstantsAssumption
<1>2. \A r, s \in PositionRecord :
        PositionId[r] # PositionId[s] => IdRank[PositionId[r]] # IdRank[PositionId[s]]
  BY <1>1, ConstantsAssumption DEF ConstantsAssumption
<1> QED
  BY <1>1, <1>2 DEF Precedes

\* The view has a row for every vehicle of the table.
EveryVehicleHasState ==
    \A r \in StoredPositions : \E s \in LatestState : VehicleOf[s] = VehicleOf[r]

LEMMA LatestStateExists == TypeOK /\ IdsMatch => EveryVehicleHasState
<1> SUFFICES ASSUME TypeOK, IdsMatch, NEW r \in StoredPositions
             PROVE  \E s \in LatestState : VehicleOf[s] = VehicleOf[r]
  BY DEF EveryVehicleHasState
<1> DEFINE S == {s \in StoredPositions : VehicleOf[s] = VehicleOf[r]}
           R == {x \in S \X S : Precedes(x[1], x[2])}
<1>1. S \subseteq PositionRecord /\ S # {} /\ IsFiniteSet(S)
  <2>1. S \subseteq PositionRecord
    BY DEF StoredPositions
  <2> QED
    BY <2>1, FS_Subset, ConstantsAssumption DEF ConstantsAssumption
<1>2. \A x, y \in S : x = y \/ PositionId[x] # PositionId[y]
  BY ConstantsAssumption DEF IdsMatch, StoredPositions, ConstantsAssumption
<1>3. \A x, y \in S : <<x, y>> \in R <=> Precedes(x, y)
  OBVIOUS
<1> HIDE DEF R
<1>4. /\ \A x \in S : <<x, x>> \notin R
      /\ \A x, y, z \in S : <<x, y>> \in R /\ <<y, z>> \in R => <<x, z>> \in R
  BY <1>1, <1>3, PrecedesOrder
<1>5. PICK s \in S : \A y \in S : <<y, s>> \notin R
  <2> HIDE DEF S
  <2> QED
    BY <1>1, <1>4, FirstExists
<1>6. \A y \in S : s = y \/ Precedes(s, y)
  BY <1>1, <1>2, <1>3, <1>5, PrecedesOrder
<1>7. s \in LatestState
  BY <1>6 DEF LatestState
<1> QED
  BY <1>7

\* MAX returns one of its arguments or NULL.
LEMMA NewestIsMember ==
    ASSUME NEW S, NEW t, t = Newest(S), t # None
    PROVE  t \in S
BY DEF Newest

\* LIMIT n returns some of the rows, and at most n.
LEMMA LimitedRows ==
    ASSUME NEW S, IsFiniteSet(S), NEW n \in Nat, NEW T \in Limited(S, n)
    PROVE  T \subseteq S /\ Cardinality(T) <= n
<1>1. Cardinality(S) \in Nat
  BY FS_CardinalityType
<1> QED
  BY <1>1 DEF Limited

-----------------------------------------------------------------------------
(* What a step does to the tables. *)

\* A table changes only by new events.
LEMMA TablesGrow ==
    ASSUME TypeOK, [Next]_vars
    PROVE  /\ StoredPositions \subseteq StoredPositions'
           /\ StoredAlerts \subseteq StoredAlerts'
<1> USE DEF TypeOK
<1>1. CASE Positions!Next /\ UNCHANGED <<alertTopic, alerts>>
  <2>1. \A e \in Position : positions[e] # None => positions'[e] = positions[e]
    BY <1>1 DEF Positions!Next, Positions!Publish, Positions!Store
  <2>2. \A r \in PositionRecord : r # None
    BY ConstantsAssumption DEF ConstantsAssumption
  <2> QED
    BY <1>1, <2>1, <2>2 DEF StoredPositions, StoredAlerts
<1>2. CASE Alerts!Next /\ UNCHANGED <<positionTopic, positions>>
  <2>1. \A e \in Alert : alerts[e] # None => alerts'[e] = alerts[e]
    BY <1>2 DEF Alerts!Next, Alerts!Publish, Alerts!Store
  <2>2. \A r \in AlertRecord : r # None
    BY ConstantsAssumption DEF ConstantsAssumption
  <2> QED
    BY <1>2, <2>1, <2>2 DEF StoredPositions, StoredAlerts
<1>3. CASE UNCHANGED stores
  BY <1>3 DEF stores, StoredPositions, StoredAlerts
<1> QED
  BY <1>1, <1>2, <1>3 DEF Next, StoreStep, Tick, ReadVehicleStatus, ReadAlertStatus,
     ReadVehicles, ReadAlerts, ReadFails, vars

\* A step of a table keeps its type.
LEMMA TablesTyped ==
    ASSUME TypeOK, StoreStep
    PROVE  /\ positionTopic' \subseteq PositionRecord
           /\ positions' \in [Position -> PositionRecord \cup {None}]
           /\ alertTopic' \subseteq AlertRecord
           /\ alerts' \in [Alert -> AlertRecord \cup {None}]
<1> USE DEF TypeOK
<1>1. CASE Positions!Next /\ UNCHANGED <<alertTopic, alerts>>
  <2>1. CASE \E r \in PositionRecord : Positions!Publish(r)
    BY <1>1, <2>1 DEF Positions!Publish
  <2>2. CASE \E S \in SUBSET Position : Positions!Store(S)
    BY <1>1, <2>2 DEF Positions!Store
  <2> QED
    BY <1>1, <2>1, <2>2 DEF Positions!Next
<1>2. CASE Alerts!Next /\ UNCHANGED <<positionTopic, positions>>
  <2>1. CASE \E r \in AlertRecord : Alerts!Publish(r)
    BY <1>2, <2>1 DEF Alerts!Publish
  <2>2. CASE \E S \in SUBSET Alert : Alerts!Store(S)
    BY <1>2, <2>2 DEF Alerts!Store
  <2> QED
    BY <1>2, <2>1, <2>2 DEF Alerts!Next
<1> QED
  BY <1>1, <1>2 DEF StoreStep

-----------------------------------------------------------------------------
(* The invariant. *)

LEMMA NoPageTyped ==
    /\ NoPage \in Page
    /\ Cardinality(NoPage.vehicles) <= VehicleLimit + 1
    /\ Cardinality(NoPage.alerts) <= AlertLimit + 1
    /\ NoPage.alerts = {} /\ NoPage.latestFeed = None
<1>1. Cardinality({}) = 0
  BY FS_EmptySet
<1> QED
  BY <1>1, ConstantsAssumption DEF NoPage, Page, ConstantsAssumption

LEMMA InitInvariant == Init => IInv
<1> SUFFICES ASSUME Init PROVE IInv
  OBVIOUS
<1>1. TypeOK
  BY NoPageTyped, ConstantsAssumption
  DEF Init, TypeOK, Positions!Init, Alerts!Init, ConstantsAssumption
<1>2. AlertsOfOneFeed /\ FeedWasRead
  BY NoPageTyped DEF Init, AlertsOfOneFeed, FeedWasRead
<1> QED
  BY <1>1, <1>2 DEF IInv

\* Steps that leave the page alone.
LEMMA PageUnchanged ==
    ASSUME IInv, [Next]_vars, page' = page
    PROVE  AlertsOfOneFeed' /\ FeedWasRead'
<1>1. StoredAlerts \subseteq StoredAlerts'
  BY TablesGrow DEF IInv
<1> QED
  BY <1>1 DEF IInv, AlertsOfOneFeed, FeedWasRead

LEMMA VehicleStatusStep ==
    ASSUME IInv, ReadVehicleStatus
    PROVE  IInv'
<1>1. Newest({TimeOf[r] : r \in BusState}) \in Nat \cup {None}
  <2>1. BusState \subseteq PositionRecord
    BY DEF BusState, LatestState, StoredPositions
  <2> QED
    BY <2>1, NewestIsMember, ConstantsAssumption DEF ConstantsAssumption
<1>2. (\E r \in BusState : IsFresh(r)) \in BOOLEAN
  OBVIOUS
<1>3. /\ page' \in Page
      /\ page'.vehicles = NoPage.vehicles /\ page'.alerts = NoPage.alerts
      /\ page'.latestFeed = NoPage.latestFeed
  BY <1>1, <1>2, NoPageTyped DEF ReadVehicleStatus, Page, NoPage
<1> QED
  BY <1>3, NoPageTyped
  DEF IInv, TypeOK, AlertsOfOneFeed, FeedWasRead, ReadVehicleStatus, stores

LEMMA AlertStatusStep ==
    ASSUME IInv, ReadAlertStatus
    PROVE  IInv'
<1> DEFINE newest == Newest({FeedOf[r] : r \in Snapshot})
<1>1. newest # None => \E r \in StoredAlerts : FeedOf[r] = newest
  BY NewestIsMember DEF Snapshot
<1>2. newest \in Nat \cup {None}
  BY <1>1, ConstantsAssumption DEF StoredAlerts, ConstantsAssumption
<1>3. /\ page' \in Page
      /\ page'.vehicles = page.vehicles /\ page'.alerts = {}
      /\ page'.latestFeed = newest
  BY <1>2 DEF ReadAlertStatus, IInv, TypeOK, FeedWasRead, Page
<1>4. page.alerts = {}
  BY DEF IInv, FeedWasRead, ReadAlertStatus
<1> HIDE DEF newest
<1> QED
  BY <1>1, <1>3, <1>4
  DEF IInv, TypeOK, AlertsOfOneFeed, FeedWasRead, StoredAlerts, ReadAlertStatus, stores

LEMMA VehiclesStep ==
    ASSUME IInv, ReadVehicles
    PROVE  IInv'
<1> DEFINE rows == {r \in BusState : IsFresh(r)}
<1>1. PICK T \in Limited(rows, VehicleLimit + 1) :
        page' = [page EXCEPT !.at = "vehicles", !.vehicles = T]
  BY DEF ReadVehicles
<1>2. T \subseteq rows /\ Cardinality(T) <= VehicleLimit + 1
  <2>1. IsFiniteSet(rows)
    <3>1. rows \subseteq PositionRecord
      BY DEF BusState, LatestState, StoredPositions
    <3> QED
      BY <3>1, FS_Subset, ConstantsAssumption DEF ConstantsAssumption
  <2> QED
    BY <1>1, <2>1, LimitedRows, ConstantsAssumption DEF ConstantsAssumption
<1>3. T \subseteq OnBusRoute
  BY <1>2 DEF BusState
<1> HIDE DEF rows
<1>4. /\ page' \in Page /\ page'.vehicles = T /\ page'.alerts = page.alerts
      /\ page'.latestFeed = page.latestFeed /\ page.at # "shown"
  BY <1>1, <1>3 DEF ReadVehicles, IInv, TypeOK, Page
<1> QED
  BY <1>2, <1>4
  DEF IInv, TypeOK, AlertsOfOneFeed, FeedWasRead, StoredAlerts, ReadVehicles, stores

LEMMA AlertsStep ==
    ASSUME IInv, ReadAlerts
    PROVE  IInv'
<1> DEFINE rows == {r \in Snapshot : IsActive(r) /\ IsFeedFresh(r)}
           active == \E r \in Snapshot : IsActive(r)
<1>1. PICK T \in Limited(rows, AlertLimit + 1) :
        page' = [page EXCEPT !.at = "shown", !.alerts = T, !.activeStored = active]
  BY DEF ReadAlerts
<1>2. T \subseteq Snapshot /\ Cardinality(T) <= AlertLimit + 1
  <2>1. IsFiniteSet(rows)
    <3>1. rows \subseteq AlertRecord
      BY DEF Snapshot, StoredAlerts
    <3> QED
      BY <3>1, FS_Subset, ConstantsAssumption DEF ConstantsAssumption
  <2> QED
    BY <1>1, <2>1, LimitedRows, ConstantsAssumption DEF ConstantsAssumption
<1>3. active \in BOOLEAN
  OBVIOUS
<1> HIDE DEF rows, active
<1>4. /\ page' \in Page /\ page'.vehicles = page.vehicles /\ page'.alerts = T
      /\ page'.latestFeed = page.latestFeed /\ page'.at = "shown"
  <2>1. T \subseteq AlertRecord
    BY <1>2 DEF Snapshot, StoredAlerts
  <2> QED
    BY <1>1, <1>3, <2>1 DEF IInv, TypeOK, Page
<1>5. AlertsOfOneFeed'
  <2>1. \A r, s \in T : FeedOf[s] = FeedOf[r]
    BY <1>2, ConstantsAssumption DEF Snapshot, StoredAlerts, ConstantsAssumption
  <2>2. ASSUME NEW r \in T, page.latestFeed # None
        PROVE  FeedOf[r] >= page.latestFeed
    BY <1>2, <2>2, ConstantsAssumption
    DEF IInv, FeedWasRead, Snapshot, StoredAlerts, ConstantsAssumption
  <2> QED
    BY <1>4, <2>1, <2>2 DEF AlertsOfOneFeed
<1>6. FeedWasRead'
  BY <1>4 DEF IInv, FeedWasRead, StoredAlerts, ReadAlerts, stores
<1> QED
  BY <1>2, <1>4, <1>5, <1>6 DEF IInv, TypeOK, ReadAlerts, stores

\* Every step keeps the invariant.
LEMMA NextInvariant == IInv /\ [Next]_vars => IInv'
<1> SUFFICES ASSUME IInv, [Next]_vars PROVE IInv'
  OBVIOUS
<1>1. CASE StoreStep
  BY <1>1, TablesTyped, PageUnchanged DEF IInv, TypeOK, StoreStep
<1>2. CASE Tick
  <2>1. TypeOK'
    BY <1>2, ConstantsAssumption DEF IInv, TypeOK, Tick, stores, ConstantsAssumption
  <2> QED
    BY <1>2, <2>1, PageUnchanged DEF IInv, Tick
<1>3. CASE ReadVehicleStatus
  BY <1>3, VehicleStatusStep
<1>4. CASE ReadAlertStatus
  BY <1>4, AlertStatusStep
<1>5. CASE ReadVehicles
  BY <1>5, VehiclesStep
<1>6. CASE ReadAlerts
  BY <1>6, AlertsStep
<1>7. CASE ReadFails
  BY <1>7, NoPageTyped
  DEF IInv, TypeOK, AlertsOfOneFeed, FeedWasRead, ReadFails, stores
<1>8. CASE UNCHANGED vars
  BY <1>8, PageUnchanged DEF IInv, TypeOK, vars, stores
<1> QED
  BY <1>1, <1>2, <1>3, <1>4, <1>5, <1>6, <1>7, <1>8 DEF Next

-----------------------------------------------------------------------------
\* Every reachable state meets the invariant.
LEMMA LiveInvariant == Spec => []IInv
BY InitInvariant, NextInvariant, PTL DEF Spec

\* The queries return values of their types and no more rows than their limits
\* (get_live_vehicles, get_active_alerts).
THEOREM LiveTypes == Spec => []TypeOK
<1>1. IInv => TypeOK
  BY DEF IInv
<1> QED
  BY <1>1, LiveInvariant, PTL

\* The alerts shown are of one feed, which is not older than the feed of the
\* caption (service_alerts_latest_snapshot.sql, show_live_operations).
THEOREM LiveAlertsOfOneFeed == Spec => []AlertsOfOneFeed
<1>1. IInv => AlertsOfOneFeed
  BY DEF IInv
<1> QED
  BY <1>1, LiveInvariant, PTL

\* What the table of positions holds under an event_id has that event_id.
LEMMA IdsKept ==
    ASSUME TypeOK, IdsMatch, [Next]_vars
    PROVE  IdsMatch'
<1>1. CASE UNCHANGED positions
  BY <1>1 DEF IdsMatch
<1>2. ASSUME NEW S \in SUBSET Position, Positions!Store(S)
      PROVE  IdsMatch'
  BY <1>2 DEF IdsMatch, Positions!Store
<1> QED
  BY <1>1, <1>2 DEF Next, StoreStep, Positions!Next, Positions!Publish, Tick, ReadVehicleStatus,
     ReadAlertStatus, ReadVehicles, ReadAlerts, ReadFails, vars, stores

LEMMA LiveIds == Spec => []IdsMatch
<1>1. Init => IdsMatch
  BY DEF Init, Positions!Init, IdsMatch
<1>2. IInv /\ IdsMatch /\ [Next]_vars => IdsMatch'
  BY IdsKept DEF IInv
<1> QED
  BY <1>1, <1>2, LiveInvariant, PTL DEF Spec

\* A vehicle keeps a latest state and it never goes back in time, in whatever
\* order its positions are stored (vehicle_latest_state.sql).
THEOREM LiveNeverBackwards == Spec => StateNeverBackwards
<1> DEFINE States(r) == {s \in LatestState' : VehicleOf[s] = VehicleOf[r]}
           NotBackwards ==
               \A r \in LatestState :
                   States(r) # {} /\ \A s \in States(r) : TimeOf[s] >= TimeOf[r]
<1>1. ASSUME IInv, EveryVehicleHasState', [Next]_vars, NEW r \in LatestState
      PROVE  States(r) # {} /\ \A s \in States(r) : TimeOf[s] >= TimeOf[r]
  <2>1. r \in StoredPositions'
    BY <1>1, TablesGrow DEF IInv, LatestState
  <2>2. States(r) # {}
    BY <1>1, <2>1 DEF EveryVehicleHasState
  <2>3. ASSUME NEW s \in States(r)
        PROVE  TimeOf[s] >= TimeOf[r]
    <3>1. r = s \/ Precedes(s, r)
      BY <2>1, <2>3 DEF LatestState
    <3>2. r \in PositionRecord /\ s \in PositionRecord
      BY <2>1, <2>3 DEF LatestState, StoredPositions
    <3> QED
      BY <3>1, <3>2, PrecedesInTime, ConstantsAssumption DEF ConstantsAssumption
  <2> QED
    BY <2>2, <2>3
<1>2. IInv /\ EveryVehicleHasState' /\ [Next]_vars => [NotBackwards]_vars
  BY <1>1
<1>3. IInv /\ IdsMatch => EveryVehicleHasState
  BY LatestStateExists DEF IInv
<1> QED
  BY <1>2, <1>3, LiveInvariant, LiveIds, PTL DEF Spec, StateNeverBackwards
=============================================================================
