SPECIFICATION FairSpec
CONSTANTS
    bus1 = bus1  bus2 = bus2  early = early  recent = recent  other = other
    detour = detour  closure = closure  delay = delay
    detour1 = detour1  closure1 = closure1  delay1 = delay1  detour2 = detour2
    None = None
    Position <- MCPosition
    PositionRecord <- MCPosition
    PositionId <- MCPositionId
    VehicleOf <- MCVehicleOf
    TimeOf <- MCTimeOf
    IngestedAt <- MCIngestedAt
    IdRank <- MCIdRank
    OnBusRoute <- MCOnBusRoute
    Alert <- MCAlert
    AlertRecord <- MCAlert
    AlertEventId <- MCAlertEventId
    AlertOf <- MCAlertOf
    FeedOf <- MCFeedOf
    ActiveAt <- MCActiveAt
    Freshness = 1
    AlertFreshness = 1
    VehicleLimit = 1
    AlertLimit = 1
    MaxNow = 3
INVARIANTS
    TypeOK
    AlertsOfOneFeed
PROPERTIES
    StateNeverBackwards
    StoppedFeedShown
