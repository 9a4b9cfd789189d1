SPECIFICATION Spec
CONSTANTS
    a1 = a1  a2 = a2  b1 = b1  b2 = b2
    A = A  B = B  r1 = r1  r2 = r2  summer = summer  winter = winter
    None = None
    Event <- MCRecord
    Record <- MCRecord
    IdOf <- MCIdOf
    IdRank <- MCIdRank
    TimeOf <- MCTimeOf
    TripOf <- MCTripOf
    RouteOf <- MCRouteOf
    StopsOf <- MCStopsOf
    Feed = {summer, winter}
    Schedule <- MCSchedule
    Buses <- MCBuses
    Day = 8
    Change = 40
    OffsetBefore = 1
    OffsetAfter = 0
    Bucket = 2
    Late = 0
    MaxNow = 3
    Window = 2
    StaleAfter = 0
    SampleLimit = 1
INVARIANT LargestDelayShown
\* The clock stops at its bound and everything may have been read.
CHECK_DEADLOCK FALSE
