SPECIFICATION FairSpec
CONSTANTS
    good = good  bad = bad  DLQ = DLQ
    Event <- MCEvent
    Accepted <- MCAccepted
    FeedCount = 2
    Cycles = 2
    FeedSize = 2
    QueueSize = 2
    MaxFailures = 1
INVARIANTS
    TypeOK
    ReportTrue
    NothingCarriedOver
PROPERTIES
    KeepsReporting
    ImplementsDelivery
