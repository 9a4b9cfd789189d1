SPECIFICATION Spec
CONSTANTS
    StaleAfter = 1
    Retention = 1
    MaxLog = 1
    MaxBatch = 1
    MaxBus = 1
    None = None
INVARIANT RecentIdleShown
