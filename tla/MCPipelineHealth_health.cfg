SPECIFICATION FairSpec
CONSTANTS
    StaleAfter = 1
    Retention = 2
    MaxLog = 2
    MaxBatch = 3
    MaxBus = 2
    None = None
INVARIANTS
    TypeOK
    BacklogNotUnderstated
    ProgressConsistent
    RunningMeansRecent
PROPERTIES
    ProgressNeverBackwards
    CrashDegrades
