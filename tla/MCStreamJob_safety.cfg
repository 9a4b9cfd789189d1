SPECIFICATION Spec
CONSTANTS
    p1 = p1  p2 = p2  t1 = t1  t2 = t2
    old = old  mid = mid  new = new
    oldA = oldA  oldB = oldB  midA = midA  newA = newA  bad = bad
    None = None
    Partition <- MCPartition
    Task <- MCTask
    Event <- MCEvent
    Record <- MCRecord
    IdOf <- MCIdOf
    PartitionOf <- MCPartitionOf
    TimeOf <- MCTimeOf
    Width <- MCWidth
    Valid <- MCValid
    Poison = {}
    Delay = 2
    FromEarliest = FALSE
    MaxLog = 2
    MaxFailures = 2
SYMMETRY MCSymmetry
INVARIANTS
    TypeOK
    NoTornEvent
    NoSilentLoss
    FirstRecordWins
    IInv
PROPERTIES
    ImplementsEventStore
    BurstKept
    QuietBetweenBatches
\* The topic may fall silent for good: the job then waits.
CHECK_DEADLOCK FALSE
