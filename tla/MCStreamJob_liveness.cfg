SPECIFICATION FairSpec
CONSTANTS
    p1 = p1  p2 = p2  t1 = t1  t2 = t2
    old = old  mid = mid  new = new
    oldA = oldA  oldB = oldB  midA = midA  newA = newA  bad = bad
    None = None
    Partition <- MCPartition
    Task <- MCTask
    Event <- MCEvent
    Record <- LiveRecord
    IdOf <- LiveIdOf
    PartitionOf <- MCPartitionOf
    TimeOf <- MCTimeOf
    Width <- LiveWidth
    Valid <- LiveRecord
    Poison = {bad}
    Delay = 2
    FromEarliest = TRUE
    MaxLog = 2
    MaxFailures = 1
PROPERTIES
    EventuallyConsumed
    PoisonBlocks
\* The topic may fall silent for good: the job then waits.
CHECK_DEADLOCK FALSE
