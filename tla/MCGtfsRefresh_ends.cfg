SPECIFICATION FairSpec
CONSTANTS
    p1 = p1  p2 = p2
    current = current  expired = expired  broken = broken
    routes = routes  trips = trips
    None = None
    Process <- MCProcess
    Feed <- SmallFeed
    Effective <- SmallFeed
    Sound <- SmallFeed
    Table <- SmallTable
    Attempts = 2
    Chunks = 1
PROPERTY
    RefreshEnds
