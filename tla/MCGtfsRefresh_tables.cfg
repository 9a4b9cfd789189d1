SPECIFICATION Spec
CONSTANTS
    p1 = p1  p2 = p2
    current = current  expired = expired  broken = broken
    routes = routes  trips = trips
    None = None
    Process <- MCProcess
    Feed <- MCFeed
    Effective <- MCEffective
    Sound <- MCSound
    Table <- MCTable
    Attempts = 2
    Chunks = 2
SYMMETRY MCSymmetry
INVARIANTS
    TypeOK
    TablesMatchState
    OnlyFitFeeds
    ArchiveNamed
PROPERTIES
    LoadsOnce
    ImplementsFeedStore
    RunsAdvance
