SPECIFICATION FairSpec
CONSTANTS
    t1 = t1
    t2 = t2
    i1 = i1
    i2 = i2
    None = None
    Threads <- AllThreads
    Pairs <- ThreePairs
    Indexes <- OneIndex
    TriggerName <- DefaultName
    Dup = TRUE
    Habits = {}
    MaxOps = 2
    MaxUnindexed = 1
INVARIANTS
    IndexFollowsTable
    LoopsAreExact
PROPERTIES
    WholeOperations
    LockReleased
