SPECIFICATION StacksSpec
CONSTANTS
    t1 = t1  t2 = t2  t3 = t3  NoThread = NoThread
    This = This  o1 = o1  o2 = o2  s1 = s1  s2 = s2  s3 = s3  NoStack = NoStack
    Threads <- ThreeThreads
    InvokeThenThrow = FALSE
    CopyPtr = FALSE
    Others <- TwoOthers
    Stacks <- ThreeStacks
    CacheSizes <- UpToTwo
CHECK_DEADLOCK FALSE
INVARIANTS
    ResumesSuspended
    DeletedLast
    OnePlace
PROPERTIES
    Resumption
    Deletion
