SPECIFICATION RunnerSpec
CONSTANTS
    h1 = h1  h2 = h2  n1 = n1  r1 = r1  j1 = j1  j2 = j2  s1 = s1
    Empty = Empty  NoJob = NoJob  EventLoop = EventLoop
    Handles <- TwoHandles
    Names <- OneName
    RandNames <- OneRand
    Jobs <- TwoJobs
    Schedulers <- OneScheduler
CHECK_DEADLOCK FALSE
INVARIANTS
    NotAfterFalse
    CalledThenFreed
PROPERTIES
    KeptUnlessFalse
    Invoked
    Freed
