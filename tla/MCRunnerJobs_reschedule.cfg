SPECIFICATION Spec
CONSTANTS
    n1 = n1  n2 = n2  r1 = r1  r2 = r2  j1 = j1  j2 = j2  j3 = j3
    Empty = Empty  NoJob = NoJob
    l1 = l1  l2 = l2  s1 = s1  s2 = s2
    Names <- OneName
    RandNames <- OneRand
    Jobs <- TwoJobs
    Loopers <- OneLooper
    Schedulers <- OneScheduler
CHECK_DEADLOCK FALSE
PROPERTY RemovedByOwnFalse
