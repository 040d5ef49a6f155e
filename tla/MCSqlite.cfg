SPECIFICATION Spec
CONSTANTS
    t1 = t1
    t2 = t2
    q1 = q1
    q2 = q2
    s1 = s1
    s2 = s2
    s3 = s3
    Null = Null
    Threads <- TwoThreads
    Queries <- TwoQueries
    Statements <- TwoStatements
    Sessions = 1
    Prepares = 1
    Repeat = 1
    Schemas = 1
    Parameters = 1
    Habits = {}
INVARIANTS
    Owned
    Once
    OwnChanges
PROPERTIES
    Granted
