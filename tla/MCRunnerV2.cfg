SPECIFICATION FairSpec
CONSTANTS
    c1 = c1  c2 = c2  c3 = c3  h1 = h1  h2 = h2
    Clients <- ThreeClients
    Handles <- TwoHandles
    QueueCapacity = 1
    InitMayFail = TRUE
INVARIANTS
    HeldAlive
    ListenerAlive
PROPERTIES
    Served
    Disposal
CHECK_DEADLOCK FALSE
