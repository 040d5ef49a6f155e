SPECIFICATION Spec
CONSTANTS
    c1 = c1  c2 = c2  c3 = c3  h1 = h1  h2 = h2
    Clients <- TwoClients
    Handles <- OneHandle
    QueueCapacity = 1
    InitMayFail = FALSE
INVARIANT LastReleaseSafe
CHECK_DEADLOCK FALSE
