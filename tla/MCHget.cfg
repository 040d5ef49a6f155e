SPECIFICATION FairHget
CONSTANTS
    UintMod = 4
    UrlCounts <- UpToFive
    MaxRequests = 9
    GoMayFail = TRUE
INVARIANTS
    OneChain
    RoundRobin
PROPERTY
    Ends
CHECK_DEADLOCK FALSE
