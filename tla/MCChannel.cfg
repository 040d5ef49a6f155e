SPECIFICATION FairChannel
CONSTANTS
    s1 = s1  s2 = s2  r1 = r1  r2 = r2  a = a  b = b  NoValue = NoValue
    Senders <- MCSenders
    Receivers <- MCReceivers
    Values <- MCValues
    AssignMayThrow = TRUE
    MoveMayThrow = TRUE
INVARIANTS
    NoDataRace
PROPERTIES
    BufferSpec
    Handover
CHECK_DEADLOCK FALSE
