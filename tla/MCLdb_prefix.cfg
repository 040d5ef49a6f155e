SPECIFICATION Spec
CONSTANTS
    None = None
    ByteMod = 4
    Keys <- KeysOfMinusOne
    Starts <- MinusOne
    Ranges <- SomeRanges
    QuietOpen = TRUE
    MaxBatch = 2
INVARIANT
    WalksPrefix
