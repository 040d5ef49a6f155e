SPECIFICATION FairSpec
CONSTANTS
    None = None
    ByteMod = 4
    Keys <- FiveKeys
    Starts <- SomePrefixes
    Ranges <- SomeRanges
    QuietOpen = TRUE
    MaxBatch = 2
INVARIANTS
    WalksPrefix
    RangeExact
PROPERTY
    RangeEnds
