SPECIFICATION FairSpec
CONSTANTS
    Keys = {a, b}
    EmptyKey = none
    MaxEntries = 3
    Burst = 2
    Unit = 3
    Refill = 2
    TTL = 3
    Cleaning = TRUE
    MaxTime = 6
    MaxSpent = 21
INVARIANT NothingForgiven
PROPERTIES
    ImplementsIdeal
    IdleForgotten
