SPECIFICATION Spec
CONSTANTS
    Keys = {a, b, c}
    EmptyKey = none
    MaxEntries = 2
    Burst = 2
    Unit = 2
    Refill = 1
    TTL = 1
    Cleaning = TRUE
    MaxTime = 3
    MaxSpent = 10
SYMMETRY ClientSymmetry
INVARIANTS
    TypeOK
    TrackedBound
    WindowBound
PROPERTY EvictsLeastRecent
