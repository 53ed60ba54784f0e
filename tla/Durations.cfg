SPECIFICATION DelaySpec
CONSTANTS
    Half = 32
    Milli = 4
    Limits = {0, 10, 31}
    MaxNumber = 36
INVARIANTS
    DelaySafe
    MeaningKept
