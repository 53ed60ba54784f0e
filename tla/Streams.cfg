SPECIFICATION FairSpec
CONSTANTS
    Counts <- MCCounts
    Durations = {0, 1, 3, 4}
    InitDelays <- MCInitDelays
    FailAfters = {0, 2}
    Chunks = {0, 1, 2, 3}
    RangeHeaders <- MCRangeHeaders
    BufSize = 2
    MaxLines = 3
    MaxCount = 4
    MaxDuration = 4
    MaxSlow = 2
    MaxConns = 3
INVARIANTS
    ReceivedInOrder
    PaceKept
    WrittenInFull
PROPERTY HandlerReturns
