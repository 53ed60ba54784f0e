SPECIFICATION FairSpec
CONSTANTS
    r1 = r1
    r2 = r2
    alice = alice
    Reqs <- MCReqs
    Clients <- MCClients
    ClientOf <- MCClientOf
    Slots = 1
    MaxDuration = 2
    ConvertTimeout = 3
    ClientTimeout = 3
    Delays = {0, 1, 2, 3}
    Burst = 1
    Refill = 1
    MaxTime = 15
INVARIANTS
    SlotsBalanced
    GracefulExit
    ObservedUnlessPanicked
    GivesUpOnlyOnLong
PROPERTIES
    RequestsEnd
    SignalEndsProcess
