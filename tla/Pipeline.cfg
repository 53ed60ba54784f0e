SPECIFICATION FairSpec
CONSTANTS
    Paths <- MCPaths
    Prefix <- MCPrefix
    Number <- MCNumber
    Span <- MCSpan
    Headers = {"x:y", "x:y?z", "x:%79", "x:%"}
    Reads <- MCReads
    Weighted <- MCWeighted
    Grain = 12
    Directive <- MCDirective
    Targets <- MCTargets
    AllowedDomains = {"friend"}
    MaxSegments = 6
    MaxDirectives = 2
    MaxRedirects = 20
    MaxDuration = 3
INVARIANTS
    DelaysWithinLimit
    ParseRoundTrip
    ParseComplete
    ChainKeepsPromise
    ChosenByWeight
PROPERTIES
    ChainNotRejected
    ChainEnds
    RedirectsInside
