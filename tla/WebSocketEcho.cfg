SPECIFICATION FairSpec
CONSTANTS
    MaxFragment = 2
    MaxMessage = 2
    ControlMax = 1
    Sizes = {0, 1, 2, 3}
    Answers = {"echo", "error"}
    MaxFrames = 4
    MaxSplit = 3
INVARIANTS
    TypeOK
    EchoesInOrder
    LawfulClientNotBlamed
    NothingAfterClose
PROPERTY ConnectionEnds
