SPECIFICATION Spec
CONSTANTS
    MaxFragment = 1
    MaxMessage = 3
    ControlMax = 1
    Sizes = {0, 1}
    Answers = {"echo"}
    MaxFrames = 3
    MaxSplit = 4
INVARIANT SplitsMessage
CHECK_DEADLOCK FALSE
