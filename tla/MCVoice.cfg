SPECIFICATION FairSpec
CONSTANTS
    space = space
    Keys = {space}
    Binding = {{space}}
    MaxRequests = 3
    SeqSpace = 8
    LateWindow = 3
    Delay = 2
    MaxFrames = 4
    MaxDuplicates = 1
INVARIANTS
    OneCapture
    ReleasedIsSilent
    PlaysInOrder
    NothingWasted
PROPERTIES
    EndIsLast
    EveryRequestAnswered
CHECK_DEADLOCK FALSE
