SPECIFICATION Spec
CONSTANTS
    MaxFrames = 4
    Interval = 3
    MaxFragments = 3
    LateWindow = 4
    QueueSize = 2
    MaxInFlight = 3
    MaxDuplicates = 1
INVARIANTS
    NoCorruptPicture
CHECK_DEADLOCK FALSE
