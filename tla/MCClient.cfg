SPECIFICATION FairSpec
CONSTANTS
    none = none
    NoKey = none
    Channels = {0, 1, 2}
    MaxCommands = 3
    MaxPushes = 1
    MaxLosses = 1
CHECK_DEADLOCK FALSE
INVARIANTS
    ViewAgrees
    NothingAbandoned
    OneRecorder
PROPERTY
    ComesToRest
