SPECIFICATION FairSpec
CONSTANTS
    home = home
    other = other
    none = none
    p = p
    q = q
    Paths = {home, other}
    Default = home
    Passwords = {p, q}
    None = none
    MaxMessages = 1
    MaxStops = 1
    MaxFailures = 1
CHECK_DEADLOCK FALSE
INVARIANTS
    OpenIsOnDisk
    ArchiveIsStore
PROPERTIES
    
    ShownIsSaved
