SPECIFICATION FairSpec
CONSTANTS
    s1 = s1
    s2 = s2
    s3 = s3
    a1 = a1
    a2 = a2
    a3 = a3
    NoSession = NoSession
    NoAddress = NoAddress
    Sessions = {s1, s2, s3}
    Addresses = {a1, a2, a3}
    Homes <- SharedHomes
    Talkers = {s2}
    Channels = {0, 1}
    CacheCap = 2
INVARIANTS
    CacheSound
    
PROPERTIES
    TalkerLearned
CHECK_DEADLOCK FALSE
