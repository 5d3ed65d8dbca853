SPECIFICATION Spec
CONSTANTS
    NoUser = NoUser
    NoPassword = NoPassword
    pw = pw
    pw2 = pw2
    MaxInvites = 1
    Limit <- NoChannels
    InitialSecret <- NoChannels
    NumPersistent = 0
    Users = {u1, u2}
    Passwords = {}
    Names = {n1, n2}
    MaxChannels = 2
    MaxChannelId = 2
    Ops = {"create","share","quit"}
INVARIANTS
    SharesOfMembers
    SharingFlagMatches
    MembershipMatchesSession
SYMMETRY Symmetry
CHECK_DEADLOCK FALSE
