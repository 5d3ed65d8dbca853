SPECIFICATION Spec
CONSTANTS
    NoUser = NoUser
    NoPassword = NoPassword
    pw = pw
    pw2 = pw2
    MaxInvites = 1
    Limit <- NoChannels
    InitialSecret <- NoChannels
    NumPersistent = 0
    Users = {u1, u2}
    Passwords = {}
    Names = {n1}
    MaxChannels = 1
    MaxChannelId = 1
    Ops = {"create","kick","quit"}
INVARIANTS
    MembershipMatchesSession
SYMMETRY Symmetry
CHECK_DEADLOCK FALSE
