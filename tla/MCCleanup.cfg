SPECIFICATION FairSpec
CONSTANTS
    NoUser = NoUser
    NoPassword = NoPassword
    pw = pw
    pw2 = pw2
    MaxInvites = 1
    Limit <- OnePlace
    InitialSecret <- OneSecret
    NumPersistent = 1
    Users = {u1, u2}
    Passwords = {pw}
    Names = {n1}
    MaxChannels = 1
    MaxChannelId = 3
    Ops = {"create", "rejoin", "password", "quit"}
PROPERTIES
    Implements
    EveryoneSettles
    EmptyChannelRemoved
CHECK_DEADLOCK FALSE
