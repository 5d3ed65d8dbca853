SPECIFICATION Spec
CONSTANTS
    NoUser = NoUser
    NoPassword = NoPassword
    pw = pw
    pw2 = pw2
    MaxInvites = 1
    Limit <- OnePlace
    InitialSecret <- OneSecret
    Passwords = {pw}
    NumPersistent = 1
    Users = {u1, u2}
    Names = {n1, n2}
    MaxChannels = 1
    MaxChannelId = 3
    Ops = {"create","rejoin","password","invite","kick","throttle","quit"}
INVARIANTS
    TypeOK
    CapacityRespected
    RegistryOk
    HomeChannelHasUser
PROPERTIES
    EntryAuthorized
    DeletedOnlyEmpty
SYMMETRY Symmetry
CHECK_DEADLOCK FALSE
