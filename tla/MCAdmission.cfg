SPECIFICATION Spec
CONSTANTS
    c1 = c1
    c2 = c2
    c3 = c3
    c4 = c4
    c5 = c5
    home = home
    office = office
    alice = alice
    bob = bob
    carol = carol
    Nobody = Nobody
    Conns = {c1, c2, c3, c4, c5}
    Addrs = {home, office}
    Usernames = {alice, bob, carol}
    AddrOf <- AddrOfConn
    NameOf <- NameOfConn
    MaxTotal = 3
    MaxPerAddr = 2
    MaxUsers = 2
INVARIANTS
    TotalRespected
    NoLockout
    NamesExclusive
CHECK_DEADLOCK FALSE
