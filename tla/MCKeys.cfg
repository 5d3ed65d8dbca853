SPECIFICATION FairSpec
CONSTANTS
    nowhere = nowhere
    a = a
    b = b
    Users = {a, b}
    Rooms = {1}
    Nowhere = nowhere
    MaxJoins = 3
    Writers = {a}
    MaxChats = 1
CHECK_DEADLOCK FALSE
INVARIANTS
    TypeOK
    
    
    ReadableByHolders
PROPERTY
    ExchangeEnds
