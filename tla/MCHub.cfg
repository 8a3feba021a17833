SPECIFICATION FairSpec
CONSTANTS
    u1 = u1
    u2 = u2
    s1 = s1
    s2 = s2
    NoClient = NoClient
    Ready = Ready
    Clients = {c1}
    Users = {u1, u2}
    Senders = {s1, s2}
    Broadcasts = {b1}
    Cap = 1
    Owner <- MCOwner
    Wanted <- MCWanted
INVARIANTS
    TypeOK
    NoPanic
    NothingLostWithRoom
    ServedOrBeingInserted
PROPERTIES
    DisconnectedIsReleased
    SendToReturns
CHECK_DEADLOCK FALSE
