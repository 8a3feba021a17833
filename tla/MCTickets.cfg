SPECIFICATION TicketSpec
CONSTANTS
    u1 = u1
    u2 = u2
    i1 = i1
    i2 = i2
    i3 = i3
    c1 = c1
    c2 = c2
    c3 = c3
    Users = {u1, u2}
    Issues = {i1, i2, i3}
    Caller <- MCCaller
    Uses = {c1, c2, c3}
    Presented <- MCPresented
    Lifetime = 1
    MaxClock = 3
INVARIANTS
    SingleUse
PROPERTIES
    GoodTicketIsKept
    ExpiredIsRefused
CHECK_DEADLOCK FALSE
