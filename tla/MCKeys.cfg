SPECIFICATION FairSpec
CONSTANTS
    t1 = t1
    t2 = t2
    d1 = d1
    d2 = d2
    Tabs = {t1, t2}
    Devices = {d1, d2}
    Layouts <- OneOrTwoDevices
    MaxKey = 13
    MaxTroubles = 2
INVARIANTS
    TypeOK
    CanDecrypt
PROPERTY LoginSucceeds
CHECK_DEADLOCK FALSE
