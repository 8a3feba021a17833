SPECIFICATION FairSpec
CONSTANTS
    MaxSessions = 1
    MaxMessages = 2
    MaxKeys = 3
INVARIANTS
    TypeOK
    HiddenShowsNothing
    SharedSession
PROPERTIES
    PollingCatchesUp
