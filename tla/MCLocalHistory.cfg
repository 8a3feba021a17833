SPECIFICATION Spec
CONSTANTS
    MaxMsg = 2
    Own = {1}
    MaxMessages = 1
    MirrorSize = 1
    Callers = {a, b}
    Nobody = Nobody
    MaxCalls = 3
SYMMETRY Interchangeable
INVARIANTS
    TypeOK
    PromisesHold
CHECK_DEADLOCK FALSE
PROPERTIES
    FileIsWhole
