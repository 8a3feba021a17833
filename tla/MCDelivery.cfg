SPECIFICATION Spec
CONSTANTS
    Peers = {p1}
    Msgs = {m1}
    From <- MCFrom
    Reads = {"older"}
    MaxClears = 2
    Syncs = {s1, s2}
    Faults = {"crash", "connection", "request", "reload", "refusal", "elsewhere"}
SYMMETRY DeliverySymmetry
INVARIANTS
    TypeOK
    AckedIsStored
    ClearIsPending
CHECK_DEADLOCK FALSE
