SPECIFICATION Spec
CONSTANTS
    Peers = {p1}
    Msgs = {m1}
    From <- MCFrom
    MaxClears = 1
    Syncs = {s1}
    Reads = {"room", "older"}
    Faults = {}
INVARIANTS
    ClearedIsGone
CHECK_DEADLOCK FALSE
