SPECIFICATION RoamingSpec
CONSTANTS
    Peers = {p1}
    Msgs = {m1}
    From <- MCFrom
    MaxClears = 1
    Syncs = {s1}
    Reads = {"room"}
    Faults = {"crash", "connection", "request", "reload", "refusal", "elsewhere", "deletion"}
PROPERTIES
    QueueDrains
CHECK_DEADLOCK FALSE
