SPECIFICATION Spec
CONSTANTS
    r1 = r1
    r2 = r2
    m1 = m1
    m2 = m2
    Rooms = {r1, r2}
    Msgs = {m1, m2}
    Home <- MCHome
    Pictures = {m1}
    Openers = {o1, o2}
    Jobs = {j1, j2}
    MaxTurns = 3
    None = None
SYMMETRY Interchangeable
INVARIANTS
    TypeOK
    ShowsWhatIsOpen
PROPERTIES
    ShownIsKept
    RemovedStaysHidden
CHECK_DEADLOCK FALSE
