SPECIFICATION Spec
CONSTANTS
    alice = alice
    bob = bob
    carol = carol
    m1 = m1
    a1 = a1
    r1 = r1
    k1 = k1
    None = None
    Unbound = Unbound
    Users = {alice, bob, carol}
    Msgs = {m1}
    Author <- MCAuthor
    Attachments = {a1}
    AttOf <- MCAttOf
    Recalls = {r1}
    Target <- MCTarget
    By <- MCBy
    Clears = {k1}
    Actor <- MCActor
    Fetchers = {bob, carol}
    Hiders = {alice}
SYMMETRY Receivers
INVARIANTS
    TypeOK
    HistoryIsKept
    QueueIsOwed
    RowHasFile
    MessageKeepsAttachment
PROPERTIES
    MembersServed
CHECK_DEADLOCK FALSE
