SPECIFICATION Spec
CONSTANTS
    alice = alice
    bob = bob
    k1 = k1
    k2 = k2
    k4 = k4
    None = None
    Users = {alice, bob}
    Requests <- MCRequests
    Creations = {k1, k2, k4}
    Creator <- MCCreator
    Invited <- MCInvited
INVARIANTS
    TypeOK
    FriendsAgreed
    ConversationAmongFriends
CHECK_DEADLOCK FALSE
