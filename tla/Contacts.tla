------------------------------ MODULE Contacts -------------------------------
(***************************************************************************)
(* Friendships and conversations: requestFriend, acceptFriend,             *)
(* removeFriend, createConversation, deleteConversation and deleteUser     *)
(* (server/internal/api/handlers.go), and the back-fill of friendships     *)
(* that store.go:119-120 runs at every start of the server.  Handlers that *)
(* check first and write in a later statement take several steps; the      *)
(* SELECT that opens a transaction locks nothing.                          *)
(***************************************************************************)
CONSTANTS
    Users,      \* accounts
    Requests,   \* <<u, v>>: u may ask v to be friends
    Creations,  \* calls of createConversation, each naming the row it may insert
    Creator,    \* the caller of each
    Invited,    \* member_ids of each, without the caller's own id
    None

ASSUME RequestAssumption == Requests \subseteq {r \in Users \X Users : r[1] # r[2]}
ASSUME CreationAssumption ==
    /\ Creator \in [Creations -> Users]
    /\ Invited \in [Creations -> SUBSET Users]
    /\ \A k \in Creations : Creator[k] \notin Invited[k]

VARIABLES
    users,          \* rows of users
    friendships,    \* rows of friendships by pair: None, or who asked and the status
    asking,         \* requestFriend calls between their check and their INSERT
    members,        \* rows of conversation_members: <<conversation, user>>
    direct,         \* conversations with is_group = 0
    hidden,         \* conversation_members rows with hidden = TRUE
    pc,             \* where each createConversation is
    unchecked,      \* the members whose friendship it has still to check
    existing,       \* the direct conversation it found, or None
    agreed          \* history: <<pair, u>>, u asked for or accepted this friendship

tableVars  == <<users, friendships, members, direct, hidden>>
createVars == <<pc, unchecked, existing>>
vars == <<tableVars, createVars, asking, agreed>>

Pair(u, v) == {u, v}
Pairs == {Pair(u, v) : u \in Users, v \in Users} \ {{u} : u \in Users}
Friendship == [by : Users, status : {"pending", "accepted"}]
ASSUME NoneAssumption == None \notin Friendship \cup Creations
Row(u, status) == [by |-> u, status |-> status]

Accepted(p) == friendships[p] # None /\ friendships[p].status = "accepted"
IsGroup(k) == \E u, v \in Invited[k] : u # v
MembersOf(x) == {u \in Users : <<x, u>> \in members}
Goto(k, label) == pc' = [pc EXCEPT ![k] = label]

Init ==
    /\ users = Users
    /\ friendships = [p \in Pairs |-> None]
    /\ asking = {} /\ members = {} /\ direct = {} /\ hidden = {}
    /\ pc = [k \in Creations |-> "idle"]
    /\ unchecked = [k \in Creations |-> {}]
    /\ existing = [k \in Creations |-> None]
    /\ agreed = {}

------------------------------------------------------------------------------
(* Faulty variants of actions below: plausible bugs that a property reports. *)

\* The status column holds who asked.
BugRequestInsert(u, v) ==
    /\ <<u, v>> \in asking
    /\ asking' = asking \ {<<u, v>>}
    /\ friendships[Pair(u, v)] = None
    /\ friendships' = [friendships EXCEPT ![Pair(u, v)] = Row("pending", u)]
    /\ agreed' = agreed \cup {<<Pair(u, v), u>>}
    /\ UNCHANGED <<users, members, direct, hidden, createVars>>

\* UPDATE friendships without requested_by=?
BugAcceptOwn(u, v) ==
    /\ friendships[Pair(u, v)] # None
    /\ friendships[Pair(u, v)].status = "pending"
    /\ friendships' = [friendships EXCEPT ![Pair(u, v)].status = "accepted"]
    /\ agreed' = agreed \cup {<<Pair(u, v), u>>}
    /\ UNCHANGED <<users, members, direct, hidden, createVars, asking>>

\* areFriends without status='accepted'
BugCheckFriend(k, v) ==
    /\ pc[k] = "check" /\ v \in unchecked[k]
    /\ IF friendships[Pair(Creator[k], v)] # None
       THEN unchecked' = [unchecked EXCEPT ![k] = @ \ {v}] /\ UNCHANGED pc
       ELSE Goto(k, "refused") /\ UNCHANGED unchecked
    /\ UNCHANGED <<tableVars, existing, asking, agreed>>

------------------------------------------------------------------------------
(* Friendships.                                                            *)

\* requestFriend: the other account exists ...
RequestCheck(u, v) ==
    /\ <<u, v>> \in Requests \ asking
    /\ v \in users
    /\ asking' = asking \cup {<<u, v>>}
    /\ UNCHANGED <<tableVars, createVars, agreed>>

\* ... and the INSERT decides by its primary key; a row that is there answers 409.
RequestInsert(u, v) ==
    /\ <<u, v>> \in asking
    /\ asking' = asking \ {<<u, v>>}
    /\ IF friendships[Pair(u, v)] = None
       THEN /\ friendships' = [friendships EXCEPT ![Pair(u, v)] = Row(u, "pending")]
            /\ agreed' = agreed \cup {<<Pair(u, v), u>>}
       ELSE UNCHANGED <<friendships, agreed>>
    /\ UNCHANGED <<users, members, direct, hidden, createVars>>

\* acceptFriend: one UPDATE of the request the other one made.
AcceptFriend(u, v) ==
    /\ friendships[Pair(u, v)] = Row(v, "pending")
    /\ friendships' = [friendships EXCEPT ![Pair(u, v)] = Row(v, "accepted")]
    /\ agreed' = agreed \cup {<<Pair(u, v), u>>}
    /\ UNCHANGED <<users, members, direct, hidden, createVars, asking>>

\* removeFriend: refuses, withdraws or ends it, whatever its status.
RemoveFriend(u, v) ==
    /\ friendships[Pair(u, v)] # None
    /\ friendships' = [friendships EXCEPT ![Pair(u, v)] = None]
    /\ UNCHANGED <<users, members, direct, hidden, createVars, asking, agreed>>

------------------------------------------------------------------------------
(* createConversation and deleteConversation.                              *)

CreateBegin(k) ==
    /\ pc[k] = "idle"
    /\ Goto(k, "check")
    /\ unchecked' = [unchecked EXCEPT ![k] = Invited[k]]
    /\ UNCHANGED <<tableVars, existing, asking, agreed>>

\* areFriends for one member after the other; 403 at the first who is none.
CheckFriend(k, v) ==
    /\ pc[k] = "check" /\ v \in unchecked[k]
    /\ IF Accepted(Pair(Creator[k], v))
       THEN unchecked' = [unchecked EXCEPT ![k] = @ \ {v}] /\ UNCHANGED pc
       ELSE Goto(k, "refused") /\ UNCHANGED unchecked
    /\ UNCHANGED <<tableVars, existing, asking, agreed>>

\* With no member but the caller, members[1] is out of range: the handler panics
\* with its transaction open.
CreatePanics(k) ==
    /\ pc[k] = "check" /\ Invited[k] = {}
    /\ Goto(k, "panicked")
    /\ UNCHANGED <<tableVars, unchecked, existing, asking, agreed>>

\* Between two people, a conversation both are members of is opened again.
FindExisting(k) ==
    /\ pc[k] = "check" /\ unchecked[k] = {} /\ Invited[k] # {} /\ ~IsGroup(k)
    /\ \E x \in direct :
         /\ {Creator[k]} \cup Invited[k] \subseteq MembersOf(x)
         /\ existing' = [existing EXCEPT ![k] = x]
    /\ Goto(k, "reopen")
    /\ UNCHANGED <<tableVars, unchecked, asking, agreed>>

FindNone(k) ==
    /\ pc[k] = "check" /\ unchecked[k] = {} /\ Invited[k] # {}
    /\ IsGroup(k) \/ \A x \in direct :
                        ~({Creator[k]} \cup Invited[k] \subseteq MembersOf(x))
    /\ Goto(k, "insert")
    /\ UNCHANGED <<tableVars, unchecked, existing, asking, agreed>>

Reopen(k) ==
    /\ pc[k] = "reopen"
    /\ Goto(k, "done")
    /\ hidden' = hidden \ {<<existing[k], Creator[k]>>}
    /\ UNCHANGED <<users, friendships, members, direct, unchecked, existing, asking,
                   agreed>>

InsertConversation(k) ==
    /\ pc[k] = "insert"
    /\ Goto(k, "done")
    /\ members' = members \cup ({k} \X ({Creator[k]} \cup Invited[k]))
    /\ direct' = IF IsGroup(k) THEN direct ELSE direct \cup {k}
    /\ UNCHANGED <<users, friendships, hidden, unchecked, existing, asking, agreed>>

\* deleteConversation hides it from the caller alone.
DeleteConversation(u, x) ==
    /\ <<x, u>> \in members
    /\ hidden' = hidden \cup {<<x, u>>}
    /\ UNCHANGED <<users, friendships, members, direct, createVars, asking, agreed>>

------------------------------------------------------------------------------
(* The administrator and the server.                                       *)

\* deleteUser, as far as these tables go: one transaction.
DeleteUser(u) ==
    /\ u \in users
    /\ users' = users \ {u}
    /\ members' = {r \in members : r[2] # u}
    /\ hidden' = {r \in hidden : r[2] # u}
    /\ friendships' = [p \in Pairs |-> IF u \in p THEN None ELSE friendships[p]]
    /\ UNCHANGED <<direct, createVars, asking, agreed>>

\* A restart: calls under way are lost, and migrate() makes the members of every
\* direct conversation friends (INSERT IGNORE leaves rows that are there).
Restart ==
    LET missing == {p \in Pairs : /\ friendships[p] = None
                                  /\ \E x \in direct : p \subseteq MembersOf(x)} IN
    /\ \E x \in [missing -> direct] :
         /\ \A p \in missing : p \subseteq MembersOf(x[p])
         /\ friendships' = [p \in Pairs |->
              IF p \in missing THEN Row(Creator[x[p]], "accepted") ELSE friendships[p]]
    /\ asking' = {}
    /\ pc' = [k \in Creations |-> IF pc[k] \in {"check", "reopen", "insert"} THEN "lost"
                                                                         ELSE pc[k]]
    /\ UNCHANGED <<users, members, direct, hidden, unchecked, existing, agreed>>

Next ==
    \/ \E u, v \in Users : /\ u # v
                           /\ \/ RequestCheck(u, v) \/ RequestInsert(u, v)
                              \/ AcceptFriend(u, v) \/ RemoveFriend(u, v)
    \/ \E k \in Creations : \/ CreateBegin(k) \/ CreatePanics(k) \/ FindExisting(k)
                            \/ FindNone(k) \/ Reopen(k) \/ InsertConversation(k)
    \/ \E k \in Creations, v \in Users : CheckFriend(k, v)
    \/ \E u \in Users, x \in Creations : DeleteConversation(u, x)
    \/ \E u \in Users : DeleteUser(u)
    \/ Restart

Spec == Init /\ [][Next]_vars

------------------------------------------------------------------------------
(* Properties.                                                             *)

TypeOK ==
    /\ users \in SUBSET Users
    /\ friendships \in [Pairs -> {None} \cup Friendship]
    /\ asking \in SUBSET Requests
    /\ members \in SUBSET (Creations \X Users)
    /\ hidden \in SUBSET members
    /\ direct \in SUBSET Creations
    /\ pc \in [Creations -> {"idle", "check", "refused", "panicked", "reopen", "insert",
                             "done", "lost"}]
    /\ unchecked \in [Creations -> SUBSET Users]
    /\ existing \in [Creations -> Creations \cup {None}]
    /\ agreed \in SUBSET (Pairs \X Users)

BothAgreed(p) == \A u \in p : <<p, u>> \in agreed

\* Nobody is made a friend of somebody, by a handler or by the back-fill at the
\* start of the server, who never asked for it or accepted it.
FriendsAgreed == \A p \in Pairs : Accepted(p) => BothAgreed(p)

\* handlers.go:403 "only with friends": a conversation's creator shares it only with
\* people who agreed to be friends, although the friendship may end between the
\* check and the insert.  The back-fill takes this for granted (store.go:119).
ConversationAmongFriends ==
    \A r \in members : r[2] # Creator[r[1]] => BothAgreed(Pair(Creator[r[1]], r[2]))

==============================================================================
