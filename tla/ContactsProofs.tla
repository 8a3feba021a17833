--------------------------- MODULE ContactsProofs ----------------------------
(***************************************************************************)
(* Proofs about Contacts, for any accounts, requests and conversations.    *)
(***************************************************************************)
EXTENDS Contacts, TLAPS

\* Who may be in a conversation: its creator and whom the creator invited.
MembersInvited ==
    \A r \in members : r[2] = Creator[r[1]] \/ r[2] \in Invited[r[1]]

\* What createConversation has checked stays true of the past, whatever happens to
\* the friendship before the insert.
CheckedAgreed ==
    \A k \in Creations : \A v \in Invited[k] :
        /\ pc[k] = "check" /\ v \notin unchecked[k] => BothAgreed(Pair(Creator[k], v))
        /\ pc[k] = "insert" => BothAgreed(Pair(Creator[k], v))

\* A pending row has its asker's agreement; only the other one can accept it.
AskerAgreed ==
    \A p \in Pairs : friendships[p] # None =>
        friendships[p].by \in p /\ <<p, friendships[p].by>> \in agreed

Types ==
    /\ friendships \in [Pairs -> {None} \cup Friendship]
    /\ asking \in SUBSET Requests
    /\ members \in SUBSET (Creations \X Users)
    /\ direct \in SUBSET Creations
    /\ \A x \in direct : ~IsGroup(x)
    /\ pc \in [Creations -> {"idle", "check", "refused", "panicked", "reopen", "insert",
                             "done", "lost"}]
    /\ unchecked \in [Creations -> SUBSET Users]

ContactInv ==
    /\ Types
    /\ MembersInvited
    /\ CheckedAgreed
    /\ AskerAgreed
    /\ FriendsAgreed
    /\ ConversationAmongFriends

\* A pair is two different users.
LEMMA PairOfTwo ==
  /\ \A u, v \in Users : u # v => Pair(u, v) \in Pairs
  /\ \A p \in Pairs : \E u, v \in Users : u # v /\ p = {u, v}
  BY DEF Pairs, Pair

\* At first nobody knows anybody.
LEMMA InitContacts == Init => ContactInv
  BY RequestAssumption, CreationAssumption
     DEF Init, ContactInv, Types, MembersInvited, CheckedAgreed, AskerAgreed,
         FriendsAgreed, ConversationAmongFriends, Accepted

\* Steps that touch neither the friendships nor the conversations.
LEMMA QuietStep ==
  ASSUME ContactInv, UNCHANGED <<friendships, members, direct, agreed>>,
         asking' \in SUBSET Requests,
         pc' \in [Creations -> {"idle", "check", "refused", "panicked", "reopen",
                                "insert", "done", "lost"}],
         unchecked' \in [Creations -> SUBSET Users],
         CheckedAgreed'
  PROVE  ContactInv'
  BY DEF ContactInv, Types, MembersInvited, AskerAgreed, FriendsAgreed,
         ConversationAmongFriends, Accepted, BothAgreed

\* A step of createConversation that writes nothing.
LEMMA CheckStep ==
  ASSUME ContactInv, NEW k \in Creations,
         \/ CreateBegin(k) \/ CreatePanics(k) \/ FindExisting(k) \/ FindNone(k)
         \/ \E v \in Users : CheckFriend(k, v)
  PROVE  ContactInv'
<1>s. SUFFICES ASSUME ContactInv
               PROVE  (\/ CreateBegin(k) \/ CreatePanics(k) \/ FindExisting(k) \/ FindNone(k)
                       \/ \E v \in Users : CheckFriend(k, v)) => ContactInv'
  OBVIOUS
<1>1. CASE CreateBegin(k)
  <2>1. CheckedAgreed'
    BY <1>s, <1>1 DEF CreateBegin, Goto, ContactInv, Types, CheckedAgreed, BothAgreed
  <2>q. QED
    BY <1>s, <1>1, <2>1, CreationAssumption, QuietStep
       DEF CreateBegin, Goto, tableVars, ContactInv, Types
<1>2. CASE CreatePanics(k)
  <2>1. CheckedAgreed'
    BY <1>s, <1>2 DEF CreatePanics, Goto, ContactInv, Types, CheckedAgreed, BothAgreed
  <2>q. QED
    BY <1>s, <1>2, <2>1, QuietStep DEF CreatePanics, Goto, tableVars, ContactInv, Types
<1>3. CASE FindExisting(k)
  <2>1. CheckedAgreed'
    BY <1>s, <1>3 DEF FindExisting, Goto, ContactInv, Types, CheckedAgreed, BothAgreed
  <2>q. QED
    BY <1>s, <1>3, <2>1, QuietStep DEF FindExisting, Goto, tableVars, ContactInv, Types
<1>4. CASE FindNone(k)
  <2>1. CheckedAgreed'
    BY <1>s, <1>4 DEF FindNone, Goto, ContactInv, Types, CheckedAgreed, BothAgreed
  <2>q. QED
    BY <1>s, <1>4, <2>1, QuietStep DEF FindNone, Goto, tableVars, ContactInv, Types
<1>5. ASSUME NEW v \in Users, CheckFriend(k, v) PROVE ContactInv'
  <2>1. v \in Invited[k] => Pair(Creator[k], v) \in Pairs
    BY CreationAssumption, PairOfTwo
  <2>2. CheckedAgreed'
    BY <1>s, <1>5, <2>1
       DEF CheckFriend, Goto, ContactInv, Types, CheckedAgreed, FriendsAgreed, BothAgreed
  <2>q. QED
    BY <1>s, <1>5, <2>2, QuietStep DEF CheckFriend, Goto, tableVars, ContactInv, Types
<1>q. QED
  BY <1>1, <1>2, <1>3, <1>4, <1>5

\* Agreements are never withdrawn from the history.
LEMMA AgreementsStay ==
  ASSUME ContactInv, agreed \subseteq agreed', UNCHANGED <<members, direct, pc, unchecked>>
  PROVE  MembersInvited' /\ CheckedAgreed' /\ ConversationAmongFriends'
  BY DEF ContactInv, MembersInvited, CheckedAgreed, ConversationAmongFriends, BothAgreed

\* A step that changes the row of one pair, to none or to one they agreed on.
LEMMA RowStep ==
  ASSUME ContactInv, NEW p \in Pairs, NEW row,
         row # None => /\ row \in Friendship
                       /\ row.by \in p /\ <<p, row.by>> \in agreed'
                       /\ row.status = "accepted" => BothAgreed(p)',
         friendships' = [friendships EXCEPT ![p] = row],
         agreed \subseteq agreed', asking' \in SUBSET Requests,
         UNCHANGED <<members, direct, pc, unchecked>>
  PROVE  ContactInv'
<1>1. MembersInvited' /\ CheckedAgreed' /\ ConversationAmongFriends'
  BY AgreementsStay
<1>2. Types'
  BY DEF ContactInv, Types
<1>3. \A q \in Pairs : friendships'[q] = IF q = p THEN row ELSE friendships[q]
  BY DEF ContactInv, Types
<1>4. AskerAgreed'
  BY <1>3 DEF ContactInv, AskerAgreed
<1>5. FriendsAgreed'
  BY <1>3 DEF ContactInv, FriendsAgreed, Accepted, BothAgreed
<1>q. QED
  BY <1>1, <1>2, <1>4, <1>5 DEF ContactInv

\* requestFriend, acceptFriend and removeFriend change one row.
LEMMA FriendshipStep ==
  ASSUME ContactInv, NEW u \in Users, NEW v \in Users, u # v,
         RequestInsert(u, v) \/ AcceptFriend(u, v) \/ RemoveFriend(u, v)
  PROVE  ContactInv'
<1>s. SUFFICES ASSUME ContactInv
               PROVE  RequestInsert(u, v) \/ AcceptFriend(u, v) \/ RemoveFriend(u, v)
                        => ContactInv'
  OBVIOUS
<1>1. PICK p \in Pairs : p = Pair(u, v) /\ u \in p /\ \A w \in p : w = u \/ w = v
  <2>1. Pair(u, v) \in Pairs
    BY PairOfTwo
  <2>2. Pair(u, v) = {u, v}
    BY DEF Pair
  <2>q. QED
    BY <2>1, <2>2
<1>2. Types
  BY <1>s DEF ContactInv
<1>3. CASE RequestInsert(u, v)
  <2>1. asking' \in SUBSET Requests /\ UNCHANGED <<members, direct, pc, unchecked>>
    BY <1>2, <1>3 DEF RequestInsert, createVars, Types
  <2>2. CASE friendships[p] = None
    <3>1. Row(u, "pending") \in Friendship /\ Row(u, "pending").by = u
          /\ Row(u, "pending").status # "accepted"
      BY DEF Row, Friendship
    <3>2. /\ friendships' = [friendships EXCEPT ![p] = Row(u, "pending")]
          /\ agreed' = agreed \cup {<<p, u>>}
      BY <1>1, <1>3, <2>2 DEF RequestInsert
    <3>q. QED
      BY <1>s, <1>1, <2>1, <3>1, <3>2, RowStep
  <2>3. CASE friendships[p] # None
    <3>1. UNCHANGED <<friendships, agreed>>
      BY <1>1, <1>3, <2>3 DEF RequestInsert
    <3>2. CheckedAgreed'
      BY <1>s, <2>1, <3>1 DEF ContactInv, CheckedAgreed, BothAgreed
    <3>q. QED
      BY <1>s, <1>2, <2>1, <3>1, <3>2, QuietStep DEF Types
  <2>q. QED
    BY <2>2, <2>3
<1>4. CASE AcceptFriend(u, v)
  <2>1. /\ UNCHANGED <<members, direct, pc, unchecked, asking>>
        /\ friendships' = [friendships EXCEPT ![p] = Row(v, "accepted")]
        /\ friendships[p] = Row(v, "pending")
        /\ agreed' = agreed \cup {<<p, u>>}
    BY <1>1, <1>4 DEF AcceptFriend, createVars
  <2>2. Row(v, "accepted") \in Friendship /\ Row(v, "accepted").by = v
        /\ Row(v, "pending").by = v
    BY DEF Row, Friendship
  <2>3. friendships[p] # None => v \in p /\ <<p, v>> \in agreed
    BY <1>s, <2>1, <2>2 DEF ContactInv, AskerAgreed
  <2>4. friendships[p] # None
    BY <2>1, NoneAssumption DEF Row, Friendship
  <2>5. BothAgreed(p)'
    BY <1>1, <2>1, <2>3, <2>4 DEF BothAgreed
  <2>q. QED
    BY <1>s, <1>1, <1>2, <2>1, <2>2, <2>3, <2>4, <2>5, RowStep DEF Types
<1>5. CASE RemoveFriend(u, v)
  <2>1. /\ UNCHANGED <<members, direct, pc, unchecked, asking, agreed>>
        /\ friendships' = [friendships EXCEPT ![p] = None]
    BY <1>1, <1>5 DEF RemoveFriend, createVars
  <2>q. QED
    BY <1>s, <1>2, <2>1, RowStep DEF Types
<1>q. QED
  BY <1>3, <1>4, <1>5

\* The conversation that is inserted has only members that were checked.
LEMMA InsertStep ==
  ASSUME ContactInv, NEW k \in Creations, InsertConversation(k) PROVE ContactInv'
<1>s. SUFFICES ASSUME ContactInv PROVE InsertConversation(k) => ContactInv'
  OBVIOUS
<1>1. ASSUME InsertConversation(k) PROVE ContactInv'
  <2>1. Types'
    BY <1>s, <1>1, CreationAssumption DEF InsertConversation, Goto, ContactInv, Types, IsGroup
  <2>2. MembersInvited'
    BY <1>s, <1>1 DEF InsertConversation, ContactInv, MembersInvited
  <2>3. CheckedAgreed'
    BY <1>s, <1>1
       DEF InsertConversation, Goto, ContactInv, Types, CheckedAgreed, BothAgreed
  <2>4. ConversationAmongFriends'
    BY <1>s, <1>1
       DEF InsertConversation, ContactInv, CheckedAgreed, ConversationAmongFriends, BothAgreed
  <2>5. AskerAgreed' /\ FriendsAgreed'
    BY <1>s, <1>1
       DEF InsertConversation, ContactInv, AskerAgreed, FriendsAgreed, Accepted, BothAgreed
  <2>q. QED
    BY <2>1, <2>2, <2>3, <2>4, <2>5 DEF ContactInv
<1>q. QED
  BY <1>1

\* Deleting an account only removes rows.
LEMMA DeleteUserStep ==
  ASSUME ContactInv, NEW u \in Users, DeleteUser(u) PROVE ContactInv'
<1>s. SUFFICES ASSUME ContactInv PROVE DeleteUser(u) => ContactInv'
  OBVIOUS
<1>1. ASSUME DeleteUser(u) PROVE ContactInv'
  <2>1. Types'
    BY <1>s, <1>1 DEF DeleteUser, createVars, ContactInv, Types
  <2>2. MembersInvited'
    BY <1>s, <1>1 DEF DeleteUser, ContactInv, MembersInvited
  <2>3. CheckedAgreed'
    BY <1>s, <1>1 DEF DeleteUser, createVars, ContactInv, CheckedAgreed, BothAgreed
  <2>4. AskerAgreed' /\ FriendsAgreed'
    BY <1>s, <1>1
       DEF DeleteUser, ContactInv, Types, AskerAgreed, FriendsAgreed, Accepted, BothAgreed
  <2>5. ConversationAmongFriends'
    BY <1>s, <1>1 DEF DeleteUser, ContactInv, ConversationAmongFriends, BothAgreed
  <2>q. QED
    BY <2>1, <2>2, <2>3, <2>4, <2>5 DEF ContactInv
<1>q. QED
  BY <1>1

\* The members of a direct conversation are its creator and one other, so the pair
\* that the back-fill makes friends has agreed.
LEMMA RestartStep == ASSUME ContactInv, Restart PROVE ContactInv'
<1>s. SUFFICES ASSUME ContactInv PROVE Restart => ContactInv'
  OBVIOUS
<1>1. ASSUME NEW p \in Pairs, NEW x \in direct, p \subseteq MembersOf(x)
      PROVE  BothAgreed(p) /\ Creator[x] \in p /\ Creator[x] \in Users
  <2>1. PICK u, v \in Users : u # v /\ p = {u, v}
    BY PairOfTwo
  <2>2. x \in Creations /\ ~IsGroup(x)
    BY <1>s DEF ContactInv, Types
  <2>3. /\ u = Creator[x] \/ u \in Invited[x]
        /\ v = Creator[x] \/ v \in Invited[x]
    BY <1>s, <1>1, <2>1, <2>2 DEF ContactInv, MembersInvited, MembersOf
  <2>4. u = Creator[x] \/ v = Creator[x]
    BY <2>1, <2>2, <2>3, CreationAssumption DEF IsGroup
  <2>5. CASE u = Creator[x]
    BY <1>s, <1>1, <2>1, <2>2, <2>5, CreationAssumption
       DEF ContactInv, ConversationAmongFriends, MembersOf, BothAgreed, Pair
  <2>6. CASE v = Creator[x]
    BY <1>s, <1>1, <2>1, <2>2, <2>6, CreationAssumption
       DEF ContactInv, ConversationAmongFriends, MembersOf, BothAgreed, Pair
  <2>q. QED
    BY <2>4, <2>5, <2>6
<1>2. ASSUME Restart PROVE ContactInv'
  <2>1. UNCHANGED <<users, members, direct, hidden, unchecked, existing, agreed>>
    BY <1>2 DEF Restart
  <2> DEFINE M == {p \in Pairs : /\ friendships[p] = None
                                /\ \E x \in direct : p \subseteq MembersOf(x)}
  <2>2. PICK x \in [M -> direct] :
          /\ \A p \in M : p \subseteq MembersOf(x[p])
          /\ friendships' = [p \in Pairs |->
               IF p \in M THEN Row(Creator[x[p]], "accepted") ELSE friendships[p]]
    BY <1>2 DEF Restart
  <2>a. M \subseteq Pairs
    OBVIOUS
  <2> HIDE DEF M
  <2>3. \A p \in M : /\ p \in Pairs /\ BothAgreed(p)
                     /\ Creator[x[p]] \in p /\ Creator[x[p]] \in Users
    BY <1>1, <2>2, <2>a
  <2>4. \A p \in Pairs : \/ friendships'[p] = friendships[p]
                         \/ /\ p \in M
                            /\ friendships'[p] = Row(Creator[x[p]], "accepted")
    BY <2>2
  <2>5. Types'
    <3>1. friendships' \in [Pairs -> {None} \cup Friendship]
      BY <1>s, <2>2, <2>3 DEF ContactInv, Types, Row, Friendship
    <3>2. /\ asking' = {}
          /\ pc' \in [Creations -> {"idle", "check", "refused", "panicked", "reopen",
                                    "insert", "done", "lost"}]
      BY <1>s, <1>2 DEF Restart, ContactInv, Types
    <3>q. QED
      BY <1>s, <2>1, <3>1, <3>2 DEF ContactInv, Types
  <2>6. MembersInvited' /\ ConversationAmongFriends'
    BY <1>s, <2>1
       DEF ContactInv, MembersInvited, ConversationAmongFriends, BothAgreed, MembersOf
  <2>7. CheckedAgreed'
    BY <1>s, <1>2, <2>1 DEF Restart, ContactInv, Types, CheckedAgreed, BothAgreed
  <2>8. FriendsAgreed'
    BY <1>s, <2>1, <2>3, <2>4 DEF ContactInv, FriendsAgreed, Accepted, BothAgreed, Row
  <2>9. AskerAgreed'
    <3>1. SUFFICES ASSUME NEW p \in Pairs, friendships'[p] # None
                   PROVE  friendships'[p].by \in p /\ <<p, friendships'[p].by>> \in agreed'
      BY DEF AskerAgreed
    <3>2. CASE friendships'[p] = friendships[p]
      BY <1>s, <2>1, <3>1, <3>2 DEF ContactInv, AskerAgreed
    <3>3. CASE p \in M /\ friendships'[p] = Row(Creator[x[p]], "accepted")
      BY <2>1, <2>3, <3>3 DEF BothAgreed, Row
    <3>q. QED
      BY <2>4, <3>2, <3>3
  <2>q. QED
    BY <2>5, <2>6, <2>7, <2>8, <2>9 DEF ContactInv
<1>q. QED
  BY <1>2

\* Every step keeps the invariant.
LEMMA ContactStep == ASSUME ContactInv, [Next]_vars PROVE ContactInv'
<1>s. SUFFICES ASSUME ContactInv PROVE [Next]_vars => ContactInv'
  OBVIOUS
<1>1. ASSUME NEW u \in Users, NEW v \in Users, RequestCheck(u, v) PROVE ContactInv'
  <2>1. CheckedAgreed'
    BY <1>s, <1>1 DEF RequestCheck, createVars, ContactInv, CheckedAgreed, BothAgreed
  <2>q. QED
    BY <1>s, <1>1, <2>1, QuietStep DEF RequestCheck, tableVars, createVars, ContactInv, Types
<1>2. ASSUME NEW k \in Creations, Reopen(k) PROVE ContactInv'
  <2>1. CheckedAgreed'
    BY <1>s, <1>2 DEF Reopen, Goto, ContactInv, Types, CheckedAgreed, BothAgreed
  <2>q. QED
    BY <1>s, <1>2, <2>1, QuietStep DEF Reopen, Goto, ContactInv, Types
<1>3. ASSUME NEW u \in Users, NEW x \in Creations, DeleteConversation(u, x) PROVE ContactInv'
  <2>1. CheckedAgreed'
    BY <1>s, <1>3 DEF DeleteConversation, createVars, ContactInv, CheckedAgreed, BothAgreed
  <2>q. QED
    BY <1>s, <1>3, <2>1, QuietStep DEF DeleteConversation, createVars, ContactInv, Types
<1>4. CASE UNCHANGED vars
  <2>1. CheckedAgreed'
    BY <1>s, <1>4 DEF vars, createVars, ContactInv, CheckedAgreed, BothAgreed
  <2>q. QED
    BY <1>s, <1>4, <2>1, QuietStep DEF vars, tableVars, createVars, ContactInv, Types
<1>q. QED
  BY <1>s, <1>1, <1>2, <1>3, <1>4, CheckStep, FriendshipStep, InsertStep, DeleteUserStep,
     RestartStep DEF Next

\* The invariant holds in every reachable state.
THEOREM ContactInvariant == Spec => []ContactInv
  BY InitContacts, ContactStep, PTL DEF Spec

\* Nobody is the friend of somebody who never agreed, over restarts too.
THEOREM FriendsHaveAgreed == Spec => []FriendsAgreed
<1>1. ContactInv => FriendsAgreed
  BY DEF ContactInv
<1>q. QED
  BY <1>1, ContactInvariant, PTL

\* A conversation's creator shares it only with people who agreed to be friends.
THEOREM ConversationsAmongFriends == Spec => []ConversationAmongFriends
<1>1. ContactInv => ConversationAmongFriends
  BY DEF ContactInv
<1>q. QED
  BY <1>1, ContactInvariant, PTL

\* The variables that the argument does not need: who hides a conversation is a member.
RestTypes ==
    /\ users \in SUBSET Users /\ hidden \in SUBSET members
    /\ existing \in [Creations -> Creations \cup {None}]
    /\ agreed \in SUBSET (Pairs \X Users)

\* Every step keeps the types of these, too.
LEMMA RestStep == ASSUME Types, RestTypes, [Next]_vars PROVE RestTypes'
<1>s. SUFFICES ASSUME Types, RestTypes PROVE [Next]_vars => RestTypes'
  OBVIOUS
<1>1. ASSUME NEW u \in Users, NEW v \in Users, u # v, RequestInsert(u, v) \/ AcceptFriend(u, v)
      PROVE  RestTypes'
  <2>1. <<Pair(u, v), u>> \in Pairs \X Users
    BY <1>1, PairOfTwo
  <2>2. agreed' \in SUBSET (Pairs \X Users)
    BY <1>s, <1>1, <2>1 DEF RequestInsert, AcceptFriend, RestTypes
  <2>q. QED
    BY <1>s, <1>1, <2>2 DEF RequestInsert, AcceptFriend, createVars, RestTypes
<1>2. ASSUME NEW u \in Users, NEW v \in Users, RequestCheck(u, v) \/ RemoveFriend(u, v)
      PROVE  RestTypes'
  BY <1>s, <1>2 DEF RequestCheck, RemoveFriend, tableVars, createVars, RestTypes
<1>3. ASSUME NEW k \in Creations,
             \/ CreateBegin(k) \/ CreatePanics(k) \/ FindNone(k)
             \/ \E v \in Users : CheckFriend(k, v)
      PROVE  RestTypes'
  BY <1>s, <1>3 DEF CreateBegin, CreatePanics, FindNone, CheckFriend, tableVars, RestTypes
<1>4. ASSUME NEW k \in Creations, FindExisting(k) PROVE RestTypes'
  BY <1>s, <1>4 DEF FindExisting, tableVars, Types, RestTypes
<1>5. ASSUME NEW k \in Creations, Reopen(k) \/ InsertConversation(k) PROVE RestTypes'
  BY <1>s, <1>5 DEF Reopen, InsertConversation, RestTypes
<1>6. ASSUME NEW u \in Users, NEW x \in Creations, DeleteConversation(u, x) PROVE RestTypes'
  BY <1>s, <1>6 DEF DeleteConversation, createVars, RestTypes
<1>7. ASSUME NEW u \in Users, DeleteUser(u) PROVE RestTypes'
  BY <1>s, <1>7 DEF DeleteUser, createVars, RestTypes
<1>8. CASE Restart
  BY <1>s, <1>8 DEF Restart, RestTypes
<1>9. CASE UNCHANGED vars
  BY <1>s, <1>9 DEF vars, tableVars, createVars, RestTypes
<1>q. QED
  BY <1>1, <1>2, <1>3, <1>4, <1>5, <1>6, <1>7, <1>8, <1>9 DEF Next

\* The variables keep their types.
THEOREM ContactTypes == Spec => []TypeOK
<1>1. Init => RestTypes
  BY DEF Init, RestTypes
<1>2. ContactInv /\ RestTypes /\ [Next]_vars => RestTypes'
  BY RestStep DEF ContactInv
<1>3. ContactInv /\ RestTypes => TypeOK
  BY DEF ContactInv, Types, RestTypes, TypeOK
<1>q. QED
  BY <1>1, <1>2, <1>3, ContactInvariant, PTL DEF Spec

==============================================================================
