------------------------------ MODULE RoomProofs ------------------------------
(***************************************************************************)
(* Proofs about the room view, for any number of rooms, messages, openRoom *)
(* calls and jobs under way.                                               *)
(***************************************************************************)
EXTENDS Room, TLAPS

Labels == {"idle", "members", "trust", "confirm", "trusting", "remote", "put"}
          \cup DOMAIN Decrypts \cup DOMAIN AfterDecrypt

\* The tables of labels.
LEMMA Tables ==
    /\ DOMAIN Decrypts = {"page1", "page2", "page3"}
    /\ DOMAIN AfterDecrypt = {"decrypt1", "decrypt2", "decrypt3"}
    /\ \A a \in DOMAIN Decrypts : /\ AfterPage[a] \in {"members", "remote", "idle"}
                                  /\ Decrypts[a] \in DOMAIN AfterDecrypt
    /\ \A a \in DOMAIN AfterDecrypt : AfterDecrypt[a] \in {"members", "remote", "idle"}
  BY DEF Decrypts, AfterDecrypt, AfterPage

\* What a task holds is of its room, and a task that is idle holds nothing.
TasksOK ==
    /\ \A t \in Openers : /\ raw[t] \subseteq Of(room[t])
                          /\ pc[t] = "idle" => room[t] = None
                          /\ pc[t] # "idle" => room[t] \in Rooms
    /\ older.raw \subseteq Of(older.room)
    /\ \A j \in Jobs : /\ job[j].of \subseteq Of(job[j].room)
                       /\ job[j].at # "idle" => job[j].room \in Rooms

LEMMA NoneHasNoMessages == Of(None) = {}
  BY RoomAssumption DEF Of

OlderType == [at : {"idle", "fetch", "page", "decrypt"}, room : Rooms \cup {None},
              raw : SUBSET Msgs, old : SUBSET Msgs, same : BOOLEAN]

JobType == [at : {"idle", "put", "decrypt"} \cup Removals,
            of : SUBSET Msgs, room : Rooms \cup {None}, active : BOOLEAN]

\* A new list leaves a loadOlder with what it holds.
LEMMA OlderReplaced ==
    ASSUME older \in OlderType, NEW S, Replace(S)
    PROVE  /\ older' \in OlderType
           /\ older'.at = older.at /\ older'.room = older.room /\ older'.raw = older.raw
           /\ older'.old = older.old /\ older'.same = FALSE
  BY DEF Replace, OlderType

LEMMA NothingHeld == NoOlder \in OlderType /\ NoJob \in JobType
  BY DEF NoOlder, NoJob, OlderType, JobType

\* openRoom's first step keeps the types.
LEMMA OpensTypes ==
    ASSUME TypeOK, NEW t \in Openers, NEW r \in Rooms, NEW b \in BOOLEAN, Opens(t, r, b)
    PROVE  /\ activeId' \in Rooms /\ shown' \subseteq Msgs
           /\ sessions' \in [Rooms -> SUBSET Msgs]
           /\ fresh' \subseteq Openers \cup {"older"}
           /\ pc' \in [Openers -> Labels] /\ room' \in [Openers -> Rooms \cup {None}]
           /\ raw' \in [Openers -> SUBSET Msgs]
           /\ older' \in OlderType
<1>t. pc \in [Openers -> Labels]
  BY DEF TypeOK, Labels
<1>l. {"idle", "members", "page1"} \subseteq Labels
  BY Tables DEF Labels
<1>1. activeId' \in Rooms /\ fresh' \subseteq Openers \cup {"older"}
  BY DEF Opens
<1>2. sessions' \in [Rooms -> SUBSET Msgs]
  BY DEF Opens, TypeOK
<1>3. /\ shown' \subseteq Msgs
      /\ older' \in OlderType
  <2>1. shown' \subseteq Msgs /\ (older' = older \/ \E S : Replace(S))
    BY DEF Opens, TypeOK, Replace
  <2>. QED
    BY <2>1, OlderReplaced DEF TypeOK, OlderType
<1>4. /\ pc' \in [Openers -> Labels] /\ room' \in [Openers -> Rooms \cup {None}]
      /\ raw' \in [Openers -> SUBSET Msgs]
  BY <1>t, <1>l DEF Opens, TypeOK, Ends, At, Has
<1>. QED
  BY <1>1, <1>2, <1>3, <1>4

\* What MergeTypes says of a merge, GoesTypes says of a step of openRoom that changes
\* its own variables only.
LEMMA MergeTypes ==
    ASSUME TypeOK, TasksOK, NEW t \in Openers, pc[t] # "idle", NEW S \in SUBSET Msgs,
           NEW at \in Labels, Merge(t, S, at)
    PROVE  /\ shown' \subseteq Msgs /\ sessions' \in [Rooms -> SUBSET Msgs]
           /\ pc' \in [Openers -> Labels] /\ room' \in [Openers -> Rooms \cup {None}]
           /\ raw' \in [Openers -> SUBSET Msgs]
           /\ older' \in OlderType
<1>t. pc \in [Openers -> Labels] /\ "idle" \in Labels
  BY DEF TypeOK, Labels
<1>1. shown' \subseteq Msgs /\ room[t] \in Rooms
  BY DEF Merge, Replace, Merged, TypeOK, TasksOK
<1>2. sessions' \in [Rooms -> SUBSET Msgs]
  BY <1>1 DEF Merge, TypeOK
<1>3. /\ pc' \in [Openers -> Labels] /\ room' \in [Openers -> Rooms \cup {None}]
      /\ raw' \in [Openers -> SUBSET Msgs]
  BY <1>t DEF Merge, TypeOK, Ends, At, Has
<1>4. older' \in OlderType
  BY OlderReplaced DEF Merge, TypeOK, OlderType
<1>. QED
  BY <1>1, <1>2, <1>3, <1>4

LEMMA TypeStep == TypeOK /\ TasksOK /\ [Next]_vars => TypeOK'
<1>s. SUFFICES ASSUME TypeOK, TasksOK PROVE [Next]_vars => TypeOK'
  OBVIOUS
<1>l. /\ pc \in [Openers -> Labels]
      /\ {"idle", "members", "trust", "confirm", "trusting", "remote", "put"} \subseteq Labels
  BY <1>s DEF TypeOK, Labels
<1>o. older \in OlderType /\ job \in [Jobs -> JobType]
  BY <1>s DEF TypeOK, OlderType, JobType
<1>1. ASSUME NEW t \in Openers, NEW r \in Rooms, OpenRoom(t, r)
      PROVE  TypeOK'
  <2>1. hidden \in BOOLEAN /\ Opens(t, r, hidden)
    BY <1>s, <1>1 DEF OpenRoom, TypeOK
  <2>. QED
    BY <1>s, <1>1, <2>1, OpensTypes, RoomAssumption DEF OpenRoom, Turn, TypeOK,
       Labels, OlderType
<1>2. ASSUME NEW t \in Openers, PageRead(t)
      PROVE  TypeOK'
  <2>1. /\ UNCHANGED <<hidden, activeId, images, known, fresh, job, turns>>
        /\ historyDone' \in BOOLEAN /\ gone' \subseteq Msgs
    BY <1>s, <1>2 DEF PageRead, TypeOK
  <2>2. pc[t] # "idle" /\ AfterPage[pc[t]] \in Labels /\ Decrypts[pc[t]] \in Labels
    BY <1>2, Tables DEF PageRead, Labels
  <2>3. CASE Ends(t) /\ UNCHANGED <<shown, older, sessions>>
    BY <1>s, <1>l, <2>1, <2>3 DEF TypeOK, Labels, Ends, At, Has
  <2>4. ASSUME NEW page \in Pages(room[t]), Merge(t, page, AfterPage[pc[t]])
        PROVE  TypeOK'
    <3>1. page \in SUBSET Msgs
      BY <2>4 DEF Pages, Of
    <3>. QED
      BY <1>s, <2>1, <2>2, <2>4, <3>1, MergeTypes DEF TypeOK, Labels, OlderType
  <2>5. ASSUME NEW page \in Pages(room[t]), At(t, Decrypts[pc[t]]), Has(t, page),
               UNCHANGED <<room, shown, older, sessions>>
        PROVE  TypeOK'
    <3>1. page \in SUBSET Msgs
      BY <2>5 DEF Pages, Of
    <3>. QED
      BY <1>s, <1>l, <2>1, <2>2, <2>5, <3>1 DEF TypeOK, Labels, At, Has
  <2>. QED
    BY <1>2, <2>3, <2>4, <2>5 DEF PageRead
<1>3. ASSUME NEW t \in Openers, PageDecrypted(t)
      PROVE  TypeOK'
  <2>1. UNCHANGED <<hidden, activeId, images, known, historyDone, fresh, job, gone, turns>>
    BY <1>3 DEF PageDecrypted
  <2>2. pc[t] # "idle" /\ AfterDecrypt[pc[t]] \in Labels /\ raw[t] \in SUBSET Msgs
    BY <1>s, <1>3, Tables DEF PageDecrypted, Labels, TypeOK
  <2>3. CASE Ends(t) /\ UNCHANGED <<shown, older, sessions>>
    BY <1>s, <1>l, <2>1, <2>3 DEF TypeOK, Labels, Ends, At, Has
  <2>4. CASE Merge(t, raw[t], AfterDecrypt[pc[t]])
    BY <1>s, <2>1, <2>2, <2>4, MergeTypes DEF TypeOK, Labels, OlderType
  <2>. QED
    BY <1>3, <2>3, <2>4 DEF PageDecrypted
<1>4. ASSUME NEW t \in Openers, MembersAnswered(t)
      PROVE  TypeOK'
  <2>1. /\ pc' \in [Openers -> Labels] /\ room' \in [Openers -> Rooms \cup {None}]
        /\ raw' \in [Openers -> SUBSET Msgs]
    BY <1>s, <1>l, <1>4 DEF MembersAnswered, GoesOn, TypeOK, Ends, At, Has
  <2>. QED
    BY <1>s, <1>4, <2>1 DEF MembersAnswered, GoesOn, TypeOK, Labels, viewVars
<1>5. ASSUME NEW t \in Openers, KeysConfirmed(t)
      PROVE  TypeOK'
  <2>1. /\ pc' \in [Openers -> Labels] /\ room' \in [Openers -> Rooms \cup {None}]
        /\ raw' \in [Openers -> SUBSET Msgs]
    BY <1>s, <1>l, <1>5 DEF KeysConfirmed, GoesOn, TypeOK, Ends, At, Has
  <2>. QED
    BY <1>s, <1>5, <2>1 DEF KeysConfirmed, GoesOn, TypeOK, Labels, viewVars
<1>6. ASSUME NEW t \in Openers, RemoteAnswered(t)
      PROVE  TypeOK'
  <2>1. /\ pc' \in [Openers -> Labels] /\ room' \in [Openers -> Rooms \cup {None}]
        /\ raw' \in [Openers -> SUBSET Msgs]
    BY <1>s, <1>l, <1>6 DEF RemoteAnswered, GoesOn, TypeOK, Ends, At, Has, Of
  <2>. QED
    BY <1>s, <1>6, <2>1 DEF RemoteAnswered, GoesOn, TypeOK, Labels, viewVars
<1>7. ASSUME NEW t \in Openers, KeysChanged(t)
      PROVE  TypeOK'
  BY <1>s, <1>l, <1>7 DEF KeysChanged, At, TypeOK, Labels, viewVars
<1>8. ASSUME NEW t \in Openers, MembersTrusted(t)
      PROVE  TypeOK'
  <2>1. room[t] \in Rooms /\ "page2" \in Labels
    BY <1>s, <1>8, Tables DEF MembersTrusted, TasksOK, Labels
  <2>. QED
    BY <1>s, <1>l, <1>8, <2>1 DEF MembersTrusted, At, TypeOK, Labels, viewVars
<1>9. ASSUME NEW t \in Openers, KeysRefused(t)
      PROVE  TypeOK'
  BY <1>s, <1>l, <1>9 DEF KeysRefused, Ends, At, Has, Replace, TypeOK, Labels
<1>10. ASSUME NEW t \in Openers, OpenFails(t)
      PROVE  TypeOK'
  BY <1>s, <1>l, <1>10 DEF OpenFails, Ends, At, Has, TypeOK, Labels, viewVars
<1>11. ASSUME NEW t \in Openers, PutRemote(t)
      PROVE  TypeOK'
  <2>1. /\ pc' \in [Openers -> Labels] /\ room' \in [Openers -> Rooms \cup {None}]
        /\ raw' \in [Openers -> SUBSET Msgs] /\ gone' \subseteq Msgs
    <3>1. "page3" \in Labels
      BY Tables DEF Labels
    <3>. QED
      BY <1>s, <1>l, <1>11, <3>1 DEF PutRemote, TypeOK, Ends, At, Has
  <2>. QED
    BY <1>s, <1>11, <2>1 DEF PutRemote, TypeOK, Labels, viewVars
<1>12. CASE LoadOlder
  <2>1. older' \in OlderType
    BY <1>s, <1>12, RoomAssumption DEF LoadOlder, NoOlder, OlderType, TypeOK
  <2>2. fresh' \subseteq Openers \cup {"older"} /\ turns' \in 0..MaxTurns
    BY <1>s, <1>12, RoomAssumption DEF LoadOlder, Turn, TypeOK
  <2>. QED
    BY <1>s, <1>12, <2>1, <2>2 DEF LoadOlder, OlderType, TypeOK, viewVars, openVars
<1>13. CASE OlderAnswered
  BY <1>s, <1>13 DEF OlderAnswered, NoOlder, TypeOK, viewVars, openVars
<1>14. CASE OlderFails
  BY <1>s, <1>14 DEF OlderFails, NoOlder, TypeOK, viewVars, openVars
<1>15. CASE OlderPage
  <2>1. older' \in OlderType /\ historyDone' \in BOOLEAN /\ gone' \subseteq Msgs
    <3>1. PICK page \in Pages(older.room) :
             /\ gone' = gone \ page
             /\ \/ historyDone' = TRUE /\ older' = NoOlder
                \/ /\ older' = [older EXCEPT !.at = "decrypt", !.raw = page, !.old = shown,
                                            !.same = TRUE]
                   /\ historyDone' = historyDone
      BY <1>15 DEF OlderPage
    <3>2. page \subseteq Msgs /\ shown \subseteq Msgs /\ historyDone \in BOOLEAN
          /\ gone \subseteq Msgs
      BY <1>s DEF Pages, Of, TypeOK
    <3>. QED
      BY <1>o, <3>1, <3>2, NothingHeld DEF OlderType
  <2>. QED
    BY <1>s, <1>15, <2>1 DEF OlderPage, OlderType, TypeOK, viewVars, openVars
<1>16. CASE OlderDecrypted
  BY <1>s, <1>16 DEF OlderDecrypted, NoOlder, TypeOK, openVars
<1>17. ASSUME NEW j \in Jobs, NEW m \in Msgs, AddMessage(j, m)
      PROVE  TypeOK'
  BY <1>s, <1>17, RoomAssumption DEF AddMessage, Starts, Turn, Removals, TypeOK,
     viewVars, openVars
<1>18. ASSUME NEW j \in Jobs, AddStored(j)
      PROVE  TypeOK'
  <2>1. job' \in [Jobs -> JobType]
    BY <1>o, <1>18, NothingHeld DEF AddStored, JobType
  <2>2. sessions' \in [Rooms -> SUBSET Msgs]
    BY <1>s, <1>18 DEF AddStored, TypeOK
  <2>. QED
    BY <1>s, <1>18, <2>1, <2>2 DEF AddStored, JobType, TypeOK, openVars
<1>19. ASSUME NEW j \in Jobs, AddDecrypted(j)
      PROVE  TypeOK'
  <2>1. job' \in [Jobs -> [at : {"idle", "put", "decrypt"} \cup Removals,
                         of : SUBSET Msgs, room : Rooms \cup {None}, active : BOOLEAN]]
    BY <1>s, <1>19 DEF AddDecrypted, TypeOK, NoJob, Removals
  <2>2. CASE UNCHANGED <<shown, older, sessions>>
    BY <1>s, <1>19, <2>1, <2>2 DEF AddDecrypted, TypeOK, openVars
  <2>3. ASSUME NEW m \in job[j].of, Push(m), sessions' = [sessions EXCEPT ![job[j].room] = shown']
        PROVE  TypeOK'
    <3>1. m \in Msgs /\ job[j].room \in Rooms
      BY <1>s, <1>19, <2>3 DEF TypeOK, TasksOK, AddDecrypted
    <3>2. shown' \subseteq Msgs /\ sessions' \in [Rooms -> SUBSET Msgs]
      BY <1>s, <2>3, <3>1 DEF Push, TypeOK
    <3>3. older' \in [at : {"idle", "fetch", "page", "decrypt"}, room : Rooms \cup {None},
                  raw : SUBSET Msgs, old : SUBSET Msgs, same : BOOLEAN]
      BY <1>s, <2>3, <3>1 DEF Push, TypeOK
    <3>. QED
      BY <1>s, <1>19, <2>1, <3>2, <3>3 DEF AddDecrypted, TypeOK, openVars
  <2>. QED
    BY <1>19, <2>2, <2>3 DEF AddDecrypted
<1>20. ASSUME NEW j \in Jobs, NEW m \in Msgs, Recall(j, m)
      PROVE  TypeOK'
  BY <1>s, <1>20, RoomAssumption DEF Recall, Removes, Starts, Turn, Removals, TypeOK,
     openVars
<1>21. ASSUME NEW j \in Jobs, NEW m \in Msgs, DeleteMessage(j, m)
      PROVE  TypeOK'
  BY <1>s, <1>21, RoomAssumption DEF DeleteMessage, Removes, Starts, Turn, Removals,
     TypeOK, openVars
<1>22. ASSUME NEW j \in Jobs, NEW r \in Rooms, Clear(j, r)
      PROVE  TypeOK'
  BY <1>s, <1>22, RoomAssumption DEF Clear, Of, Removes, Starts, Turn, Removals, TypeOK,
     openVars
<1>23. ASSUME NEW j \in Jobs, Removed(j)
      PROVE  TypeOK'
  BY <1>s, <1>23 DEF Removed, Removals, NoJob, Replace, TypeOK, openVars
<1>24. ASSUME NEW m \in Pictures, ImageLoaded(m)
      PROVE  TypeOK'
  BY <1>s, <1>24 DEF ImageLoaded, TypeOK, viewVars, openVars
<1>25. CASE Hide
  <2>1. older' \in OlderType
    BY <1>o, <1>25, OlderReplaced DEF Hide
  <2>2. turns' \in 0..MaxTurns /\ shown' = {} /\ images' = {} /\ fresh' = {} /\ hidden' = TRUE
        /\ sessions' \in [Rooms -> SUBSET Msgs]
    BY <1>s, <1>25, RoomAssumption DEF Hide, Turn, Replace, TypeOK
  <2>. QED
    BY <1>s, <1>25, <2>1, <2>2 DEF Hide, OlderType, TypeOK, openVars
<1>26. CASE Show
  <2>1. CASE activeId = None
    BY <1>s, <1>26, <2>1 DEF Show, TypeOK, openVars
  <2>2. CASE activeId # None
    <3>1. PICK t \in Openers : Opens(t, activeId, FALSE)
      BY <1>26, <2>2 DEF Show
    <3>. QED
      BY <1>s, <1>26, <2>2, <3>1, OpensTypes DEF Show, TypeOK, Labels, OlderType
  <2>. QED
    BY <2>1, <2>2
<1>27. CASE LeaveChats
  BY <1>s, <1>27 DEF LeaveChats, Replace, TypeOK, openVars
<1>28. CASE CloseRoom
  BY <1>s, <1>28 DEF CloseRoom, Replace, TypeOK, openVars
<1>29. CASE UNCHANGED vars
  BY <1>s, <1>29 DEF vars, viewVars, openVars, TypeOK
<1>. QED
  BY <1>1, <1>2, <1>3, <1>4, <1>5, <1>6, <1>7, <1>8, <1>9, <1>10, <1>11, <1>12, <1>13,
     <1>14, <1>15, <1>16, <1>17, <1>18, <1>19, <1>20, <1>21, <1>22, <1>23, <1>24, <1>25,
     <1>26, <1>27, <1>28, <1>29 DEF Next, OpenRoomStep, OlderStep, JobStep

\* openRoom's first step gives the task its room and no messages yet.
LEMMA OpensTasks ==
    ASSUME TypeOK, TasksOK, NEW t \in Openers, NEW r \in Rooms, NEW b, Opens(t, r, b)
    PROVE  /\ \A u \in Openers : /\ raw'[u] \subseteq Of(room'[u])
                                 /\ pc'[u] = "idle" => room'[u] = None
                                 /\ pc'[u] # "idle" => room'[u] \in Rooms
           /\ older'.raw \subseteq Of(older'.room)
<1>1. raw[t] = {}
  BY NoneHasNoMessages DEF Opens, TasksOK, TypeOK
<1>2. older'.raw \subseteq Of(older'.room)
  BY OlderReplaced DEF Opens, TasksOK, TypeOK, OlderType
<1>3. \A u \in Openers : u # t => /\ pc'[u] = pc[u] /\ room'[u] = room[u] /\ raw'[u] = raw[u]
  BY DEF Opens, Ends, At, Has, TypeOK
<1>4. CASE Ends(t)
  BY <1>2, <1>3, <1>4 DEF TasksOK, Ends, At, Has, TypeOK
<1>5. CASE /\ At(t, IF r \in known THEN "page1" ELSE "members")
           /\ room' = [room EXCEPT ![t] = r] /\ UNCHANGED raw
  BY <1>1, <1>2, <1>3, <1>5 DEF TasksOK, At, TypeOK
<1>. QED
  BY <1>4, <1>5 DEF Opens


\* A step of openRoom that ends it, goes on with nothing, or has read a page.
LEMMA GoesTasks ==
    ASSUME TypeOK, TasksOK, NEW t \in Openers, pc[t] # "idle",
           \/ Ends(t)
           \/ /\ room' = room /\ (\E at : at # "idle" /\ At(t, at))
              /\ \E S \in SUBSET Of(room[t]) : Has(t, S)
    PROVE  \A u \in Openers : /\ raw'[u] \subseteq Of(room'[u])
                              /\ pc'[u] = "idle" => room'[u] = None
                              /\ pc'[u] # "idle" => room'[u] \in Rooms
  BY NoneHasNoMessages DEF TasksOK, TypeOK, Ends, At, Has

LEMMA MergeTasks ==
    ASSUME TypeOK, TasksOK, NEW t \in Openers, pc[t] # "idle", NEW S,
           NEW at, Merge(t, S, at)
    PROVE  /\ \A u \in Openers : /\ raw'[u] \subseteq Of(room'[u])
                                 /\ pc'[u] = "idle" => room'[u] = None
                                 /\ pc'[u] # "idle" => room'[u] \in Rooms
           /\ older'.raw \subseteq Of(older'.room)
<1>1. older'.raw \subseteq Of(older'.room)
  BY OlderReplaced DEF Merge, TasksOK, TypeOK, OlderType
<1>2. CASE at = "idle"
  BY <1>1, <1>2, GoesTasks DEF Merge
<1>3. CASE at # "idle"
  BY <1>1, <1>3, GoesTasks DEF Merge
<1>. QED
  BY <1>2, <1>3


\* Every step keeps what the tasks hold to their rooms.
LEMMA TasksStep == TypeOK /\ TasksOK /\ [Next]_vars => TasksOK'
<1>s. SUFFICES ASSUME TypeOK, TasksOK PROVE [Next]_vars => TasksOK'
  OBVIOUS
<1>1. ASSUME NEW t \in Openers, NEW r \in Rooms, OpenRoom(t, r)
      PROVE  TasksOK'
  BY <1>s, <1>1, OpensTasks DEF OpenRoom, TasksOK
<1>2. ASSUME NEW t \in Openers, PageRead(t)
      PROVE  TasksOK'
  <2>1. pc[t] # "idle" /\ job' = job
    BY <1>2, Tables DEF PageRead
  <2>2. CASE Ends(t) /\ UNCHANGED older
    BY <1>s, <2>1, <2>2, GoesTasks DEF TasksOK
  <2>3. ASSUME NEW page \in Pages(room[t]), Merge(t, page, AfterPage[pc[t]])
        PROVE  TasksOK'
    BY <1>s, <2>1, <2>3, MergeTasks DEF TasksOK
  <2>4. ASSUME NEW page \in Pages(room[t]), At(t, Decrypts[pc[t]]), Has(t, page),
               UNCHANGED <<room, older>>
        PROVE  TasksOK'
    <3>1. Decrypts[pc[t]] # "idle" /\ page \in SUBSET Of(room[t])
      BY <1>2, <2>4, Tables DEF PageRead, Pages
    <3>2. \E at : at # "idle" /\ At(t, at)
      BY <2>4, <3>1
    <3>. QED
      BY <1>s, <2>1, <2>4, <3>1, <3>2, GoesTasks DEF TasksOK
  <2>. QED
    BY <1>2, <2>2, <2>3, <2>4 DEF PageRead
<1>3. ASSUME NEW t \in Openers, PageDecrypted(t)
      PROVE  TasksOK'
  <2>1. pc[t] # "idle" /\ job' = job
    BY <1>3, Tables DEF PageDecrypted
  <2>2. CASE Ends(t) /\ UNCHANGED older
    BY <1>s, <2>1, <2>2, GoesTasks DEF TasksOK
  <2>3. CASE Merge(t, raw[t], AfterDecrypt[pc[t]])
    BY <1>s, <2>1, <2>3, MergeTasks DEF TasksOK
  <2>. QED
    BY <1>3, <2>2, <2>3 DEF PageDecrypted
<1>4. ASSUME NEW t \in Openers, MembersAnswered(t)
      PROVE  TasksOK'
  BY <1>s, <1>4 DEF MembersAnswered, GoesOn, Ends, At, Has, TypeOK, TasksOK, viewVars,
     openVars
<1>5. ASSUME NEW t \in Openers, KeysConfirmed(t)
      PROVE  TasksOK'
  BY <1>s, <1>5 DEF KeysConfirmed, GoesOn, Ends, At, Has, TypeOK, TasksOK, viewVars,
     openVars
<1>6. ASSUME NEW t \in Openers, RemoteAnswered(t)
      PROVE  TasksOK'
  BY <1>s, <1>6 DEF RemoteAnswered, GoesOn, Ends, At, Has, TypeOK, TasksOK, viewVars,
     openVars
<1>7. ASSUME NEW t \in Openers, KeysChanged(t)
      PROVE  TasksOK'
  BY <1>s, <1>7 DEF KeysChanged, At, TypeOK, TasksOK, viewVars, openVars
<1>8. ASSUME NEW t \in Openers, MembersTrusted(t)
      PROVE  TasksOK'
  BY <1>s, <1>8 DEF MembersTrusted, At, TypeOK, TasksOK, viewVars, openVars
<1>9. ASSUME NEW t \in Openers, KeysRefused(t)
      PROVE  TasksOK'
  BY <1>s, <1>9 DEF KeysRefused, Replace, Ends, At, Has, TypeOK, TasksOK, viewVars, openVars
<1>10. ASSUME NEW t \in Openers, OpenFails(t)
      PROVE  TasksOK'
  BY <1>s, <1>10 DEF OpenFails, Ends, At, Has, TypeOK, TasksOK, viewVars, openVars
<1>11. ASSUME NEW t \in Openers, PutRemote(t)
      PROVE  TasksOK'
  BY <1>s, <1>11 DEF PutRemote, Current, Ends, At, Has, TypeOK, TasksOK, viewVars, openVars
<1>12. CASE LoadOlder
  BY <1>s, <1>12 DEF LoadOlder, NoOlder, Turn, TypeOK, TasksOK, viewVars, openVars
<1>13. CASE OlderAnswered
  BY <1>s, <1>13 DEF OlderAnswered, NoOlder, TypeOK, TasksOK, viewVars, openVars
<1>14. CASE OlderFails
  BY <1>s, <1>14 DEF OlderFails, NoOlder, TypeOK, TasksOK, viewVars, openVars
<1>15. CASE OlderPage
  <2>1. PICK page \in Pages(older.room) :
             \/ older' = NoOlder
             \/ older' = [older EXCEPT !.at = "decrypt", !.raw = page, !.old = shown,
                                      !.same = TRUE]
    BY <1>15 DEF OlderPage
  <2>2. older'.raw \subseteq Of(older'.room)
    <3>1. CASE older' = NoOlder
      BY <3>1 DEF NoOlder
    <3>2. CASE older' = [older EXCEPT !.at = "decrypt", !.raw = page, !.old = shown,
                                      !.same = TRUE]
      <4>1. older'.raw = page /\ older'.room = older.room
        BY <1>s, <3>2 DEF TypeOK
      <4>. QED
        BY <4>1 DEF Pages
    <3>. QED
      BY <2>1, <3>1, <3>2
  <2>. QED
    BY <1>s, <1>15, <2>2 DEF OlderPage, TasksOK, openVars
<1>16. CASE OlderDecrypted
  BY <1>s, <1>16 DEF OlderDecrypted, OlderCurrent, NoOlder, TypeOK, TasksOK, viewVars,
     openVars
<1>17. ASSUME NEW j \in Jobs, NEW m \in Msgs, AddMessage(j, m)
      PROVE  TasksOK'
  BY <1>s, <1>17, RoomAssumption DEF AddMessage, Starts, TypeOK, TasksOK, Of, openVars
<1>18. ASSUME NEW j \in Jobs, AddStored(j)
      PROVE  TasksOK'
  BY <1>s, <1>18 DEF AddStored, NoJob, TypeOK, TasksOK, viewVars, openVars
<1>19. ASSUME NEW j \in Jobs, AddDecrypted(j)
      PROVE  TasksOK'
  BY <1>s, <1>19 DEF AddDecrypted, Push, NoJob, TypeOK, TasksOK, viewVars, openVars
<1>20. ASSUME NEW j \in Jobs, NEW m \in Msgs, Recall(j, m)
      PROVE  TasksOK'
  BY <1>s, <1>20, RoomAssumption DEF Recall, Removes, Starts, TypeOK, TasksOK, Of, openVars
<1>21. ASSUME NEW j \in Jobs, NEW m \in Msgs, DeleteMessage(j, m)
      PROVE  TasksOK'
  BY <1>s, <1>21, RoomAssumption DEF DeleteMessage, Removes, Starts, TypeOK, TasksOK,
     Of, openVars
<1>22. ASSUME NEW j \in Jobs, NEW r \in Rooms, Clear(j, r)
      PROVE  TasksOK'
  BY <1>s, <1>22 DEF Clear, Removes, Starts, Turn, TypeOK, TasksOK, viewVars, openVars
<1>23. ASSUME NEW j \in Jobs, Removed(j)
      PROVE  TasksOK'
  BY <1>s, <1>23 DEF Removed, Replace, NoJob, TypeOK, TasksOK, viewVars, openVars
<1>24. ASSUME NEW m \in Pictures, ImageLoaded(m)
      PROVE  TasksOK'
  BY <1>s, <1>24 DEF ImageLoaded, TypeOK, TasksOK, viewVars, openVars
<1>25. CASE Hide
  BY <1>s, <1>25 DEF Hide, Replace, Turn, TypeOK, TasksOK, viewVars, openVars
<1>26. CASE Show
  <2>1. CASE activeId = None
    BY <1>s, <1>26, <2>1 DEF Show, TasksOK, openVars
  <2>2. CASE activeId # None
    <3>1. activeId \in Rooms
      BY <1>s, <2>2 DEF TypeOK
    <3>. QED
      BY <1>s, <1>26, <2>2, <3>1, OpensTasks DEF Show, TasksOK
  <2>. QED
    BY <2>1, <2>2
<1>27. CASE LeaveChats
  BY <1>s, <1>27 DEF LeaveChats, Replace, TypeOK, TasksOK, viewVars, openVars
<1>28. CASE CloseRoom
  BY <1>s, <1>28 DEF CloseRoom, Replace, TypeOK, TasksOK, viewVars, openVars
<1>29. CASE UNCHANGED vars
  BY <1>s, <1>29 DEF vars, viewVars, openVars, TypeOK, TasksOK
<1>. QED
  BY <1>1, <1>2, <1>3, <1>4, <1>5, <1>6, <1>7, <1>8, <1>9, <1>10, <1>11, <1>12, <1>13,
     <1>14, <1>15, <1>16, <1>17, <1>18, <1>19, <1>20, <1>21, <1>22, <1>23, <1>24, <1>25,
     <1>26, <1>27, <1>28, <1>29 DEF Next, OpenRoomStep, OlderStep, JobStep

------------------------------------------------------------------------------
\* The list that loadOlder holds is the one shown as long as nothing has replaced it,
\* and, while its room is open and nothing was opened since, holds messages of its room.
ListOK ==
    /\ older.same => older.at = "decrypt" /\ older.old = shown
    /\ older.at # "idle" => older.room # None
    /\ (older.at = "decrypt" /\ "older" \in fresh /\ activeId = older.room)
       => older.old \subseteq Of(older.room)

\* What openRoom shows: its room's own messages.
LEMMA OpensView ==
    ASSUME TypeOK, TasksOK, ListOK, ShowsWhatIsOpen,
           NEW t \in Openers, NEW r \in Rooms, NEW b, Opens(t, r, b)
    PROVE  /\ OneRoom' /\ ListOK' /\ shown' \subseteq IF r = activeId THEN shown ELSE sessions[r]
           /\ hidden => shown' = {} /\ \A q \in Rooms : sessions'[q] = {}
<1>1. activeId' = r /\ fresh' = {t} /\ "older" \notin fresh'
  BY RoomAssumption DEF Opens
<1>2. sessions' = IF activeId \in Rooms \ {r}
                   THEN [sessions EXCEPT ![activeId] = shown] ELSE sessions
  BY DEF Opens
<1>3. shown' = IF r = activeId THEN shown ELSE sessions[r]
  BY DEF Opens, Replace
<1>4. OneRoom'
  BY <1>1, <1>2, <1>3 DEF ShowsWhatIsOpen, OneRoom, TypeOK
<1>5. ListOK'
  <2>1. CASE r = activeId
    BY <1>1, <1>3, <2>1 DEF Opens, ListOK
  <2>2. CASE r # activeId
    BY <1>1, <2>2, OlderReplaced DEF Opens, ListOK, TypeOK, OlderType
  <2>. QED
    BY <2>1, <2>2
<1>6. hidden => shown' = {} /\ \A q \in Rooms : sessions'[q] = {}
  BY <1>2, <1>3 DEF ShowsWhatIsOpen, HiddenShowsNothing, TypeOK
<1>. QED
  BY <1>3, <1>4, <1>5, <1>6

\* What a merge shows is of the open room, too.
LEMMA MergeView ==
    ASSUME TypeOK, TasksOK, ListOK, ShowsWhatIsOpen,
           NEW t \in Openers, pc[t] # "idle", Current(t),
           UNCHANGED <<hidden, activeId, images, fresh>>,
           NEW S \in SUBSET Of(room[t]), NEW at, Merge(t, S, at)
    PROVE  ShowsWhatIsOpen' /\ ListOK' /\ shown' = shown \cup S
<1>1. /\ activeId = room[t] /\ ~hidden /\ room[t] \in Rooms
      /\ shown' = shown \cup S /\ Replace(shown \cup S)
      /\ sessions' = [sessions EXCEPT ![room[t]] = shown']
  BY DEF Current, Merge, Merged, Replace, TasksOK
<1>2. OneRoom'
  BY <1>1 DEF ShowsWhatIsOpen, OneRoom, TypeOK, Of
<1>3. ListOK'
  BY <1>1, OlderReplaced DEF ListOK, TypeOK, OlderType, Merge
<1>. QED
  BY <1>1, <1>2, <1>3 DEF ShowsWhatIsOpen, HiddenShowsNothing


\* Every step shows and keeps what it may.
LEMMA ViewStep ==
    TypeOK /\ TasksOK /\ ListOK /\ ShowsWhatIsOpen /\ [Next]_vars => (ListOK /\ ShowsWhatIsOpen)'
<1>s. SUFFICES ASSUME TypeOK, TasksOK, ListOK, ShowsWhatIsOpen
             PROVE  [Next]_vars => (ListOK /\ ShowsWhatIsOpen)'
  OBVIOUS
<1>1. ASSUME NEW t \in Openers, NEW r \in Rooms, OpenRoom(t, r)
      PROVE  (ListOK /\ ShowsWhatIsOpen)'
  BY <1>s, <1>1, OpensView DEF OpenRoom, ShowsWhatIsOpen, HiddenShowsNothing
<1>2. ASSUME NEW t \in Openers, PageRead(t)
      PROVE  (ListOK /\ ShowsWhatIsOpen)'
  <2>1. /\ pc[t] # "idle" /\ UNCHANGED <<hidden, activeId, images, fresh>>
        /\ \A page \in Pages(room[t]) : page \in SUBSET Of(room[t])
    BY <1>2, Tables DEF PageRead, Pages
  <2>2. CASE UNCHANGED <<shown, older, sessions>>
    BY <1>s, <2>1, <2>2 DEF ShowsWhatIsOpen, OneRoom, HiddenShowsNothing, ListOK
  <2>3. CASE Current(t) /\ \E page \in Pages(room[t]) : Merge(t, page, AfterPage[pc[t]])
    BY <1>s, <2>1, <2>3, MergeView
  <2>. QED
    BY <1>2, <2>2, <2>3 DEF PageRead
<1>3. ASSUME NEW t \in Openers, PageDecrypted(t)
      PROVE  (ListOK /\ ShowsWhatIsOpen)'
  <2>1. /\ pc[t] # "idle" /\ UNCHANGED <<hidden, activeId, images, fresh>>
        /\ raw[t] \in SUBSET Of(room[t])
    BY <1>s, <1>3, Tables DEF PageDecrypted, TasksOK
  <2>2. CASE UNCHANGED <<shown, older, sessions>>
    BY <1>s, <2>1, <2>2 DEF ShowsWhatIsOpen, OneRoom, HiddenShowsNothing, ListOK
  <2>3. CASE Current(t) /\ Merge(t, raw[t], AfterDecrypt[pc[t]])
    BY <1>s, <2>1, <2>3, MergeView
  <2>. QED
    BY <1>3, <2>2, <2>3 DEF PageDecrypted
<1>4. ASSUME NEW t \in Openers, MembersAnswered(t)
      PROVE  (ListOK /\ ShowsWhatIsOpen)'
  <2>1. UNCHANGED <<viewVars, older, fresh>>
    BY <1>4 DEF MembersAnswered, GoesOn
  <2>. QED
    BY <1>s, <2>1 DEF ShowsWhatIsOpen, OneRoom, HiddenShowsNothing, ListOK, viewVars
<1>5. ASSUME NEW t \in Openers, KeysConfirmed(t)
      PROVE  (ListOK /\ ShowsWhatIsOpen)'
  <2>1. UNCHANGED <<viewVars, older, fresh>>
    BY <1>5 DEF KeysConfirmed, GoesOn
  <2>. QED
    BY <1>s, <2>1 DEF ShowsWhatIsOpen, OneRoom, HiddenShowsNothing, ListOK, viewVars
<1>6. ASSUME NEW t \in Openers, RemoteAnswered(t)
      PROVE  (ListOK /\ ShowsWhatIsOpen)'
  <2>1. UNCHANGED <<viewVars, older, fresh>>
    BY <1>6 DEF RemoteAnswered, GoesOn
  <2>. QED
    BY <1>s, <2>1 DEF ShowsWhatIsOpen, OneRoom, HiddenShowsNothing, ListOK, viewVars
<1>7. ASSUME NEW t \in Openers, KeysChanged(t)
      PROVE  (ListOK /\ ShowsWhatIsOpen)'
  <2>1. UNCHANGED <<viewVars, older, fresh>>
    BY <1>7 DEF KeysChanged
  <2>. QED
    BY <1>s, <2>1 DEF ShowsWhatIsOpen, OneRoom, HiddenShowsNothing, ListOK, viewVars
<1>8. ASSUME NEW t \in Openers, MembersTrusted(t)
      PROVE  (ListOK /\ ShowsWhatIsOpen)'
  <2>1. UNCHANGED <<viewVars, older, fresh>>
    BY <1>8 DEF MembersTrusted
  <2>. QED
    BY <1>s, <2>1 DEF ShowsWhatIsOpen, OneRoom, HiddenShowsNothing, ListOK, viewVars
<1>9. ASSUME NEW t \in Openers, KeysRefused(t)
      PROVE  (ListOK /\ ShowsWhatIsOpen)'
  <2>1. /\ activeId' = None /\ shown' = {} /\ UNCHANGED <<hidden, fresh>> /\ Replace({})
        /\ sessions' = sessions /\ images' = images
    BY <1>9 DEF KeysRefused, Replace
  <2>2. ListOK'
    BY <1>s, <2>1, OlderReplaced DEF ListOK, TypeOK, OlderType
  <2>. QED
    BY <1>s, <2>1, <2>2 DEF ShowsWhatIsOpen, OneRoom, HiddenShowsNothing
<1>10. ASSUME NEW t \in Openers, OpenFails(t)
      PROVE  (ListOK /\ ShowsWhatIsOpen)'
  <2>1. UNCHANGED <<viewVars, older, fresh>>
    BY <1>10 DEF OpenFails
  <2>. QED
    BY <1>s, <2>1 DEF ShowsWhatIsOpen, OneRoom, HiddenShowsNothing, ListOK, viewVars
<1>11. ASSUME NEW t \in Openers, PutRemote(t)
      PROVE  (ListOK /\ ShowsWhatIsOpen)'
  <2>1. UNCHANGED <<viewVars, older, fresh>>
    BY <1>11 DEF PutRemote
  <2>. QED
    BY <1>s, <2>1 DEF ShowsWhatIsOpen, OneRoom, HiddenShowsNothing, ListOK, viewVars
<1>12. CASE LoadOlder
  BY <1>s, <1>12 DEF LoadOlder, NoOlder, Turn, TypeOK, TasksOK, ShowsWhatIsOpen,
     OneRoom, HiddenShowsNothing, ListOK, viewVars, openVars
<1>13. CASE OlderAnswered
  BY <1>s, <1>13 DEF OlderAnswered, NoOlder, TypeOK, TasksOK, ShowsWhatIsOpen, OneRoom,
     HiddenShowsNothing, ListOK, viewVars, openVars
<1>14. CASE OlderFails
  BY <1>s, <1>14 DEF OlderFails, NoOlder, TypeOK, TasksOK, ShowsWhatIsOpen, OneRoom,
     HiddenShowsNothing, ListOK, viewVars, openVars
<1>15. CASE OlderPage
  <2>1. UNCHANGED <<viewVars, fresh>>
    BY <1>15 DEF OlderPage
  <2>2. PICK page \in Pages(older.room) :
             \/ older' = NoOlder
             \/ older' = [older EXCEPT !.at = "decrypt", !.raw = page, !.old = shown,
                                      !.same = TRUE]
    BY <1>15 DEF OlderPage
  <2>3. ListOK'
    <3>1. CASE older' = NoOlder
      BY <3>1 DEF NoOlder, ListOK
    <3>2. CASE older' = [older EXCEPT !.at = "decrypt", !.raw = page, !.old = shown,
                                      !.same = TRUE]
      <4>1. /\ older'.at = "decrypt" /\ older'.old = shown /\ older'.room = older.room
            /\ older.room # None
        BY <1>s, <1>15, <3>2 DEF TypeOK, ListOK, OlderPage
      <4>2. activeId = older.room => shown \subseteq Of(older.room)
        BY <1>s DEF TypeOK, ShowsWhatIsOpen, OneRoom, Of
      <4>. QED
        BY <2>1, <4>1, <4>2 DEF ListOK, viewVars
    <3>. QED
      BY <2>2, <3>1, <3>2
  <2>. QED
    BY <1>s, <2>1, <2>3 DEF ShowsWhatIsOpen, OneRoom, HiddenShowsNothing, viewVars
<1>16. CASE OlderDecrypted
  <2>1. UNCHANGED <<hidden, activeId, images, sessions, fresh>> /\ older' = NoOlder
    BY <1>16 DEF OlderDecrypted
  <2>2. ListOK'
    BY <2>1 DEF ListOK, NoOlder
  <2>3. CASE OlderCurrent /\ ~hidden /\ shown' = older.raw \cup older.old
    <3>1. shown' \subseteq Of(activeId)
      BY <1>s, <1>16, <2>3 DEF OlderDecrypted, OlderCurrent, ListOK, TasksOK
    <3>. QED
      BY <1>s, <2>1, <2>2, <2>3, <3>1 DEF ShowsWhatIsOpen, OneRoom, HiddenShowsNothing, Of
  <2>4. CASE shown' = shown
    BY <1>s, <2>1, <2>2, <2>4 DEF ShowsWhatIsOpen, OneRoom, HiddenShowsNothing
  <2>. QED
    BY <1>16, <2>3, <2>4 DEF OlderDecrypted
<1>17. ASSUME NEW j \in Jobs, NEW m \in Msgs, AddMessage(j, m)
      PROVE  (ListOK /\ ShowsWhatIsOpen)'
  BY <1>s, <1>17 DEF AddMessage, Starts, Turn, TypeOK, TasksOK, ShowsWhatIsOpen,
     OneRoom, HiddenShowsNothing, ListOK, viewVars, openVars
<1>18. ASSUME NEW j \in Jobs, AddStored(j)
      PROVE  (ListOK /\ ShowsWhatIsOpen)'
  BY <1>s, <1>18 DEF AddStored, NoJob, TypeOK, TasksOK, ShowsWhatIsOpen, OneRoom,
     HiddenShowsNothing, ListOK, viewVars, openVars
<1>19. ASSUME NEW j \in Jobs, AddDecrypted(j)
      PROVE  (ListOK /\ ShowsWhatIsOpen)'
  <2>1. UNCHANGED <<hidden, activeId, images, fresh>>
    BY <1>19 DEF AddDecrypted
  <2>2. CASE UNCHANGED <<shown, older, sessions>>
    BY <1>s, <2>1, <2>2 DEF ShowsWhatIsOpen, OneRoom, HiddenShowsNothing, ListOK
  <2>3. ASSUME activeId = job[j].room, ~hidden, NEW m \in job[j].of, Push(m),
               sessions' = [sessions EXCEPT ![job[j].room] = shown']
        PROVE  (ListOK /\ ShowsWhatIsOpen)'
    <3>1. m \in Of(activeId) /\ shown' = shown \cup {m}
      BY <1>s, <2>3 DEF TasksOK, Push
    <3>2. ListOK'
      BY <1>s, <2>1, <2>3, <3>1 DEF ListOK, Push, TypeOK
    <3>3. OneRoom'
      BY <1>s, <2>1, <2>3, <3>1 DEF ShowsWhatIsOpen, OneRoom, TypeOK, Of
    <3>. QED
      BY <2>1, <2>3, <3>2, <3>3 DEF ShowsWhatIsOpen, HiddenShowsNothing
  <2>. QED
    BY <1>19, <2>2, <2>3 DEF AddDecrypted
<1>20. ASSUME NEW j \in Jobs, NEW m \in Msgs, Recall(j, m)
      PROVE  (ListOK /\ ShowsWhatIsOpen)'
  BY <1>s, <1>20 DEF Recall, Removes, Starts, Turn, TypeOK, TasksOK, ShowsWhatIsOpen,
     OneRoom, HiddenShowsNothing, ListOK, viewVars, openVars
<1>21. ASSUME NEW j \in Jobs, NEW m \in Msgs, DeleteMessage(j, m)
      PROVE  (ListOK /\ ShowsWhatIsOpen)'
  BY <1>s, <1>21 DEF DeleteMessage, Removes, Starts, Turn, TypeOK, TasksOK,
     ShowsWhatIsOpen, OneRoom, HiddenShowsNothing, ListOK, viewVars, openVars
<1>22. ASSUME NEW j \in Jobs, NEW r \in Rooms, Clear(j, r)
      PROVE  (ListOK /\ ShowsWhatIsOpen)'
  BY <1>s, <1>22 DEF Clear, Removes, Starts, Turn, TypeOK, TasksOK, ShowsWhatIsOpen,
     OneRoom, HiddenShowsNothing, ListOK, viewVars, openVars
<1>23. ASSUME NEW j \in Jobs, Removed(j)
      PROVE  (ListOK /\ ShowsWhatIsOpen)'
  <2>1. UNCHANGED <<hidden, activeId, images, sessions, fresh>>
    BY <1>23 DEF Removed
  <2>2. ASSUME NEW S \in SUBSET shown, Replace(S)
        PROVE  (ListOK /\ ShowsWhatIsOpen)'
    <3>1. ListOK'
      BY <1>s, <2>1, <2>2, OlderReplaced DEF ListOK, TypeOK, OlderType
    <3>. QED
      BY <1>s, <2>1, <2>2, <3>1 DEF Replace, ShowsWhatIsOpen, OneRoom, HiddenShowsNothing
  <2>3. CASE UNCHANGED <<shown, older>>
    BY <1>s, <2>1, <2>3 DEF ShowsWhatIsOpen, OneRoom, HiddenShowsNothing, ListOK
  <2>4. (\E S \in SUBSET shown : Replace(S)) \/ UNCHANGED <<shown, older>>
    <3>1. shown \ job[j].of \in SUBSET shown /\ shown \in SUBSET shown /\ {} \in SUBSET shown
      OBVIOUS
    <3>. QED
      BY <1>23, <3>1 DEF Removed
  <2>. QED
    BY <2>2, <2>3, <2>4
<1>24. ASSUME NEW m \in Pictures, ImageLoaded(m)
      PROVE  (ListOK /\ ShowsWhatIsOpen)'
  BY <1>s, <1>24 DEF ImageLoaded, TypeOK, TasksOK, ShowsWhatIsOpen, OneRoom,
     HiddenShowsNothing, ListOK, viewVars, openVars
<1>25. CASE Hide
  <2>1. /\ shown' = {} /\ images' = {} /\ sessions' = [r \in Rooms |-> {}] /\ fresh' = {}
        /\ Replace({})
    BY <1>25 DEF Hide, Replace
  <2>2. ListOK'
    BY <1>s, <2>1, OlderReplaced DEF ListOK, TypeOK, OlderType
  <2>. QED
    BY <2>1, <2>2 DEF ShowsWhatIsOpen, OneRoom, HiddenShowsNothing
<1>26. CASE Show
  <2>1. CASE activeId = None
    BY <1>s, <1>26, <2>1 DEF Show, ShowsWhatIsOpen, OneRoom, HiddenShowsNothing, ListOK
  <2>2. CASE activeId # None
    <3>1. activeId \in Rooms
      BY <1>s, <2>2 DEF TypeOK
    <3>. QED
      BY <1>s, <1>26, <2>2, <3>1, OpensView DEF Show, ShowsWhatIsOpen, HiddenShowsNothing
  <2>. QED
    BY <2>1, <2>2
<1>27. CASE LeaveChats
  <2>1. /\ activeId' = None /\ shown' = {} /\ UNCHANGED <<hidden, fresh>> /\ Replace({})
        /\ sessions' = [r \in Rooms |-> {}] /\ images' = {}
    BY <1>27 DEF LeaveChats, Replace
  <2>2. ListOK'
    BY <1>s, <2>1, OlderReplaced DEF ListOK, TypeOK, OlderType
  <2>. QED
    BY <1>s, <2>1, <2>2 DEF ShowsWhatIsOpen, OneRoom, HiddenShowsNothing
<1>28. CASE CloseRoom
  <2>1. /\ activeId' = None /\ shown' = {} /\ UNCHANGED <<hidden, fresh>> /\ Replace({})
        /\ sessions' = sessions /\ images' = images
    BY <1>28 DEF CloseRoom, Replace
  <2>2. ListOK'
    BY <1>s, <2>1, OlderReplaced DEF ListOK, TypeOK, OlderType
  <2>. QED
    BY <1>s, <2>1, <2>2 DEF ShowsWhatIsOpen, OneRoom, HiddenShowsNothing
<1>29. CASE UNCHANGED vars
  BY <1>s, <1>29 DEF vars, viewVars, openVars, TypeOK, TasksOK, ShowsWhatIsOpen,
     OneRoom, HiddenShowsNothing, ListOK
<1>. QED
  BY <1>1, <1>2, <1>3, <1>4, <1>5, <1>6, <1>7, <1>8, <1>9, <1>10, <1>11, <1>12, <1>13,
     <1>14, <1>15, <1>16, <1>17, <1>18, <1>19, <1>20, <1>21, <1>22, <1>23, <1>24, <1>25,
     <1>26, <1>27, <1>28, <1>29 DEF Next, OpenRoomStep, OlderStep, JobStep

------------------------------------------------------------------------------
\* What is being decrypted for the open room is not gone.
GoneOK ==
    /\ \A t \in Openers :
         pc[t] \in DOMAIN AfterDecrypt /\ t \in fresh /\ activeId = room[t]
         => raw[t] \cap gone = {}
    /\ older.at = "decrypt" /\ "older" \in fresh /\ activeId = older.room
       => older.raw \cap gone = {}

\* A step that changes neither loadOlder's task nor what is fresh, takes nothing from
\* gone away and ends or advances openRoom keeps it.
LEMMA OpenerGone ==
    ASSUME TypeOK, TasksOK, ListOK, GoneOK, NEW t \in Openers,
           UNCHANGED <<activeId, fresh>>, gone' \subseteq gone,
           older'.at = older.at, older'.room = older.room, older'.raw = older.raw,
           \A u \in Openers : u # t => pc'[u] = pc[u] /\ room'[u] = room[u] /\ raw'[u] = raw[u],
           pc'[t] \in DOMAIN AfterDecrypt => room'[t] = room[t] /\ raw'[t] \cap gone' = {}
    PROVE  GoneOK'
  BY DEF GoneOK

\* Leaving the rooms leaves nothing to decrypt for the open one.
LEMMA NoneGone ==
    ASSUME TasksOK, ListOK, activeId' = None, older'.at = older.at, older'.room = older.room,
           \A u \in Openers : pc'[u] # "idle" => pc'[u] = pc[u] /\ room'[u] = room[u]
    PROVE  GoneOK'
<1>1. \A u \in Openers : pc'[u] \in DOMAIN AfterDecrypt => room'[u] # None
  BY Tables, RoomAssumption DEF TasksOK
<1>. QED
  BY <1>1 DEF GoneOK, ListOK

\* openRoom begins with nothing to decrypt, and ends the other tasks' freshness.
LEMMA OpensGone ==
    ASSUME TypeOK, NEW t \in Openers, NEW r, NEW b, Opens(t, r, b)
    PROVE  GoneOK'
<1>1. fresh' = {t} /\ "older" \notin fresh'
  BY RoomAssumption DEF Opens
<1>2. pc'[t] \notin DOMAIN AfterDecrypt
  BY Tables DEF Opens, Ends, At, TypeOK
<1>. QED
  BY <1>1, <1>2 DEF GoneOK

\* A removal from the open room ends the tasks' freshness; another one takes nothing
\* that is decrypted for the open room.
LEMMA RemovesGone ==
    ASSUME TypeOK, TasksOK, GoneOK, NEW j, NEW at, NEW S, NEW r, NEW stale \in BOOLEAN,
           Removes(j, at, S, r, stale), stale \/ S \cap Of(activeId) = {}
    PROVE  GoneOK'
<1>1. UNCHANGED <<activeId, pc, room, raw, older>> /\ gone' = gone \cup S
  BY DEF Removes, openVars
<1>2. CASE stale
  BY <1>2 DEF Removes, GoneOK
<1>3. CASE ~stale
  BY <1>1, <1>3 DEF Removes, GoneOK, TasksOK
<1>. QED
  BY <1>2, <1>3


\* Every step keeps what is gone out of what is decrypted for the open room.
LEMMA GoneStep == TypeOK /\ TasksOK /\ ListOK /\ ShowsWhatIsOpen /\ GoneOK /\ [Next]_vars => GoneOK'
<1>s. SUFFICES ASSUME TypeOK, TasksOK, ListOK, ShowsWhatIsOpen, GoneOK PROVE [Next]_vars => GoneOK'
  OBVIOUS
<1>1. ASSUME NEW t \in Openers, NEW r \in Rooms, OpenRoom(t, r)
      PROVE  GoneOK'
  BY <1>s, <1>1, OpensGone DEF OpenRoom
<1>2. ASSUME NEW t \in Openers, PageRead(t)
      PROVE  GoneOK'
  <2>1. UNCHANGED <<activeId, fresh>> /\ gone' \subseteq gone
    BY <1>2 DEF PageRead
  <2>2. /\ older'.at = older.at /\ older'.room = older.room /\ older'.raw = older.raw
        /\ \A u \in Openers : u # t => pc'[u] = pc[u] /\ room'[u] = room[u] /\ raw'[u] = raw[u]
    BY <1>s, <1>2, OlderReplaced DEF PageRead, Merge, Ends, At, Has, TypeOK, OlderType
  <2>3. pc'[t] \in DOMAIN AfterDecrypt => room'[t] = room[t] /\ raw'[t] \cap gone' = {}
    <3>1. CASE Ends(t)
      BY <1>s, <3>1, Tables DEF Ends, At, TypeOK
    <3>2. ASSUME NEW page \in Pages(room[t]), Merge(t, page, AfterPage[pc[t]])
          PROVE  pc'[t] \notin DOMAIN AfterDecrypt
      BY <1>s, <1>2, <3>2, Tables DEF PageRead, Merge, Ends, At, TypeOK
    <3>3. ASSUME NEW page \in Pages(room[t]), Has(t, page), UNCHANGED room,
                 gone' = gone \ page
          PROVE  room'[t] = room[t] /\ raw'[t] \cap gone' = {}
      BY <1>s, <3>3 DEF Has, TypeOK
    <3>. QED
      BY <1>2, <3>1, <3>2, <3>3 DEF PageRead
  <2>. QED
    BY <1>s, <2>1, <2>2, <2>3, OpenerGone
<1>3. ASSUME NEW t \in Openers, PageDecrypted(t)
      PROVE  GoneOK'
  <2>1. UNCHANGED <<activeId, fresh, gone>>
    BY <1>3 DEF PageDecrypted
  <2>2. /\ older'.at = older.at /\ older'.room = older.room /\ older'.raw = older.raw
        /\ \A u \in Openers : u # t => pc'[u] = pc[u] /\ room'[u] = room[u] /\ raw'[u] = raw[u]
    BY <1>s, <1>3, OlderReplaced DEF PageDecrypted, Merge, Ends, At, Has, TypeOK, OlderType
  <2>3. pc'[t] \notin DOMAIN AfterDecrypt
    BY <1>s, <1>3, Tables DEF PageDecrypted, Merge, Ends, At, TypeOK
  <2>. QED
    BY <1>s, <2>1, <2>2, <2>3, OpenerGone
<1>4. ASSUME NEW t \in Openers, MembersAnswered(t)
      PROVE  GoneOK'
  BY <1>s, <1>4, Tables, OpenerGone DEF MembersAnswered, GoesOn, Ends, At, Has, TypeOK,
     viewVars
<1>5. ASSUME NEW t \in Openers, KeysConfirmed(t)
      PROVE  GoneOK'
  BY <1>s, <1>5, Tables, OpenerGone DEF KeysConfirmed, GoesOn, Ends, At, Has, TypeOK,
     viewVars
<1>6. ASSUME NEW t \in Openers, RemoteAnswered(t)
      PROVE  GoneOK'
  BY <1>s, <1>6, Tables, OpenerGone DEF RemoteAnswered, GoesOn, Ends, At, Has, TypeOK,
     viewVars
<1>7. ASSUME NEW t \in Openers, KeysChanged(t)
      PROVE  GoneOK'
  BY <1>s, <1>7, Tables, OpenerGone DEF KeysChanged, Ends, At, Has, TypeOK, viewVars
<1>8. ASSUME NEW t \in Openers, MembersTrusted(t)
      PROVE  GoneOK'
  BY <1>s, <1>8, Tables, OpenerGone DEF MembersTrusted, Ends, At, Has, TypeOK, viewVars
<1>9. ASSUME NEW t \in Openers, KeysRefused(t)
      PROVE  GoneOK'
  <2>1. older'.at = older.at /\ older'.room = older.room
    BY <1>s, <1>9, OlderReplaced DEF KeysRefused, TypeOK, OlderType
  <2>. QED
    BY <1>s, <1>9, <2>1, NoneGone DEF KeysRefused, Ends, At, TypeOK
<1>10. ASSUME NEW t \in Openers, OpenFails(t)
      PROVE  GoneOK'
  BY <1>s, <1>10, Tables, OpenerGone DEF OpenFails, Ends, At, Has, TypeOK, viewVars
<1>11. ASSUME NEW t \in Openers, PutRemote(t)
      PROVE  GoneOK'
  BY <1>s, <1>11, Tables, OpenerGone DEF PutRemote, Ends, At, Has, TypeOK, viewVars
<1>12. CASE LoadOlder
  BY <1>s, <1>12, RoomAssumption DEF LoadOlder, NoOlder, GoneOK, TypeOK, viewVars, openVars
<1>13. CASE OlderAnswered
  BY <1>s, <1>13 DEF OlderAnswered, NoOlder, GoneOK, TypeOK, viewVars, openVars
<1>14. CASE OlderFails
  BY <1>s, <1>14 DEF OlderFails, NoOlder, GoneOK, viewVars, openVars
<1>15. CASE OlderPage
  <2>1. UNCHANGED <<activeId, fresh, pc, room, raw>>
    BY <1>15 DEF OlderPage, viewVars, openVars
  <2>2. PICK page \in Pages(older.room) :
          /\ gone' = gone \ page
          /\ \/ older' = NoOlder
             \/ older' = [older EXCEPT !.at = "decrypt", !.raw = page, !.old = shown,
                                      !.same = TRUE]
    BY <1>15 DEF OlderPage
  <2>3. older'.at = "decrypt" => older'.raw = page
    <3>1. CASE older' = NoOlder
      BY <3>1 DEF NoOlder
    <3>2. CASE older' = [older EXCEPT !.at = "decrypt", !.raw = page, !.old = shown,
                                      !.same = TRUE]
      BY <1>s, <3>2 DEF TypeOK
    <3>. QED
      BY <2>2, <3>1, <3>2
  <2>. QED
    BY <1>s, <2>1, <2>2, <2>3 DEF GoneOK
<1>16. CASE OlderDecrypted
  BY <1>s, <1>16 DEF OlderDecrypted, NoOlder, GoneOK, openVars
<1>17. ASSUME NEW j \in Jobs, NEW m \in Msgs, AddMessage(j, m)
      PROVE  GoneOK'
  BY <1>s, <1>17 DEF AddMessage, GoneOK, viewVars, openVars
<1>18. ASSUME NEW j \in Jobs, AddStored(j)
      PROVE  GoneOK'
  BY <1>s, <1>18 DEF AddStored, GoneOK, openVars
<1>19. ASSUME NEW j \in Jobs, AddDecrypted(j)
      PROVE  GoneOK'
  <2>1. older'.at = older.at /\ older'.room = older.room /\ older'.raw = older.raw
    BY <1>s, <1>19 DEF AddDecrypted, Push, TypeOK
  <2>. QED
    BY <1>s, <1>19, <2>1 DEF AddDecrypted, GoneOK, openVars
<1>20. ASSUME NEW j \in Jobs, NEW m \in Msgs, Recall(j, m)
      PROVE  GoneOK'
  BY <1>s, <1>20, RemovesGone DEF Recall, Of
<1>21. ASSUME NEW j \in Jobs, NEW m \in Msgs, DeleteMessage(j, m)
      PROVE  GoneOK'
  BY <1>s, <1>21, RemovesGone DEF DeleteMessage
<1>22. ASSUME NEW j \in Jobs, NEW r \in Rooms, Clear(j, r)
      PROVE  GoneOK'
  BY <1>s, <1>22, RemovesGone DEF Clear, Of
<1>23. ASSUME NEW j \in Jobs, Removed(j)
      PROVE  GoneOK'
  <2>1. older'.at = older.at /\ older'.room = older.room /\ older'.raw = older.raw
    BY <1>s, <1>23, OlderReplaced DEF Removed, TypeOK, OlderType
  <2>. QED
    BY <1>s, <1>23, <2>1 DEF Removed, GoneOK, openVars
<1>24. ASSUME NEW m \in Pictures, ImageLoaded(m)
      PROVE  GoneOK'
  BY <1>s, <1>24 DEF ImageLoaded, GoneOK, openVars
<1>25. CASE Hide
  BY <1>25 DEF Hide, GoneOK
<1>26. CASE Show
  <2>1. CASE activeId = None
    BY <1>s, <1>26, <2>1 DEF Show, GoneOK, openVars
  <2>2. CASE activeId # None
    BY <1>s, <1>26, <2>2, OpensGone DEF Show
  <2>. QED
    BY <2>1, <2>2
<1>27. CASE LeaveChats
  <2>1. older'.at = older.at /\ older'.room = older.room
    BY <1>s, <1>27, OlderReplaced DEF LeaveChats, TypeOK, OlderType
  <2>. QED
    BY <1>s, <1>27, <2>1, NoneGone DEF LeaveChats, openVars
<1>28. CASE CloseRoom
  <2>1. older'.at = older.at /\ older'.room = older.room
    BY <1>s, <1>28, OlderReplaced DEF CloseRoom, TypeOK, OlderType
  <2>. QED
    BY <1>s, <1>28, <2>1, NoneGone DEF CloseRoom, openVars
<1>29. CASE UNCHANGED vars
  BY <1>s, <1>29 DEF vars, viewVars, openVars, GoneOK, TasksOK, Current
<1>. QED
  BY <1>1, <1>2, <1>3, <1>4, <1>5, <1>6, <1>7, <1>8, <1>9, <1>10, <1>11, <1>12, <1>13,
     <1>14, <1>15, <1>16, <1>17, <1>18, <1>19, <1>20, <1>21, <1>22, <1>23, <1>24, <1>25,
     <1>26, <1>27, <1>28, <1>29 DEF Next, OpenRoomStep, OlderStep, JobStep

------------------------------------------------------------------------------
\* What ShownIsKept and RemovedStaysHidden say of a step.
KeepsShown ==
    activeId' = activeId /\ ~hidden' /\ ~OlderOverwrites
    => \A m \in shown \ shown' : \E j \in Jobs : job[j].at \in Removals /\ job'[j] = NoJob

KeepsHidden ==
    \A m \in (shown' \ shown) \cap gone :
       \/ \E j \in Jobs : job[j].at = "decrypt" /\ m \in job[j].of
       \/ OlderOverwrites /\ m \in older.old
       \/ activeId' # activeId /\ m \in sessions[activeId']

Keeps == KeepsShown /\ KeepsHidden

\* A step that leaves the view alone, or adds only what is not gone.
LEMMA SameView == UNCHANGED shown => Keeps
  BY DEF Keeps, KeepsShown, KeepsHidden

LEMMA MoreView == ASSUME NEW S, shown' = shown \cup S, S \cap gone = {} PROVE Keeps
  BY DEF Keeps, KeepsShown, KeepsHidden


\* Every step keeps what is shown, and keeps hidden what is gone.
LEMMA KeepsStep == TypeOK /\ TasksOK /\ ListOK /\ ShowsWhatIsOpen /\ GoneOK /\ [Next]_vars => Keeps
<1>s. SUFFICES ASSUME TypeOK, TasksOK, ListOK, ShowsWhatIsOpen, GoneOK PROVE [Next]_vars => Keeps
  OBVIOUS
<1>1. ASSUME NEW t \in Openers, NEW r \in Rooms, OpenRoom(t, r)
      PROVE  Keeps
  <2>1. activeId' = r /\ shown' \subseteq IF r = activeId THEN shown ELSE sessions[r]
    BY <1>s, <1>1, OpensView DEF OpenRoom, Opens
  <2>2. r = activeId => shown' = shown
    BY <1>1 DEF OpenRoom, Opens
  <2>. QED
    BY <2>1, <2>2 DEF Keeps, KeepsShown, KeepsHidden
<1>2. ASSUME NEW t \in Openers, PageRead(t)
      PROVE  Keeps
  <2>1. CASE UNCHANGED shown
    BY <2>1, SameView
  <2>2. ASSUME NEW page \in Pages(room[t]), page \subseteq shown,
               Merge(t, page, AfterPage[pc[t]])
        PROVE  Keeps
    BY <2>2, SameView DEF Merge, Merged, Replace
  <2>. QED
    BY <1>2, <2>1, <2>2 DEF PageRead
<1>3. ASSUME NEW t \in Openers, PageDecrypted(t)
      PROVE  Keeps
  <2>1. CASE UNCHANGED shown
    BY <2>1, SameView
  <2>2. CASE Current(t) /\ Merge(t, raw[t], AfterDecrypt[pc[t]])
    BY <1>s, <1>3, <2>2, MoreView DEF PageDecrypted, Current, GoneOK, Merge, Merged, Replace
  <2>. QED
    BY <1>3, <2>1, <2>2 DEF PageDecrypted
<1>4. ASSUME NEW t \in Openers, MembersAnswered(t)
      PROVE  Keeps
  BY <1>4, SameView DEF MembersAnswered, GoesOn, viewVars
<1>5. ASSUME NEW t \in Openers, KeysConfirmed(t)
      PROVE  Keeps
  BY <1>5, SameView DEF KeysConfirmed, GoesOn, viewVars
<1>6. ASSUME NEW t \in Openers, RemoteAnswered(t)
      PROVE  Keeps
  BY <1>6, SameView DEF RemoteAnswered, GoesOn, viewVars
<1>7. ASSUME NEW t \in Openers, KeysChanged(t)
      PROVE  Keeps
  BY <1>7, SameView DEF KeysChanged, viewVars
<1>8. ASSUME NEW t \in Openers, MembersTrusted(t)
      PROVE  Keeps
  BY <1>8, SameView DEF MembersTrusted, viewVars
<1>9. ASSUME NEW t \in Openers, KeysRefused(t)
      PROVE  Keeps
  <2>1. activeId' = None /\ shown' = {}
    BY <1>9 DEF KeysRefused, Replace
  <2>2. activeId = None => shown = {}
    BY <1>s, RoomAssumption DEF ShowsWhatIsOpen, OneRoom, TypeOK
  <2>. QED
    BY <2>1, <2>2 DEF Keeps, KeepsShown, KeepsHidden
<1>10. ASSUME NEW t \in Openers, OpenFails(t)
      PROVE  Keeps
  BY <1>10, SameView DEF OpenFails, viewVars
<1>11. ASSUME NEW t \in Openers, PutRemote(t)
      PROVE  Keeps
  BY <1>11, SameView DEF PutRemote, viewVars
<1>12. CASE LoadOlder
  BY <1>12, SameView DEF LoadOlder, viewVars
<1>13. CASE OlderAnswered
  BY <1>13, SameView DEF OlderAnswered, viewVars
<1>14. CASE OlderFails
  BY <1>14, SameView DEF OlderFails, viewVars
<1>15. CASE OlderPage
  BY <1>15, SameView DEF OlderPage, viewVars
<1>16. CASE OlderDecrypted
  <2>1. CASE UNCHANGED shown
    BY <2>1, SameView
  <2>2. CASE OlderCurrent /\ shown' = older.raw \cup older.old
    <3>1. older.raw \cap gone = {} /\ older' = NoOlder /\ older.at = "decrypt"
      BY <1>s, <1>16, <2>2 DEF OlderDecrypted, OlderCurrent, GoneOK
    <3>2. CASE older.same
      <4>1. shown' = shown \cup older.raw
        BY <1>s, <2>2, <3>2 DEF ListOK
      <4>. QED
        BY <3>1, <4>1, MoreView
    <3>3. CASE ~older.same
      BY <2>2, <3>1, <3>3 DEF OlderOverwrites, Keeps, KeepsShown, KeepsHidden
    <3>. QED
      BY <3>2, <3>3
  <2>. QED
    BY <1>16, <2>1, <2>2 DEF OlderDecrypted
<1>17. ASSUME NEW j \in Jobs, NEW m \in Msgs, AddMessage(j, m)
      PROVE  Keeps
  BY <1>17, SameView DEF AddMessage, viewVars
<1>18. ASSUME NEW j \in Jobs, AddStored(j)
      PROVE  Keeps
  BY <1>18, SameView DEF AddStored, viewVars
<1>19. ASSUME NEW j \in Jobs, AddDecrypted(j)
      PROVE  Keeps
  <2>1. CASE UNCHANGED shown
    BY <2>1, SameView
  <2>2. ASSUME NEW m \in job[j].of, Push(m) PROVE Keeps
    BY <1>19, <2>2 DEF AddDecrypted, Push, Keeps, KeepsShown, KeepsHidden
  <2>. QED
    BY <1>19, <2>1, <2>2 DEF AddDecrypted
<1>20. ASSUME NEW j \in Jobs, NEW m \in Msgs, Recall(j, m)
      PROVE  Keeps
  BY <1>20, SameView DEF Recall, Removes, viewVars
<1>21. ASSUME NEW j \in Jobs, NEW m \in Msgs, DeleteMessage(j, m)
      PROVE  Keeps
  BY <1>21, SameView DEF DeleteMessage, Removes, viewVars
<1>22. ASSUME NEW j \in Jobs, NEW r \in Rooms, Clear(j, r)
      PROVE  Keeps
  BY <1>22, SameView DEF Clear, Removes, viewVars
<1>23. ASSUME NEW j \in Jobs, Removed(j)
      PROVE  Keeps
  <2>1. job[j].at \in Removals /\ job'[j] = NoJob
    BY <1>s, <1>23 DEF Removed, TypeOK
  <2>2. shown' \subseteq shown
    BY <1>23 DEF Removed, Replace
  <2>. QED
    BY <2>1, <2>2 DEF Keeps, KeepsShown, KeepsHidden
<1>24. ASSUME NEW m \in Pictures, ImageLoaded(m)
      PROVE  Keeps
  BY <1>24, SameView DEF ImageLoaded, viewVars
<1>25. CASE Hide
  BY <1>25 DEF Hide, Replace, Keeps, KeepsShown, KeepsHidden
<1>26. CASE Show
  BY <1>26, SameView DEF Show, Opens
<1>27. CASE LeaveChats
  <2>1. activeId' = None /\ shown' = {}
    BY <1>27 DEF LeaveChats, Replace
  <2>2. activeId = None => shown = {}
    BY <1>s, RoomAssumption DEF ShowsWhatIsOpen, OneRoom, TypeOK
  <2>. QED
    BY <2>1, <2>2 DEF Keeps, KeepsShown, KeepsHidden
<1>28. CASE CloseRoom
  <2>1. activeId' = None /\ shown' = {}
    BY <1>28 DEF CloseRoom, Replace
  <2>2. activeId = None => shown = {}
    BY <1>s, RoomAssumption DEF ShowsWhatIsOpen, OneRoom, TypeOK
  <2>. QED
    BY <2>1, <2>2 DEF Keeps, KeepsShown, KeepsHidden
<1>29. CASE UNCHANGED vars
  BY <1>29, SameView DEF vars, viewVars
<1>. QED
  BY <1>1, <1>2, <1>3, <1>4, <1>5, <1>6, <1>7, <1>8, <1>9, <1>10, <1>11, <1>12, <1>13,
     <1>14, <1>15, <1>16, <1>17, <1>18, <1>19, <1>20, <1>21, <1>22, <1>23, <1>24, <1>25,
     <1>26, <1>27, <1>28, <1>29 DEF Next, OpenRoomStep, OlderStep, JobStep

------------------------------------------------------------------------------
RoomInv == TypeOK /\ TasksOK /\ ListOK /\ ShowsWhatIsOpen /\ GoneOK

LEMMA RoomInvHolds == Spec => []RoomInv
<1>1. Init => RoomInv
  <2>1. Init => TypeOK
    <3>1. ASSUME Init PROVE pc \in [Openers -> Labels] /\ older \in OlderType
                            /\ job \in [Jobs -> JobType] /\ turns \in 0..MaxTurns
      BY <3>1, NothingHeld, RoomAssumption DEF Init, Labels
    <3>. QED
      BY <3>1 DEF Init, TypeOK, Labels, OlderType, JobType
  <2>2. Init => TasksOK
    BY NoneHasNoMessages DEF Init, TasksOK, NoOlder, NoJob
  <2>3. Init => ListOK /\ GoneOK
    BY Tables DEF Init, ListOK, GoneOK, NoOlder
  <2>4. Init => ShowsWhatIsOpen
    BY DEF Init, ShowsWhatIsOpen, OneRoom, HiddenShowsNothing
  <2>. QED
    BY <2>1, <2>2, <2>3, <2>4 DEF RoomInv
<1>2. RoomInv /\ [Next]_vars => RoomInv'
  BY TypeStep, TasksStep, ViewStep, GoneStep DEF RoomInv
<1>. QED
  BY <1>1, <1>2, PTL DEF Spec

\* The variables of the room view have their types: no room, session or picture of a
\* message that does not exist.
THEOREM RoomTypes == Spec => []TypeOK
  BY RoomInvHolds, PTL DEF RoomInv

\* The open room shows only its own messages, a session keeps only its room's, and the
\* background shows and keeps nothing.
THEOREM OnlyOpenIsShown == Spec => []ShowsWhatIsOpen
  BY RoomInvHolds, PTL DEF RoomInv

\* Synchronizing and opening the room anew never take a message from the view.
THEOREM ShownMessagesStay == Spec => ShownIsKept
<1>1. RoomInv /\ [Next]_vars => [KeepsShown]_vars
  BY KeepsStep DEF RoomInv, Keeps
<1>. QED
  BY <1>1, RoomInvHolds, PTL DEF Spec, ShownIsKept, KeepsShown

\* A message that was recalled, deleted or cleared while an openRoom or a loadOlder was
\* decrypting it is not shown by the end of that decryption (App.vue:253, :364).
THEOREM RemovedMessagesStayHidden == Spec => RemovedStaysHidden
<1>1. RoomInv /\ [Next]_vars => [KeepsHidden]_vars
  BY KeepsStep DEF RoomInv, Keeps
<1>. QED
  BY <1>1, RoomInvHolds, PTL DEF Spec, RemovedStaysHidden, KeepsHidden
==============================================================================
