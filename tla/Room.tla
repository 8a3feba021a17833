--------------------------------- MODULE Room ---------------------------------
(***************************************************************************)
(* The room view of the client (frontend/client/src/App.vue): the messages *)
(* shown, the sessions kept of rooms that were left, and the tasks that    *)
(* change them between their awaits: openRoom, loadOlder, addMessage,      *)
(* recalls, deletions and clears, pictures, the page's visibility.         *)
(*                                                                         *)
(* A step ends at an await.  roomRevision is a counter that a task         *)
(* compares with the value it started with: fresh is the set of the tasks  *)
(* that started since it last changed.  A list of entries is the set of    *)
(* its messages: order and repetition are left out.  Other tasks write the *)
(* local history (module LocalHistory) all the time, and a copy of it may  *)
(* have refused a removal, so a page of it is any set of messages of the   *)
(* room.  gone holds the messages that were removed and that no page has   *)
(* brought, and no task has put, since.                                    *)
(***************************************************************************)
EXTENDS Integers, FiniteSets

CONSTANTS
    Rooms,          \* conversations
    Msgs,           \* messages
    Home,           \* the conversation of each message
    Pictures,       \* messages with an attachment
    Openers,        \* bound: calls of openRoom under way at the same time
    Jobs,           \* bound: events and the user's commands at the same time
    MaxTurns,       \* bound: calls in a behaviour
    None            \* activeId 0

ASSUME RoomAssumption ==
    /\ Home \in [Msgs -> Rooms]
    /\ Pictures \subseteq Msgs
    /\ None \notin Rooms
    /\ "older" \notin Openers
    /\ MaxTurns \in Nat

VARIABLES
    hidden,         \* document.hidden
    activeId,
    shown,          \* entries
    sessions,       \* roomSessions; an absent session is the empty one
    images,         \* objectURLs: messages whose picture is decrypted
    known,          \* rooms with members in memberSessions or localStorage
    historyDone,
    fresh,          \* tasks whose revision is roomRevision
    pc, room, raw,  \* of each openRoom: its await, its room, messages at hand
    older,          \* loadOlder: its await, its room, messages at hand, the
                    \* list it will prepend to and whether that is still entries
    job,            \* of each job: its await, its messages, its room
    gone,           \* messages removed, and neither read nor put since
    turns           \* calls so far

viewVars == <<hidden, activeId, shown, sessions, images>>
openVars == <<pc, room, raw>>
vars == <<viewVars, known, historyDone, fresh, openVars, older, job, gone, turns>>

Of(r) == {m \in Msgs : Home[m] = r}

\* historyStore.page(r): what three copies hold, which a removal may have missed.
Pages(r) == SUBSET Of(r)

NoOlder == [at |-> "idle", room |-> None, raw |-> {}, old |-> {}, same |-> FALSE]
NoJob   == [at |-> "idle", of |-> {}, room |-> None, active |-> FALSE]

Init ==
    /\ hidden = FALSE /\ activeId = None /\ shown = {}
    /\ sessions = [r \in Rooms |-> {}]
    /\ images = {} /\ known = {}
    /\ historyDone = FALSE
    /\ fresh = {}
    /\ pc = [t \in Openers |-> "idle"]
    /\ room = [t \in Openers |-> None]
    /\ raw = [t \in Openers |-> {}]
    /\ older = NoOlder
    /\ job = [j \in Jobs |-> NoJob]
    /\ gone = {}
    /\ turns = 0

Turn == turns < MaxTurns /\ turns' = turns + 1

\* entries.value = S: a loadOlder that holds the old list goes on holding it.
Replace(S) == shown' = S /\ older' = [older EXCEPT !.same = FALSE]

\* entries.value.push(m) changes the list that loadOlder holds, too.
Push(m) ==
    /\ shown' = shown \cup {m}
    /\ older' = [older EXCEPT !.old = IF older.same THEN @ \cup {m} ELSE @]

------------------------------------------------------------------------------
(* openRoom.                                                               *)

\* A task looks at the revision only, which leaving a room does not change.
BugCurrent(t) == t \in fresh /\ ~hidden

\* activeId === id && roomRevision === revision && !document.hidden
Current(t) == activeId = room[t] /\ t \in fresh /\ ~hidden

At(t, at) == pc' = [pc EXCEPT ![t] = at]

Has(t, S) == raw' = [raw EXCEPT ![t] = S]

Ends(t) ==
    /\ At(t, "idle") /\ Has(t, {})
    /\ room' = [room EXCEPT ![t] = None]

\* openRoom(r) up to its first await: the members, or the page if members are known;
\* in the background showLocal is awaited in vain, and the task ends.
Opens(t, r, background) ==
    /\ pc[t] = "idle"
    /\ fresh' = {t}
    /\ sessions' = IF activeId \in Rooms \ {r}
                   THEN [sessions EXCEPT ![activeId] = shown] ELSE sessions
    /\ activeId' = r
    /\ IF r = activeId THEN UNCHANGED <<shown, older>> ELSE Replace(sessions[r])
    /\ IF r \notin known /\ background THEN Ends(t)
       ELSE /\ At(t, IF r \in known THEN "page1" ELSE "members")
            /\ room' = [room EXCEPT ![t] = r]
            /\ UNCHANGED raw

\* The user picks a room, a notification does, or syncOffline opens the room anew.
OpenRoom(t, r) ==
    /\ Turn
    /\ Opens(t, r, hidden)
    /\ UNCHANGED <<hidden, images, known, historyDone, job, gone>>

AfterPage == [page1 |-> "members", page2 |-> "remote", page3 |-> "idle"]
Decrypts  == [page1 |-> "decrypt1", page2 |-> "decrypt2", page3 |-> "decrypt3"]
AfterDecrypt == [decrypt1 |-> "members", decrypt2 |-> "remote", decrypt3 |-> "idle"]

\* decryptMessages forgets what the socket has delivered.
BugMerged(S) == S

\* decryptMessages merges what it has decrypted with the entries of now, and openRoom
\* goes on.
Merged(S) == shown \cup S

Merge(t, S, at) ==
    /\ Replace(Merged(S))
    /\ sessions' = [sessions EXCEPT ![room[t]] = shown']
    /\ IF at = "idle" THEN Ends(t) ELSE At(t, at) /\ Has(t, {}) /\ UNCHANGED room

\* await historyStore.page(id) returns; only new messages are decrypted.
PageRead(t) ==
    /\ pc[t] \in DOMAIN Decrypts
    /\ \/ /\ ~Current(t)
          /\ Ends(t)
          /\ UNCHANGED <<shown, older, sessions, historyDone, gone>>
       \/ /\ Current(t)
          /\ historyDone' \in BOOLEAN
          /\ \E page \in Pages(room[t]) :
               /\ gone' = gone \ page
               /\ IF page \subseteq shown THEN Merge(t, page, AfterPage[pc[t]])
                  ELSE /\ At(t, Decrypts[pc[t]]) /\ Has(t, page)
                       /\ UNCHANGED <<room, shown, older, sessions>>
    /\ UNCHANGED <<hidden, activeId, images, known, fresh, job, turns>>

\* decryptMessages has decrypted, and looks whether it is still wanted.
PageDecrypted(t) ==
    /\ pc[t] \in DOMAIN AfterDecrypt
    /\ IF Current(t) THEN Merge(t, raw[t], AfterDecrypt[pc[t]])
       ELSE Ends(t) /\ UNCHANGED <<shown, older, sessions>>
    /\ UNCHANGED <<hidden, activeId, images, known, historyDone, fresh, job, gone, turns>>

\* The members arrive, the user confirms their changed keys, or the server's history
\* arrives: openRoom goes on if it is still wanted.
GoesOn(t, from, at, S) ==
    /\ pc[t] = from
    /\ IF Current(t) THEN At(t, at) /\ Has(t, S) /\ UNCHANGED room ELSE Ends(t)
    /\ UNCHANGED <<viewVars, known, historyDone, fresh, older, job, gone, turns>>

MembersAnswered(t) == GoesOn(t, "members", "trust", {})
KeysConfirmed(t)   == GoesOn(t, "confirm", "trusting", {})
RemoteAnswered(t)  == \E S \in SUBSET Of(room[t]) : GoesOn(t, "remote", "put", S)

\* changedMemberKeys finds a changed key, and the user is asked.
KeysChanged(t) ==
    /\ pc[t] = "trust" /\ At(t, "confirm")
    /\ UNCHANGED <<viewVars, known, historyDone, fresh, room, raw, older, job, gone, turns>>

\* It finds none, or trustMemberKeys returns: the members are kept, whatever room is
\* open now, and the page is read again.
MembersTrusted(t) ==
    /\ pc[t] \in {"trust", "trusting"} /\ At(t, "page2")
    /\ known' = known \cup {room[t]}
    /\ UNCHANGED <<viewVars, historyDone, fresh, room, raw, older, job, gone, turns>>

\* The user refuses the keys, which closes whatever room is open.
KeysRefused(t) ==
    /\ pc[t] = "confirm" /\ Ends(t)
    /\ activeId' = None /\ Replace({})
    /\ UNCHANGED <<hidden, sessions, images, known, historyDone, fresh, job, gone, turns>>

\* A request fails.
OpenFails(t) ==
    /\ pc[t] \in {"members", "remote"} /\ Ends(t)
    /\ UNCHANGED <<viewVars, known, historyDone, fresh, older, job, gone, turns>>

\* for (const message of remote) { if (!current()) return; await put(message, true) }
PutRemote(t) ==
    /\ pc[t] = "put"
    /\ \/ ~Current(t) /\ Ends(t) /\ UNCHANGED gone
       \/ /\ Current(t) /\ raw[t] = {}
          /\ At(t, "page3") /\ UNCHANGED <<room, raw, gone>>
       \/ \E m \in raw[t] :
            /\ Current(t)
            /\ gone' = gone \ {m}
            /\ Has(t, raw[t] \ {m}) /\ UNCHANGED <<pc, room>>
    /\ UNCHANGED <<viewVars, known, historyDone, fresh, older, job, turns>>

------------------------------------------------------------------------------
(* loadOlder.                                                              *)

OlderCurrent == activeId = older.room /\ "older" \in fresh

\* The user scrolls up.
LoadOlder ==
    /\ Turn
    /\ older.at = "idle" /\ ~historyDone /\ activeId # None /\ ~hidden
    /\ older' = [NoOlder EXCEPT !.at = "fetch", !.room = activeId]
    /\ fresh' = fresh \cup {"older"}
    /\ UNCHANGED <<viewVars, known, historyDone, openVars, job, gone>>

\* The server's page arrives and is put, whatever happened meanwhile, or the request
\* fails.  Then the room is looked at.
OlderAnswered ==
    /\ older.at = "fetch"
    /\ \E S \in SUBSET Of(older.room) : gone' = gone \ S
    /\ older' = IF OlderCurrent THEN [older EXCEPT !.at = "page"] ELSE NoOlder
    /\ UNCHANGED <<viewVars, known, historyDone, fresh, openVars, job, turns>>

OlderFails ==
    /\ older.at = "fetch" /\ older' = NoOlder
    /\ UNCHANGED <<viewVars, known, historyDone, fresh, openVars, job, gone, turns>>

\* The page arrives, and with it the list of now; an empty one sets historyDone for
\* whatever room is open.
OlderPage ==
    /\ older.at = "page"
    /\ \E page \in Pages(older.room) :
         /\ gone' = gone \ page
         /\ IF page = {} THEN historyDone' = TRUE /\ older' = NoOlder
            ELSE /\ older' = [older EXCEPT !.at = "decrypt", !.raw = page, !.old = shown,
                                           !.same = TRUE]
                 /\ UNCHANGED historyDone
    /\ UNCHANGED <<viewVars, known, fresh, openVars, job, turns>>

\* The page is decrypted: it goes before the list that was shown when it arrived.
OlderDecrypted ==
    /\ older.at = "decrypt"
    /\ older' = NoOlder
    /\ IF OlderCurrent /\ ~hidden
       THEN shown' = older.raw \cup older.old /\ historyDone' \in BOOLEAN
       ELSE UNCHANGED <<shown, historyDone>>
    /\ UNCHANGED <<hidden, activeId, sessions, images, known, fresh, openVars, job, gone,
                   turns>>

------------------------------------------------------------------------------
(* addMessage and the removals.                                            *)

Starts(j, at, S, r) ==
    /\ Turn
    /\ job[j].at = "idle"
    /\ job' = [job EXCEPT ![j] = [at |-> at, of |-> S, room |-> r,
                                  active |-> activeId = r /\ ~hidden]]

\* A message event, or the answer to sendMessage: addMessage puts the message.
AddMessage(j, m) ==
    /\ Starts(j, "put", {m}, Home[m])
    /\ gone' = gone \ {m}
    /\ UNCHANGED <<viewVars, known, historyDone, fresh, openVars, older>>

\* It is put: unless its room was open then and does not show it, that is all.
AddStored(j) ==
    LET wanted == job[j].active /\ job[j].of \cap shown = {} IN
    /\ job[j].at = "put"
    /\ job' = [job EXCEPT ![j] = IF wanted THEN [@ EXCEPT !.at = "decrypt"] ELSE NoJob]
    /\ sessions' = IF job[j].active THEN sessions
                   ELSE [sessions EXCEPT ![job[j].room] = {}]
    /\ UNCHANGED <<hidden, activeId, shown, images, known, historyDone, fresh, openVars,
                   older, gone, turns>>

\* It is decrypted, and shown if its room is open.
AddDecrypted(j) ==
    /\ job[j].at = "decrypt"
    /\ job' = [job EXCEPT ![j] = NoJob]
    /\ IF activeId = job[j].room /\ ~hidden
       THEN /\ \E m \in job[j].of : Push(m)
            /\ sessions' = [sessions EXCEPT ![job[j].room] = shown']
       ELSE UNCHANGED <<shown, older, sessions>>
    /\ UNCHANGED <<hidden, activeId, images, known, historyDone, fresh, openVars, gone,
                   turns>>

\* A removal leaves the revision alone.
BugRemoves(j, at, S, r, stale) ==
    /\ Starts(j, at, S, r)
    /\ sessions' = [sessions EXCEPT ![r] = {}]
    /\ gone' = gone \cup S
    /\ UNCHANGED <<hidden, activeId, shown, images, known, historyDone, fresh, openVars, older>>

\* Every removal begins with the revision, the session and the local history.
Removes(j, at, S, r, stale) ==
    /\ Starts(j, at, S, r)
    /\ fresh' = IF stale THEN {} ELSE fresh
    /\ sessions' = [sessions EXCEPT ![r] = {}]
    /\ gone' = gone \cup S
    /\ UNCHANGED <<hidden, activeId, shown, images, known, historyDone, openVars, older>>

\* message_deleted
Recall(j, m) == Removes(j, "recall", {m}, Home[m], activeId = Home[m])

\* deleteMessage of an entry whose menu was opened; for all, the server has recalled it.
DeleteMessage(j, m) == Removes(j, "delete", {m}, Home[m], TRUE)

\* applyClear, or clearConversation when the server has answered.
Clear(j, r) == Removes(j, "clear", Of(r), r, activeId = r)

Removals == {"recall", "delete", "clear"}

\* The local history has done its part, and the entries follow: a recall takes out the
\* message, a deletion the entry, which may have been made anew since.
Removed(j) ==
    /\ job[j].at \in Removals
    /\ job' = [job EXCEPT ![j] = NoJob]
    /\ \/ job[j].at \in {"recall", "delete"} /\ Replace(shown \ job[j].of)
       \/ job[j].at = "delete" /\ Replace(shown)
       \/ job[j].at = "clear" /\ activeId = job[j].room /\ Replace({})
       \/ job[j].at = "clear" /\ activeId # job[j].room /\ UNCHANGED <<shown, older>>
    /\ UNCHANGED <<hidden, activeId, sessions, images, known, historyDone, fresh, openVars,
                   gone, turns>>

------------------------------------------------------------------------------
(* Pictures, the page and its views.                                       *)

\* A loadEntryImage that began when an entry was made has its picture decrypted.
ImageLoaded(m) ==
    /\ activeId = Home[m] /\ ~hidden
    /\ images' = images \cup {m}
    /\ UNCHANGED <<hidden, activeId, shown, sessions, known, historyDone, fresh, openVars,
                   older, job, gone, turns>>

\* The page goes to the background ...
Hide ==
    /\ Turn
    /\ ~hidden /\ hidden' = TRUE
    /\ fresh' = {}
    /\ sessions' = [r \in Rooms |-> {}]
    /\ Replace({}) /\ images' = {}
    /\ UNCHANGED <<activeId, known, historyDone, openVars, job, gone>>

\* The page comes back and opens room 0 when none was open.
BugShow ==
    /\ hidden /\ hidden' = FALSE
    /\ \E t \in Openers : Opens(t, activeId, FALSE)
    /\ UNCHANGED <<images, known, historyDone, job, gone, turns>>

\* ... and comes back.
Show ==
    /\ hidden /\ hidden' = FALSE
    /\ IF activeId = None
       THEN UNCHANGED <<activeId, shown, sessions, fresh, openVars, older>>
       ELSE \E t \in Openers : Opens(t, activeId, FALSE)
    /\ UNCHANGED <<images, known, historyDone, job, gone, turns>>

\* selectView of another view, and the watchers of activeView and activeId.
LeaveChats ==
    /\ activeId' = None /\ Replace({})
    /\ sessions' = [r \in Rooms |-> {}]
    /\ images' = {}
    /\ UNCHANGED <<hidden, known, historyDone, fresh, openVars, job, gone, turns>>

\* deleteConversation, and the watcher of activeId.
CloseRoom ==
    /\ activeId # None /\ activeId' = None /\ Replace({})
    /\ UNCHANGED <<hidden, sessions, images, known, historyDone, fresh, openVars, job, gone,
                   turns>>

------------------------------------------------------------------------------
OpenRoomStep(t) ==
    \/ PageRead(t) \/ PageDecrypted(t) \/ MembersAnswered(t) \/ MembersTrusted(t)
    \/ KeysChanged(t) \/ KeysConfirmed(t) \/ KeysRefused(t)
    \/ RemoteAnswered(t) \/ PutRemote(t) \/ OpenFails(t)

OlderStep == OlderAnswered \/ OlderFails \/ OlderPage \/ OlderDecrypted

JobStep(j) == AddStored(j) \/ AddDecrypted(j) \/ Removed(j)

Next ==
    \/ \E t \in Openers : OpenRoomStep(t) \/ \E r \in Rooms : OpenRoom(t, r)
    \/ LoadOlder \/ OlderStep
    \/ \E j \in Jobs : \/ JobStep(j)
                       \/ \E m \in Msgs : AddMessage(j, m) \/ Recall(j, m)
                                          \/ DeleteMessage(j, m)
                       \/ \E r \in Rooms : Clear(j, r)
    \/ \E m \in Pictures : ImageLoaded(m)
    \/ Hide \/ Show \/ LeaveChats \/ CloseRoom

Spec == Init /\ [][Next]_vars

------------------------------------------------------------------------------
(* Properties.                                                             *)

TypeOK ==
    /\ hidden \in BOOLEAN /\ activeId \in Rooms \cup {None}
    /\ shown \subseteq Msgs /\ sessions \in [Rooms -> SUBSET Msgs]
    /\ images \subseteq Pictures
    /\ known \subseteq Rooms /\ historyDone \in BOOLEAN
    /\ fresh \subseteq Openers \cup {"older"}
    /\ pc \in [Openers -> {"idle", "members", "trust", "confirm", "trusting", "remote", "put"}
                          \cup DOMAIN Decrypts \cup DOMAIN AfterDecrypt]
    /\ room \in [Openers -> Rooms \cup {None}]
    /\ raw \in [Openers -> SUBSET Msgs]
    /\ older \in [at : {"idle", "fetch", "page", "decrypt"}, room : Rooms \cup {None},
                  raw : SUBSET Msgs, old : SUBSET Msgs, same : BOOLEAN]
    /\ job \in [Jobs -> [at : {"idle", "put", "decrypt"} \cup Removals,
                         of : SUBSET Msgs, room : Rooms \cup {None}, active : BOOLEAN]]
    /\ gone \subseteq Msgs
    /\ turns \in 0..MaxTurns

\* The open room shows only its own messages, and a session keeps only messages of its
\* room, however many rooms are being opened, loaded and left at the same time
\* (App.vue:240 decryptMessages, :342 loadOlder, :389 addMessage look again after each
\* await; CHAT-CACHE-FIX-2026-10-30.md:13 "使用请求版本防止过期解密结果覆盖当前会话", the
\* revision keeps stale decryptions from overwriting the room of now).
OneRoom ==
    /\ \A m \in shown : Home[m] = activeId
    /\ \A r \in Rooms : \A m \in sessions[r] : Home[m] = r

\* In the background nothing decrypted is kept: no entry, no session and no picture,
\* whatever was being decrypted when the page was hidden (README.md:94, App.vue:800).
HiddenShowsNothing ==
    hidden => shown = {} /\ images = {} /\ \A r \in Rooms : sessions[r] = {}

\* What is shown, and kept to be shown, is what the page may show.
ShowsWhatIsOpen == OneRoom /\ HiddenShowsNothing

\* loadOlder puts back the list that was shown when its page arrived, which a
\* decryptMessages has replaced since.
OlderOverwrites == older.at = "decrypt" /\ ~older.same /\ older' = NoOlder

\* Opening the room anew, synchronizing and loading never take a message from the view:
\* only removals, the background and leaving the room do, and the loadOlder that
\* overwrites (CHAT-CACHE-FIX-2026-10-30.md:11 "按消息 ID 合并并去重，保留同步期间收到的实时消息",
\* merged by id, keeping the messages that arrive during the synchronization).
ShownIsKept ==
    [][ activeId' = activeId /\ ~hidden' /\ ~OlderOverwrites
        => \A m \in shown \ shown' : \E j \in Jobs : job[j].at \in Removals
                                                     /\ job'[j] = NoJob ]_vars

\* An openRoom or a loadOlder that was decrypting a message when it was recalled, deleted
\* or cleared does not show it when it ends (App.vue:253 and :364 compare the revision,
\* which :527, :560, :696 and :732 change; CHAT-CACHE-FIX-2026-10-30.md:13
\* "使用请求版本防止过期解密结果覆盖当前会话").  Three other ways back are open in the code: an addMessage
\* that holds the message, the list that loadOlder puts back, and the session of a room
\* that the user left between the start of the removal, which drops the session, and
\* its end.
RemovedStaysHidden ==
    [][ \A m \in (shown' \ shown) \cap gone :
          \/ \E j \in Jobs : job[j].at = "decrypt" /\ m \in job[j].of
          \/ OlderOverwrites /\ m \in older.old
          \/ activeId' # activeId /\ m \in sessions[activeId'] ]_vars
==============================================================================
