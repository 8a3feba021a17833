------------------------------ MODULE Delivery -------------------------------
(***************************************************************************)
(* How messages, recalls and clears reach one device of one member of a    *)
(* conversation: over the socket, whose events the device works off one    *)
(* after another (App.vue, socketEventChain), by the synchronization that  *)
(* every new connection starts (syncOffline), and with the history that    *)
(* openRoom and loadOlder read.  The device writes all of them into its    *)
(* local history (history.js), and acknowledges what the queue holds.      *)
(*                                                                         *)
(* The server is a MemberServer, which MessageStore implements, and a      *)
(* handler of it commits first and calls SendTo afterwards; Hub has the    *)
(* sockets.  The member has this device and maybe others.                  *)
(***************************************************************************)
EXTENDS Naturals, Sequences

CONSTANTS
    Peers,      \* the other members
    Msgs, From, \* messages they send, and who sends each
    MaxClears,  \* bound: clears of the conversation
    Syncs,      \* bound: runs of syncOffline at a time; each connection starts one,
                \* and an older one goes on after its connection has ended
    Reads,      \* bound: how the history is read, by openRoom or loadOlder: room, older
    Faults      \* bound: what may happen beside: crash, connection, request, reload,
                \* refusal (a copy of the local history keeps what it should remove),
                \* elsewhere (another device acknowledges, or a message expires),
                \* deletion (of another member's account)

ASSUME MaxClearsAssumption == MaxClears \in Nat

VARIABLES
    peers,          \* the others who still have an account
    sent,           \* messages whose transaction committed
    history,        \* the server's messages
    queue,          \* its offline queue for this member
    clearEvent,     \* its pending clear for this member, or 0
    lastClear,      \* clears so far
    outgoing,       \* events committed whose SendTo is still to come
    socket,         \* the device's connection: off, open, registered in the hub
    wire,           \* events on their way over it
    chain,          \* events of the socket the device has not finished
    applied,        \* the first of them is applied and being acknowledged
    sync,           \* where each syncOffline is
    page,           \* what it has fetched and not begun
    inHand,         \* the message it has written and not acknowledged, at most one
    store,          \* the device's local history: what any of its copies has
    browse,         \* the history page being read: off, room, older
    browsed,        \* what is left of it
    cleared,        \* history: messages a clear removed on the server
    kept,           \* history: those that were on the device at the newest clear and
                    \* have been since, while it has neither been tried here nor
                    \* ended elsewhere
    removed,        \* history: messages removed on the device, by whatever
    elsewhere       \* history: messages that left the queue without this device

\* What the server is to the member, whichever device asks.
Server == INSTANCE MemberServer WITH clear <- clearEvent

tableVars   == <<peers, sent, history, queue, clearEvent, lastClear>>
serverVars  == <<tableVars, outgoing>>
socketVars  == <<socket, wire>>
chainVars   == <<chain, applied>>
syncVars    == <<sync, page, inHand>>
browseVars  == <<browse, browsed>>
localVars   == <<store, kept, removed>>
pastVars    == <<cleared, elsewhere>>
vars == <<serverVars, socketVars, chainVars, syncVars, browseVars, localVars, pastVars>>

Event == ({"message", "deleted"} \X Msgs) \cup ({"cleared"} \X (1..MaxClears))

Init ==
    /\ Server!Init
    /\ outgoing = {}
    /\ socket = "off" /\ wire = <<>>
    /\ chain = <<>> /\ applied = FALSE
    /\ sync = [s \in Syncs |-> "off"]
    /\ page = [s \in Syncs |-> {}]
    /\ inHand = [s \in Syncs |-> {}]
    /\ store = {}
    /\ browse = "off" /\ browsed = {}
    /\ cleared = {} /\ kept = {} /\ removed = {} /\ elsewhere = {}

------------------------------------------------------------------------------
(* The local history (history.js).                                         *)

Put(m) ==
    /\ store' = store \cup {m}
    /\ UNCHANGED <<kept, removed>>

\* What a removal leaves of what it should remove: a copy may refuse it, which the
\* callers are not told (Promise.allSettled).
Left(messages) == IF "refusal" \in Faults THEN SUBSET messages ELSE {{}}

\* historyStore.delete and deleteIfSender
Forget(m) ==
    \E left \in Left(store \cap {m}) :
        /\ store' = (store \ {m}) \cup left
        /\ kept' = kept \cap store'
        /\ removed' = removed \cup (store \cap {m})

\* applyClear: historyStore.clear.  It has been tried then, whatever is left.
ClearStore(e) ==
    \E left \in Left(store) :
        /\ store' = left
        /\ kept' = IF e = lastClear THEN {} ELSE kept \cap left
        /\ removed' = removed \cup store

\* roomRevision++: an openRoom under way stops writing; loadOlder does not look.
StopRoom ==
    /\ browse' = IF browse = "room" THEN "off" ELSE browse
    /\ browsed' = IF browse = "room" THEN {} ELSE browsed

(* The two acknowledgements, as the server carries them out.               *)

\* Faulty variant: any acknowledgement of a clear removes the pending one.
BugAckClear(e) == IF clearEvent # 0 THEN Server!Cleared ELSE UNCHANGED tableVars

AckMessage(m) == IF m \in queue THEN Server!Taken(m) ELSE UNCHANGED tableVars
AckClear(e)   == IF clearEvent = e THEN Server!Cleared ELSE UNCHANGED tableVars

AckEvent(ev) == IF ev[1] = "message" THEN AckMessage(ev[2]) ELSE AckClear(ev[2])

------------------------------------------------------------------------------
(* Faulty variants of actions below: plausible bugs that a property reports. *)

\* A recall leaves the message in the queues.
BugRecallKeepsQueue(m) ==
    /\ m \in history
    /\ history' = history \ {m}
    /\ outgoing' = outgoing \cup {<<"deleted", m>>}
    /\ UNCHANGED <<peers, sent, queue, clearEvent, lastClear, socketVars, chainVars, syncVars,
                   browseVars, localVars, pastVars>>

\* The event is acknowledged before it is written.
BugChainAcksFirst ==
    /\ chain # <<>> /\ ~applied
    /\ LET ev == Head(chain) IN
         IF ev[1] = "deleted"
         THEN /\ Forget(ev[2]) /\ StopRoom
              /\ chain' = Tail(chain)
              /\ UNCHANGED <<applied, tableVars>>
         ELSE /\ AckEvent(ev)
              /\ applied' = TRUE
              /\ UNCHANGED <<chain, localVars, browseVars>>
    /\ UNCHANGED <<outgoing, socketVars, syncVars, pastVars>>

\* syncOffline skips what the device already has, acknowledgement included.
BugSyncPutSkips(s, m) ==
    /\ sync[s] = "put" /\ m \in page[s]
    /\ page' = [page EXCEPT ![s] = @ \ {m}]
    /\ IF m \in store
       THEN /\ sync' = [sync EXCEPT ![s] = IF page'[s] = {} THEN "off" ELSE "put"]
            /\ UNCHANGED <<localVars, inHand>>
       ELSE /\ Put(m)
            /\ inHand' = [inHand EXCEPT ![s] = {m}]
            /\ sync' = [sync EXCEPT ![s] = "ack"]
    /\ UNCHANGED <<serverVars, socketVars, chainVars, browseVars, pastVars>>

------------------------------------------------------------------------------
(* The server.                                                             *)

SendCommit(m) ==
    /\ Server!Send(m) \/ Server!SendUnseen(m)
    /\ outgoing' = outgoing \cup {<<"message", m>>}
    /\ UNCHANGED <<socketVars, chainVars, syncVars, browseVars, localVars, pastVars>>

RecallCommit(m) ==
    /\ Server!Recall(m)
    /\ outgoing' = outgoing \cup {<<"deleted", m>>}
    /\ UNCHANGED <<socketVars, chainVars, syncVars, browseVars, localVars, pastVars>>

ClearCommit ==
    /\ lastClear < MaxClears
    /\ Server!Clear
    /\ outgoing' = outgoing \cup {<<"cleared", lastClear'>>}
    /\ cleared' = cleared \cup history
    /\ kept' = store \cap cleared'
    /\ UNCHANGED <<socketVars, chainVars, syncVars, browseVars, store, removed, elsewhere>>

\* deleteUser: no event tells the devices.
AccountDeleted(v) ==
    /\ "deletion" \in Faults
    /\ Server!AccountDeleted(v)
    /\ kept' = IF clearEvent' = 0 THEN {} ELSE kept
    /\ UNCHANGED <<outgoing, socketVars, chainVars, syncVars, browseVars, store, removed,
                   pastVars>>

\* Another device of the member acknowledges the message, or it expires (30 days).
TakenElsewhere(m) ==
    /\ "elsewhere" \in Faults
    /\ Server!Taken(m)
    /\ elsewhere' = elsewhere \cup {m}
    /\ UNCHANGED <<outgoing, socketVars, chainVars, syncVars, browseVars, localVars, cleared>>

\* Another device of the member carries out the pending clear and acknowledges it: the
\* row is the user's.
ClearedElsewhere ==
    /\ "elsewhere" \in Faults
    /\ Server!Cleared
    /\ kept' = {}
    /\ UNCHANGED <<outgoing, socketVars, chainVars, syncVars, browseVars, store, removed,
                   pastVars>>

\* SendTo, in the order the handlers' goroutines get to it: only a connection that
\* Hub.Run has inserted gets the event.
Push(ev) ==
    /\ ev \in outgoing
    /\ outgoing' = outgoing \ {ev}
    /\ wire' = IF socket = "registered" THEN Append(wire, ev) ELSE wire
    /\ UNCHANGED <<tableVars, socket, chainVars, syncVars, browseVars, localVars, pastVars>>

\* The server stops: events not sent yet are lost, and the connection with them.
Crash ==
    /\ "crash" \in Faults /\ (outgoing # {} \/ socket # "off")
    /\ outgoing' = {} /\ socket' = "off" /\ wire' = <<>>
    /\ UNCHANGED <<tableVars, chainVars, syncVars, browseVars, localVars, pastVars>>

------------------------------------------------------------------------------
(* The connection.                                                         *)

\* connect, from the timer of scheduleReconnect or reconnectNow: onopen starts syncOffline,
\* before or after Hub.Run gets the client.
Connect(s) ==
    /\ socket = "off" /\ sync[s] = "off"
    /\ socket' = "open"
    /\ sync' = [sync EXCEPT ![s] = "clears"]
    /\ UNCHANGED <<serverVars, wire, chainVars, page, inHand, browseVars, localVars, pastVars>>

Register ==
    /\ socket = "open"
    /\ socket' = "registered"
    /\ UNCHANGED <<serverVars, wire, chainVars, syncVars, browseVars, localVars, pastVars>>

Disconnect ==
    /\ "connection" \in Faults /\ socket # "off"
    /\ socket' = "off" /\ wire' = <<>>
    /\ UNCHANGED <<serverVars, chainVars, syncVars, browseVars, localVars, pastVars>>

\* onmessage
Receive ==
    /\ wire # <<>>
    /\ wire' = Tail(wire)
    /\ chain' = Append(chain, Head(wire))
    /\ UNCHANGED <<serverVars, socket, applied, syncVars, browseVars, localVars, pastVars>>

------------------------------------------------------------------------------
(* handleSocketEvent, one event after the other.                           *)

ChainApply ==
    /\ chain # <<>> /\ ~applied
    /\ LET ev == Head(chain) IN
         \/ /\ ev[1] = "message"
            /\ Put(ev[2])
            /\ applied' = TRUE
            /\ UNCHANGED <<chain, browseVars>>
         \/ /\ ev[1] = "cleared"
            /\ ClearStore(ev[2]) /\ StopRoom
            /\ applied' = TRUE
            /\ UNCHANGED chain
         \/ /\ ev[1] = "deleted"
            /\ Forget(ev[2]) /\ StopRoom
            /\ chain' = Tail(chain)
            /\ UNCHANGED applied
    /\ UNCHANGED <<serverVars, socketVars, syncVars, pastVars>>

ChainAck ==
    /\ applied
    /\ AckEvent(Head(chain))
    /\ applied' = FALSE
    /\ chain' = Tail(chain)
    /\ UNCHANGED <<outgoing, socketVars, syncVars, browseVars, localVars, pastVars>>

\* No copy took the message, or the request fails; the chain goes on with the next event.
ChainFails ==
    /\ "request" \in Faults /\ chain # <<>>
    /\ applied \/ Head(chain)[1] = "message"
    /\ applied' = FALSE
    /\ chain' = Tail(chain)
    /\ UNCHANGED <<serverVars, socketVars, syncVars, browseVars, localVars, pastVars>>

------------------------------------------------------------------------------
(* syncOffline: first the clears, then the messages.  A page of 100 stands *)
(* for all there is.                                                       *)

FetchClears(s) ==
    /\ sync[s] = "clears"
    /\ page' = [page EXCEPT ![s] = {clearEvent} \ {0}]
    /\ sync' = [sync EXCEPT ![s] = IF clearEvent = 0 THEN "messages" ELSE "clear"]
    /\ UNCHANGED <<serverVars, socketVars, chainVars, inHand, browseVars, localVars, pastVars>>

SyncClear(s) ==
    /\ sync[s] = "clear"
    /\ \E e \in page[s] : ClearStore(e)
    /\ StopRoom
    /\ sync' = [sync EXCEPT ![s] = "clearAck"]
    /\ UNCHANGED <<serverVars, socketVars, chainVars, page, inHand, pastVars>>

SyncClearAck(s) ==
    /\ sync[s] = "clearAck"
    /\ \E e \in page[s] : AckClear(e)
    /\ page' = [page EXCEPT ![s] = {}]
    /\ sync' = [sync EXCEPT ![s] = "messages"]
    /\ UNCHANGED <<outgoing, socketVars, chainVars, inHand, browseVars, localVars, pastVars>>

FetchMessages(s) ==
    /\ sync[s] = "messages"
    /\ page' = [page EXCEPT ![s] = queue]
    /\ sync' = [sync EXCEPT ![s] = IF queue = {} THEN "off" ELSE "put"]
    /\ UNCHANGED <<serverVars, socketVars, chainVars, inHand, browseVars, localVars, pastVars>>

SyncPut(s, m) ==
    /\ sync[s] = "put" /\ m \in page[s]
    /\ Put(m)
    /\ page' = [page EXCEPT ![s] = @ \ {m}]
    /\ inHand' = [inHand EXCEPT ![s] = {m}]
    /\ sync' = [sync EXCEPT ![s] = "ack"]
    /\ UNCHANGED <<serverVars, socketVars, chainVars, browseVars, pastVars>>

SyncAck(s) ==
    /\ sync[s] = "ack"
    /\ \E m \in inHand[s] : AckMessage(m)
    /\ inHand' = [inHand EXCEPT ![s] = {}]
    /\ sync' = [sync EXCEPT ![s] = IF page[s] = {} THEN "off" ELSE "put"]
    /\ UNCHANGED <<outgoing, socketVars, chainVars, page, browseVars, localVars, pastVars>>

\* A request or a write fails: the rest waits for the next connection.
SyncFails(s) ==
    /\ "request" \in Faults /\ sync[s] # "off"
    /\ sync' = [sync EXCEPT ![s] = "off"]
    /\ page' = [page EXCEPT ![s] = {}]
    /\ inHand' = [inHand EXCEPT ![s] = {}]
    /\ UNCHANGED <<serverVars, socketVars, chainVars, browseVars, localVars, pastVars>>

------------------------------------------------------------------------------
(* The user.                                                               *)

\* openRoom and loadOlder have read a page of the server's history ...
Browse(how) ==
    /\ browse = "off" /\ history # {}
    /\ browse' = how /\ browsed' = history
    /\ UNCHANGED <<serverVars, socketVars, chainVars, syncVars, localVars, pastVars>>

\* ... and write it message by message.
BrowsePut(m) ==
    /\ m \in browsed
    /\ Put(m)
    /\ browsed' = browsed \ {m}
    /\ browse' = IF browsed' = {} THEN "off" ELSE browse
    /\ UNCHANGED <<serverVars, socketVars, chainVars, syncVars, pastVars>>

\* A write fails: the rest is not written.
BrowseFails ==
    /\ "request" \in Faults /\ browse # "off"
    /\ browse' = "off" /\ browsed' = {}
    /\ UNCHANGED <<serverVars, socketVars, chainVars, syncVars, localVars, pastVars>>

\* deleteMessage "only on this device": no request is made.
DeleteHere(m) ==
    /\ m \in store
    /\ Forget(m) /\ StopRoom
    /\ UNCHANGED <<serverVars, socketVars, chainVars, syncVars, pastVars>>

\* The page is loaded anew, or the desktop client restarts.
Reload ==
    /\ "reload" \in Faults
    /\ socket' = "off" /\ wire' = <<>> /\ chain' = <<>> /\ applied' = FALSE
    /\ sync' = [s \in Syncs |-> "off"]
    /\ page' = [s \in Syncs |-> {}]
    /\ inHand' = [s \in Syncs |-> {}]
    /\ browse' = "off" /\ browsed' = {}
    /\ UNCHANGED <<serverVars, localVars, pastVars>>

------------------------------------------------------------------------------
ServerNext ==
    \/ \E m \in Msgs : SendCommit(m) \/ RecallCommit(m) \/ TakenElsewhere(m)
    \/ ClearCommit \/ ClearedElsewhere
    \/ \E v \in Peers : AccountDeleted(v)
    \/ \E ev \in outgoing : Push(ev)
    \/ Crash

SyncStep(s) ==
    \/ FetchClears(s) \/ SyncClear(s) \/ SyncClearAck(s) \/ FetchMessages(s)
    \/ \E m \in Msgs : SyncPut(s, m)
    \/ SyncAck(s)

DeviceNext ==
    \/ \E s \in Syncs : Connect(s) \/ SyncStep(s) \/ SyncFails(s)
    \/ Register \/ Disconnect \/ Receive
    \/ ChainApply \/ ChainAck \/ ChainFails
    \/ \E how \in Reads : Browse(how)
    \/ \E m \in Msgs : BrowsePut(m) \/ DeleteHere(m)
    \/ BrowseFails \/ Reload

Next == ServerNext \/ DeviceNext

Spec == Init /\ [][Next]_vars

\* Goroutines and the browser's event loop run on; a device that can connect does.
Fairness ==
    /\ WF_vars(\E ev \in outgoing : Push(ev))
    /\ WF_vars(\E s \in Syncs : Connect(s)) /\ WF_vars(Register) /\ WF_vars(Receive)
    /\ WF_vars(ChainApply) /\ WF_vars(ChainAck)
    /\ \A s \in Syncs : WF_vars(SyncStep(s))

\* Connections end from time to time, as those of mobile devices do, and requests do
\* not fail for ever.
RoamingSpec ==
    /\ Spec /\ Fairness
    /\ WF_vars(Disconnect)
    /\ \A s \in Syncs : /\ SF_vars(FetchClears(s)) /\ SF_vars(SyncClear(s))
                        /\ SF_vars(SyncClearAck(s)) /\ SF_vars(FetchMessages(s))
                        /\ \A m \in Msgs : SF_vars(SyncPut(s, m))
                        /\ SF_vars(SyncAck(s))

------------------------------------------------------------------------------
(* Properties.                                                             *)

TypeOK ==
    /\ peers \in SUBSET Peers
    /\ sent \in SUBSET Msgs /\ history \in SUBSET sent /\ queue \in SUBSET history
    /\ lastClear \in 0..MaxClears /\ clearEvent \in 0..lastClear
    /\ outgoing \in SUBSET Event
    /\ socket \in {"off", "open", "registered"}
    /\ wire \in Seq(Event) /\ chain \in Seq(Event)
    /\ applied \in BOOLEAN /\ (applied => chain # <<>>)
    /\ sync \in [Syncs -> {"off", "clears", "clear", "clearAck", "messages", "put", "ack"}]
    /\ page \in [Syncs -> SUBSET (Msgs \cup (1..MaxClears))]
    /\ inHand \in [Syncs -> SUBSET Msgs]
    /\ browse \in Reads \cup {"off"}
    /\ store \in SUBSET sent /\ browsed \in SUBSET sent
    /\ cleared \in SUBSET sent /\ kept \in SUBSET cleared /\ removed \in SUBSET sent
    /\ elsewhere \in SUBSET sent

\* This device takes a message from the queue only once it has it: whatever fails, is
\* reloaded or runs twice, what the server holds is still queued, in the local history,
\* or was there until the device itself removed it, unless another device took it or it
\* expired (handlers.go:636, README.md:93).
AckedIsStored == history \subseteq queue \cup store \cup removed \cup elsewhere

\* A clear stays pending until it has been tried on the device: while a message is left
\* that was there when the newest clear was made, the server still holds a clear,
\* whatever older one is acknowledged late.  Not longer: a copy of the local history that
\* refuses (history.js:171), or another device of the member, ends it (README, section 5).
ClearIsPending == kept # {} => clearEvent # 0

\* With connections that come and go, every message leaves the queue in the end:
\* delivered, recalled or cleared.
QueueDrains == \A m \in Msgs : m \in queue ~> m \notin queue

\* Nothing is under way between the server and the device.
Quiet ==
    /\ outgoing = {} /\ wire = <<>> /\ chain = <<>> /\ browse = "off"
    /\ \A s \in Syncs : sync[s] = "off"

\* App.vue:559: a clear removes the records of both sides, from online devices at once
\* and from others when they connect.  So a device that is connected, with nothing
\* under way between it and the server, has no cleared message.
ClearedIsGone == socket = "registered" /\ Quiet => store \cap cleared = {}

==============================================================================
