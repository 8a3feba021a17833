--------------------------------- MODULE Hub ---------------------------------
(***************************************************************************)
(* The WebSocket hub of the server (server/internal/api/socket): the one   *)
(* goroutine that runs Hub.Run, the HTTP goroutines that call SendTo, and, *)
(* for every connection, the Upgrade handler followed by its ReadPump and  *)
(* WritePump goroutines.  They share the client map under an RWMutex, the  *)
(* unbuffered register and unregister channels, and one buffered Send      *)
(* channel for each connection.                                            *)
(*                                                                         *)
(* Hub.Run is the only goroutine that takes the write lock, so a lock is   *)
(* the set of goroutines reading plus "Run is waiting to write": a Go      *)
(* RWMutex admits no new reader once a writer waits.                       *)
(***************************************************************************)
EXTENDS Naturals, Sequences, SequencesExt

CONSTANTS
    Clients,        \* WebSocket connections; Upgrade creates each one afresh
    Users,
    Owner,          \* the user whose ticket each connection presented
    Senders,        \* HTTP goroutines; each calls SendTo once with its message
    Wanted,         \* the users each SendTo names
    Broadcasts,     \* goroutines that call Broadcast once with their message
    Ready,          \* the socket_ready message
    NoClient,
    Cap             \* capacity of a Send channel (256 in the code)

ASSUME ClientsAssumption == NoClient \notin Clients
ASSUME OwnerAssumption   == Owner \in [Clients -> Users]
ASSUME WantedAssumption  == Wanted \in [Senders -> SUBSET Users]
ASSUME CapAssumption     == Cap \in Nat \ {0}

VARIABLES
    up,         \* the Upgrade handler of each connection
    rp, wp,     \* its ReadPump and its WritePump
    conn,       \* its TCP connection, as the server sees it
    closed,     \* the connections whose Send channel has been closed
    send,       \* what its Send channel holds
    inbox,      \* what its browser has received
    clients,    \* Hub.clients
    hub,        \* where Hub.Run is
    hubArg,     \* the client Hub.Run took from register or unregister
    hubMsg,     \* the broadcast it is distributing (at most one)
    hubTodo,    \* clients its broadcast loop has not visited
    hubFull,    \* toRemove
    broadcast,  \* Hub.broadcast
    bp,         \* each Broadcast call: not yet made, or done
    sp, todo,   \* each SendTo: where it is, clients it has not visited
    target,     \* history: the clients it found registered
    missed,     \* history: those whose full channel made it drop the message
    stopped     \* Hub.done is closed

clientVars == <<up, rp, wp, conn, inbox>>
hubVars    == <<clients, hub, hubArg, hubMsg, hubTodo, hubFull, broadcast>>
sendVars   == <<bp, sp, todo, target, missed>>
vars == <<clientVars, closed, send, hubVars, sendVars, stopped>>

Message == Senders \cup Broadcasts \cup {Ready}

Init ==
    /\ up = [c \in Clients |-> "idle"]
    /\ rp = [c \in Clients |-> "off"]
    /\ wp = [c \in Clients |-> "off"]
    /\ conn = [c \in Clients |-> "none"]
    /\ closed = {}
    /\ send = [c \in Clients |-> <<>>]
    /\ inbox = [c \in Clients |-> {}]
    /\ clients = {}
    /\ hub = "select"
    /\ hubArg = NoClient
    /\ hubMsg = {}
    /\ hubTodo = {}
    /\ hubFull = {}
    /\ broadcast = <<>>
    /\ bp = [m \in Broadcasts |-> "idle"]
    /\ sp = [s \in Senders |-> "idle"]
    /\ todo = [s \in Senders |-> {}]
    /\ target = [s \in Senders |-> {}]
    /\ missed = [s \in Senders |-> {}]
    /\ stopped = FALSE

------------------------------------------------------------------------------
(* A send on a Send channel.                                               *)

Room(c) == Len(send[c]) < Cap

\* Goroutines that hold the read lock.
Readers == {s \in Senders : sp[s] = "loop"}

\* Run has called Lock and waits for the readers to leave.
WriterWaiting == hub \in {"insertLock", "deleteLock"}

------------------------------------------------------------------------------
(* Faulty variants of actions below.  Each is a plausible bug; a property is *)
(* only kept when such a bug makes TLC report it.                            *)

\* Register hands a nil client to Run.
BugReceiveNil(c) ==
    /\ hub = "select"
    /\ up[c] = "register"
    /\ hub' = "insert"
    /\ hubArg' = NoClient
    /\ up' = [up EXCEPT ![c] = "ready"]
    /\ UNCHANGED <<rp, wp, conn, inbox, closed, send, clients, hubMsg, hubTodo,
                   hubFull, broadcast, sendVars, stopped>>

\* unregisterClient without the lock.
BugDeleteUnlocked ==
    /\ hub = "deleteLock"
    /\ hub' = IF hubFull = {} THEN "select" ELSE "evict"
    /\ clients' = clients \ {hubArg}
    /\ closed' = closed \cup {hubArg}
    /\ hubArg' = NoClient
    /\ UNCHANGED <<clientVars, send, hubMsg, hubTodo, hubFull, broadcast, sendVars, stopped>>

\* SendTo makes room in a full channel by dropping its oldest message.
BugSendDropsOldest(s, c) ==
    /\ sp[s] = "loop"
    /\ c \in todo[s]
    /\ todo' = [todo EXCEPT ![s] = @ \ {c}]
    /\ send' = [send EXCEPT ![c] = Append(IF Room(c) THEN @ ELSE Tail(@), s)]
    /\ UNCHANGED <<clientVars, closed, hubVars, bp, sp, target, missed, stopped>>

\* SendTo waits at a full channel, as a send without default does.
BugSendBlocks(s, c) ==
    /\ sp[s] = "loop"
    /\ c \in todo[s]
    /\ Room(c)
    /\ todo' = [todo EXCEPT ![s] = @ \ {c}]
    /\ send' = [send EXCEPT ![c] = Append(@, s)]
    /\ UNCHANGED <<clientVars, closed, hubVars, bp, sp, target, missed, stopped>>

\* unregisterClient forgets to close the channel.
BugDeleteKeepsOpen ==
    /\ hub = "deleteLock"
    /\ Readers = {}
    /\ hub' = IF hubFull = {} THEN "select" ELSE "evict"
    /\ clients' = clients \ {hubArg}
    /\ hubArg' = NoClient
    /\ UNCHANGED <<clientVars, closed, send, hubMsg, hubTodo, hubFull, broadcast, sendVars,
                   stopped>>

\* ReadPump closes the connection without Unregister.
BugReadKeepsClient(c) ==
    /\ rp[c] = "loop"
    /\ conn[c] # "open"
    /\ rp' = [rp EXCEPT ![c] = "close"]
    /\ UNCHANGED <<up, wp, conn, inbox, closed, send, hubVars, sendVars, stopped>>

------------------------------------------------------------------------------
(* Upgrade: one handler goroutine for each connection.                     *)

\* The ticket is accepted (a refused one leaves no trace here) and the transport
\* handshake completes; the handler now blocks in Register.
UpgradeAccepted(c) ==
    /\ up[c] = "idle"
    /\ up' = [up EXCEPT ![c] = "register"]
    /\ conn' = [conn EXCEPT ![c] = "open"]
    /\ UNCHANGED <<rp, wp, inbox, closed, send, hubVars, sendVars, stopped>>

\* client.Send <- socket_ready blocks while the channel is full, and panics
\* when it has been closed.  After it the handler only starts the two pumps.
SendReady(c) ==
    /\ up[c] = "ready"
    /\ \/ /\ c \in closed
          /\ up' = [up EXCEPT ![c] = "panicked"]
          /\ UNCHANGED <<rp, wp, send>>
       \/ /\ c \notin closed /\ Room(c)
          /\ up' = [up EXCEPT ![c] = "serving"]
          /\ send' = [send EXCEPT ![c] = Append(@, Ready)]
          /\ wp' = [wp EXCEPT ![c] = "loop"]
          /\ rp' = [rp EXCEPT ![c] = "loop"]
    /\ UNCHANGED <<conn, inbox, closed, hubVars, sendVars, stopped>>

------------------------------------------------------------------------------
(* ReadPump.                                                               *)

\* ReadMessage fails: the peer left, its pong is overdue, or the server closed
\* the connection.  The deferred function calls Unregister first.
ReadFails(c) ==
    /\ rp[c] = "loop"
    /\ conn[c] # "open"
    /\ rp' = [rp EXCEPT ![c] = "unregister"]
    /\ UNCHANGED <<up, wp, conn, inbox, closed, send, hubVars, sendVars, stopped>>

\* Conn.Close() of the deferred function, once Unregister has returned.
ReadCloses(c) ==
    /\ rp[c] = "close"
    /\ rp' = [rp EXCEPT ![c] = "done"]
    /\ conn' = [conn EXCEPT ![c] = "closed"]
    /\ UNCHANGED <<up, wp, inbox, closed, send, hubVars, sendVars, stopped>>

------------------------------------------------------------------------------
(* WritePump.                                                              *)

\* A write fails on a connection the server closed, may fail or vanish on one
\* whose peer left, and reaches the browser otherwise.
WriteMessage(c) ==
    /\ wp[c] = "loop"
    /\ send[c] # <<>>
    /\ send' = [send EXCEPT ![c] = Tail(@)]
    /\ \/ /\ conn[c] = "open"
          /\ inbox' = [inbox EXCEPT ![c] = @ \cup {Head(send[c])}]
          /\ UNCHANGED wp
       \/ /\ conn[c] = "lost"
          /\ UNCHANGED <<wp, inbox>>
       \/ /\ conn[c] # "open"
          /\ wp' = [wp EXCEPT ![c] = "close"]
          /\ UNCHANGED inbox
    /\ UNCHANGED <<up, rp, conn, closed, hubVars, sendVars, stopped>>

\* The channel is closed and drained: write a Close frame and return.
WriteClosed(c) ==
    /\ wp[c] = "loop"
    /\ c \in closed /\ send[c] = <<>>
    /\ wp' = [wp EXCEPT ![c] = "close"]
    /\ UNCHANGED <<up, rp, conn, inbox, closed, send, hubVars, sendVars, stopped>>

\* The ticker fires and the Ping cannot be written.
PingFails(c) ==
    /\ wp[c] = "loop"
    /\ conn[c] # "open"
    /\ wp' = [wp EXCEPT ![c] = "close"]
    /\ UNCHANGED <<up, rp, conn, inbox, closed, send, hubVars, sendVars, stopped>>

\* ticker.Stop() and Conn.Close() of the deferred function.
WriteCloses(c) ==
    /\ wp[c] = "close"
    /\ wp' = [wp EXCEPT ![c] = "done"]
    /\ conn' = [conn EXCEPT ![c] = "closed"]
    /\ UNCHANGED <<up, rp, inbox, closed, send, hubVars, sendVars, stopped>>

\* The peer closes, disappears, or stops answering pings.
PeerLeaves(c) ==
    /\ conn[c] = "open"
    /\ conn' = [conn EXCEPT ![c] = "lost"]
    /\ UNCHANGED <<up, rp, wp, inbox, closed, send, hubVars, sendVars, stopped>>

------------------------------------------------------------------------------
(* Hub.Run.  Every alternative of its select is an action of its own.      *)

\* The rendezvous of Register: the handler goes on as soon as Run has received
\* the client, before Run has inserted it.
ReceiveRegister(c) ==
    /\ hub = "select"
    /\ up[c] = "register"
    /\ hub' = "insert"
    /\ hubArg' = c
    /\ up' = [up EXCEPT ![c] = "ready"]
    /\ UNCHANGED <<rp, wp, conn, inbox, closed, send, clients, hubMsg, hubTodo,
                   hubFull, broadcast, sendVars, stopped>>

ReceiveUnregister(c) ==
    /\ hub = "select"
    /\ rp[c] = "unregister"
    /\ hub' = "delete"
    /\ hubArg' = c
    /\ rp' = [rp EXCEPT ![c] = "close"]
    /\ UNCHANGED <<up, wp, conn, inbox, closed, send, clients, hubMsg, hubTodo,
                   hubFull, broadcast, sendVars, stopped>>

\* Run calls Lock.
CallLock ==
    /\ \/ hub = "insert" /\ hub' = "insertLock"
       \/ hub = "delete" /\ hub' = "deleteLock"
    /\ UNCHANGED <<clientVars, closed, send, clients, hubArg, hubMsg, hubTodo,
                   hubFull, broadcast, sendVars, stopped>>

\* Run holds the write lock: clients[c] = true.
Insert ==
    /\ hub = "insertLock"
    /\ Readers = {}
    /\ clients' = clients \cup {hubArg}
    /\ hub' = "select"
    /\ hubArg' = NoClient
    /\ UNCHANGED <<clientVars, closed, send, hubMsg, hubTodo, hubFull, broadcast,
                   sendVars, stopped>>

\* unregisterClient under the write lock.  Closing a closed channel panics:
\* the recover of Run would swallow it and end the loop.
Delete ==
    /\ hub = "deleteLock"
    /\ Readers = {}
    /\ IF hubArg \in clients /\ hubArg \in closed
       THEN /\ hub' = "panicked"
            /\ UNCHANGED <<closed, clients>>
       ELSE /\ hub' = IF hubFull = {} THEN "select" ELSE "evict"
            /\ clients' = clients \ {hubArg}
            /\ closed' = closed \cup ({hubArg} \cap clients)
    /\ hubArg' = NoClient
    /\ UNCHANGED <<clientVars, send, hubMsg, hubTodo, hubFull, broadcast, sendVars, stopped>>

\* case msg := <-h.broadcast, and the RLock: no writer can be waiting.
ReceiveBroadcast ==
    /\ hub = "select"
    /\ broadcast # <<>>
    /\ hub' = "distribute"
    /\ hubMsg' = {Head(broadcast)}
    /\ broadcast' = Tail(broadcast)
    /\ hubTodo' = clients
    /\ UNCHANGED <<clientVars, closed, send, clients, hubArg, hubFull, sendVars, stopped>>

\* One turn of the broadcast loop: a full channel marks its client for removal.
Distribute(c) ==
    /\ hub = "distribute"
    /\ c \in hubTodo
    /\ hubTodo' = hubTodo \ {c}
    /\ \E m \in hubMsg :
       \/ /\ c \in closed
          /\ hub' = "panicked"
          /\ UNCHANGED <<send, hubFull>>
       \/ /\ c \notin closed /\ Room(c)
          /\ send' = [send EXCEPT ![c] = Append(@, m)]
          /\ UNCHANGED <<hub, hubFull>>
       \/ /\ c \notin closed /\ ~Room(c)
          /\ hubFull' = hubFull \cup {c}
          /\ UNCHANGED <<hub, send>>
    /\ UNCHANGED <<clientVars, closed, clients, hubArg, hubMsg, broadcast, sendVars, stopped>>

EndDistribute ==
    /\ hub = "distribute"
    /\ hubTodo = {}
    /\ hub' = IF hubFull = {} THEN "select" ELSE "evict"
    /\ hubMsg' = {}
    /\ UNCHANGED <<clientVars, closed, send, clients, hubArg, hubTodo, hubFull,
                   broadcast, sendVars, stopped>>

\* for _, c := range toRemove: the next call of unregisterClient.
Evict(c) ==
    /\ hub = "evict"
    /\ c \in hubFull
    /\ hub' = "delete"
    /\ hubArg' = c
    /\ hubFull' = hubFull \ {c}
    /\ UNCHANGED <<clientVars, closed, send, clients, hubMsg, hubTodo, broadcast,
                   sendVars, stopped>>

\* case <-h.done: Run returns.
RunReturns ==
    /\ hub = "select"
    /\ stopped
    /\ hub' = "returned"
    /\ UNCHANGED <<clientVars, closed, send, clients, hubArg, hubMsg, hubTodo,
                   hubFull, broadcast, sendVars, stopped>>

------------------------------------------------------------------------------
(* Callers of the hub.                                                     *)

\* Broadcast(msg) blocks while the hub's channel, of the same capacity, is full.
CallBroadcast(m) ==
    /\ bp[m] = "idle"
    /\ Len(broadcast) < Cap
    /\ bp' = [bp EXCEPT ![m] = "done"]
    /\ broadcast' = Append(broadcast, m)
    /\ UNCHANGED <<clientVars, closed, send, clients, hub, hubArg, hubMsg, hubTodo,
                   hubFull, sp, todo, target, missed, stopped>>

\* A handler calls SendTo.
CallSendTo(s) ==
    /\ sp[s] = "idle"
    /\ sp' = [sp EXCEPT ![s] = "rlock"]
    /\ UNCHANGED <<clientVars, closed, send, hubVars, bp, todo, target, missed, stopped>>

\* RLock is granted; the loop will visit the clients of the named users.
GrantRLock(s) ==
    /\ sp[s] = "rlock"
    /\ ~WriterWaiting
    /\ sp' = [sp EXCEPT ![s] = "loop"]
    /\ todo' = [todo EXCEPT ![s] = {c \in clients : Owner[c] \in Wanted[s]}]
    /\ target' = [target EXCEPT ![s] = todo'[s]]
    /\ UNCHANGED <<clientVars, closed, send, hubVars, bp, missed, stopped>>

\* One turn of the loop: a non-blocking send, which a full channel drops.
SendOne(s, c) ==
    /\ sp[s] = "loop"
    /\ c \in todo[s]
    /\ todo' = [todo EXCEPT ![s] = @ \ {c}]
    /\ \/ /\ c \in closed
          /\ sp' = [sp EXCEPT ![s] = "panicked"]
          /\ UNCHANGED <<send, missed>>
       \/ /\ c \notin closed /\ Room(c)
          /\ send' = [send EXCEPT ![c] = Append(@, s)]
          /\ UNCHANGED <<sp, missed>>
       \/ /\ c \notin closed /\ ~Room(c)
          /\ missed' = [missed EXCEPT ![s] = @ \cup {c}]
          /\ UNCHANGED <<sp, send>>
    /\ UNCHANGED <<clientVars, closed, hubVars, bp, target, stopped>>

\* The deferred RUnlock.
EndSendTo(s) ==
    /\ sp[s] = "loop"
    /\ todo[s] = {}
    /\ sp' = [sp EXCEPT ![s] = "done"]
    /\ UNCHANGED <<clientVars, closed, send, hubVars, bp, todo, target, missed, stopped>>

\* hub.Stop() at the end of main's run.
Stop ==
    /\ ~stopped
    /\ stopped' = TRUE
    /\ UNCHANGED <<clientVars, closed, send, hubVars, sendVars>>

------------------------------------------------------------------------------
Upgrade(c)   == UpgradeAccepted(c) \/ SendReady(c)
ReadPump(c)  == ReadFails(c) \/ ReadCloses(c)
WritePump(c) == WriteMessage(c) \/ WriteClosed(c) \/ PingFails(c) \/ WriteCloses(c)
Run ==
    \/ \E c \in Clients : \/ ReceiveRegister(c) \/ ReceiveUnregister(c)
                          \/ Distribute(c) \/ Evict(c)
    \/ CallLock \/ Insert \/ Delete \/ ReceiveBroadcast \/ EndDistribute \/ RunReturns
SendTo(s) == GrantRLock(s) \/ EndSendTo(s) \/ \E c \in Clients : SendOne(s, c)

Next ==
    \/ \E c \in Clients : Upgrade(c) \/ ReadPump(c) \/ WritePump(c) \/ PeerLeaves(c)
    \/ Run
    \/ \E s \in Senders : CallSendTo(s) \/ SendTo(s)
    \/ \E m \in Broadcasts : CallBroadcast(m)
    \/ Stop

Spec == Init /\ [][Next]_vars

\* The Go scheduler runs every goroutine that can run.  Nobody owes a call, a
\* connection, a disconnection or a shutdown.
Fairness ==
    /\ WF_vars(Run)
    /\ \A c \in Clients : /\ WF_vars(SendReady(c))
                          /\ WF_vars(ReadPump(c))
                          /\ WF_vars(WritePump(c))
    /\ \A s \in Senders : WF_vars(SendTo(s))

FairSpec == Spec /\ Fairness

------------------------------------------------------------------------------
(* Properties.                                                             *)

ChannelsOK ==
    /\ send \in [Clients -> Seq(Message)]
    /\ broadcast \in Seq(Broadcasts)

ControlOK ==
    /\ up \in [Clients -> {"idle", "register", "ready", "serving", "panicked"}]
    /\ rp \in [Clients -> {"off", "loop", "unregister", "close", "done"}]
    /\ wp \in [Clients -> {"off", "loop", "close", "done"}]
    /\ conn \in [Clients -> {"none", "open", "lost", "closed"}]
    /\ closed \in SUBSET Clients
    /\ inbox \in [Clients -> SUBSET Message]
    /\ clients \in SUBSET Clients
    /\ hub \in {"select", "insert", "insertLock", "delete", "deleteLock",
                "distribute", "evict", "returned", "panicked"}
    /\ hubArg \in Clients \cup {NoClient}
    /\ hubMsg \in SUBSET Broadcasts
    /\ hubTodo \in SUBSET Clients
    /\ hubFull \in SUBSET Clients
    /\ bp \in [Broadcasts -> {"idle", "done"}]
    /\ sp \in [Senders -> {"idle", "rlock", "loop", "done", "panicked"}]
    /\ todo \in [Senders -> SUBSET Clients]
    /\ target \in [Senders -> SUBSET Clients]
    /\ missed \in [Senders -> SUBSET Clients]
    /\ stopped \in BOOLEAN

\* Every variable holds what the code's declarations allow.
TypeOK == ChannelsOK /\ ControlOK

NoClosedUse ==
    /\ hub # "panicked"
    /\ \A s \in Senders : sp[s] # "panicked"

UpgradeNeverPanics ==
    \A c \in Clients : up[c] = "panicked" => \E m \in Broadcasts : bp[m] = "done"

\* Neither Run nor a SendTo ever uses a Send channel that unregisterClient has
\* closed: no send on it (SendTo, Broadcast), no second close.  A panic of Run
\* would end it (hub.go:44-48) and block every later Register and Unregister.
\* Nor does Upgrade until somebody calls Broadcast: before that a channel is only
\* closed on behalf of a ReadPump, so socket_ready finds its channel open although
\* no lock protects it (handler.go:60).
NoPanic == NoClosedUse /\ UpgradeNeverPanics

\* A message SendTo did not drop at a full channel is on its way to, or has
\* reached, every connection it found registered, as long as that connection
\* lives: registrations and removals during the loop lose nothing
\* (hub.go:103-112).
NothingLostWithRoom ==
    \A s \in Senders, c \in Clients :
        (/\ c \in target[s] \ (todo[s] \cup missed[s])
         /\ conn[c] = "open"
         /\ wp[c] \in {"off", "loop"})
        => s \in Range(send[c]) \cup inbox[c]

\* A connection that serves is in the hub until its ReadPump has handed it to
\* Run or Run has closed its channel; before Upgrade reaches that point it may
\* still be on its way in (handler.go:57, hub.go:53-58).
ServedOrBeingInserted ==
    \A c \in Clients :
        (up[c] \in {"ready", "serving"} /\ rp[c] \in {"off", "loop", "unregister"})
        => \/ c \in clients
           \/ c \in closed
           \/ hub \in {"insert", "insertLock"} /\ hubArg = c

\* README "Socket stability": when a client disconnects, ReadPump exits, the hub
\* drops the connection and closes Send, and no goroutine stays behind, unless
\* the server is shutting down.  A channel the hub closes ends both pumps too.
DisconnectedIsReleased ==
    \A c \in Clients :
        (up[c] = "serving" /\ (conn[c] # "open" \/ c \in closed))
        ~> (\/ /\ c \notin clients /\ c \in closed
               /\ rp[c] = "done" /\ wp[c] = "done" /\ conn[c] = "closed"
            \/ hub = "returned")

\* SendTo returns however slow or dead the receiving connections are: it never
\* waits for a channel, only for Run to leave the write lock.
SendToReturns ==
    \A s \in Senders : sp[s] = "rlock" ~> sp[s] = "done"

==============================================================================
