------------------------------ MODULE HubProofs ------------------------------
(***************************************************************************)
(* Proofs about the hub, for any set of connections, senders and           *)
(* broadcasts and any capacity of the Send channels.                       *)
(***************************************************************************)
EXTENDS Hub, TLAPS, SequenceTheorems

\* A connection in the map has an open channel.
RegisteredIsOpen == \A c \in clients : c \notin closed

\* The loops of SendTo and Broadcast only visit connections that are still in
\* the map: nothing is removed under a read lock.
LoopsOverRegistered ==
    /\ \A s \in Senders : sp[s] = "loop" => todo[s] \subseteq clients
    /\ hubTodo \subseteq clients
    /\ hub # "distribute" => hubTodo = {}

\* Run receives a connection from register once, before anything else happens
\* to it.
RegisteredOnce ==
    /\ \A c \in Clients : c \in clients \/ c \in closed => up[c] \notin {"idle", "register"}
    /\ hub \in {"insert", "insertLock"} =>
        /\ hubArg \in Clients \ clients
        /\ hubArg \notin closed
        /\ up[hubArg] \notin {"idle", "register"}

\* A ReadPump only runs once its Upgrade has sent socket_ready.
PumpsAfterReady == \A c \in Clients : rp[c] # "off" => up[c] = "serving"

HubSafe ==
    NoClosedUse /\ RegisteredIsOpen /\ LoopsOverRegistered /\ RegisteredOnce /\ PumpsAfterReady

HubInv  == TypeOK /\ HubSafe

\* Sending on one channel, and receiving from it, keep every channel well-typed.
LEMMA SendChannels ==
    ASSUME NEW f \in [Clients -> Seq(Message)], NEW c \in Clients, NEW m \in Message
    PROVE  /\ [f EXCEPT ![c] = Append(@, m)] \in [Clients -> Seq(Message)]
           /\ f[c] # <<>> => /\ Head(f[c]) \in Message
                             /\ [f EXCEPT ![c] = Tail(@)] \in [Clients -> Seq(Message)]
<1>1. f[c] \in Seq(Message)
  OBVIOUS
<1>2. Append(f[c], m) \in Seq(Message)
  BY <1>1, AppendProperties
<1>3. f[c] # <<>> => Head(f[c]) \in Message /\ Tail(f[c]) \in Seq(Message)
  BY <1>1, HeadTailProperties
<1>. QED
  BY <1>2, <1>3

\* Every step keeps the channels well-typed.
LEMMA ChannelStep == ChannelsOK /\ ControlOK /\ [Next]_vars => ChannelsOK'
<1>s. SUFFICES ASSUME ChannelsOK, ControlOK PROVE [Next]_vars => ChannelsOK'
  OBVIOUS
<1>t. send \in [Clients -> Seq(Message)] /\ hubMsg \in SUBSET Broadcasts
  BY <1>s DEF ChannelsOK, ControlOK
<1>m. Ready \in Message /\ Senders \subseteq Message /\ Broadcasts \subseteq Message
  BY DEF Message
<1>1. ASSUME NEW c \in Clients, UpgradeAccepted(c)
      PROVE  ChannelsOK'
  BY <1>s, <1>1 DEF UpgradeAccepted, ChannelsOK, clientVars, hubVars, sendVars
<1>2. ASSUME NEW c \in Clients, SendReady(c)
      PROVE  ChannelsOK'
  <2>1. send' = send \/ send' = [send EXCEPT ![c] = Append(@, Ready)]
    BY <1>2 DEF SendReady
  <2>a. [send EXCEPT ![c] = Append(@, Ready)] \in [Clients -> Seq(Message)]
    BY <1>t, <1>m, SendChannels
  <2>2. send' \in [Clients -> Seq(Message)]
    BY <1>t, <2>1, <2>a
  <2>. QED
    BY <1>s, <1>2, <2>2 DEF SendReady, ChannelsOK, clientVars, hubVars, sendVars
<1>3. ASSUME NEW c \in Clients, ReadFails(c)
      PROVE  ChannelsOK'
  BY <1>s, <1>3 DEF ReadFails, ChannelsOK, clientVars, hubVars, sendVars
<1>4. ASSUME NEW c \in Clients, ReadCloses(c)
      PROVE  ChannelsOK'
  BY <1>s, <1>4 DEF ReadCloses, ChannelsOK, clientVars, hubVars, sendVars
<1>5. ASSUME NEW c \in Clients, WriteMessage(c)
      PROVE  ChannelsOK'
  <2>1. send[c] # <<>> /\ send' = [send EXCEPT ![c] = Tail(@)]
    BY <1>5 DEF WriteMessage
  <2>a. [send EXCEPT ![c] = Tail(@)] \in [Clients -> Seq(Message)]
    BY <1>t, <1>m, <2>1, SendChannels
  <2>2. send' \in [Clients -> Seq(Message)]
    BY <2>1, <2>a
  <2>. QED
    BY <1>s, <1>5, <2>2 DEF WriteMessage, ChannelsOK, hubVars
<1>6. ASSUME NEW c \in Clients, WriteClosed(c)
      PROVE  ChannelsOK'
  BY <1>s, <1>6 DEF WriteClosed, ChannelsOK, clientVars, hubVars, sendVars
<1>7. ASSUME NEW c \in Clients, PingFails(c)
      PROVE  ChannelsOK'
  BY <1>s, <1>7 DEF PingFails, ChannelsOK, clientVars, hubVars, sendVars
<1>8. ASSUME NEW c \in Clients, WriteCloses(c)
      PROVE  ChannelsOK'
  BY <1>s, <1>8 DEF WriteCloses, ChannelsOK, clientVars, hubVars, sendVars
<1>9. ASSUME NEW c \in Clients, PeerLeaves(c)
      PROVE  ChannelsOK'
  BY <1>s, <1>9 DEF PeerLeaves, ChannelsOK, clientVars, hubVars, sendVars
<1>10. ASSUME NEW c \in Clients, ReceiveRegister(c)
      PROVE  ChannelsOK'
  BY <1>s, <1>10 DEF ReceiveRegister, ChannelsOK, clientVars, hubVars, sendVars
<1>11. ASSUME NEW c \in Clients, ReceiveUnregister(c)
      PROVE  ChannelsOK'
  BY <1>s, <1>11 DEF ReceiveUnregister, ChannelsOK, clientVars, hubVars, sendVars
<1>12. ASSUME NEW c \in Clients, Distribute(c)
      PROVE  ChannelsOK'
  <2>1. PICK m \in hubMsg : send' = send \/ send' = [send EXCEPT ![c] = Append(@, m)]
    BY <1>12 DEF Distribute
  <2>a. m \in Message
    BY <1>t, <1>m
  <2>b. [send EXCEPT ![c] = Append(@, m)] \in [Clients -> Seq(Message)]
    BY <1>t, <2>a, SendChannels
  <2>2. send' \in [Clients -> Seq(Message)]
    BY <1>t, <2>1, <2>b
  <2>. QED
    BY <1>s, <1>12, <2>2 DEF Distribute, ChannelsOK, clientVars, hubVars, sendVars
<1>13. ASSUME NEW c \in Clients, Evict(c)
      PROVE  ChannelsOK'
  BY <1>s, <1>13 DEF Evict, ChannelsOK, clientVars, hubVars, sendVars
<1>14. CASE CallLock
  BY <1>s, <1>14 DEF CallLock, ChannelsOK, clientVars, hubVars, sendVars
<1>15. CASE Insert
  BY <1>s, <1>15 DEF Insert, ChannelsOK, clientVars, hubVars, sendVars
<1>16. CASE Delete
  BY <1>s, <1>16 DEF Delete, ChannelsOK, clientVars, hubVars, sendVars
<1>17. CASE ReceiveBroadcast
  BY <1>s, <1>17, HeadTailProperties DEF ReceiveBroadcast, ChannelsOK, clientVars, sendVars
<1>18. CASE EndDistribute
  BY <1>s, <1>18 DEF EndDistribute, ChannelsOK, clientVars, hubVars, sendVars
<1>19. CASE RunReturns
  BY <1>s, <1>19 DEF RunReturns, ChannelsOK, clientVars, hubVars, sendVars
<1>20. ASSUME NEW s \in Senders, CallSendTo(s)
      PROVE  ChannelsOK'
  BY <1>s, <1>20 DEF CallSendTo, ChannelsOK, clientVars, hubVars, sendVars
<1>21. ASSUME NEW s \in Senders, GrantRLock(s)
      PROVE  ChannelsOK'
  BY <1>s, <1>21 DEF GrantRLock, ChannelsOK, clientVars, hubVars, sendVars
<1>22. ASSUME NEW s \in Senders, EndSendTo(s)
      PROVE  ChannelsOK'
  BY <1>s, <1>22 DEF EndSendTo, ChannelsOK, clientVars, hubVars, sendVars
<1>23. ASSUME NEW s \in Senders, NEW c \in Clients, SendOne(s, c)
      PROVE  ChannelsOK'
  <2>1. send' = send \/ send' = [send EXCEPT ![c] = Append(@, s)]
    BY <1>23 DEF SendOne
  <2>2. send' \in [Clients -> Seq(Message)]
    BY <1>t, <1>m, s \in Message, <2>1, SendChannels
  <2>3. broadcast' = broadcast
    BY <1>23 DEF SendOne, hubVars
  <2>. QED
    BY <1>s, <2>2, <2>3 DEF ChannelsOK
<1>24. ASSUME NEW m \in Broadcasts, CallBroadcast(m)
      PROVE  ChannelsOK'
  BY <1>s, <1>24, AppendProperties DEF CallBroadcast, ChannelsOK, clientVars, sendVars
<1>25. CASE Stop
  BY <1>s, <1>25 DEF Stop, ChannelsOK, clientVars, hubVars, sendVars
<1>26. CASE UNCHANGED vars
  BY <1>s, <1>26 DEF vars, clientVars, hubVars, sendVars, ChannelsOK
<1>. QED
  BY <1>1, <1>2, <1>3, <1>4, <1>5, <1>6, <1>7, <1>8, <1>9, <1>10, <1>11, <1>12, <1>13,
     <1>14, <1>15, <1>16, <1>17, <1>18, <1>19, <1>20, <1>21, <1>22, <1>23, <1>24, <1>25,
     <1>26 DEF Next, Upgrade, ReadPump, WritePump, Run, SendTo

\* Every step keeps the rest well-typed; that Run inserts a client and never
\* NoClient needs RegisteredOnce.
LEMMA ControlStep == ChannelsOK /\ ControlOK /\ RegisteredOnce /\ [Next]_vars => ControlOK'
<1>s. SUFFICES ASSUME ChannelsOK, ControlOK, RegisteredOnce PROVE [Next]_vars => ControlOK'
  OBVIOUS
<1>c. ControlOK
  BY <1>s
<1>1. ASSUME NEW c \in Clients, UpgradeAccepted(c)
      PROVE  ControlOK'
  BY <1>c, <1>1 DEF UpgradeAccepted, ControlOK, clientVars, hubVars, sendVars
<1>2. ASSUME NEW c \in Clients, SendReady(c)
      PROVE  ControlOK'
  BY <1>c, <1>2 DEF SendReady, ControlOK, clientVars, hubVars, sendVars
<1>3. ASSUME NEW c \in Clients, ReadFails(c)
      PROVE  ControlOK'
  BY <1>c, <1>3 DEF ReadFails, ControlOK, clientVars, hubVars, sendVars
<1>4. ASSUME NEW c \in Clients, ReadCloses(c)
      PROVE  ControlOK'
  BY <1>c, <1>4 DEF ReadCloses, ControlOK, clientVars, hubVars, sendVars
<1>5. ASSUME NEW c \in Clients, WriteMessage(c)
      PROVE  ControlOK'
  <2>1. Head(send[c]) \in Message
    BY <1>s, <1>5, Ready \in Message, SendChannels DEF WriteMessage, ChannelsOK, Message
  <2>. QED
    BY <1>c, <1>5, <2>1 DEF WriteMessage, ControlOK, hubVars, sendVars
<1>6. ASSUME NEW c \in Clients, WriteClosed(c)
      PROVE  ControlOK'
  BY <1>c, <1>6 DEF WriteClosed, ControlOK, clientVars, hubVars, sendVars
<1>7. ASSUME NEW c \in Clients, PingFails(c)
      PROVE  ControlOK'
  BY <1>c, <1>7 DEF PingFails, ControlOK, clientVars, hubVars, sendVars
<1>8. ASSUME NEW c \in Clients, WriteCloses(c)
      PROVE  ControlOK'
  BY <1>c, <1>8 DEF WriteCloses, ControlOK, clientVars, hubVars, sendVars
<1>9. ASSUME NEW c \in Clients, PeerLeaves(c)
      PROVE  ControlOK'
  BY <1>c, <1>9 DEF PeerLeaves, ControlOK, clientVars, hubVars, sendVars
<1>10. ASSUME NEW c \in Clients, ReceiveRegister(c)
      PROVE  ControlOK'
  BY <1>c, <1>10 DEF ReceiveRegister, ControlOK, clientVars, hubVars, sendVars
<1>11. ASSUME NEW c \in Clients, ReceiveUnregister(c)
      PROVE  ControlOK'
  BY <1>c, <1>11 DEF ReceiveUnregister, ControlOK, clientVars, hubVars, sendVars
<1>12. ASSUME NEW c \in Clients, Distribute(c)
      PROVE  ControlOK'
  BY <1>c, <1>12 DEF Distribute, ControlOK, clientVars, hubVars, sendVars
<1>13. ASSUME NEW c \in Clients, Evict(c)
      PROVE  ControlOK'
  BY <1>c, <1>13 DEF Evict, ControlOK, clientVars, hubVars, sendVars
<1>14. CASE CallLock
  BY <1>c, <1>14 DEF CallLock, ControlOK, clientVars, hubVars, sendVars
<1>15. CASE Insert
  BY <1>s, <1>15 DEF Insert, ControlOK, RegisteredOnce, clientVars, sendVars
<1>16. CASE Delete
  <2>1. /\ clients' \in SUBSET Clients
        /\ closed' \in SUBSET Clients
    BY <1>c, <1>16 DEF Delete, ControlOK
  <2>2. /\ hub' \in {"select", "evict", "panicked"}
        /\ hubArg' = NoClient
    BY <1>16 DEF Delete
  <2>3. UNCHANGED <<clientVars, send, hubMsg, hubTodo, hubFull, broadcast, sendVars, stopped>>
    BY <1>16 DEF Delete
  <2>. QED
    BY <1>c, <2>1, <2>2, <2>3 DEF ControlOK, clientVars, sendVars
<1>17. CASE ReceiveBroadcast
  <2>1. Head(broadcast) \in Broadcasts
    BY <1>s, <1>17, HeadTailProperties DEF ReceiveBroadcast, ChannelsOK
  <2>. QED
    BY <1>c, <1>17, <2>1 DEF ReceiveBroadcast, ControlOK, clientVars, sendVars
<1>18. CASE EndDistribute
  BY <1>c, <1>18 DEF EndDistribute, ControlOK, clientVars, hubVars, sendVars
<1>19. CASE RunReturns
  BY <1>c, <1>19 DEF RunReturns, ControlOK, clientVars, hubVars, sendVars
<1>20. ASSUME NEW s \in Senders, CallSendTo(s)
      PROVE  ControlOK'
  BY <1>c, <1>20 DEF CallSendTo, ControlOK, clientVars, hubVars, sendVars
<1>21. ASSUME NEW s \in Senders, GrantRLock(s)
      PROVE  ControlOK'
  BY <1>c, <1>21 DEF GrantRLock, ControlOK, clientVars, hubVars, sendVars
<1>22. ASSUME NEW s \in Senders, EndSendTo(s)
      PROVE  ControlOK'
  BY <1>c, <1>22 DEF EndSendTo, ControlOK, clientVars, hubVars, sendVars
<1>23. ASSUME NEW s \in Senders, NEW c \in Clients, SendOne(s, c)
      PROVE  ControlOK'
  BY <1>c, <1>23 DEF SendOne, ControlOK, clientVars, hubVars, sendVars
<1>24. ASSUME NEW m \in Broadcasts, CallBroadcast(m)
      PROVE  ControlOK'
  BY <1>c, <1>24 DEF CallBroadcast, ControlOK, clientVars, hubVars, sendVars
<1>25. CASE Stop
  BY <1>c, <1>25 DEF Stop, ControlOK, clientVars, hubVars, sendVars
<1>26. CASE UNCHANGED vars
  BY <1>c, <1>26 DEF vars, clientVars, hubVars, sendVars, ControlOK
<1>. QED
  BY <1>1, <1>2, <1>3, <1>4, <1>5, <1>6, <1>7, <1>8, <1>9, <1>10, <1>11, <1>12, <1>13,
     <1>14, <1>15, <1>16, <1>17, <1>18, <1>19, <1>20, <1>21, <1>22, <1>23, <1>24, <1>25,
     <1>26 DEF Next, Upgrade, ReadPump, WritePump, Run, SendTo

\* Every step keeps the safety conjuncts.  The two steps that could break them
\* are Delete, which Readers = {} keeps away from the loops of SendTo, and
\* Insert, which RegisteredOnce keeps away from closed channels.
LEMMA SafeStep == ControlOK /\ HubSafe /\ [Next]_vars => HubSafe'
<1>s. SUFFICES ASSUME ControlOK, HubSafe PROVE [Next]_vars => HubSafe'
  OBVIOUS
<1>1. ASSUME NEW c \in Clients, UpgradeAccepted(c)
      PROVE  HubSafe'
  BY <1>s, <1>1 DEF UpgradeAccepted, ControlOK, HubSafe, NoClosedUse, RegisteredIsOpen, LoopsOverRegistered,
        RegisteredOnce, PumpsAfterReady, Readers, clientVars, hubVars, sendVars
<1>2. ASSUME NEW c \in Clients, SendReady(c)
      PROVE  HubSafe'
  BY <1>s, <1>2 DEF SendReady, ControlOK, HubSafe, NoClosedUse, RegisteredIsOpen, LoopsOverRegistered,
        RegisteredOnce, PumpsAfterReady, Readers, clientVars, hubVars, sendVars
<1>3. ASSUME NEW c \in Clients, ReadFails(c)
      PROVE  HubSafe'
  BY <1>s, <1>3 DEF ReadFails, ControlOK, HubSafe, NoClosedUse, RegisteredIsOpen, LoopsOverRegistered,
        RegisteredOnce, PumpsAfterReady, Readers, clientVars, hubVars, sendVars
<1>4. ASSUME NEW c \in Clients, ReadCloses(c)
      PROVE  HubSafe'
  BY <1>s, <1>4 DEF ReadCloses, ControlOK, HubSafe, NoClosedUse, RegisteredIsOpen, LoopsOverRegistered,
        RegisteredOnce, PumpsAfterReady, Readers, clientVars, hubVars, sendVars
<1>5. ASSUME NEW c \in Clients, WriteMessage(c)
      PROVE  HubSafe'
  BY <1>s, <1>5 DEF WriteMessage, ControlOK, HubSafe, NoClosedUse, RegisteredIsOpen, LoopsOverRegistered,
        RegisteredOnce, PumpsAfterReady, Readers, clientVars, hubVars, sendVars
<1>6. ASSUME NEW c \in Clients, WriteClosed(c)
      PROVE  HubSafe'
  BY <1>s, <1>6 DEF WriteClosed, ControlOK, HubSafe, NoClosedUse, RegisteredIsOpen, LoopsOverRegistered,
        RegisteredOnce, PumpsAfterReady, Readers, clientVars, hubVars, sendVars
<1>7. ASSUME NEW c \in Clients, PingFails(c)
      PROVE  HubSafe'
  BY <1>s, <1>7 DEF PingFails, ControlOK, HubSafe, NoClosedUse, RegisteredIsOpen, LoopsOverRegistered,
        RegisteredOnce, PumpsAfterReady, Readers, clientVars, hubVars, sendVars
<1>8. ASSUME NEW c \in Clients, WriteCloses(c)
      PROVE  HubSafe'
  BY <1>s, <1>8 DEF WriteCloses, ControlOK, HubSafe, NoClosedUse, RegisteredIsOpen, LoopsOverRegistered,
        RegisteredOnce, PumpsAfterReady, Readers, clientVars, hubVars, sendVars
<1>9. ASSUME NEW c \in Clients, PeerLeaves(c)
      PROVE  HubSafe'
  BY <1>s, <1>9 DEF PeerLeaves, ControlOK, HubSafe, NoClosedUse, RegisteredIsOpen, LoopsOverRegistered,
        RegisteredOnce, PumpsAfterReady, Readers, clientVars, hubVars, sendVars
<1>10. ASSUME NEW c \in Clients, ReceiveRegister(c)
      PROVE  HubSafe'
  BY <1>s, <1>10 DEF ReceiveRegister, ControlOK, HubSafe, NoClosedUse, RegisteredIsOpen, LoopsOverRegistered,
        RegisteredOnce, PumpsAfterReady, Readers, clientVars, hubVars, sendVars
<1>11. ASSUME NEW c \in Clients, ReceiveUnregister(c)
      PROVE  HubSafe'
  BY <1>s, <1>11 DEF ReceiveUnregister, ControlOK, HubSafe, NoClosedUse, RegisteredIsOpen, LoopsOverRegistered,
        RegisteredOnce, PumpsAfterReady, Readers, clientVars, hubVars, sendVars
<1>12. ASSUME NEW c \in Clients, Distribute(c)
      PROVE  HubSafe'
  BY <1>s, <1>12 DEF Distribute, ControlOK, HubSafe, NoClosedUse, RegisteredIsOpen, LoopsOverRegistered,
        RegisteredOnce, PumpsAfterReady, Readers, clientVars, hubVars, sendVars
<1>13. ASSUME NEW c \in Clients, Evict(c)
      PROVE  HubSafe'
  BY <1>s, <1>13 DEF Evict, ControlOK, HubSafe, NoClosedUse, RegisteredIsOpen, LoopsOverRegistered,
        RegisteredOnce, PumpsAfterReady, Readers, clientVars, hubVars, sendVars
<1>14. CASE CallLock
  BY <1>s, <1>14 DEF CallLock, ControlOK, HubSafe, NoClosedUse, RegisteredIsOpen, LoopsOverRegistered,
        RegisteredOnce, PumpsAfterReady, Readers, clientVars, hubVars, sendVars
<1>15. CASE Insert
  BY <1>s, <1>15 DEF Insert, ControlOK, HubSafe, NoClosedUse, RegisteredIsOpen, LoopsOverRegistered,
        RegisteredOnce, PumpsAfterReady, Readers, clientVars, hubVars, sendVars
<1>16. CASE Delete
  BY <1>s, <1>16 DEF Delete, ControlOK, HubSafe, NoClosedUse, RegisteredIsOpen, LoopsOverRegistered,
        RegisteredOnce, PumpsAfterReady, Readers, clientVars, hubVars, sendVars
<1>17. CASE ReceiveBroadcast
  BY <1>s, <1>17 DEF ReceiveBroadcast, ControlOK, HubSafe, NoClosedUse, RegisteredIsOpen, LoopsOverRegistered,
        RegisteredOnce, PumpsAfterReady, Readers, clientVars, hubVars, sendVars
<1>18. CASE EndDistribute
  BY <1>s, <1>18 DEF EndDistribute, ControlOK, HubSafe, NoClosedUse, RegisteredIsOpen, LoopsOverRegistered,
        RegisteredOnce, PumpsAfterReady, Readers, clientVars, hubVars, sendVars
<1>19. CASE RunReturns
  BY <1>s, <1>19 DEF RunReturns, ControlOK, HubSafe, NoClosedUse, RegisteredIsOpen, LoopsOverRegistered,
        RegisteredOnce, PumpsAfterReady, Readers, clientVars, hubVars, sendVars
<1>20. ASSUME NEW s \in Senders, CallSendTo(s)
      PROVE  HubSafe'
  BY <1>s, <1>20 DEF CallSendTo, ControlOK, HubSafe, NoClosedUse, RegisteredIsOpen, LoopsOverRegistered,
        RegisteredOnce, PumpsAfterReady, Readers, clientVars, hubVars, sendVars
<1>21. ASSUME NEW s \in Senders, GrantRLock(s)
      PROVE  HubSafe'
  BY <1>s, <1>21 DEF GrantRLock, ControlOK, HubSafe, NoClosedUse, RegisteredIsOpen, LoopsOverRegistered,
        RegisteredOnce, PumpsAfterReady, Readers, clientVars, hubVars, sendVars
<1>22. ASSUME NEW s \in Senders, EndSendTo(s)
      PROVE  HubSafe'
  BY <1>s, <1>22 DEF EndSendTo, ControlOK, HubSafe, NoClosedUse, RegisteredIsOpen, LoopsOverRegistered,
        RegisteredOnce, PumpsAfterReady, Readers, clientVars, hubVars, sendVars
<1>23. ASSUME NEW s \in Senders, NEW c \in Clients, SendOne(s, c)
      PROVE  HubSafe'
  BY <1>s, <1>23 DEF SendOne, ControlOK, HubSafe, NoClosedUse, RegisteredIsOpen, LoopsOverRegistered,
        RegisteredOnce, PumpsAfterReady, Readers, clientVars, hubVars, sendVars
<1>24. ASSUME NEW m \in Broadcasts, CallBroadcast(m)
      PROVE  HubSafe'
  BY <1>s, <1>24 DEF CallBroadcast, ControlOK, HubSafe, NoClosedUse, RegisteredIsOpen, LoopsOverRegistered,
        RegisteredOnce, PumpsAfterReady, Readers, clientVars, hubVars, sendVars
<1>25. CASE Stop
  BY <1>s, <1>25 DEF Stop, ControlOK, HubSafe, NoClosedUse, RegisteredIsOpen, LoopsOverRegistered,
        RegisteredOnce, PumpsAfterReady, Readers, clientVars, hubVars, sendVars
<1>26. CASE UNCHANGED vars
  BY <1>s, <1>26 DEF vars, clientVars, hubVars, sendVars, ControlOK, HubSafe,
        NoClosedUse, RegisteredIsOpen, LoopsOverRegistered, RegisteredOnce, PumpsAfterReady, Readers
<1>. QED
  BY <1>1, <1>2, <1>3, <1>4, <1>5, <1>6, <1>7, <1>8, <1>9, <1>10, <1>11, <1>12, <1>13,
     <1>14, <1>15, <1>16, <1>17, <1>18, <1>19, <1>20, <1>21, <1>22, <1>23, <1>24, <1>25,
     <1>26 DEF Next, Upgrade, ReadPump, WritePump, Run, SendTo

------------------------------------------------------------------------------
\* Without callers of Broadcast, only a ReadPump makes Run close a channel, and
\* ReadPumps start after socket_ready has been sent.
ClosedByReadPump ==
    (\A m \in Broadcasts : bp[m] = "idle") =>
        /\ \A c \in Clients : c \in closed => rp[c] # "off"
        /\ \A c \in Clients : up[c] # "panicked"
        /\ hub \in {"delete", "deleteLock"} => hubArg \in Clients /\ rp[hubArg] # "off"
        /\ hub \notin {"distribute", "evict"}
        /\ hubFull = {}
        /\ broadcast = <<>>

LEMMA ClosedByReadPumpStep ==
    ControlOK /\ HubSafe /\ ClosedByReadPump /\ [Next]_vars => ClosedByReadPump'
<1>s. SUFFICES ASSUME ControlOK, HubSafe, ClosedByReadPump
               PROVE  [Next]_vars => ClosedByReadPump'
  OBVIOUS
<1>1. ASSUME NEW c \in Clients, UpgradeAccepted(c)
      PROVE  ClosedByReadPump'
  BY <1>s, <1>1 DEF UpgradeAccepted, ControlOK, HubSafe, PumpsAfterReady,
        ClosedByReadPump, clientVars, hubVars, sendVars
<1>2. ASSUME NEW c \in Clients, SendReady(c)
      PROVE  ClosedByReadPump'
  BY <1>s, <1>2 DEF SendReady, ControlOK, HubSafe, PumpsAfterReady,
        ClosedByReadPump, clientVars, hubVars, sendVars
<1>3. ASSUME NEW c \in Clients, ReadFails(c)
      PROVE  ClosedByReadPump'
  BY <1>s, <1>3 DEF ReadFails, ControlOK, HubSafe, PumpsAfterReady,
        ClosedByReadPump, clientVars, hubVars, sendVars
<1>4. ASSUME NEW c \in Clients, ReadCloses(c)
      PROVE  ClosedByReadPump'
  BY <1>s, <1>4 DEF ReadCloses, ControlOK, HubSafe, PumpsAfterReady,
        ClosedByReadPump, clientVars, hubVars, sendVars
<1>5. ASSUME NEW c \in Clients, WriteMessage(c)
      PROVE  ClosedByReadPump'
  BY <1>s, <1>5 DEF WriteMessage, ControlOK, HubSafe, PumpsAfterReady,
        ClosedByReadPump, clientVars, hubVars, sendVars
<1>6. ASSUME NEW c \in Clients, WriteClosed(c)
      PROVE  ClosedByReadPump'
  BY <1>s, <1>6 DEF WriteClosed, ControlOK, HubSafe, PumpsAfterReady,
        ClosedByReadPump, clientVars, hubVars, sendVars
<1>7. ASSUME NEW c \in Clients, PingFails(c)
      PROVE  ClosedByReadPump'
  BY <1>s, <1>7 DEF PingFails, ControlOK, HubSafe, PumpsAfterReady,
        ClosedByReadPump, clientVars, hubVars, sendVars
<1>8. ASSUME NEW c \in Clients, WriteCloses(c)
      PROVE  ClosedByReadPump'
  BY <1>s, <1>8 DEF WriteCloses, ControlOK, HubSafe, PumpsAfterReady,
        ClosedByReadPump, clientVars, hubVars, sendVars
<1>9. ASSUME NEW c \in Clients, PeerLeaves(c)
      PROVE  ClosedByReadPump'
  BY <1>s, <1>9 DEF PeerLeaves, ControlOK, HubSafe, PumpsAfterReady,
        ClosedByReadPump, clientVars, hubVars, sendVars
<1>10. ASSUME NEW c \in Clients, ReceiveRegister(c)
      PROVE  ClosedByReadPump'
  BY <1>s, <1>10 DEF ReceiveRegister, ControlOK, HubSafe, PumpsAfterReady,
        ClosedByReadPump, clientVars, hubVars, sendVars
<1>11. ASSUME NEW c \in Clients, ReceiveUnregister(c)
      PROVE  ClosedByReadPump'
  BY <1>s, <1>11 DEF ReceiveUnregister, ControlOK, HubSafe, PumpsAfterReady,
        ClosedByReadPump, clientVars, hubVars, sendVars
<1>12. ASSUME NEW c \in Clients, Distribute(c)
      PROVE  ClosedByReadPump'
  BY <1>s, <1>12 DEF Distribute, ControlOK, HubSafe, PumpsAfterReady,
        ClosedByReadPump, clientVars, hubVars, sendVars
<1>13. ASSUME NEW c \in Clients, Evict(c)
      PROVE  ClosedByReadPump'
  BY <1>s, <1>13 DEF Evict, ControlOK, HubSafe, PumpsAfterReady,
        ClosedByReadPump, clientVars, hubVars, sendVars
<1>14. CASE CallLock
  BY <1>s, <1>14 DEF CallLock, ControlOK, HubSafe, PumpsAfterReady,
        ClosedByReadPump, clientVars, hubVars, sendVars
<1>15. CASE Insert
  BY <1>s, <1>15 DEF Insert, ControlOK, HubSafe, PumpsAfterReady,
        ClosedByReadPump, clientVars, hubVars, sendVars
<1>16. CASE Delete
  BY <1>s, <1>16 DEF Delete, ControlOK, HubSafe, PumpsAfterReady,
        ClosedByReadPump, clientVars, hubVars, sendVars
<1>17. CASE ReceiveBroadcast
  BY <1>s, <1>17 DEF ReceiveBroadcast, ControlOK, HubSafe, PumpsAfterReady,
        ClosedByReadPump, clientVars, hubVars, sendVars
<1>18. CASE EndDistribute
  BY <1>s, <1>18 DEF EndDistribute, ControlOK, HubSafe, PumpsAfterReady,
        ClosedByReadPump, clientVars, hubVars, sendVars
<1>19. CASE RunReturns
  BY <1>s, <1>19 DEF RunReturns, ControlOK, HubSafe, PumpsAfterReady,
        ClosedByReadPump, clientVars, hubVars, sendVars
<1>20. ASSUME NEW s \in Senders, CallSendTo(s)
      PROVE  ClosedByReadPump'
  BY <1>s, <1>20 DEF CallSendTo, ControlOK, HubSafe, PumpsAfterReady,
        ClosedByReadPump, clientVars, hubVars, sendVars
<1>21. ASSUME NEW s \in Senders, GrantRLock(s)
      PROVE  ClosedByReadPump'
  BY <1>s, <1>21 DEF GrantRLock, ControlOK, HubSafe, PumpsAfterReady,
        ClosedByReadPump, clientVars, hubVars, sendVars
<1>22. ASSUME NEW s \in Senders, EndSendTo(s)
      PROVE  ClosedByReadPump'
  BY <1>s, <1>22 DEF EndSendTo, ControlOK, HubSafe, PumpsAfterReady,
        ClosedByReadPump, clientVars, hubVars, sendVars
<1>23. ASSUME NEW s \in Senders, NEW c \in Clients, SendOne(s, c)
      PROVE  ClosedByReadPump'
  BY <1>s, <1>23 DEF SendOne, ControlOK, HubSafe, PumpsAfterReady,
        ClosedByReadPump, clientVars, hubVars, sendVars
<1>24. ASSUME NEW m \in Broadcasts, CallBroadcast(m)
      PROVE  ClosedByReadPump'
  BY <1>s, <1>24 DEF CallBroadcast, ControlOK, HubSafe, PumpsAfterReady,
        ClosedByReadPump, clientVars, hubVars, sendVars
<1>25. CASE Stop
  BY <1>s, <1>25 DEF Stop, ControlOK, HubSafe, PumpsAfterReady,
        ClosedByReadPump, clientVars, hubVars, sendVars
<1>26. CASE UNCHANGED vars
  BY <1>s, <1>26 DEF vars, clientVars, hubVars, sendVars, ControlOK, ClosedByReadPump
<1>. QED
  BY <1>1, <1>2, <1>3, <1>4, <1>5, <1>6, <1>7, <1>8, <1>9, <1>10, <1>11, <1>12, <1>13,
     <1>14, <1>15, <1>16, <1>17, <1>18, <1>19, <1>20, <1>21, <1>22, <1>23, <1>24, <1>25,
     <1>26 DEF Next, Upgrade, ReadPump, WritePump, Run, SendTo

LEMMA ServedStep ==
    ControlOK /\ HubSafe /\ ServedOrBeingInserted /\ [Next]_vars => ServedOrBeingInserted'
<1>s. SUFFICES ASSUME ControlOK, HubSafe, ServedOrBeingInserted
               PROVE  [Next]_vars => ServedOrBeingInserted'
  OBVIOUS
<1>1. ASSUME NEW c \in Clients, UpgradeAccepted(c)
      PROVE  ServedOrBeingInserted'
  BY <1>s, <1>1 DEF UpgradeAccepted, ControlOK, HubSafe, RegisteredOnce, PumpsAfterReady,
        ServedOrBeingInserted, clientVars, hubVars, sendVars
<1>2. ASSUME NEW c \in Clients, SendReady(c)
      PROVE  ServedOrBeingInserted'
  <2>1. UNCHANGED <<closed, clients, hub, hubArg>>
    BY <1>2 DEF SendReady, hubVars
  <2>2. \A d \in Clients : d # c => up'[d] = up[d] /\ rp'[d] = rp[d]
    BY <1>s, <1>2 DEF SendReady, ControlOK
  <2>3. up[c] = "ready" /\ rp[c] = "off"
    BY <1>s, <1>2 DEF SendReady, HubSafe, PumpsAfterReady
  <2>. QED
    BY <1>s, <2>1, <2>2, <2>3 DEF ServedOrBeingInserted
<1>3. ASSUME NEW c \in Clients, ReadFails(c)
      PROVE  ServedOrBeingInserted'
  BY <1>s, <1>3 DEF ReadFails, ControlOK, HubSafe, RegisteredOnce, PumpsAfterReady,
        ServedOrBeingInserted, clientVars, hubVars, sendVars
<1>4. ASSUME NEW c \in Clients, ReadCloses(c)
      PROVE  ServedOrBeingInserted'
  BY <1>s, <1>4 DEF ReadCloses, ControlOK, HubSafe, RegisteredOnce, PumpsAfterReady,
        ServedOrBeingInserted, clientVars, hubVars, sendVars
<1>5. ASSUME NEW c \in Clients, WriteMessage(c)
      PROVE  ServedOrBeingInserted'
  BY <1>s, <1>5 DEF WriteMessage, ControlOK, HubSafe, RegisteredOnce, PumpsAfterReady,
        ServedOrBeingInserted, clientVars, hubVars, sendVars
<1>6. ASSUME NEW c \in Clients, WriteClosed(c)
      PROVE  ServedOrBeingInserted'
  BY <1>s, <1>6 DEF WriteClosed, ControlOK, HubSafe, RegisteredOnce, PumpsAfterReady,
        ServedOrBeingInserted, clientVars, hubVars, sendVars
<1>7. ASSUME NEW c \in Clients, PingFails(c)
      PROVE  ServedOrBeingInserted'
  BY <1>s, <1>7 DEF PingFails, ControlOK, HubSafe, RegisteredOnce, PumpsAfterReady,
        ServedOrBeingInserted, clientVars, hubVars, sendVars
<1>8. ASSUME NEW c \in Clients, WriteCloses(c)
      PROVE  ServedOrBeingInserted'
  BY <1>s, <1>8 DEF WriteCloses, ControlOK, HubSafe, RegisteredOnce, PumpsAfterReady,
        ServedOrBeingInserted, clientVars, hubVars, sendVars
<1>9. ASSUME NEW c \in Clients, PeerLeaves(c)
      PROVE  ServedOrBeingInserted'
  BY <1>s, <1>9 DEF PeerLeaves, ControlOK, HubSafe, RegisteredOnce, PumpsAfterReady,
        ServedOrBeingInserted, clientVars, hubVars, sendVars
<1>10. ASSUME NEW c \in Clients, ReceiveRegister(c)
      PROVE  ServedOrBeingInserted'
  BY <1>s, <1>10 DEF ReceiveRegister, ControlOK, HubSafe, RegisteredOnce, PumpsAfterReady,
        ServedOrBeingInserted, clientVars, hubVars, sendVars
<1>11. ASSUME NEW c \in Clients, ReceiveUnregister(c)
      PROVE  ServedOrBeingInserted'
  BY <1>s, <1>11 DEF ReceiveUnregister, ControlOK, HubSafe, RegisteredOnce, PumpsAfterReady,
        ServedOrBeingInserted, clientVars, hubVars, sendVars
<1>12. ASSUME NEW c \in Clients, Distribute(c)
      PROVE  ServedOrBeingInserted'
  BY <1>s, <1>12 DEF Distribute, ControlOK, HubSafe, RegisteredOnce, PumpsAfterReady,
        ServedOrBeingInserted, clientVars, hubVars, sendVars
<1>13. ASSUME NEW c \in Clients, Evict(c)
      PROVE  ServedOrBeingInserted'
  BY <1>s, <1>13 DEF Evict, ControlOK, HubSafe, RegisteredOnce, PumpsAfterReady,
        ServedOrBeingInserted, clientVars, hubVars, sendVars
<1>14. CASE CallLock
  BY <1>s, <1>14 DEF CallLock, ControlOK, HubSafe, RegisteredOnce, PumpsAfterReady,
        ServedOrBeingInserted, clientVars, hubVars, sendVars
<1>15. CASE Insert
  BY <1>s, <1>15 DEF Insert, ControlOK, HubSafe, RegisteredOnce, PumpsAfterReady,
        ServedOrBeingInserted, clientVars, hubVars, sendVars
<1>16. CASE Delete
  BY <1>s, <1>16 DEF Delete, ControlOK, HubSafe, RegisteredOnce, PumpsAfterReady,
        ServedOrBeingInserted, clientVars, hubVars, sendVars
<1>17. CASE ReceiveBroadcast
  BY <1>s, <1>17 DEF ReceiveBroadcast, ControlOK, HubSafe, RegisteredOnce, PumpsAfterReady,
        ServedOrBeingInserted, clientVars, hubVars, sendVars
<1>18. CASE EndDistribute
  BY <1>s, <1>18 DEF EndDistribute, ControlOK, HubSafe, RegisteredOnce, PumpsAfterReady,
        ServedOrBeingInserted, clientVars, hubVars, sendVars
<1>19. CASE RunReturns
  BY <1>s, <1>19 DEF RunReturns, ControlOK, HubSafe, RegisteredOnce, PumpsAfterReady,
        ServedOrBeingInserted, clientVars, hubVars, sendVars
<1>20. ASSUME NEW s \in Senders, CallSendTo(s)
      PROVE  ServedOrBeingInserted'
  BY <1>s, <1>20 DEF CallSendTo, ControlOK, HubSafe, RegisteredOnce, PumpsAfterReady,
        ServedOrBeingInserted, clientVars, hubVars, sendVars
<1>21. ASSUME NEW s \in Senders, GrantRLock(s)
      PROVE  ServedOrBeingInserted'
  BY <1>s, <1>21 DEF GrantRLock, ControlOK, HubSafe, RegisteredOnce, PumpsAfterReady,
        ServedOrBeingInserted, clientVars, hubVars, sendVars
<1>22. ASSUME NEW s \in Senders, EndSendTo(s)
      PROVE  ServedOrBeingInserted'
  BY <1>s, <1>22 DEF EndSendTo, ControlOK, HubSafe, RegisteredOnce, PumpsAfterReady,
        ServedOrBeingInserted, clientVars, hubVars, sendVars
<1>23. ASSUME NEW s \in Senders, NEW c \in Clients, SendOne(s, c)
      PROVE  ServedOrBeingInserted'
  BY <1>s, <1>23 DEF SendOne, ControlOK, HubSafe, RegisteredOnce, PumpsAfterReady,
        ServedOrBeingInserted, clientVars, hubVars, sendVars
<1>24. ASSUME NEW m \in Broadcasts, CallBroadcast(m)
      PROVE  ServedOrBeingInserted'
  BY <1>s, <1>24 DEF CallBroadcast, ControlOK, HubSafe, RegisteredOnce, PumpsAfterReady,
        ServedOrBeingInserted, clientVars, hubVars, sendVars
<1>25. CASE Stop
  BY <1>s, <1>25 DEF Stop, ControlOK, HubSafe, RegisteredOnce, PumpsAfterReady,
        ServedOrBeingInserted, clientVars, hubVars, sendVars
<1>26. CASE UNCHANGED vars
  BY <1>s, <1>26 DEF vars, clientVars, hubVars, sendVars, ControlOK, ServedOrBeingInserted
<1>. QED
  BY <1>1, <1>2, <1>3, <1>4, <1>5, <1>6, <1>7, <1>8, <1>9, <1>10, <1>11, <1>12, <1>13,
     <1>14, <1>15, <1>16, <1>17, <1>18, <1>19, <1>20, <1>21, <1>22, <1>23, <1>24, <1>25,
     <1>26 DEF Next, Upgrade, ReadPump, WritePump, Run, SendTo

------------------------------------------------------------------------------
\* What SendTo has found registered has left Upgrade's Register, and a WritePump only
\* runs once its Upgrade has sent socket_ready.
TargetsRegistered ==
    /\ \A s \in Senders : \A c \in target[s] : up[c] \notin {"idle", "register"}
    /\ \A c \in Clients : wp[c] # "off" => up[c] = "serving"

\* What a channel holds grows by what is sent on it ...
LEMMA RangeOfAppend ==
    ASSUME NEW S, NEW q \in Seq(S), NEW x
    PROVE  Range(q) \cup {x} = Range(Append(q, x))
<1>1. /\ DOMAIN q = 1..Len(q) /\ Len(q) \in Nat
      /\ DOMAIN Append(q, x) = 1..(Len(q) + 1)
      /\ \A i \in 1..Len(q) : Append(q, x)[i] = q[i]
      /\ Append(q, x)[Len(q) + 1] = x
  OBVIOUS
<1>2. 1..(Len(q) + 1) = 1..Len(q) \cup {Len(q) + 1}
  BY <1>1
<1>. QED
  BY <1>1, <1>2 DEF Range

\* ... and shrinks by what is received from it.
LEMMA RangeOfTail ==
    ASSUME NEW S, NEW q \in Seq(S), q # <<>>
    PROVE  Range(q) \subseteq Range(Tail(q)) \cup {Head(q)}
<1>1. /\ DOMAIN q = 1..Len(q) /\ Len(q) \in Nat \ {0}
      /\ DOMAIN Tail(q) = 1..(Len(q) - 1)
      /\ \A i \in 1..(Len(q) - 1) : Tail(q)[i] = q[i + 1]
      /\ Head(q) = q[1]
  OBVIOUS
<1>. SUFFICES ASSUME NEW i \in DOMAIN q
              PROVE  q[i] \in Range(Tail(q)) \cup {Head(q)}
  BY DEF Range
<1>2. CASE i = 1
  BY <1>1, <1>2
<1>3. CASE i # 1
  <2>1. i - 1 \in DOMAIN Tail(q) /\ Tail(q)[i - 1] = q[i]
    BY <1>1, <1>3
  <2>. QED
    BY <2>1 DEF Range
<1>. QED
  BY <1>2, <1>3

LEMMA TargetStep ==
    ControlOK /\ HubSafe /\ TargetsRegistered /\ [Next]_vars => TargetsRegistered'
<1>s. SUFFICES ASSUME ControlOK, HubSafe, TargetsRegistered
               PROVE  [Next]_vars => TargetsRegistered'
  OBVIOUS
<1>1. ASSUME NEW c \in Clients, UpgradeAccepted(c)
      PROVE  TargetsRegistered'
  BY <1>s, <1>1 DEF UpgradeAccepted, ControlOK, HubSafe, RegisteredOnce,
        TargetsRegistered, clientVars, hubVars, sendVars
<1>2. ASSUME NEW c \in Clients, SendReady(c)
      PROVE  TargetsRegistered'
  BY <1>s, <1>2 DEF SendReady, ControlOK, HubSafe, RegisteredOnce,
        TargetsRegistered, clientVars, hubVars, sendVars
<1>3. ASSUME NEW c \in Clients, ReadFails(c)
      PROVE  TargetsRegistered'
  BY <1>s, <1>3 DEF ReadFails, ControlOK, HubSafe, RegisteredOnce,
        TargetsRegistered, clientVars, hubVars, sendVars
<1>4. ASSUME NEW c \in Clients, ReadCloses(c)
      PROVE  TargetsRegistered'
  BY <1>s, <1>4 DEF ReadCloses, ControlOK, HubSafe, RegisteredOnce,
        TargetsRegistered, clientVars, hubVars, sendVars
<1>5. ASSUME NEW c \in Clients, WriteMessage(c)
      PROVE  TargetsRegistered'
  BY <1>s, <1>5 DEF WriteMessage, ControlOK, HubSafe, RegisteredOnce,
        TargetsRegistered, clientVars, hubVars, sendVars
<1>6. ASSUME NEW c \in Clients, WriteClosed(c)
      PROVE  TargetsRegistered'
  BY <1>s, <1>6 DEF WriteClosed, ControlOK, HubSafe, RegisteredOnce,
        TargetsRegistered, clientVars, hubVars, sendVars
<1>7. ASSUME NEW c \in Clients, PingFails(c)
      PROVE  TargetsRegistered'
  BY <1>s, <1>7 DEF PingFails, ControlOK, HubSafe, RegisteredOnce,
        TargetsRegistered, clientVars, hubVars, sendVars
<1>8. ASSUME NEW c \in Clients, WriteCloses(c)
      PROVE  TargetsRegistered'
  BY <1>s, <1>8 DEF WriteCloses, ControlOK, HubSafe, RegisteredOnce,
        TargetsRegistered, clientVars, hubVars, sendVars
<1>9. ASSUME NEW c \in Clients, PeerLeaves(c)
      PROVE  TargetsRegistered'
  BY <1>s, <1>9 DEF PeerLeaves, ControlOK, HubSafe, RegisteredOnce,
        TargetsRegistered, clientVars, hubVars, sendVars
<1>10. ASSUME NEW c \in Clients, ReceiveRegister(c)
      PROVE  TargetsRegistered'
  BY <1>s, <1>10 DEF ReceiveRegister, ControlOK, HubSafe, RegisteredOnce,
        TargetsRegistered, clientVars, hubVars, sendVars
<1>11. ASSUME NEW c \in Clients, ReceiveUnregister(c)
      PROVE  TargetsRegistered'
  BY <1>s, <1>11 DEF ReceiveUnregister, ControlOK, HubSafe, RegisteredOnce,
        TargetsRegistered, clientVars, hubVars, sendVars
<1>12. ASSUME NEW c \in Clients, Distribute(c)
      PROVE  TargetsRegistered'
  BY <1>s, <1>12 DEF Distribute, ControlOK, HubSafe, RegisteredOnce,
        TargetsRegistered, clientVars, hubVars, sendVars
<1>13. ASSUME NEW c \in Clients, Evict(c)
      PROVE  TargetsRegistered'
  BY <1>s, <1>13 DEF Evict, ControlOK, HubSafe, RegisteredOnce,
        TargetsRegistered, clientVars, hubVars, sendVars
<1>14. CASE CallLock
  BY <1>s, <1>14 DEF CallLock, ControlOK, HubSafe, RegisteredOnce,
        TargetsRegistered, clientVars, hubVars, sendVars
<1>15. CASE Insert
  BY <1>s, <1>15 DEF Insert, ControlOK, HubSafe, RegisteredOnce,
        TargetsRegistered, clientVars, hubVars, sendVars
<1>16. CASE Delete
  BY <1>s, <1>16 DEF Delete, ControlOK, HubSafe, RegisteredOnce,
        TargetsRegistered, clientVars, hubVars, sendVars
<1>17. CASE ReceiveBroadcast
  BY <1>s, <1>17 DEF ReceiveBroadcast, ControlOK, HubSafe, RegisteredOnce,
        TargetsRegistered, clientVars, hubVars, sendVars
<1>18. CASE EndDistribute
  BY <1>s, <1>18 DEF EndDistribute, ControlOK, HubSafe, RegisteredOnce,
        TargetsRegistered, clientVars, hubVars, sendVars
<1>19. CASE RunReturns
  BY <1>s, <1>19 DEF RunReturns, ControlOK, HubSafe, RegisteredOnce,
        TargetsRegistered, clientVars, hubVars, sendVars
<1>20. ASSUME NEW s \in Senders, CallSendTo(s)
      PROVE  TargetsRegistered'
  BY <1>s, <1>20 DEF CallSendTo, ControlOK, HubSafe, RegisteredOnce,
        TargetsRegistered, clientVars, hubVars, sendVars
<1>21. ASSUME NEW s \in Senders, GrantRLock(s)
      PROVE  TargetsRegistered'
  BY <1>s, <1>21 DEF GrantRLock, ControlOK, HubSafe, RegisteredOnce,
        TargetsRegistered, clientVars, hubVars, sendVars
<1>22. ASSUME NEW s \in Senders, EndSendTo(s)
      PROVE  TargetsRegistered'
  BY <1>s, <1>22 DEF EndSendTo, ControlOK, HubSafe, RegisteredOnce,
        TargetsRegistered, clientVars, hubVars, sendVars
<1>23. ASSUME NEW s \in Senders, NEW c \in Clients, SendOne(s, c)
      PROVE  TargetsRegistered'
  BY <1>s, <1>23 DEF SendOne, ControlOK, HubSafe, RegisteredOnce,
        TargetsRegistered, clientVars, hubVars, sendVars
<1>24. ASSUME NEW m \in Broadcasts, CallBroadcast(m)
      PROVE  TargetsRegistered'
  BY <1>s, <1>24 DEF CallBroadcast, ControlOK, HubSafe, RegisteredOnce,
        TargetsRegistered, clientVars, hubVars, sendVars
<1>25. CASE Stop
  BY <1>s, <1>25 DEF Stop, ControlOK, HubSafe, RegisteredOnce,
        TargetsRegistered, clientVars, hubVars, sendVars
<1>26. CASE UNCHANGED vars
  BY <1>s, <1>26 DEF vars, ControlOK, HubSafe, RegisteredOnce,
        TargetsRegistered, clientVars, hubVars, sendVars
<1>. QED
  BY <1>1, <1>2, <1>3, <1>4, <1>5, <1>6, <1>7, <1>8, <1>9, <1>10, <1>11, <1>12, <1>13,
     <1>14, <1>15, <1>16, <1>17, <1>18, <1>19, <1>20, <1>21, <1>22, <1>23, <1>24, <1>25,
     <1>26 DEF Next, Upgrade, ReadPump, WritePump, Run, SendTo

\* A message that was sent, and not dropped, stays in the channel until it is written.
LEMMA LostStep ==
    /\ ChannelsOK /\ ControlOK /\ HubSafe /\ TargetsRegistered
    /\ NothingLostWithRoom /\ [Next]_vars
    => NothingLostWithRoom'
<1>s. SUFFICES ASSUME ChannelsOK, ControlOK, HubSafe, TargetsRegistered, NothingLostWithRoom
               PROVE  [Next]_vars => NothingLostWithRoom'
  OBVIOUS
<1>t. send \in [Clients -> Seq(Message)]
  BY <1>s DEF ChannelsOK
<1>a. ASSUME NEW c \in Clients, NEW x
      PROVE  LET f == [send EXCEPT ![c] = Append(@, x)] IN
             /\ x \in Range(f[c])
             /\ \A d \in Clients : Range(send[d]) \subseteq Range(f[d])
  BY <1>t, RangeOfAppend
<1>1. ASSUME NEW c \in Clients, UpgradeAccepted(c)
      PROVE  NothingLostWithRoom'
  <2>1. \A s \in Senders : c \notin target[s]
    BY <1>s, <1>1 DEF UpgradeAccepted, TargetsRegistered
  <2>2. /\ \A d \in Clients : d # c => conn'[d] = conn[d]
        /\ UNCHANGED <<wp, inbox, send, target, todo, missed>>
    BY <1>s, <1>1 DEF UpgradeAccepted, ControlOK, hubVars, sendVars
  <2>. QED
    BY <1>s, <2>1, <2>2 DEF NothingLostWithRoom
<1>2. ASSUME NEW c \in Clients, SendReady(c)
      PROVE  NothingLostWithRoom'
  <2>1. \A d \in Clients : Range(send[d]) \subseteq Range(send'[d])
    BY <1>a, <1>2 DEF SendReady
  <2>a. wp[c] = "off"
    BY <1>s, <1>2 DEF SendReady, TargetsRegistered
  <2>2. \A d \in Clients : wp'[d] \in {"off", "loop"} => wp[d] \in {"off", "loop"}
    BY <1>s, <1>2, <2>a DEF SendReady, ControlOK
  <2>3. UNCHANGED <<conn, inbox, target, todo, missed>>
    BY <1>2 DEF SendReady, sendVars
  <2>. QED
    BY <1>s, <2>1, <2>2, <2>3 DEF NothingLostWithRoom
<1>3. ASSUME NEW c \in Clients, ReadFails(c)
      PROVE  NothingLostWithRoom'
  BY <1>s, <1>3 DEF ReadFails, ControlOK, NothingLostWithRoom,
        clientVars, hubVars, sendVars
<1>4. ASSUME NEW c \in Clients, ReadCloses(c)
      PROVE  NothingLostWithRoom'
  BY <1>s, <1>4 DEF ReadCloses, ControlOK, NothingLostWithRoom,
        clientVars, hubVars, sendVars
<1>5. ASSUME NEW c \in Clients, WriteMessage(c)
      PROVE  NothingLostWithRoom'
  <2>1. /\ \A d \in Clients : d # c => send'[d] = send[d] /\ inbox'[d] = inbox[d]
                                       /\ wp'[d] = wp[d]
        /\ UNCHANGED <<conn, target, todo, missed>>
    BY <1>s, <1>5 DEF WriteMessage, ControlOK, ChannelsOK, hubVars, sendVars
  <2>2. CASE conn[c] = "open"
    <3>1. /\ send[c] # <<>> /\ send'[c] = Tail(send[c])
          /\ inbox'[c] = inbox[c] \cup {Head(send[c])} /\ wp' = wp
      BY <1>s, <1>5, <2>2 DEF WriteMessage, ControlOK, ChannelsOK
    <3>2. Range(send[c]) \cup inbox[c] \subseteq Range(send'[c]) \cup inbox'[c]
      BY <1>t, <3>1, RangeOfTail
    <3>. QED
      BY <1>s, <2>1, <3>1, <3>2 DEF NothingLostWithRoom
  <2>3. CASE conn[c] # "open"
    BY <1>s, <2>1, <2>3 DEF NothingLostWithRoom
  <2>. QED
    BY <2>2, <2>3
<1>6. ASSUME NEW c \in Clients, WriteClosed(c)
      PROVE  NothingLostWithRoom'
  BY <1>s, <1>6 DEF WriteClosed, ControlOK, NothingLostWithRoom,
        clientVars, hubVars, sendVars
<1>7. ASSUME NEW c \in Clients, PingFails(c)
      PROVE  NothingLostWithRoom'
  BY <1>s, <1>7 DEF PingFails, ControlOK, NothingLostWithRoom,
        clientVars, hubVars, sendVars
<1>8. ASSUME NEW c \in Clients, WriteCloses(c)
      PROVE  NothingLostWithRoom'
  BY <1>s, <1>8 DEF WriteCloses, ControlOK, NothingLostWithRoom,
        clientVars, hubVars, sendVars
<1>9. ASSUME NEW c \in Clients, PeerLeaves(c)
      PROVE  NothingLostWithRoom'
  BY <1>s, <1>9 DEF PeerLeaves, ControlOK, NothingLostWithRoom,
        clientVars, hubVars, sendVars
<1>10. ASSUME NEW c \in Clients, ReceiveRegister(c)
      PROVE  NothingLostWithRoom'
  BY <1>s, <1>10 DEF ReceiveRegister, ControlOK, NothingLostWithRoom,
        clientVars, hubVars, sendVars
<1>11. ASSUME NEW c \in Clients, ReceiveUnregister(c)
      PROVE  NothingLostWithRoom'
  BY <1>s, <1>11 DEF ReceiveUnregister, ControlOK, NothingLostWithRoom,
        clientVars, hubVars, sendVars
<1>12. ASSUME NEW c \in Clients, Distribute(c)
      PROVE  NothingLostWithRoom'
  <2>1. \A d \in Clients : Range(send[d]) \subseteq Range(send'[d])
    BY <1>a, <1>12 DEF Distribute
  <2>2. UNCHANGED <<conn, wp, inbox, target, todo, missed>>
    BY <1>12 DEF Distribute, clientVars, sendVars
  <2>. QED
    BY <1>s, <2>1, <2>2 DEF NothingLostWithRoom
<1>13. ASSUME NEW c \in Clients, Evict(c)
      PROVE  NothingLostWithRoom'
  BY <1>s, <1>13 DEF Evict, ControlOK, NothingLostWithRoom,
        clientVars, hubVars, sendVars
<1>14. CASE CallLock
  BY <1>s, <1>14 DEF CallLock, ControlOK, NothingLostWithRoom,
        clientVars, hubVars, sendVars
<1>15. CASE Insert
  BY <1>s, <1>15 DEF Insert, ControlOK, NothingLostWithRoom,
        clientVars, hubVars, sendVars
<1>16. CASE Delete
  BY <1>s, <1>16 DEF Delete, ControlOK, NothingLostWithRoom,
        clientVars, hubVars, sendVars
<1>17. CASE ReceiveBroadcast
  BY <1>s, <1>17 DEF ReceiveBroadcast, ControlOK, NothingLostWithRoom,
        clientVars, hubVars, sendVars
<1>18. CASE EndDistribute
  BY <1>s, <1>18 DEF EndDistribute, ControlOK, NothingLostWithRoom,
        clientVars, hubVars, sendVars
<1>19. CASE RunReturns
  BY <1>s, <1>19 DEF RunReturns, ControlOK, NothingLostWithRoom,
        clientVars, hubVars, sendVars
<1>20. ASSUME NEW s \in Senders, CallSendTo(s)
      PROVE  NothingLostWithRoom'
  BY <1>s, <1>20 DEF CallSendTo, ControlOK, NothingLostWithRoom,
        clientVars, hubVars, sendVars
<1>21. ASSUME NEW s \in Senders, GrantRLock(s)
      PROVE  NothingLostWithRoom'
  BY <1>s, <1>21 DEF GrantRLock, ControlOK, NothingLostWithRoom,
        clientVars, hubVars, sendVars
<1>22. ASSUME NEW s \in Senders, EndSendTo(s)
      PROVE  NothingLostWithRoom'
  BY <1>s, <1>22 DEF EndSendTo, ControlOK, NothingLostWithRoom,
        clientVars, hubVars, sendVars
<1>23. ASSUME NEW s \in Senders, NEW c \in Clients, SendOne(s, c)
      PROVE  NothingLostWithRoom'
  <2>1. c \notin closed
    BY <1>s, <1>23 DEF SendOne, HubSafe, LoopsOverRegistered, RegisteredIsOpen
  <2>2. /\ UNCHANGED <<conn, wp, inbox, target>>
        /\ todo' = [todo EXCEPT ![s] = @ \ {c}]
    BY <1>23 DEF SendOne, clientVars
  <2>3. CASE Room(c)
    <3>1. send' = [send EXCEPT ![c] = Append(@, s)] /\ missed' = missed
      BY <1>23, <2>1, <2>3 DEF SendOne
    <3>. QED
      BY <1>s, <1>a, <2>2, <3>1 DEF NothingLostWithRoom, ControlOK
  <2>4. CASE ~Room(c)
    <3>1. send' = send /\ missed' = [missed EXCEPT ![s] = @ \cup {c}]
      BY <1>23, <2>1, <2>4 DEF SendOne
    <3>. QED
      BY <1>s, <2>2, <3>1 DEF NothingLostWithRoom, ControlOK
  <2>. QED
    BY <2>3, <2>4
<1>24. ASSUME NEW m \in Broadcasts, CallBroadcast(m)
      PROVE  NothingLostWithRoom'
  BY <1>s, <1>24 DEF CallBroadcast, ControlOK, NothingLostWithRoom,
        clientVars, hubVars, sendVars
<1>25. CASE Stop
  BY <1>s, <1>25 DEF Stop, ControlOK, NothingLostWithRoom,
        clientVars, hubVars, sendVars
<1>26. CASE UNCHANGED vars
  BY <1>s, <1>26 DEF vars, ControlOK, NothingLostWithRoom,
        clientVars, hubVars, sendVars
<1>. QED
  BY <1>1, <1>2, <1>3, <1>4, <1>5, <1>6, <1>7, <1>8, <1>9, <1>10, <1>11, <1>12, <1>13,
     <1>14, <1>15, <1>16, <1>17, <1>18, <1>19, <1>20, <1>21, <1>22, <1>23, <1>24, <1>25,
     <1>26 DEF Next, Upgrade, ReadPump, WritePump, Run, SendTo

------------------------------------------------------------------------------
LEMMA InitInv == Init => HubInv /\ ClosedByReadPump /\ ServedOrBeingInserted
<1>. SUFFICES ASSUME Init PROVE HubInv /\ ClosedByReadPump /\ ServedOrBeingInserted
  OBVIOUS
<1>1. TypeOK
  <2>1. ChannelsOK
    BY DEF Init, ChannelsOK
  <2>2. ControlOK
    BY DEF Init, ControlOK
  <2>. QED
    BY <2>1, <2>2 DEF TypeOK
<1>2. HubSafe
  BY DEF Init, HubSafe, NoClosedUse, RegisteredIsOpen, LoopsOverRegistered, RegisteredOnce, PumpsAfterReady
<1>3. ClosedByReadPump
  BY DEF Init, ClosedByReadPump
<1>4. ServedOrBeingInserted
  BY DEF Init, ServedOrBeingInserted
<1>. QED
  BY <1>1, <1>2, <1>3, <1>4 DEF HubInv

LEMMA InvStep == HubInv /\ [Next]_vars => HubInv'
  BY ChannelStep, ControlStep, SafeStep DEF HubInv, TypeOK, HubSafe

\* The hub's inductive invariant.
THEOREM HubInvariant == Spec => []HubInv
  BY InitInv, InvStep, PTL DEF Spec

\* The state of the hub is always well-typed: Run never inserts a nil client.
THEOREM HubTypes == Spec => []TypeOK
  BY HubInvariant, PTL DEF HubInv

\* Until somebody calls Broadcast, Upgrade can send socket_ready unprotected.
THEOREM UpgradeIsSafe == Spec => []UpgradeNeverPanics
<1>1. ControlOK /\ ClosedByReadPump => UpgradeNeverPanics
  BY DEF ControlOK, ClosedByReadPump, UpgradeNeverPanics
<1>2. HubInv => ControlOK /\ HubSafe
  BY DEF HubInv, TypeOK
<1>. QED
  BY <1>1, <1>2, InitInv, ClosedByReadPumpStep, HubInvariant, PTL DEF Spec

\* No goroutine of the hub ever sends on, or closes, a closed channel, for any
\* number of connections, of concurrent SendTo calls and of broadcasts.
THEOREM HubNeverPanics == Spec => []NoPanic
<1>1. HubInv => NoClosedUse
  BY DEF HubInv, HubSafe
<1>. QED
  BY <1>1, HubInvariant, UpgradeIsSafe, PTL DEF NoPanic

\* A served connection is registered, closed, or on its way into the map.
THEOREM ServedIsRegistered == Spec => []ServedOrBeingInserted
<1>1. HubInv => ControlOK /\ HubSafe
  BY DEF HubInv, TypeOK
<1>. QED
  BY <1>1, InitInv, ServedStep, HubInvariant, PTL DEF Spec

\* Whatever registers, leaves or is evicted meanwhile, SendTo loses a message only at
\* a full channel.
THEOREM NothingIsLostWithRoom == Spec => []NothingLostWithRoom
<1>1. Init => TargetsRegistered /\ NothingLostWithRoom
  BY DEF Init, TargetsRegistered, NothingLostWithRoom
<1>2. HubInv => ChannelsOK /\ ControlOK /\ HubSafe
  BY DEF HubInv, TypeOK
<1>. QED
  BY <1>1, <1>2, TargetStep, LostStep, HubInvariant, PTL DEF Spec

==============================================================================
