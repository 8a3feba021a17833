--------------------------- MODULE DeliveryProofs ----------------------------
(***************************************************************************)
(* Proofs about Delivery, for any messages, clears, runs of syncOffline    *)
(* and faults, and about MessageId, for any number of calls, any rate and  *)
(* any clock that the assumption in SetClock admits: Delivery counts its   *)
(* clear events, and it is nextMessageID that lets them be told apart and  *)
(* ordered.                                                                *)
(***************************************************************************)
EXTENDS Delivery, MessageId, TLAPS

------------------------------------------------------------------------------
(* The ids.                                                                *)

\* Why ids are unique.  Within a process no id is beyond the counter; before the
\* first one of a process, none is beyond the clock.  A candidate is beyond the
\* counter value its call has read, and with none read, beyond every id.
IdInv ==
    /\ IdTypeOK
    /\ IdsFollowCalls
    /\ IdsUnique
    /\ \A c \in Calls : issued[c] # 0 => pc[c] = "done"
    /\ \A c \in Calls : pc[c] = "idle" => before[c] = {}
    /\ \A c \in Calls : before[c] \subseteq Returned
    /\ messageSequence # 0 => \A c \in Calls : issued[c] <= messageSequence
    /\ messageSequence = 0 => Past(clock)
    /\ \A c \in Calls : pc[c] \in {"clock", "swap"} => current[c] <= messageSequence
    /\ \A c \in Calls : pc[c] = "swap" => candidate[c] > current[c]
    /\ \A c \in Calls : pc[c] = "swap" /\ messageSequence = current[c]
                            => \A d \in Calls : issued[d] < candidate[c]

\* The clock starts past every id, and a millisecond holds at least one.
LEMMA InitIds == IdInit => IdInv
  BY BurstAssumption, ClockAssumption
     DEF IdInit, IdInv, IdTypeOK, IdsFollowCalls, IdsUnique, Returned, Past

\* Every step keeps the argument.
LEMMA IdStep == ASSUME IdInv, [IdNext]_idVars PROVE IdInv'
<1>s. SUFFICES ASSUME IdInv PROVE [IdNext]_idVars => IdInv'
  OBVIOUS
<1>1. ASSUME NEW c \in Calls, Call(c) PROVE IdInv'
  BY <1>s, <1>1 DEF Call, IdInv, IdTypeOK, IdsFollowCalls, IdsUnique, Returned, Past
<1>2. ASSUME NEW c \in Calls, Load(c) PROVE IdInv'
  BY <1>s, <1>2 DEF Load, IdInv, IdTypeOK, IdsFollowCalls, IdsUnique, Returned, Past
<1>3. ASSUME NEW c \in Calls, ReadClock(c) PROVE IdInv'
  BY <1>s, <1>3, BurstAssumption
     DEF ReadClock, IdInv, IdTypeOK, IdsFollowCalls, IdsUnique, Returned, Past
<1>4. ASSUME NEW c \in Calls, Swap(c) PROVE IdInv'
  BY <1>s, <1>4 DEF Swap, IdInv, IdTypeOK, IdsFollowCalls, IdsUnique, Returned, Past
<1>5. ASSUME NEW t \in 1..MaxClock, SetClock(t) PROVE IdInv'
  BY <1>s, <1>5 DEF SetClock, IdInv, IdTypeOK, IdsFollowCalls, IdsUnique, Returned, Past
<1>6. CASE Restart
  BY <1>s, <1>6 DEF Restart, IdInv, IdTypeOK, IdsFollowCalls, IdsUnique, Returned, Past
<1>7. CASE UNCHANGED idVars
  BY <1>s, <1>7 DEF idVars, IdInv, IdTypeOK, IdsFollowCalls, IdsUnique, Returned, Past
<1>q. QED
  BY <1>1, <1>2, <1>3, <1>4, <1>5, <1>6, <1>7 DEF IdNext

\* The argument holds in every reachable state.
THEOREM IdInvariant == IdSpec => []IdInv
  BY InitIds, IdStep, PTL DEF IdSpec

\* The variables keep their types.
THEOREM IdTypes == IdSpec => []IdTypeOK
<1>1. IdInv => IdTypeOK
  BY DEF IdInv
<1>q. QED
  BY <1>1, IdInvariant, PTL

\* No two calls of nextMessageID ever return the same id (handlers.go:46-48).
THEOREM IdsAreUnique == IdSpec => []IdsUnique
<1>1. IdInv => IdsUnique
  BY DEF IdInv
<1>q. QED
  BY <1>1, IdInvariant, PTL

\* An id drawn later is greater: ids sort as the calls followed one another.
THEOREM IdsAreOrdered == IdSpec => []IdsFollowCalls
<1>1. IdInv => IdsFollowCalls
  BY DEF IdInv
<1>q. QED
  BY <1>1, IdInvariant, PTL

------------------------------------------------------------------------------
(* Delivery.                                                               *)

\* Events speak of what the server has committed so far.
Committed == ({"message", "deleted"} \X sent) \cup ({"cleared"} \X (1..lastClear))

\* Whatever is under way was committed before: events, fetched pages, pages read.
UnderWay ==
    /\ outgoing \subseteq Committed
    /\ wire \in Seq(Committed) /\ chain \in Seq(Committed)
    /\ \A s \in Syncs :
        /\ sync[s] \in {"clear", "clearAck"} => page[s] \subseteq 1..lastClear
        /\ sync[s] \in {"put", "ack"} => page[s] \subseteq sent

\* What the device is about to acknowledge is, or was, in its local history: of
\* messages, the one it has written from an event, and those of syncOffline.
InHandIsStored ==
    /\ AckedIsStored
    /\ applied /\ Head(chain)[1] = "message" => Head(chain)[2] \in store \cup removed
    /\ \A s \in Syncs : inHand[s] \subseteq store \cup removed

\* A clear that is being acknowledged has been tried on the device since it was made,
\* unless a later one has taken its place.
ClearInHandIsDone ==
    /\ clearEvent \in {0, lastClear}
    /\ ClearIsPending
    /\ applied => \/ Head(chain)[1] = "message"
                  \/ Head(chain)[1] = "cleared" /\ (Head(chain)[2] = lastClear => kept = {})
    /\ \A s \in Syncs :
        /\ sync[s] \in {"clear", "clearAck"} => \A e, f \in page[s] : e = f
        /\ sync[s] = "clearAck" /\ lastClear \in page[s] => kept = {}

DeliveryInv == TypeOK /\ UnderWay /\ InHandIsStored /\ ClearInHandIsDone

\* A sequence of members of a set is one of any larger set.
LEMMA SeqOfMore == ASSUME NEW S, NEW T, S \subseteq T PROVE Seq(S) \subseteq Seq(T)
  OBVIOUS

\* What is left of a sequence when its first element is taken.
LEMMA HeadAndTail ==
  ASSUME NEW S, NEW q \in Seq(S), q # <<>>
  PROVE  Head(q) \in S /\ Tail(q) \in Seq(S)
  OBVIOUS

\* What is put at the end of a sequence leaves its first element.
LEMMA HeadOfAppend ==
  ASSUME NEW S, NEW q \in Seq(S), q # <<>>, NEW e
  PROVE  Head(Append(q, e)) = Head(q)
  OBVIOUS

\* A removal takes nothing but what it should remove, and leaves of this what refuses.
LEMMA ForgetEffect ==
  ASSUME NEW m, Forget(m)
  PROVE  /\ store \ {m} \subseteq store' /\ store' \subseteq store
         /\ kept' = kept \cap store' /\ removed' = removed \cup (store \cap {m})
  BY DEF Forget, Left

LEMMA ClearEffect ==
  ASSUME NEW e, ClearStore(e)
  PROVE  /\ store' \subseteq store /\ removed' = removed \cup store
         /\ kept' \subseteq kept /\ (e = lastClear => kept' = {})
  BY DEF ClearStore, Left

\* An acknowledgement ends what it names, if it is still there.
LEMMA AckMessageEffect ==
  ASSUME NEW m, AckMessage(m)
  PROVE  queue' = queue \ {m} /\ UNCHANGED <<peers, sent, history, clearEvent, lastClear>>
  BY DEF AckMessage, Server!Taken, tableVars

LEMMA AckClearEffect ==
  ASSUME NEW e, AckClear(e)
  PROVE  /\ clearEvent' = IF clearEvent = e THEN 0 ELSE clearEvent
         /\ UNCHANGED <<peers, sent, history, queue, lastClear>>
  BY DEF AckClear, Server!Cleared, tableVars

\* Every step keeps the types, and that what is under way was committed before.
LEMMA TypesStep ==
  ASSUME TypeOK, UnderWay, [Next]_vars
  PROVE  TypeOK' /\ UnderWay'
<1>s. SUFFICES ASSUME TypeOK, UnderWay PROVE [Next]_vars => TypeOK' /\ UnderWay'
  OBVIOUS
<1>1. ASSUME NEW m \in Msgs, SendCommit(m) PROVE TypeOK' /\ UnderWay'
  <2>1. /\ sent' = sent \cup {m} /\ outgoing' = outgoing \cup {<<"message", m>>}
        /\ \/ history' = history \cup {m} /\ queue' = queue \cup {m}
           \/ history' = history /\ queue' = queue
        /\ UNCHANGED <<peers, clearEvent, lastClear, socketVars, chainVars, syncVars, browseVars,
                       localVars, pastVars>>
    BY <1>1 DEF SendCommit, Server!Send, Server!SendUnseen
  <2>2. Committed \subseteq Committed' /\ <<"message", m>> \in Committed' \cap Event
    BY <2>1 DEF Committed, Event
  <2>3. UnderWay'
    BY <1>s, <2>1, <2>2, SeqOfMore DEF UnderWay, socketVars, chainVars, syncVars
  <2>4. TypeOK'
    BY <1>s, <2>1, <2>2
       DEF TypeOK, socketVars, chainVars, syncVars, browseVars, localVars, pastVars
  <2>q. QED
    BY <2>3, <2>4
<1>2. ASSUME NEW m \in Msgs, RecallCommit(m) PROVE TypeOK' /\ UnderWay'
  BY <1>s, <1>2, SeqOfMore, MaxClearsAssumption
     DEF RecallCommit, socketVars, chainVars, syncVars, browseVars, localVars, TypeOK,
         UnderWay, Committed, Event, Server!Recall, tableVars, pastVars
<1>3. ASSUME ClearCommit PROVE TypeOK' /\ UnderWay'
  BY <1>s, <1>3, SeqOfMore, MaxClearsAssumption
     DEF ClearCommit, socketVars, chainVars, syncVars, browseVars, TypeOK, UnderWay,
         Committed, Event, Server!Clear, tableVars, pastVars
<1>4. ASSUME NEW ev \in outgoing, Push(ev) PROVE TypeOK' /\ UnderWay'
  BY <1>s, <1>4, SeqOfMore, MaxClearsAssumption
     DEF Push, chainVars, syncVars, browseVars, localVars, TypeOK, UnderWay,
         Committed, Event, tableVars, pastVars
<1>5. ASSUME Crash PROVE TypeOK' /\ UnderWay'
  BY <1>s, <1>5, SeqOfMore, MaxClearsAssumption
     DEF Crash, chainVars, syncVars, browseVars, localVars, TypeOK, UnderWay,
         Committed, Event, tableVars, pastVars
<1>6. ASSUME NEW s \in Syncs, Connect(s) PROVE TypeOK' /\ UnderWay'
  BY <1>s, <1>6, SeqOfMore, MaxClearsAssumption
     DEF Connect, serverVars, chainVars, browseVars, localVars, TypeOK, UnderWay,
         Committed, Event, tableVars, pastVars
<1>7. ASSUME NEW s \in Syncs, FetchClears(s) PROVE TypeOK' /\ UnderWay'
  BY <1>s, <1>7, SeqOfMore, MaxClearsAssumption
     DEF FetchClears, serverVars, socketVars, chainVars, browseVars, localVars,
         TypeOK, UnderWay, Committed, Event, tableVars, pastVars
<1>8. ASSUME NEW s \in Syncs, SyncClear(s) PROVE TypeOK' /\ UnderWay'
  BY <1>s, <1>8, SeqOfMore, MaxClearsAssumption, ClearEffect
     DEF SyncClear, StopRoom, serverVars, socketVars, chainVars, TypeOK, UnderWay,
         Committed, Event, tableVars, pastVars
<1>9. ASSUME NEW s \in Syncs, SyncClearAck(s) PROVE TypeOK' /\ UnderWay'
  <2>1. /\ clearEvent' \in {0, clearEvent}
        /\ UNCHANGED <<peers, sent, history, queue, lastClear>>
    BY <1>9, AckClearEffect DEF SyncClearAck
  <2>q. QED
    BY <1>s, <1>9, <2>1
       DEF SyncClearAck, socketVars, chainVars, browseVars, localVars, pastVars, TypeOK,
           UnderWay, Committed
<1>10. ASSUME NEW s \in Syncs, FetchMessages(s) PROVE TypeOK' /\ UnderWay'
  BY <1>s, <1>10, SeqOfMore, MaxClearsAssumption
     DEF FetchMessages, serverVars, socketVars, chainVars, browseVars, localVars,
         TypeOK, UnderWay, Committed, Event, tableVars, pastVars
<1>11. ASSUME NEW s \in Syncs, NEW m \in Msgs, SyncPut(s, m) PROVE TypeOK' /\ UnderWay'
  BY <1>s, <1>11, SeqOfMore, MaxClearsAssumption
     DEF SyncPut, Put, serverVars, socketVars, chainVars, browseVars, TypeOK,
         UnderWay, Committed, Event, tableVars, pastVars
<1>12. ASSUME NEW s \in Syncs, SyncAck(s) PROVE TypeOK' /\ UnderWay'
  BY <1>s, <1>12, SeqOfMore, MaxClearsAssumption, AckMessageEffect
     DEF SyncAck, socketVars, chainVars, browseVars, localVars, TypeOK, UnderWay,
         Committed, Event, tableVars, pastVars
<1>13. ASSUME NEW s \in Syncs, SyncFails(s) PROVE TypeOK' /\ UnderWay'
  BY <1>s, <1>13, SeqOfMore, MaxClearsAssumption
     DEF SyncFails, serverVars, socketVars, chainVars, browseVars, localVars, TypeOK,
         UnderWay, Committed, Event, tableVars, pastVars
<1>14. ASSUME Register PROVE TypeOK' /\ UnderWay'
  BY <1>s, <1>14, SeqOfMore, MaxClearsAssumption
     DEF Register, serverVars, chainVars, syncVars, browseVars, localVars, TypeOK,
         UnderWay, Committed, Event, tableVars, pastVars
<1>15. ASSUME Disconnect PROVE TypeOK' /\ UnderWay'
  BY <1>s, <1>15, SeqOfMore, MaxClearsAssumption
     DEF Disconnect, serverVars, chainVars, syncVars, browseVars, localVars, TypeOK,
         UnderWay, Committed, Event, tableVars, pastVars
<1>16. ASSUME Receive PROVE TypeOK' /\ UnderWay'
  BY <1>s, <1>16, SeqOfMore, MaxClearsAssumption
     DEF Receive, serverVars, syncVars, browseVars, localVars, TypeOK, UnderWay,
         Committed, Event, tableVars, pastVars
<1>17. ASSUME ChainApply PROVE TypeOK' /\ UnderWay'
  <2> DEFINE ev == Head(chain)
  <2>1. ev \in Committed
    BY <1>s, <1>17, HeadAndTail DEF ChainApply, UnderWay
  <2>2. CASE ev[1] = "message"
    <3>1. ev[2] \in sent
      BY <2>1, <2>2 DEF Committed
    <3>q. QED
      BY <1>s, <1>17, <2>2, <3>1
         DEF ChainApply, Put, serverVars, socketVars, syncVars, browseVars,
             TypeOK, UnderWay, Committed, tableVars, pastVars
  <2>3. CASE ev[1] = "cleared"
    BY <1>s, <1>17, <2>3, ClearEffect
       DEF ChainApply, StopRoom, serverVars, socketVars, syncVars, TypeOK, UnderWay,
           Committed, tableVars, pastVars
  <2>4. CASE ev[1] = "deleted"
    <3>1. Tail(chain) \in Seq(Event) /\ Tail(chain) \in Seq(Committed)
      BY <1>s, <1>17, HeadAndTail DEF ChainApply, TypeOK, UnderWay
    <3>2. chain' = Tail(chain) /\ Forget(ev[2]) /\ StopRoom
      BY <1>17, <2>4 DEF ChainApply
    <3>q. QED
      BY <1>s, <1>17, <2>4, <3>1, <3>2, ForgetEffect
         DEF ChainApply, StopRoom, serverVars, socketVars, syncVars, TypeOK,
             UnderWay, Committed, tableVars, pastVars
  <2>q. QED
    BY <1>17, <2>2, <2>3, <2>4 DEF ChainApply
<1>18. ASSUME ChainAck PROVE TypeOK' /\ UnderWay'
  <2>1. Tail(chain) \in Seq(Event) /\ Tail(chain) \in Seq(Committed)
    BY <1>s, <1>18, HeadAndTail DEF ChainAck, TypeOK, UnderWay
  <2>2. /\ queue' \subseteq history /\ clearEvent' \in 0..lastClear
        /\ UNCHANGED <<peers, sent, history, lastClear>>
    BY <1>s, <1>18, AckMessageEffect, AckClearEffect DEF ChainAck, AckEvent, TypeOK
  <2>q. QED
    BY <1>s, <1>18, <2>1, <2>2
       DEF ChainAck, socketVars, syncVars, browseVars, localVars, TypeOK, UnderWay,
           Committed, tableVars, pastVars
<1>19. ASSUME ChainFails PROVE TypeOK' /\ UnderWay'
  <2>1. Tail(chain) \in Seq(Event) /\ Tail(chain) \in Seq(Committed)
    BY <1>s, <1>19, HeadAndTail DEF ChainFails, TypeOK, UnderWay
  <2>q. QED
    BY <1>s, <1>19, <2>1
       DEF ChainFails, serverVars, socketVars, syncVars, browseVars, localVars,
           TypeOK, UnderWay, Committed, tableVars, pastVars
<1>20. ASSUME NEW how \in Reads, Browse(how) PROVE TypeOK' /\ UnderWay'
  BY <1>s, <1>20, SeqOfMore, MaxClearsAssumption
     DEF Browse, serverVars, socketVars, chainVars, syncVars, localVars, TypeOK,
         UnderWay, Committed, Event, tableVars, pastVars
<1>21. ASSUME NEW m \in Msgs, BrowsePut(m) PROVE TypeOK' /\ UnderWay'
  BY <1>s, <1>21, SeqOfMore, MaxClearsAssumption
     DEF BrowsePut, Put, serverVars, socketVars, chainVars, syncVars, TypeOK,
         UnderWay, Committed, Event, tableVars, pastVars
<1>22. ASSUME NEW m \in Msgs, DeleteHere(m) PROVE TypeOK' /\ UnderWay'
  BY <1>s, <1>22, SeqOfMore, MaxClearsAssumption, ForgetEffect
     DEF DeleteHere, StopRoom, serverVars, socketVars, chainVars, syncVars, TypeOK,
         UnderWay, Committed, Event, tableVars, pastVars
<1>23. ASSUME Reload PROVE TypeOK' /\ UnderWay'
  <2>1. /\ wire' = <<>> /\ chain' = <<>> /\ applied' = FALSE
        /\ sync' = [s \in Syncs |-> "off"] /\ page' = [s \in Syncs |-> {}]
        /\ inHand' = [s \in Syncs |-> {}]
    BY <1>23 DEF Reload
  <2>2. /\ sync' \in [Syncs -> {"off", "clears", "clear", "clearAck", "messages", "put",
                              "ack"}]
        /\ \A s \in Syncs : sync'[s] = "off"
        /\ page' \in [Syncs -> SUBSET (Msgs \cup (1..MaxClears))]
        /\ inHand' \in [Syncs -> SUBSET Msgs]
        /\ applied' \in BOOLEAN
    BY <2>1   <2>3. UNCHANGED <<serverVars, localVars, pastVars>> /\ socket' = "off"
       /\ browse' = "off"         /\ browsed' = {}     BY <1>23
       DEF Reload
  <2>4. UnderWay'
    BY <1>s, <2>1, <2>2, <2>3 DEF serverVars, UnderWay, Committed, tableVars, pastVars
  <2>5. TypeOK'
    BY <1>s, <2>1, <2>2, <2>3 DEF serverVars, localVars, TypeOK, tableVars, pastVars
  <2>q. QED
    BY <2>4, <2>5
<1>24. ASSUME UNCHANGED vars PROVE TypeOK' /\ UnderWay'
  BY <1>s, <1>24, SeqOfMore, MaxClearsAssumption
     DEF vars, serverVars, socketVars, chainVars, syncVars, browseVars, localVars,
         TypeOK, UnderWay, Committed, Event, tableVars, pastVars
<1>25. ASSUME NEW v \in Peers, AccountDeleted(v) PROVE TypeOK' /\ UnderWay'
  BY <1>s, <1>25, SeqOfMore, MaxClearsAssumption
     DEF AccountDeleted, Server!AccountDeleted, socketVars, chainVars, syncVars,
         browseVars, pastVars, TypeOK, UnderWay, Committed, Event
<1>26. ASSUME NEW m \in Msgs, TakenElsewhere(m) PROVE TypeOK' /\ UnderWay'
  BY <1>s, <1>26, SeqOfMore, MaxClearsAssumption
     DEF TakenElsewhere, Server!Taken, socketVars, chainVars, syncVars, browseVars,
         localVars, TypeOK, UnderWay, Committed, Event
<1>27. ASSUME ClearedElsewhere PROVE TypeOK' /\ UnderWay'
  BY <1>s, <1>27, SeqOfMore, MaxClearsAssumption
     DEF ClearedElsewhere, Server!Cleared, socketVars, chainVars, syncVars, browseVars,
         pastVars, TypeOK, UnderWay, Committed, Event
<1>28. ASSUME BrowseFails PROVE TypeOK' /\ UnderWay'
  BY <1>s, <1>28, SeqOfMore, MaxClearsAssumption
     DEF BrowseFails, serverVars, tableVars, socketVars, chainVars, syncVars, localVars,
         pastVars, TypeOK, UnderWay, Committed, Event
<1>q. QED
  BY <1>1, <1>2, <1>3, <1>4, <1>5, <1>6, <1>7, <1>8, <1>9, <1>10, <1>11, <1>12, <1>13,
     <1>14, <1>15, <1>16, <1>17, <1>18, <1>19, <1>20, <1>21, <1>22, <1>23, <1>24, <1>25,
     <1>26, <1>27, <1>28
     DEF Next, ServerNext, DeviceNext, SyncStep

\* Every step keeps in the device, or among what it has removed, what it acknowledges.
LEMMA StoredStep ==
  ASSUME TypeOK, InHandIsStored, [Next]_vars
  PROVE  InHandIsStored'
<1>s. SUFFICES ASSUME TypeOK, InHandIsStored PROVE [Next]_vars => InHandIsStored'
  OBVIOUS
<1>1. ASSUME NEW m \in Msgs, SendCommit(m) PROVE InHandIsStored'
  BY <1>s, <1>1
     DEF SendCommit, socketVars, chainVars, syncVars, browseVars, localVars,
         AckedIsStored, InHandIsStored, Server!Send, Server!SendUnseen, tableVars,
         pastVars
<1>2. ASSUME NEW m \in Msgs, RecallCommit(m) PROVE InHandIsStored'
  BY <1>s, <1>2
     DEF RecallCommit, socketVars, chainVars, syncVars, browseVars, localVars,
         AckedIsStored, InHandIsStored, Server!Recall, tableVars, pastVars
<1>3. ASSUME ClearCommit PROVE InHandIsStored'
  BY <1>s, <1>3
     DEF ClearCommit, socketVars, chainVars, syncVars, browseVars, AckedIsStored,
         InHandIsStored, Server!Clear, tableVars, pastVars
<1>4. ASSUME NEW ev \in outgoing, Push(ev) PROVE InHandIsStored'
  BY <1>s, <1>4
     DEF Push, chainVars, syncVars, browseVars, localVars, AckedIsStored,
         InHandIsStored, tableVars, pastVars
<1>5. ASSUME Crash PROVE InHandIsStored'
  BY <1>s, <1>5
     DEF Crash, chainVars, syncVars, browseVars, localVars, AckedIsStored,
         InHandIsStored, tableVars, pastVars
<1>6. ASSUME NEW s \in Syncs, Connect(s) PROVE InHandIsStored'
  BY <1>s, <1>6
     DEF Connect, serverVars, chainVars, browseVars, localVars, AckedIsStored,
         InHandIsStored, tableVars, pastVars
<1>7. ASSUME NEW s \in Syncs, FetchClears(s) PROVE InHandIsStored'
  BY <1>s, <1>7
     DEF FetchClears, serverVars, socketVars, chainVars, browseVars, localVars,
         AckedIsStored, InHandIsStored, tableVars, pastVars
<1>8. ASSUME NEW s \in Syncs, SyncClear(s) PROVE InHandIsStored'
  BY <1>s, <1>8, ClearEffect
     DEF SyncClear, StopRoom, serverVars, socketVars, chainVars, AckedIsStored,
         InHandIsStored, tableVars, pastVars
<1>9. ASSUME NEW s \in Syncs, SyncClearAck(s) PROVE InHandIsStored'
  BY <1>s, <1>9, AckClearEffect
     DEF SyncClearAck, socketVars, chainVars, browseVars, localVars, AckedIsStored,
         InHandIsStored, tableVars, pastVars
<1>10. ASSUME NEW s \in Syncs, FetchMessages(s) PROVE InHandIsStored'
  BY <1>s, <1>10
     DEF FetchMessages, serverVars, socketVars, chainVars, browseVars, localVars,
         AckedIsStored, InHandIsStored, tableVars, pastVars
<1>11. ASSUME NEW s \in Syncs, NEW m \in Msgs, SyncPut(s, m) PROVE InHandIsStored'
  BY <1>s, <1>11
     DEF SyncPut, Put, serverVars, socketVars, chainVars, browseVars, AckedIsStored,
         InHandIsStored, tableVars, pastVars
<1>12. ASSUME NEW s \in Syncs, SyncAck(s) PROVE InHandIsStored'
  BY <1>s, <1>12, AckMessageEffect
     DEF SyncAck, socketVars, chainVars, browseVars, localVars, AckedIsStored,
         InHandIsStored, tableVars, pastVars
<1>13. ASSUME NEW s \in Syncs, SyncFails(s) PROVE InHandIsStored'
  BY <1>s, <1>13
     DEF SyncFails, serverVars, socketVars, chainVars, browseVars, localVars,
         AckedIsStored, InHandIsStored, tableVars, pastVars
<1>14. ASSUME Register PROVE InHandIsStored'
  BY <1>s, <1>14
     DEF Register, serverVars, chainVars, syncVars, browseVars, localVars,
         AckedIsStored, InHandIsStored, tableVars, pastVars
<1>15. ASSUME Disconnect PROVE InHandIsStored'
  BY <1>s, <1>15
     DEF Disconnect, serverVars, chainVars, syncVars, browseVars, localVars,
         AckedIsStored, InHandIsStored, tableVars, pastVars
<1>16. ASSUME Receive PROVE InHandIsStored'
  <2>1. applied => Head(chain') = Head(chain)
    BY <1>s, <1>16, HeadOfAppend DEF Receive, TypeOK
  <2>q. QED
    BY <1>s, <1>16, <2>1
       DEF Receive, serverVars, syncVars, browseVars, localVars, AckedIsStored,
           InHandIsStored, tableVars, pastVars
<1>17. ASSUME ChainApply PROVE InHandIsStored'
  <2> DEFINE ev == Head(chain)
  <2>1. CASE ev[1] = "message"
    BY <1>s, <1>17, <2>1
       DEF ChainApply, Put, serverVars, socketVars, syncVars, browseVars,
           AckedIsStored, InHandIsStored, tableVars, pastVars
  <2>2. CASE ev[1] = "cleared"
    BY <1>s, <1>17, <2>2, ClearEffect
       DEF ChainApply, StopRoom, serverVars, socketVars, syncVars, AckedIsStored,
           InHandIsStored, tableVars, pastVars
  <2>3. CASE ev[1] = "deleted"
    BY <1>s, <1>17, <2>3, ForgetEffect
       DEF ChainApply, StopRoom, serverVars, socketVars, syncVars, AckedIsStored,
           InHandIsStored, tableVars, pastVars
  <2>q. QED
    BY <1>17, <2>1, <2>2, <2>3 DEF ChainApply
<1>18. ASSUME ChainAck PROVE InHandIsStored'
  BY <1>s, <1>18, AckMessageEffect, AckClearEffect
     DEF ChainAck, AckEvent, socketVars, syncVars, browseVars, localVars,
         AckedIsStored, InHandIsStored, tableVars, pastVars
<1>19. ASSUME ChainFails PROVE InHandIsStored'
  BY <1>s, <1>19
     DEF ChainFails, serverVars, socketVars, syncVars, browseVars, localVars,
         AckedIsStored, InHandIsStored, tableVars, pastVars
<1>20. ASSUME NEW how \in Reads, Browse(how) PROVE InHandIsStored'
  BY <1>s, <1>20
     DEF Browse, serverVars, socketVars, chainVars, syncVars, localVars,
         AckedIsStored, InHandIsStored, tableVars, pastVars
<1>21. ASSUME NEW m \in Msgs, BrowsePut(m) PROVE InHandIsStored'
  BY <1>s, <1>21
     DEF BrowsePut, Put, serverVars, socketVars, chainVars, syncVars, AckedIsStored,
         InHandIsStored, tableVars, pastVars
<1>22. ASSUME NEW m \in Msgs, DeleteHere(m) PROVE InHandIsStored'
  BY <1>s, <1>22, ForgetEffect
     DEF DeleteHere, StopRoom, serverVars, socketVars, chainVars, syncVars,
         AckedIsStored, InHandIsStored, tableVars, pastVars
<1>23. ASSUME Reload PROVE InHandIsStored'
  BY <1>s, <1>23
     DEF Reload, serverVars, localVars, AckedIsStored, InHandIsStored, tableVars,
         pastVars
<1>24. ASSUME UNCHANGED vars PROVE InHandIsStored'
  BY <1>s, <1>24
     DEF vars, serverVars, socketVars, chainVars, syncVars, browseVars, localVars,
         AckedIsStored, InHandIsStored, tableVars, pastVars
<1>25. ASSUME NEW v \in Peers, AccountDeleted(v) PROVE InHandIsStored'
  BY <1>s, <1>25
     DEF AccountDeleted, Server!AccountDeleted, socketVars, chainVars, syncVars,
         browseVars, pastVars, AckedIsStored, InHandIsStored
<1>26. ASSUME NEW m \in Msgs, TakenElsewhere(m) PROVE InHandIsStored'
  BY <1>s, <1>26
     DEF TakenElsewhere, Server!Taken, socketVars, chainVars, syncVars, browseVars,
         localVars, AckedIsStored, InHandIsStored
<1>27. ASSUME ClearedElsewhere PROVE InHandIsStored'
  BY <1>s, <1>27
     DEF ClearedElsewhere, Server!Cleared, socketVars, chainVars, syncVars, browseVars,
         pastVars, AckedIsStored, InHandIsStored
<1>28. ASSUME BrowseFails PROVE InHandIsStored'
  BY <1>s, <1>28
     DEF BrowseFails, serverVars, tableVars, socketVars, chainVars, syncVars, localVars,
         pastVars, AckedIsStored, InHandIsStored
<1>q. QED
  BY <1>1, <1>2, <1>3, <1>4, <1>5, <1>6, <1>7, <1>8, <1>9, <1>10, <1>11, <1>12, <1>13,
     <1>14, <1>15, <1>16, <1>17, <1>18, <1>19, <1>20, <1>21, <1>22, <1>23, <1>24, <1>25,
     <1>26, <1>27, <1>28
     DEF Next, ServerNext, DeviceNext, SyncStep

\* Every step keeps a clear pending until nothing is left of what it clears.
LEMMA ClearStep ==
  ASSUME TypeOK, UnderWay, ClearInHandIsDone, [Next]_vars
  PROVE  ClearInHandIsDone'
<1>s. SUFFICES ASSUME TypeOK, UnderWay, ClearInHandIsDone PROVE [Next]_vars => ClearInHandIsDone'
  OBVIOUS
<1>1. ASSUME NEW m \in Msgs, SendCommit(m) PROVE ClearInHandIsDone'
  BY <1>s, <1>1
     DEF SendCommit, socketVars, chainVars, syncVars, browseVars, localVars,
         ClearIsPending, ClearInHandIsDone, Server!Send, Server!SendUnseen, tableVars,
         pastVars
<1>2. ASSUME NEW m \in Msgs, RecallCommit(m) PROVE ClearInHandIsDone'
  BY <1>s, <1>2
     DEF RecallCommit, socketVars, chainVars, syncVars, browseVars, localVars,
         ClearIsPending, ClearInHandIsDone, Server!Recall, tableVars, pastVars
<1>3. ASSUME ClearCommit PROVE ClearInHandIsDone'
  <2>1. lastClear \in Nat /\ lastClear' = lastClear + 1 /\ clearEvent' = lastClear'
    BY <1>s, <1>3, MaxClearsAssumption DEF ClearCommit, TypeOK, Server!Clear
  <2>2. applied => \/ Head(chain)[1] = "message"
                   \/ Head(chain)[1] = "cleared" /\ Head(chain)[2] # lastClear'
    <3>1. applied => Head(chain) \in Committed
      BY <1>s, HeadAndTail DEF TypeOK, UnderWay
    <3>q. QED
      BY <1>s, <2>1, <3>1 DEF ClearInHandIsDone, Committed
  <2>3. \A s \in Syncs : sync[s] = "clearAck" => lastClear' \notin page[s]
    BY <1>s, <2>1 DEF UnderWay
  <2>q. QED
    BY <1>s, <1>3, <2>1, <2>2, <2>3
       DEF ClearCommit, chainVars, syncVars, ClearIsPending, ClearInHandIsDone,
           Server!Clear, tableVars, pastVars
<1>4. ASSUME NEW ev \in outgoing, Push(ev) PROVE ClearInHandIsDone'
  BY <1>s, <1>4
     DEF Push, chainVars, syncVars, browseVars, localVars, ClearIsPending,
         ClearInHandIsDone, tableVars, pastVars
<1>5. ASSUME Crash PROVE ClearInHandIsDone'
  BY <1>s, <1>5
     DEF Crash, chainVars, syncVars, browseVars, localVars, ClearIsPending,
         ClearInHandIsDone, tableVars, pastVars
<1>6. ASSUME NEW s \in Syncs, Connect(s) PROVE ClearInHandIsDone'
  BY <1>s, <1>6
     DEF Connect, serverVars, chainVars, browseVars, localVars, ClearIsPending,
         ClearInHandIsDone, tableVars, pastVars
<1>7. ASSUME NEW s \in Syncs, FetchClears(s) PROVE ClearInHandIsDone'
  <2>1. /\ page' = [page EXCEPT ![s] = {clearEvent} \ {0}]
        /\ sync' = [sync EXCEPT ![s] = IF clearEvent = 0 THEN "messages" ELSE "clear"]
        /\ UNCHANGED <<clearEvent, lastClear, chain, applied, kept>>
    BY <1>7 DEF FetchClears, serverVars, tableVars, chainVars, localVars
  <2>2. ASSUME NEW t \in Syncs
        PROVE  /\ sync'[t] \in {"clear", "clearAck"} => \A e, f \in page'[t] : e = f
               /\ sync'[t] = "clearAck" /\ lastClear \in page'[t] => kept = {}
    BY <1>s, <2>1 DEF ClearInHandIsDone, TypeOK
  <2>q. QED
    BY <1>s, <2>1, <2>2 DEF ClearInHandIsDone, ClearIsPending
<1>8. ASSUME NEW s \in Syncs, SyncClear(s) PROVE ClearInHandIsDone'
  BY <1>s, <1>8, ClearEffect
     DEF SyncClear, StopRoom, serverVars, socketVars, chainVars, ClearIsPending,
         ClearInHandIsDone, tableVars, pastVars
<1>9. ASSUME NEW s \in Syncs, SyncClearAck(s) PROVE ClearInHandIsDone'
  BY <1>s, <1>9, AckClearEffect
     DEF SyncClearAck, socketVars, chainVars, browseVars, localVars, ClearIsPending,
         ClearInHandIsDone, tableVars, pastVars
<1>10. ASSUME NEW s \in Syncs, FetchMessages(s) PROVE ClearInHandIsDone'
  BY <1>s, <1>10
     DEF FetchMessages, serverVars, socketVars, chainVars, browseVars, localVars,
         ClearIsPending, ClearInHandIsDone, tableVars, pastVars
<1>11. ASSUME NEW s \in Syncs, NEW m \in Msgs, SyncPut(s, m) PROVE ClearInHandIsDone'
  BY <1>s, <1>11
     DEF SyncPut, Put, serverVars, socketVars, chainVars, browseVars, ClearIsPending,
         ClearInHandIsDone, tableVars, pastVars
<1>12. ASSUME NEW s \in Syncs, SyncAck(s) PROVE ClearInHandIsDone'
  BY <1>s, <1>12, AckMessageEffect
     DEF SyncAck, socketVars, chainVars, browseVars, localVars, ClearIsPending,
         ClearInHandIsDone, tableVars, pastVars
<1>13. ASSUME NEW s \in Syncs, SyncFails(s) PROVE ClearInHandIsDone'
  BY <1>s, <1>13
     DEF SyncFails, serverVars, socketVars, chainVars, browseVars, localVars,
         ClearIsPending, ClearInHandIsDone, tableVars, pastVars
<1>14. ASSUME Register PROVE ClearInHandIsDone'
  BY <1>s, <1>14
     DEF Register, serverVars, chainVars, syncVars, browseVars, localVars,
         ClearIsPending, ClearInHandIsDone, tableVars, pastVars
<1>15. ASSUME Disconnect PROVE ClearInHandIsDone'
  BY <1>s, <1>15
     DEF Disconnect, serverVars, chainVars, syncVars, browseVars, localVars,
         ClearIsPending, ClearInHandIsDone, tableVars, pastVars
<1>16. ASSUME Receive PROVE ClearInHandIsDone'
  <2>1. applied => Head(chain') = Head(chain)
    BY <1>s, <1>16, HeadOfAppend DEF Receive, TypeOK
  <2>q. QED
    BY <1>s, <1>16, <2>1
       DEF Receive, serverVars, syncVars, browseVars, localVars, ClearIsPending,
           ClearInHandIsDone, tableVars, pastVars
<1>17. ASSUME ChainApply PROVE ClearInHandIsDone'
  BY <1>s, <1>17, ForgetEffect, ClearEffect
     DEF ChainApply, Put, browseVars, StopRoom, serverVars, socketVars, syncVars,
         ClearIsPending, ClearInHandIsDone, tableVars, pastVars
<1>18. ASSUME ChainAck PROVE ClearInHandIsDone'
  <2>1. applied' = FALSE /\ UNCHANGED <<lastClear, sync, page, kept>>
    BY <1>18, AckMessageEffect, AckClearEffect DEF ChainAck, AckEvent, syncVars, localVars
  <2>2. CASE Head(chain)[1] = "message"
    BY <1>s, <1>18, <2>1, <2>2, AckMessageEffect
       DEF ChainAck, AckEvent, ClearIsPending, ClearInHandIsDone
  <2>3. CASE Head(chain)[1] = "cleared"
    BY <1>s, <1>18, <2>1, <2>3, AckClearEffect
       DEF ChainAck, AckEvent, ClearIsPending, ClearInHandIsDone
  <2>q. QED
    BY <1>s, <1>18, <2>2, <2>3 DEF ChainAck, ClearInHandIsDone
<1>19. ASSUME ChainFails PROVE ClearInHandIsDone'
  BY <1>s, <1>19
     DEF ChainFails, serverVars, socketVars, syncVars, browseVars, localVars,
         ClearIsPending, ClearInHandIsDone, tableVars, pastVars
<1>20. ASSUME NEW how \in Reads, Browse(how) PROVE ClearInHandIsDone'
  BY <1>s, <1>20
     DEF Browse, serverVars, socketVars, chainVars, syncVars, localVars,
         ClearIsPending, ClearInHandIsDone, tableVars, pastVars
<1>21. ASSUME NEW m \in Msgs, BrowsePut(m) PROVE ClearInHandIsDone'
  BY <1>s, <1>21
     DEF BrowsePut, Put, serverVars, socketVars, chainVars, syncVars, ClearIsPending,
         ClearInHandIsDone, tableVars, pastVars
<1>22. ASSUME NEW m \in Msgs, DeleteHere(m) PROVE ClearInHandIsDone'
  BY <1>s, <1>22, ForgetEffect
     DEF DeleteHere, StopRoom, serverVars, socketVars, chainVars, syncVars,
         ClearIsPending, ClearInHandIsDone, tableVars, pastVars
<1>23. ASSUME Reload PROVE ClearInHandIsDone'
  BY <1>s, <1>23
     DEF Reload, serverVars, localVars, ClearIsPending, ClearInHandIsDone, tableVars,
         pastVars
<1>24. ASSUME UNCHANGED vars PROVE ClearInHandIsDone'
  BY <1>s, <1>24
     DEF vars, serverVars, socketVars, chainVars, syncVars, browseVars, localVars,
         ClearIsPending, ClearInHandIsDone, tableVars, pastVars
<1>25. ASSUME NEW v \in Peers, AccountDeleted(v) PROVE ClearInHandIsDone'
  BY <1>s, <1>25
     DEF AccountDeleted, Server!AccountDeleted, socketVars, chainVars, syncVars,
         browseVars, pastVars, ClearIsPending, ClearInHandIsDone
<1>26. ASSUME NEW m \in Msgs, TakenElsewhere(m) PROVE ClearInHandIsDone'
  BY <1>s, <1>26
     DEF TakenElsewhere, Server!Taken, socketVars, chainVars, syncVars, browseVars,
         localVars, ClearIsPending, ClearInHandIsDone
<1>27. ASSUME ClearedElsewhere PROVE ClearInHandIsDone'
  BY <1>s, <1>27
     DEF ClearedElsewhere, Server!Cleared, socketVars, chainVars, syncVars, browseVars,
         pastVars, ClearIsPending, ClearInHandIsDone
<1>28. ASSUME BrowseFails PROVE ClearInHandIsDone'
  BY <1>s, <1>28
     DEF BrowseFails, serverVars, tableVars, socketVars, chainVars, syncVars, localVars,
         pastVars, ClearIsPending, ClearInHandIsDone
<1>q. QED
  BY <1>1, <1>2, <1>3, <1>4, <1>5, <1>6, <1>7, <1>8, <1>9, <1>10, <1>11, <1>12, <1>13,
     <1>14, <1>15, <1>16, <1>17, <1>18, <1>19, <1>20, <1>21, <1>22, <1>23, <1>24, <1>25,
     <1>26, <1>27, <1>28
     DEF Next, ServerNext, DeviceNext, SyncStep

\* Nothing was sent, and nothing is under way.
LEMMA InitDelivery == Init => DeliveryInv
<1> SUFFICES ASSUME Init PROVE DeliveryInv
  OBVIOUS
<1>1. TypeOK
  <2>1. lastClear \in 0..MaxClears /\ clearEvent \in 0..lastClear
    BY MaxClearsAssumption DEF Init, Server!Init
  <2>2. /\ sync \in [Syncs -> {"off", "clears", "clear", "clearAck", "messages", "put",
                             "ack"}]
        /\ page \in [Syncs -> SUBSET (Msgs \cup (1..MaxClears))]
        /\ inHand \in [Syncs -> SUBSET Msgs]
    BY DEF Init
  <2>3. wire \in Seq(Event) /\ chain \in Seq(Event)
    BY DEF Init
  <2>4. applied \in BOOLEAN /\ (applied => chain # <<>>)
    BY DEF Init
  <2>5. /\ peers \in SUBSET Peers
        /\ sent \in SUBSET Msgs /\ history \in SUBSET sent /\ queue \in SUBSET history
        /\ outgoing \in SUBSET Event
        /\ store \in SUBSET sent /\ browsed \in SUBSET sent
        /\ cleared \in SUBSET sent /\ kept \in SUBSET cleared /\ removed \in SUBSET sent
        /\ elsewhere \in SUBSET sent
    BY DEF Init, Server!Init
  <2>6. /\ socket \in {"off", "open", "registered"}
        /\ browse \in Reads \cup {"off"}
    BY DEF Init
  <2>q. QED
    BY <2>1, <2>2, <2>3, <2>4, <2>5, <2>6 DEF TypeOK
<1>2. UnderWay
  BY DEF Init, Server!Init, UnderWay, Committed
<1>3. InHandIsStored /\ ClearInHandIsDone
  BY DEF Init, Server!Init, InHandIsStored, AckedIsStored, ClearInHandIsDone, ClearIsPending
<1>q. QED
  BY <1>1, <1>2, <1>3 DEF DeliveryInv

\* The invariant holds in every reachable state.
THEOREM DeliveryInvariant == Spec => []DeliveryInv
<1>1. DeliveryInv /\ [Next]_vars => DeliveryInv'
  BY TypesStep, StoredStep, ClearStep DEF DeliveryInv
<1>q. QED
  BY <1>1, InitDelivery, PTL DEF Spec

\* The variables keep their types.
THEOREM DeliveryTypes == Spec => []TypeOK
<1>1. DeliveryInv => TypeOK
  BY DEF DeliveryInv
<1>q. QED
  BY <1>1, DeliveryInvariant, PTL

\* A device takes no message from the queue that it has neither written nor removed.
THEOREM AcknowledgedIsStored == Spec => []AckedIsStored
<1>1. DeliveryInv => AckedIsStored
  BY DEF DeliveryInv, InHandIsStored
<1>q. QED
  BY <1>1, DeliveryInvariant, PTL

\* A clear stays pending until the device has tried it, or it is ended elsewhere.
THEOREM ClearsStayPending == Spec => []ClearIsPending
<1>1. DeliveryInv => ClearIsPending
  BY DEF DeliveryInv, ClearInHandIsDone
<1>q. QED
  BY <1>1, DeliveryInvariant, PTL

=============================================================================
