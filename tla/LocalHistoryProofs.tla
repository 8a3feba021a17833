-------------------------- MODULE LocalHistoryProofs --------------------------
(***************************************************************************)
(* Proofs about the local history, for any number of messages and callers  *)
(* and any bounds: its types, that the file of the desktop application     *)
(* keeps what DurableHistory promises, and that the copies keep what the   *)
(* calls have promised, whatever overlaps, fails or crashes.               *)
(***************************************************************************)
EXTENDS LocalHistory, TLAPS

Waiting == [by : Callers \cup {Nobody}, q : Requests]
Transactions == [by : Callers, q : Requests]
Calling == [at : {"idle", "opening", "settling"}, q : Requests,
            idb : {"none", "pending", "done", "failed"}, of : SUBSET Msgs]

\* What Rename moves is the table; nobody waits for an application that is down, and it
\* has nothing in memory.
HistoryInv ==
    /\ TypeOK
    /\ at = "written" => tmp = mem
    /\ at = "down" => mem = Empty /\ \A c \in Callers : call[c].at = "idle"

\* Requests change a table into a table, and so does dropping old records.
LEMMA TablesStay ==
    ASSUME NEW d \in Data
    PROVE  /\ \A q \in Requests : Apply(q, d) \in Data
           /\ \A k : Newest(k, d) \in Data
<1>1. ASSUME NEW q \in Requests PROVE Apply(q, d) \in Data
  <2>1. ASSUME NEW m \in Msgs PROVE Apply(q, d)[m] \in Flags
    <3>1. q.op \in {"put", "read", "delete"}
      BY DEF Requests
    <3>2. d[m] \in Flags
      BY DEF Data
    <3>. QED
      BY <3>1, <3>2 DEF Apply, Flags
  <2>. QED
    BY <2>1 DEF Apply, Data
<1>2. ASSUME NEW k PROVE Newest(k, d) \in Data
  <2>1. ASSUME NEW m \in Msgs PROVE Newest(k, d)[m] \in Flags
    BY DEF Newest, Data, Flags
  <2>. QED
    BY <2>1 DEF Newest, Data
<1>. QED
  BY <1>1, <1>2

\* A whole file is loaded as it is, and any file as a table.
LEMMA WholeFileLoads ==
    /\ Empty \in Data
    /\ \A d \in Data : Loaded(d) = d
<1>1. Empty \in Data
  BY DEF Empty, Data, Flags
<1>2. ASSUME NEW d \in Data, d = Torn PROVE d = Empty
  <2>1. DOMAIN d = Msgs /\ DOMAIN d = {}
    BY <1>2 DEF Data, Torn
  <2>. QED
    BY <1>1, <2>1 DEF Data
<1>. QED
  BY <1>1, <1>2 DEF Loaded

LEMMA RequestsAre ==
    /\ NoDelete \in Requests /\ MarkRead \in Requests
    /\ \A m \in Msgs : Delete({m}) \in Requests
    /\ Delete(Msgs) \in Requests
    /\ \A m \in Msgs : \A read \in BOOLEAN : Put(m, read) \in Requests
    /\ Idle \in Calling
  BY DEF NoDelete, MarkRead, Delete, Put, Requests, Idle, Calling

\* The answer of a request is told to whom it is for, if it is still there.
LEMMA AnswersTell ==
    ASSUME answer \in [Callers -> {"none", "pending", "done", "failed"}],
           NEW a, Answers(a)
    PROVE  \/ answer' = answer
           \/ \E c \in Callers : answer' = [answer EXCEPT ![c] = a]
<1>1. CASE queue[1].by \in Callers
  BY <1>1 DEF Answers
<1>2. CASE queue[1].by \notin Callers
  BY <1>2 DEF Answers
<1>. QED
  BY <1>1, <1>2

------------------------------------------------------------------------------
\* A call that begins keeps the types, whatever it asks for.
LEMMA BeginTypes ==
    ASSUME HistoryInv, NEW c \in Callers, NEW q \in Requests, NEW w \in {"opening", "settling"},
           Begin(c, q), Breaks(c, q, w)
    PROVE  /\ mirror' \in Data /\ indexed' \in Data /\ db' = db
           /\ idb' \in Seq(Transactions)
           /\ call' \in [Callers -> Calling] /\ calls' \in 0..MaxCalls
           /\ kept' \subseteq Msgs /\ removed' \subseteq Msgs /\ seen' \subseteq Msgs
           /\ at # "down"
<1>1. mirror' \in Data
  <2>1. Apply(q, mirror) \in Data
    BY TablesStay DEF HistoryInv, TypeOK
  <2>. QED
    BY <2>1, TablesStay DEF Begin, SaveMirror
<1>2. indexed' \in Data /\ db' = db /\ calls' \in 0..MaxCalls /\ at # "down"
  BY MirrorAssumption DEF HistoryInv, TypeOK, Begin
<1>3. idb' \in Seq(Transactions)
  <2>1. idb \in Seq(Transactions) /\ [by |-> c, q |-> q] \in Transactions
    BY DEF HistoryInv, TypeOK, Transactions
  <2>. QED
    BY <2>1 DEF Begin
<1>4. q.of \subseteq Msgs /\ \A b \in Callers : call[b] \in Calling
  BY DEF HistoryInv, TypeOK, Requests, Calling
<1>5. kept' \subseteq Msgs /\ removed' \subseteq Msgs /\ seen' \subseteq Msgs
  BY <1>4 DEF HistoryInv, TypeOK, Breaks
<1>6. call' \in [Callers -> Calling]
  <2>1. ASSUME NEW b \in Callers, b # c PROVE call'[b] \in Calling
    <3>1. call'[b] = call[b] \/ call'[b] = [call[b] EXCEPT !.of = @ \ q.of]
      BY <2>1 DEF Breaks
    <3>. QED
      BY <1>4, <3>1 DEF Calling
  <2>2. call'[c] \in Calling
    <3>1. PICK S \in SUBSET Msgs :
             call'[c] = [at |-> w, q |-> q, idb |-> "pending", of |-> S]
      <4>1. \A T : q.of \ T \in SUBSET Msgs
        BY <1>4
      <4>. QED
        BY <1>4, <4>1 DEF Breaks
    <3>. QED
      BY <3>1 DEF Calling
  <2>3. call' = [b \in Callers |-> call'[b]]
    BY DEF Breaks
  <2>. QED
    BY <2>1, <2>2, <2>3
<1>. QED
  BY <1>1, <1>2, <1>3, <1>5, <1>6

\* Submitting a request keeps the application's types.
LEMMA SubmitTypes ==
    ASSUME HistoryInv, NEW c \in Callers, NEW q \in Requests, Submit(c, q)
    PROVE  /\ queue' \in Seq(Waiting) /\ queue' # <<>>
           /\ answer' \in [Callers -> {"none", "pending", "done", "failed"}]
<1>1. [by |-> c, q |-> q] \in Waiting /\ queue \in Seq(Waiting)
  BY DEF HistoryInv, TypeOK, StoreTypeOK, Waiting
<1>. QED
  BY <1>1 DEF HistoryInv, TypeOK, StoreTypeOK, Submit

LEMMA CallsKeep ==
    ASSUME HistoryInv, NEW c \in Callers, NEW q \in Requests, Calls(c, q)
    PROVE  HistoryInv'
<1>1. at # "down" /\ UNCHANGED <<mem, file, tmp, at>>
  BY DEF Calls, Begin
<1>2. Begin(c, q) /\ Breaks(c, q, "settling") /\ Submit(c, q)
  BY DEF Calls
<1>3. StoreTypeOK'
  BY <1>1, <1>2, SubmitTypes DEF HistoryInv, TypeOK, StoreTypeOK, Waiting
<1>. QED
  BY <1>1, <1>2, <1>3, BeginTypes DEF HistoryInv, TypeOK, Transactions, Calling

LEMMA Inductive == HistoryInv /\ [Next]_vars => HistoryInv'
<1>s. SUFFICES ASSUME HistoryInv PROVE [Next]_vars => HistoryInv'
  OBVIOUS
<1>t. /\ queue \in Seq(Waiting) /\ idb \in Seq(Transactions)
      /\ call \in [Callers -> Calling]
  BY <1>s DEF HistoryInv, TypeOK, StoreTypeOK, Waiting, Transactions, Calling
<1>1. ASSUME NEW c \in Callers, PutMessage(c) PROVE HistoryInv'
  BY <1>s, <1>1, CallsKeep, RequestsAre DEF PutMessage
<1>2. ASSUME NEW c \in Callers, MarkConversation(c) PROVE HistoryInv'
  BY <1>s, <1>2, CallsKeep, RequestsAre DEF MarkConversation
<1>3. ASSUME NEW c \in Callers, Remove(c) PROVE HistoryInv'
  BY <1>s, <1>3, CallsKeep, RequestsAre DEF Remove
<1>4. ASSUME NEW c \in Callers, Clear(c) PROVE HistoryInv'
  BY <1>s, <1>4, CallsKeep, RequestsAre DEF Clear
<1>5. ASSUME NEW c \in Callers, DeleteIfSender(c) PROVE HistoryInv'
  <2>1. PICK q \in Requests : Begin(c, q) /\ Breaks(c, q, "opening")
    BY <1>5, RequestsAre DEF DeleteIfSender
  <2>. QED
    BY <1>s, <1>5, <2>1, BeginTypes
       DEF DeleteIfSender, HistoryInv, TypeOK, StoreTypeOK, storeVars, Transactions, Calling
<1>6. ASSUME NEW c \in Callers, DatabaseOpened(c) PROVE HistoryInv'
  <2>1. /\ UNCHANGED <<mem, file, tmp, at, mirror, indexed, idb, db, calls, promises>>
        /\ at # "down"
    BY <1>s, <1>6 DEF DatabaseOpened, HistoryInv
  <2>2. call' \in [Callers -> Calling]
    <3>1. \/ call' = [call EXCEPT ![c] = Idle]
          \/ call' = [call EXCEPT ![c].at = "settling"]
      BY <1>6 DEF DatabaseOpened
    <3>2. Idle \in Calling /\ [call[c] EXCEPT !.at = "settling"] \in Calling
      <4>1. call[c] \in Calling
        BY <1>t
      <4>. QED
        BY <4>1, RequestsAre DEF Calling
    <3>. QED
      BY <1>t, <3>1, <3>2
  <2>3. StoreTypeOK'
    <3>1. CASE Submit(c, call[c].q)
      <4>1. call[c].q \in Requests
        BY <1>t DEF Calling
      <4>. QED
        BY <1>s, <2>1, <3>1, <4>1, SubmitTypes DEF HistoryInv, TypeOK, StoreTypeOK, Waiting
    <3>2. CASE UNCHANGED <<queue, answer>>
      BY <1>s, <2>1, <3>2 DEF HistoryInv, TypeOK, StoreTypeOK
    <3>. QED
      BY <1>6, <3>1, <3>2 DEF DatabaseOpened
  <2>. QED
    BY <1>s, <2>1, <2>2, <2>3 DEF HistoryInv, TypeOK, Calling, promises
<1>7. ASSUME NEW c \in Callers, Settle(c) PROVE HistoryInv'
  <2>1. /\ call' \in [Callers -> Calling]
        /\ \A b \in Callers : call[b].at = "idle" => call'[b].at = "idle"
    BY <1>t, <1>7, RequestsAre DEF Settle, Idle
  <2>2. kept' \subseteq Msgs /\ removed' \subseteq Msgs /\ seen' \subseteq Msgs
    <3>1. call[c].of \subseteq Msgs
      BY <1>t DEF Calling
    <3>. QED
      BY <1>s, <1>7, <3>1 DEF Settle, HistoryInv, TypeOK
  <2>3. StoreTypeOK'
    BY <1>s, <1>7 DEF Settle, HistoryInv, TypeOK, StoreTypeOK
  <2>. QED
    BY <1>s, <1>7, <2>1, <2>2, <2>3 DEF Settle, HistoryInv, TypeOK, Transactions, Calling
<1>8. CASE OpenDatabase
  BY <1>s, <1>8 DEF OpenDatabase, storeVars, promises, HistoryInv, TypeOK, StoreTypeOK
<1>9. CASE Transaction
  <2>1. /\ idb[1] \in Transactions
        /\ idb' \in Seq(Transactions)
    <3>1. idb # <<>> /\ idb' = Tail(idb)
      BY <1>9 DEF Transaction
    <3>. QED
      BY <1>t, <3>1
  <2>2. call' \in [Callers -> Calling] /\ \A b \in Callers : call'[b].at = call[b].at
    <3>1. PICK a \in {"done", "failed"} : call' = [call EXCEPT ![idb[1].by].idb = a]
      BY <1>9 DEF Transaction
    <3>2. idb[1].by \in Callers /\ \A b \in Callers : call[b] \in Calling
      BY <1>t, <2>1 DEF Transactions
    <3>3. ASSUME NEW b \in Callers PROVE call'[b] \in Calling /\ call'[b].at = call[b].at
      <4>1. call'[b] = call[b] \/ call'[b] = [call[b] EXCEPT !.idb = a]
        BY <1>t, <3>1, <3>2
      <4>. QED
        BY <3>2, <4>1 DEF Calling
    <3>4. call' = [b \in Callers |-> call'[b]]
      BY <1>t, <3>1
    <3>. QED
      BY <3>3, <3>4
  <2>3. indexed' \in Data
    BY <1>s, <1>9, <2>1, TablesStay DEF Transaction, Transactions, HistoryInv, TypeOK
  <2>. QED
    BY <1>s, <1>9, <2>1, <2>2, <2>3
       DEF Transaction, storeVars, promises, HistoryInv, TypeOK, StoreTypeOK, Transactions,
           Calling
<1>10. ASSUME UNCHANGED <<clientVars, promises>>, StoreTypeOK',
              at' = "written" => tmp' = mem', at' # "down"
       PROVE  HistoryInv'
  BY <1>s, <1>10 DEF clientVars, promises, HistoryInv, TypeOK
<1>11. CASE Write /\ UNCHANGED <<clientVars, promises>>
  BY <1>s, <1>10, <1>11 DEF Write, HistoryInv, TypeOK, StoreTypeOK
<1>12. ASSUME NEW a \in {"done", "failed"}, Answers(a), queue # <<>>
       PROVE  /\ queue' \in Seq(Waiting)
              /\ answer' \in [Callers -> {"none", "pending", "done", "failed"}]
  <2>1. queue' \in Seq(Waiting)
    BY <1>t, <1>12 DEF Answers
  <2>. QED
    BY <1>s, <1>12, <2>1, AnswersTell DEF HistoryInv, TypeOK, StoreTypeOK
<1>13. CASE Rename /\ UNCHANGED <<clientVars, promises>>
  <2>1. queue # <<>> /\ tmp = mem /\ Answers("done")
    BY <1>s, <1>13 DEF Rename, HistoryInv, TypeOK, StoreTypeOK
  <2>2. StoreTypeOK'
    BY <1>s, <1>12, <1>13, <2>1 DEF Rename, HistoryInv, TypeOK, StoreTypeOK, Waiting
  <2>. QED
    BY <1>10, <1>13, <2>2 DEF Rename
<1>14. CASE PersistFails /\ UNCHANGED <<clientVars, promises>>
  <2>1. queue # <<>> /\ Answers("failed")
    BY <1>s, <1>14 DEF PersistFails, HistoryInv, TypeOK, StoreTypeOK
  <2>2. StoreTypeOK'
    BY <1>s, <1>12, <1>14, <2>1 DEF PersistFails, HistoryInv, TypeOK, StoreTypeOK, Waiting
  <2>. QED
    BY <1>10, <1>14, <2>2 DEF PersistFails
<1>r. CASE Refuses /\ UNCHANGED <<clientVars, promises>>
  <2>1. queue # <<>> /\ Answers("failed")
    BY <1>r DEF Refuses
  <2>2. StoreTypeOK'
    BY <1>s, <1>12, <1>r, <2>1 DEF Refuses, HistoryInv, TypeOK, StoreTypeOK, Waiting
  <2>. QED
    BY <1>10, <1>r, <2>2 DEF Refuses
<1>15. CASE Load /\ UNCHANGED <<clientVars, promises>>
  BY <1>s, <1>10, <1>15, WholeFileLoads DEF Load, HistoryInv, TypeOK, StoreTypeOK
<1>16. CASE Works
  <2>1. queue[1] \in Waiting /\ queue # <<>>
    BY <1>t, <1>16 DEF Works, Work
  <2>2. mem' \in Data
    BY <1>s, <1>16, <2>1, TablesStay DEF Works, Work, Waiting, HistoryInv, TypeOK, StoreTypeOK
  <2>3. StoreTypeOK' /\ at' = "changed"
    BY <1>s, <1>16, <2>1, <2>2 DEF Works, Work, HistoryInv, TypeOK, StoreTypeOK
  <2>4. call' \in [Callers -> Calling] /\ kept' \subseteq Msgs
    BY <1>s, <1>t, <1>16 DEF Works, Calling, HistoryInv, TypeOK
  <2>. QED
    BY <1>s, <1>16, <2>3, <2>4 DEF Works, HistoryInv, TypeOK, Transactions, Calling
<1>17. ASSUME Leaves PROVE /\ call' \in [Callers -> Calling]
                           /\ \A c \in Callers : call'[c].at = "idle"
                           /\ idb' \in Seq(Transactions)
                           /\ db' = "opening" /\ UNCHANGED <<mirror, indexed, calls, promises>>
  BY <1>17, RequestsAre DEF Leaves, Idle
<1>18. CASE Reload
  <2>1. /\ queue' \in Seq(Waiting) /\ (queue # <<>> => queue' # <<>>)
        /\ answer' \in [Callers -> {"none", "pending", "done", "failed"}]
    <3>1. ASSUME NEW i \in 1..Len(queue) PROVE [queue[i] EXCEPT !.by = Nobody] \in Waiting
      <4>1. queue[i] \in Waiting
        BY <1>t
      <4>. QED
        BY <4>1 DEF Waiting
    <3>2. queue' = [i \in 1..Len(queue) |-> [queue[i] EXCEPT !.by = Nobody]]
      BY <1>t, <1>18 DEF Reload, Forget
    <3>. QED
      BY <1>t, <1>18, <3>1, <3>2 DEF Reload, Forget
  <2>. QED
    BY <1>s, <1>17, <1>18, <2>1
       DEF Reload, Forget, promises, HistoryInv, TypeOK, StoreTypeOK, Transactions, Calling,
           Waiting
<1>19. CASE Quit
  BY <1>s, <1>17, <1>19, WholeFileLoads
     DEF Quit, Crash, promises, HistoryInv, TypeOK, StoreTypeOK, Transactions, Calling
<1>20. CASE UNCHANGED vars
  BY <1>s, <1>20 DEF vars, storeVars, clientVars, promises, HistoryInv, TypeOK, StoreTypeOK
<1>. QED
  BY <1>1, <1>2, <1>3, <1>4, <1>5, <1>6, <1>7, <1>8, <1>9, <1>11, <1>13, <1>14, <1>r, <1>15,
     <1>16, <1>18, <1>19, <1>20 DEF Next, ClientStep

LEMMA HistoryInvHolds == Spec => []HistoryInv
<1>1. Init => HistoryInv
  <2>1. ASSUME Init PROVE call \in [Callers -> Calling]
    BY <2>1, RequestsAre DEF Init
  <2>2. Init => StoreTypeOK
    BY WholeFileLoads DEF Init, StoreInit, StoreTypeOK
  <2>3. ASSUME Init PROVE mirror \in Data /\ indexed \in Data /\ at = "idle"
    BY <2>3, WholeFileLoads DEF Init, StoreInit
  <2>4. Init => calls \in 0..MaxCalls /\ idb \in Seq(Transactions)
    BY MirrorAssumption DEF Init
  <2>. QED
    BY <2>1, <2>2, <2>3, <2>4 DEF Init, HistoryInv, TypeOK, Transactions, Calling
<1>. QED
  BY <1>1, Inductive, PTL DEF Spec

\* The tables, transactions, requests and answers of the local history have their types:
\* the file is never a torn one, and a request under way is one of the queue.
THEOREM HistoryTypes == Spec => []TypeOK
  BY HistoryInvHolds, PTL DEF HistoryInv

------------------------------------------------------------------------------
dvars == <<mem, Loaded(file), IF at \in {"changed", "written"} THEN "busy" ELSE at, answer>>

LEMMA DurableStep == HistoryInv /\ [Next]_vars => [Durable!Next]_dvars
<1>s. SUFFICES ASSUME HistoryInv, Next PROVE [Durable!Next]_dvars
  BY DEF dvars, vars, storeVars
<1>t. /\ answer \in [Callers -> {"none", "pending", "done", "failed"}]
      /\ file \in Data /\ mem \in Data /\ at \in {"idle", "changed", "written", "down"}
  BY <1>s DEF HistoryInv, TypeOK, StoreTypeOK
<1>1. ASSUME NEW c \in Callers, NEW q, Submit(c, q), UNCHANGED <<mem, file, tmp, at>>,
             at # "down"
      PROVE  Durable!Next
  BY <1>1 DEF Submit, Durable!Next, Durable!Ask
<1>2. ASSUME NEW c \in Callers, NEW q, Calls(c, q) PROVE Durable!Next
  BY <1>1, <1>2 DEF Calls, Begin
<1>3. ASSUME NEW c \in Callers, ClientStep(c) PROVE [Durable!Next]_dvars
  <2>1. CASE DeleteIfSender(c)
    BY <2>1 DEF DeleteIfSender, storeVars, dvars
  <2>2. CASE DatabaseOpened(c)
    <3>1. at # "down" /\ UNCHANGED <<mem, file, tmp, at>>
      BY <1>s, <2>2 DEF DatabaseOpened, HistoryInv
    <3>2. CASE UNCHANGED answer
      BY <3>1, <3>2 DEF dvars
    <3>. QED
      BY <1>1, <2>2, <3>1, <3>2 DEF DatabaseOpened
  <2>3. CASE Settle(c)
    BY <2>3 DEF Settle, Durable!Next, Durable!Take
  <2>. QED
    BY <1>2, <1>3, <2>1, <2>2, <2>3
       DEF ClientStep, PutMessage, MarkConversation, Remove, Clear
<1>4. CASE OpenDatabase \/ Transaction
  BY <1>4 DEF OpenDatabase, Transaction, storeVars, dvars
<1>5. CASE Write
  BY <1>5 DEF Write, dvars
<1>6. CASE Rename
  <2>1. tmp = mem /\ at = "written" /\ at' = "idle" /\ file' = tmp /\ mem' = mem
    BY <1>s, <1>6 DEF Rename, HistoryInv
  <2>2. Loaded(file') = mem
    BY <1>t, <2>1, WholeFileLoads
  <2>3. Durable!Tell("done")
    BY <1>t, <1>6, AnswersTell DEF Rename, Durable!Tell
  <2>. QED
    BY <2>1, <2>2, <2>3 DEF Durable!Next, Durable!Save
<1>7. CASE PersistFails
  <2>1. Durable!Tell("failed")
    BY <1>t, <1>7, AnswersTell DEF PersistFails, Durable!Tell
  <2>. QED
    BY <1>7, <2>1 DEF PersistFails, Durable!Next, Durable!Reject
<1>r. CASE Refuses
  <2>1. Durable!Tell("failed")
    BY <1>t, <1>r, AnswersTell DEF Refuses, Durable!Tell
  <2>. QED
    BY <1>r, <2>1 DEF Refuses, Durable!Next, Durable!Reject
<1>8. CASE Load
  BY <1>8 DEF Load, Durable!Next, Durable!Start
<1>9. CASE Works
  <2>1. mem' \in Data
    BY <1>s, <1>9, Inductive DEF HistoryInv, TypeOK, StoreTypeOK
  <2>. QED
    BY <1>9, <2>1 DEF Works, Work, Durable!Next, Durable!Change
<1>10. CASE Reload
  BY <1>10 DEF Reload, Forget, Durable!Next, Durable!Leave, Durable!NoAnswers
<1>11. CASE Quit
  BY <1>t, <1>11, WholeFileLoads
     DEF Quit, Crash, Durable!Next, Durable!End, Durable!NoAnswers
<1>. QED
  BY <1>s, <1>3, <1>4, <1>5, <1>6, <1>7, <1>r, <1>8, <1>9, <1>10, <1>11 DEF Next

\* The desktop history implements DurableHistory: the application may be killed at any
\* instruction of persist, and what it loads then is a table that a request left, whole,
\* and never older than one whose request was answered as done.
THEOREM HistoryIsDurable == Spec => FileIsWhole
<1>1. Init => Durable!Init
  BY WholeFileLoads DEF Init, StoreInit, Durable!Init, Durable!NoAnswers
<1>. QED
  BY <1>1, DurableStep, HistoryInvHolds, PTL DEF Spec, FileIsWhole, Durable!Spec, dvars
------------------------------------------------------------------------------
(* What the calls promise.                                                 *)

Ops == {"put", "read", "delete"}

\* What a call of op has made of a record, and the requests that undo it.
Good(op, flag) ==
    CASE op = "put"    -> flag # "none"
      [] op = "read"   -> flag # "unread"
      [] op = "delete" -> flag = "none"

Undoes(q, op, m) == m \in q.of /\ q.op = IF op = "put" THEN "delete" ELSE "put"

\* The messages of which a promise of op holds.
Held(op) == CASE op = "put" -> kept [] op = "read" -> seen [] op = "delete" -> removed

\* Nothing that waits in s, or waits there behind the request of c, undoes op.
Clean(s, op, m)       == \A i \in 1..Len(s) : ~Undoes(s[i].q, op, m)
CleanBehind(s, c, op, m) ==
    \A i, j \in 1..Len(s) : s[i].by = c /\ i < j => ~Undoes(s[j].q, op, m)

Absent(s, c) == \A i \in 1..Len(s) : s[i].by # c

\* The request q of c is in s once, if c waits for it, and what undoes it for one of the
\* messages of stands before it.
InOrder(s, c, q, of, waits) ==
    /\ \A i \in 1..Len(s) : s[i].by = c => s[i].q = q
    /\ \A i, j \in 1..Len(s) : s[i].by = c /\ s[j].by = c => i = j
    /\ \A m \in of : CleanBehind(s, c, q.op, m)
    /\ ~waits => Absent(s, c) /\ \A m \in of : Clean(s, q.op, m)

\* The file has what op has made of m, and the table, of which it will be a copy.
InStore(op, m) == (at # "down" => Good(op, mem[m])) /\ Good(op, file[m])

\* No deletion of m waits for the database, to be submitted after what comes now.
NoneBehind(m) == \A c \in Callers : call[c].at = "opening" => m \notin call[c].q.of

ShapeOK ==
    \A c \in Callers :
        /\ call[c].of \subseteq call[c].q.of
        /\ call[c].at = "idle" => call[c].idb # "pending" /\ call[c].of = {}
        /\ call[c].at = "opening" => call[c].q.op = "delete"
        /\ answer[c] # "none" => call[c].at = "settling"

MirrorOK ==
    /\ \A c \in Callers : \A m \in call[c].of :
          call[c].q.op # "put" => Good(call[c].q.op, mirror[m])
    /\ \A op \in Ops \ {"put"} : \A m \in Held(op) : Good(op, mirror[m])

\* IndexedDB has what it has answered as done, and nothing left undoes it; without a
\* database nothing left is done.
IdbOK == db # "refused" =>
    /\ \A c \in Callers :
          InOrder(idb, c, call[c].q, call[c].of, call[c].idb = "pending")
    /\ \A op \in Ops : \A m \in Held(op) : Clean(idb, op, m)

IndexedOK ==
    /\ \A c \in Callers : call[c].idb = "done" =>
          db = "open" /\ \A m \in call[c].of : Good(call[c].q.op, indexed[m])
    /\ \A op \in Ops \ {"put"} : \A m \in Held(op) : Good(op, indexed[m])

\* The same of the application; of a call that has not asked it yet, nothing.
Asked(c) == IF call[c].at = "opening" THEN {} ELSE call[c].of

QueueOK ==
    /\ \A c \in Callers : InOrder(queue, c, call[c].q, Asked(c), answer[c] = "pending")
    /\ \A op \in Ops : \A m \in Held(op) : Clean(queue, op, m)

StoreOK ==
    /\ \A c \in Callers : \A m \in call[c].of :
          /\ answer[c] = "done" => InStore(call[c].q.op, m)
          /\ at \in {"changed", "written"} /\ queue[1].by = c => Good(call[c].q.op, mem[m])
    /\ \A op \in Ops \ {"put"} : \A m \in Held(op) : InStore(op, m)

PutOK ==
    /\ \A c \in Callers : call[c].q.op = "put" => \A m \in call[c].of : NoneBehind(m)
    /\ \A m \in kept : NoneBehind(m) /\ (Good("put", indexed[m]) \/ InStore("put", m))

PromiseInv == /\ ShapeOK /\ MirrorOK /\ IdbOK /\ IndexedOK /\ QueueOK /\ StoreOK /\ PutOK

------------------------------------------------------------------------------
(* Requests that wait.                                                     *)

\* A request of somebody else that undoes nothing joins.
LEMMA AppendOther ==
    ASSUME NEW S, NEW s \in Seq(S), NEW e, NEW c, NEW q, NEW of, NEW of1, NEW w,
           InOrder(s, c, q, of, w), e.by # c, of1 \subseteq of,
           \A m \in of1 : ~Undoes(e.q, q.op, m)
    PROVE  InOrder(Append(s, e), c, q, of1, w)
<1> DEFINE t == Append(s, e)
<1>1. /\ Len(t) = Len(s) + 1 /\ Len(s) \in Nat
      /\ \A i \in 1..Len(s) : t[i] = s[i]
      /\ t[Len(s) + 1] = e
  OBVIOUS
<1> HIDE DEF t
<1>2. /\ \A i \in 1..Len(t) : t[i].by = c => i \in 1..Len(s) /\ t[i] = s[i]
      /\ \A i \in 1..Len(t) : i \in 1..Len(s) \/ t[i] = e
  BY <1>1
<1>3. InOrder(t, c, q, of1, w)
  <2>1. \A i \in 1..Len(t) : t[i].by = c => t[i].q = q
    BY <1>2 DEF InOrder
  <2>2. \A i, j \in 1..Len(t) : t[i].by = c /\ t[j].by = c => i = j
    BY <1>2 DEF InOrder
  <2>3. ASSUME NEW m \in of1 PROVE CleanBehind(t, c, q.op, m)
    BY <1>1, <1>2 DEF InOrder, CleanBehind
  <2>4. ASSUME ~w PROVE Absent(t, c) /\ \A m \in of1 : Clean(t, q.op, m)
    BY <1>1, <1>2, <2>4 DEF InOrder, Absent, Clean
  <2>. QED
    BY <2>1, <2>2, <2>3, <2>4 DEF InOrder
<1>. QED
  BY <1>3 DEF t

\* Whoever is not in s joins.
LEMMA AppendOwn ==
    ASSUME NEW S, NEW s \in Seq(S), NEW c, NEW q, NEW of, Absent(s, c)
    PROVE  InOrder(Append(s, [by |-> c, q |-> q]), c, q, of, TRUE)
<1> DEFINE t == Append(s, [by |-> c, q |-> q])
<1>1. /\ Len(t) = Len(s) + 1 /\ Len(s) \in Nat
      /\ \A i \in 1..Len(s) : t[i] = s[i]
      /\ t[Len(s) + 1] = [by |-> c, q |-> q]
  OBVIOUS
<1> HIDE DEF t
<1>2. \A i \in 1..Len(t) : t[i].by = c => i = Len(s) + 1 /\ t[i].q = q
  BY <1>1 DEF Absent
<1>3. InOrder(t, c, q, of, TRUE)
  BY <1>1, <1>2 DEF InOrder, CleanBehind
<1>. QED
  BY <1>3 DEF t

\* A request that undoes nothing leaves s clean.
LEMMA AppendClean ==
    ASSUME NEW S, NEW s \in Seq(S), NEW e, NEW op, NEW m, Clean(s, op, m), ~Undoes(e.q, op, m)
    PROVE  Clean(Append(s, e), op, m)
<1> DEFINE t == Append(s, e)
<1>1. /\ Len(t) = Len(s) + 1 /\ Len(s) \in Nat
      /\ \A i \in 1..Len(s) : t[i] = s[i]
      /\ t[Len(s) + 1] = e
  OBVIOUS
<1> HIDE DEF t
<1>2. Clean(t, op, m)
  BY <1>1 DEF Clean
<1>. QED
  BY <1>2 DEF t

\* The first request leaves; what waits behind it does not undo it.
LEMMA TailOrder ==
    ASSUME NEW S, NEW s \in Seq(S), s # <<>>, NEW c, NEW q, NEW of, NEW w,
           InOrder(s, c, q, of, w)
    PROVE  /\ InOrder(Tail(s), c, q, of, w)
           /\ s[1].by = c => s[1].q = q /\ InOrder(Tail(s), c, q, of, FALSE)
<1> DEFINE t == Tail(s)
<1>1. /\ Len(s) = Len(t) + 1 /\ Len(t) \in Nat
      /\ \A i \in 1..Len(t) : i + 1 \in 1..Len(s) /\ t[i] = s[i + 1]
      /\ 1 \in 1..Len(s)
  OBVIOUS
<1> HIDE DEF t
<1>2. \A i \in 1..Len(t) : t[i].by = c => t[i].q = q
  BY <1>1 DEF InOrder
<1>3. ASSUME NEW i \in 1..Len(t), NEW j \in 1..Len(t)
      PROVE  /\ t[i].by = c /\ t[j].by = c => i = j
             /\ \A m \in of : t[i].by = c /\ i < j => ~Undoes(t[j].q, q.op, m)
  <2>1. /\ i + 1 \in 1..Len(s) /\ j + 1 \in 1..Len(s)
        /\ t[i] = s[i + 1] /\ t[j] = s[j + 1]
        /\ i < j => i + 1 < j + 1
        /\ i + 1 = j + 1 => i = j
    BY <1>1
  <2>2. s[i + 1].by = c /\ s[j + 1].by = c => i + 1 = j + 1
    BY <2>1 DEF InOrder
  <2>3. \A m \in of : s[i + 1].by = c /\ i + 1 < j + 1 => ~Undoes(s[j + 1].q, q.op, m)
    BY <2>1 DEF InOrder, CleanBehind
  <2>. QED
    BY <2>1, <2>2, <2>3
<1>4. \A m \in of : CleanBehind(t, c, q.op, m)
  BY <1>3 DEF CleanBehind
<1>5. ASSUME ~w PROVE Absent(t, c) /\ \A m \in of : Clean(t, q.op, m)
  <2>1. Absent(s, c) /\ \A m \in of : Clean(s, q.op, m)
    BY <1>5 DEF InOrder
  <2>. QED
    BY <1>1, <2>1 DEF Absent, Clean
<1>6. ASSUME s[1].by = c PROVE s[1].q = q /\ Absent(t, c) /\ \A m \in of : Clean(t, q.op, m)
  <2>1. s[1].q = q
    BY <1>1, <1>6 DEF InOrder
  <2>2. \A i \in 1..Len(s) : s[i].by = c => i = 1
    BY <1>1, <1>6 DEF InOrder
  <2>3. Absent(t, c)
    BY <1>1, <2>2 DEF Absent
  <2>4. ASSUME NEW m \in of PROVE Clean(t, q.op, m)
    <3>1. CleanBehind(s, c, q.op, m)
      BY <2>4 DEF InOrder
    <3>. QED
      BY <1>1, <1>6, <3>1 DEF Clean, CleanBehind
  <2>. QED
    BY <2>1, <2>3, <2>4
<1>7. InOrder(t, c, q, of, w)
  BY <1>2, <1>3, <1>4, <1>5 DEF InOrder
<1>8. s[1].by = c => InOrder(t, c, q, of, FALSE)
  BY <1>2, <1>3, <1>4, <1>6 DEF InOrder
<1>. QED
  BY <1>6, <1>7, <1>8 DEF t

\* The first request of a clean s undoes nothing.
LEMMA TailClean ==
    ASSUME NEW S, NEW s \in Seq(S), s # <<>>, NEW op, NEW m, Clean(s, op, m)
    PROVE  ~Undoes(s[1].q, op, m) /\ Clean(Tail(s), op, m)
<1> DEFINE t == Tail(s)
<1>1. /\ Len(s) = Len(t) + 1 /\ Len(t) \in Nat
      /\ \A i \in 1..Len(t) : i + 1 \in 1..Len(s) /\ t[i] = s[i + 1]
      /\ 1 \in 1..Len(s)
  OBVIOUS
<1> HIDE DEF t
<1>2. ~Undoes(s[1].q, op, m) /\ Clean(t, op, m)
  BY <1>1 DEF Clean
<1>. QED
  BY <1>2 DEF t

\* Who is not in s finds it in order.
LEMMA AbsentOrder ==
    ASSUME NEW s, NEW c, NEW q, NEW w, Absent(s, c)
    PROVE  InOrder(s, c, q, {}, w)
  BY DEF Absent, InOrder

\* Who promises less is in order.
LEMMA FewerInOrder ==
    ASSUME NEW s, NEW c, NEW q, NEW of, NEW w, NEW of1 \in SUBSET of, InOrder(s, c, q, of, w)
    PROVE  InOrder(s, c, q, of1, w)
  BY DEF InOrder

\* What a request makes of the records.
LEMMA GoodStays ==
    ASSUME NEW q \in Requests, NEW d \in Data, NEW op \in Ops, NEW m \in Msgs
    PROVE  /\ ~Undoes(q, op, m) /\ Good(op, d[m]) => Good(op, Apply(q, d)[m])
           /\ m \in q.of => Good(q.op, Apply(q, d)[m])
           /\ \A k : op # "put" /\ Good(op, d[m]) => Good(op, Newest(k, d)[m])
<1>1. q.op \in {"put", "read", "delete"}
  BY DEF Requests
<1>2. Apply(q, d)[m] = IF m \notin q.of THEN d[m]
                       ELSE CASE q.op = "put"    -> IF q.read THEN "read" ELSE "unread"
                              [] q.op = "read"   -> IF d[m] = "none" THEN "none" ELSE "read"
                              [] q.op = "delete" -> "none"
  BY DEF Apply
<1>3. \A k : Newest(k, d)[m] \in {d[m], "none"}
  BY DEF Newest
<1>4. op = "put" \/ op = "read" \/ op = "delete"
  BY DEF Ops
<1>5. ~Undoes(q, op, m) /\ Good(op, d[m]) => Good(op, Apply(q, d)[m])
  BY <1>1, <1>2, <1>4 DEF Undoes, Good
<1>6. m \in q.of => Good(q.op, Apply(q, d)[m])
  BY <1>1, <1>2 DEF Good
<1>. QED
  BY <1>3, <1>4, <1>5, <1>6 DEF Good

------------------------------------------------------------------------------
(* The steps.                                                              *)

\* What the types say of a caller, and of the messages promised.
LEMMA CallerTypes ==
    ASSUME HistoryInv, NEW c \in Callers
    PROVE  /\ call[c].q \in Requests /\ call[c].q.op \in Ops
           /\ call[c].of \subseteq Msgs /\ call[c].q.of \subseteq Msgs
           /\ call[c].at \in {"idle", "opening", "settling"}
           /\ call[c].idb \in {"none", "pending", "done", "failed"}
<1>1. call[c] \in Calling
  BY DEF HistoryInv, TypeOK, Calling
<1>. QED
  BY <1>1 DEF Calling, Requests, Ops

LEMMA HeldTypes ==
    ASSUME HistoryInv, NEW op \in Ops
    PROVE  Held(op) \subseteq Msgs
  BY DEF HistoryInv, TypeOK, Held, Ops

\* A call that begins undoes no promise that is still given afterwards.
LEMMA BreaksOnlyUndone ==
    ASSUME HistoryInv, NEW c \in Callers, NEW q \in Requests, NEW w, Breaks(c, q, w)
    PROVE  /\ \A b \in Callers \ {c} :
                /\ call'[b].at = call[b].at /\ call'[b].q = call[b].q
                /\ call'[b].idb = call[b].idb /\ call'[b].of \subseteq call[b].of
                /\ \A m \in call'[b].of : ~Undoes(q, call[b].q.op, m)
           /\ call'[c].at = w /\ call'[c].q = q /\ call'[c].idb = "pending"
           /\ call'[c].of \subseteq q.of
           /\ q.op = "put" => \A m \in call'[c].of : NoneBehind(m)
           /\ \A op \in Ops : \A m \in Held(op)' : m \in Held(op) /\ ~Undoes(q, op, m)
<1>1. q.op \in Ops
  BY DEF Requests, Ops
<1>2. ASSUME NEW b \in Callers \ {c}
      PROVE  /\ call'[b].at = call[b].at /\ call'[b].q = call[b].q
             /\ call'[b].idb = call[b].idb /\ call'[b].of \subseteq call[b].of
             /\ \A m \in call'[b].of : ~Undoes(q, call[b].q.op, m)
  <2> DEFINE undone == \/ q.op = "put" /\ call[b].q.op # "put"
                       \/ q.op = "delete" /\ call[b].q.op # "delete"
  <2>1. call'[b] = IF undone THEN [call[b] EXCEPT !.of = @ \ q.of] ELSE call[b]
    BY <1>2 DEF Breaks
  <2>2. call[b] \in Calling
    BY DEF HistoryInv, TypeOK, Calling
  <2>3. CASE undone
    <3>1. call'[b] = [call[b] EXCEPT !.of = @ \ q.of]
      BY <2>1, <2>3
    <3>. QED
      BY <2>2, <3>1 DEF Calling, Undoes
  <2>4. CASE ~undone
    BY <1>1, <2>1, <2>4, CallerTypes DEF Undoes, Ops
  <2>. QED
    BY <2>3, <2>4
<1>3. /\ call'[c].at = w /\ call'[c].q = q /\ call'[c].idb = "pending"
      /\ call'[c].of \subseteq q.of
  BY DEF Breaks
<1>4. ASSUME q.op = "put", NEW m \in call'[c].of PROVE NoneBehind(m)
  <2>1. m \notin UNION {call[b].q.of : b \in {b \in Callers : call[b].at = "opening"}}
    BY <1>4 DEF Breaks
  <2>. QED
    BY <2>1 DEF NoneBehind
<1>5. ASSUME NEW op \in Ops, NEW m \in Held(op)' PROVE m \in Held(op) /\ ~Undoes(q, op, m)
  <2>1. CASE op = "put"
    BY <1>5, <2>1 DEF Held, Breaks, Undoes
  <2>2. CASE op = "read"
    BY <1>5, <2>2 DEF Held, Breaks, Undoes
  <2>3. CASE op = "delete"
    BY <1>5, <2>3 DEF Held, Breaks, Undoes
  <2>. QED
    BY <2>1, <2>2, <2>3 DEF Ops
<1>. QED
  BY <1>2, <1>3, <1>4, <1>5

\* A call that begins, whatever it asks for: the mirror and IndexedDB.
LEMMA BeginPromises ==
    ASSUME HistoryInv, PromiseInv, NEW c \in Callers, NEW q \in Requests, NEW w,
           Begin(c, q), Breaks(c, q, w)
    PROVE  MirrorOK' /\ IdbOK' /\ IndexedOK'
<1>b. /\ \A b \in Callers \ {c} :
           /\ call'[b].at = call[b].at /\ call'[b].q = call[b].q
           /\ call'[b].idb = call[b].idb /\ call'[b].of \subseteq call[b].of
           /\ \A m \in call'[b].of : ~Undoes(q, call[b].q.op, m)
      /\ call'[c].q = q /\ call'[c].idb = "pending" /\ call'[c].of \subseteq q.of
      /\ \A op \in Ops : \A m \in Held(op)' : m \in Held(op) /\ ~Undoes(q, op, m)
  BY BreaksOnlyUndone
<1>t. mirror \in Data /\ indexed \in Data /\ q.of \subseteq Msgs /\ q.op \in Ops
  BY DEF HistoryInv, TypeOK, Requests, Ops
<1>1. MirrorOK'
  <2>1. PICK k : mirror' = Newest(k, Apply(q, mirror))
    BY DEF Begin, SaveMirror
  <2>2. ASSUME NEW op \in Ops \ {"put"}, NEW m \in Msgs, Good(op, mirror[m]), ~Undoes(q, op, m)
        PROVE  Good(op, mirror'[m])
    <3>1. Apply(q, mirror) \in Data
      BY <1>t, TablesStay
    <3>. QED
      BY <1>t, <2>1, <2>2, <3>1, GoodStays
  <2>3. ASSUME NEW m \in q.of, q.op # "put" PROVE Good(q.op, mirror'[m])
    <3>1. Apply(q, mirror) \in Data
      BY <1>t, TablesStay
    <3>. QED
      BY <1>t, <2>1, <2>3, <3>1, GoodStays
  <2>4. ASSUME NEW b \in Callers, NEW m \in call'[b].of, call'[b].q.op # "put"
        PROVE  Good(call'[b].q.op, mirror'[m])
    <3>1. CASE b = c
      BY <1>b, <2>3, <2>4, <3>1
    <3>2. CASE b # c
      <4>1. /\ m \in call[b].of /\ call[b].q.op # "put" /\ call'[b].q = call[b].q
            /\ ~Undoes(q, call[b].q.op, m)
        BY <1>b, <2>4, <3>2
      <4>2. Good(call[b].q.op, mirror[m])
        BY <4>1 DEF PromiseInv, MirrorOK
      <4>. QED
        BY <2>2, <4>1, <4>2, CallerTypes
    <3>. QED
      BY <3>1, <3>2
  <2>5. ASSUME NEW op \in Ops \ {"put"}, NEW m \in Held(op)' PROVE Good(op, mirror'[m])
    <3>1. m \in Held(op) /\ ~Undoes(q, op, m)
      BY <1>b, <2>5
    <3>2. Good(op, mirror[m]) /\ m \in Msgs
      BY <3>1, HeldTypes DEF PromiseInv, MirrorOK
    <3>. QED
      BY <2>2, <3>1, <3>2
  <2>. QED
    BY <2>4, <2>5 DEF MirrorOK
<1>2. IdbOK'
  <2>s. SUFFICES ASSUME db # "refused"
        PROVE  /\ \A b \in Callers :
                     InOrder(idb', b, call'[b].q, call'[b].of, call'[b].idb = "pending")
               /\ \A op \in Ops : \A m \in Held(op)' : Clean(idb', op, m)
    BY DEF IdbOK, Begin
  <2>1. idb \in Seq(Transactions) /\ idb' = Append(idb, [by |-> c, q |-> q])
    BY DEF HistoryInv, TypeOK, Transactions, Begin
  <2>2. ASSUME NEW b \in Callers
        PROVE  InOrder(idb, b, call[b].q, call[b].of, call[b].idb = "pending")
    BY <2>s DEF PromiseInv, IdbOK
  <2>3. ASSUME NEW b \in Callers \ {c}
        PROVE  InOrder(idb', b, call'[b].q, call'[b].of, call'[b].idb = "pending")
    <3>1. InOrder(idb', b, call[b].q, call'[b].of, call[b].idb = "pending")
      BY <1>b, <2>1, <2>2, AppendOther
    <3>. QED
      BY <1>b, <3>1
  <2>4. InOrder(idb', c, call'[c].q, call'[c].of, call'[c].idb = "pending")
    <3>1. call[c].idb # "pending"
      BY DEF Begin, PromiseInv, ShapeOK
    <3>2. Absent(idb, c)
      BY <2>2, <3>1 DEF InOrder
    <3>3. InOrder(idb', c, q, call'[c].of, TRUE)
      BY <2>1, <3>2, AppendOwn
    <3>. QED
      BY <1>b, <3>3
  <2>5. ASSUME NEW op \in Ops, NEW m \in Held(op)' PROVE Clean(idb', op, m)
    <3>1. m \in Held(op) /\ ~Undoes(q, op, m)
      BY <1>b
    <3>2. Clean(idb, op, m)
      BY <2>s, <3>1 DEF PromiseInv, IdbOK
    <3>. QED
      BY <2>1, <3>1, <3>2, AppendClean
  <2>. QED
    BY <2>3, <2>4, <2>5
<1>3. IndexedOK'
  <2>1. indexed' = indexed /\ db' = db
    BY DEF Begin
  <2>2. ASSUME NEW b \in Callers, call'[b].idb = "done"
        PROVE  db' = "open" /\ \A m \in call'[b].of : Good(call'[b].q.op, indexed'[m])
    <3>1. b # c
      BY <1>b, <2>2
    <3>. QED
      BY <1>b, <2>1, <2>2, <3>1 DEF PromiseInv, IndexedOK
  <2>3. ASSUME NEW op \in Ops \ {"put"}, NEW m \in Held(op)' PROVE Good(op, indexed'[m])
    BY <1>b, <2>1, <2>3 DEF PromiseInv, IndexedOK
  <2>. QED
    BY <2>2, <2>3 DEF IndexedOK
<1>. QED
  BY <1>1, <1>2, <1>3

\* A request that is submitted waits behind all others, and one that was answered as
\* done stays done.
LEMMA CallsPromises ==
    ASSUME HistoryInv, PromiseInv, NEW c \in Callers, NEW q \in Requests, Calls(c, q)
    PROVE  PromiseInv'
<1>a. Begin(c, q) /\ Breaks(c, q, "settling") /\ Submit(c, q) /\ UNCHANGED <<mem, file, tmp, at>>
  BY DEF Calls
<1>b. /\ \A b \in Callers \ {c} :
           /\ call'[b].at = call[b].at /\ call'[b].q = call[b].q
           /\ call'[b].idb = call[b].idb /\ call'[b].of \subseteq call[b].of
           /\ \A m \in call'[b].of : ~Undoes(q, call[b].q.op, m)
      /\ call'[c].at = "settling" /\ call'[c].q = q /\ call'[c].idb = "pending"
      /\ call'[c].of \subseteq q.of
      /\ q.op = "put" => \A m \in call'[c].of : NoneBehind(m)
      /\ \A op \in Ops : \A m \in Held(op)' : m \in Held(op) /\ ~Undoes(q, op, m)
  BY <1>a, BreaksOnlyUndone
<1>c. /\ answer'[c] = "pending" /\ \A b \in Callers \ {c} : answer'[b] = answer[b]
      /\ answer[c] = "none" /\ call[c].at = "idle"
      /\ queue \in Seq(Waiting) /\ queue' = Append(queue, [by |-> c, q |-> q])
      /\ Absent(queue, c)
  <2>1. answer[c] = "none" /\ call[c].at = "idle"
    BY <1>a DEF Begin, PromiseInv, ShapeOK
  <2>2. Absent(queue, c)
    BY <2>1 DEF PromiseInv, QueueOK, InOrder
  <2>. QED
    BY <1>a, <2>1, <2>2 DEF Submit, HistoryInv, TypeOK, StoreTypeOK, Waiting
<1>1. ShapeOK'
  BY <1>b, <1>c DEF ShapeOK, PromiseInv
<1>2. QueueOK'
  <2>1. ASSUME NEW b \in Callers \ {c}
        PROVE  InOrder(queue', b, call'[b].q, Asked(b)', answer'[b] = "pending")
    <3>1. InOrder(queue, b, call[b].q, Asked(b), answer[b] = "pending")
      BY DEF PromiseInv, QueueOK
    <3>2. /\ Asked(b)' \subseteq Asked(b)
          /\ \A m \in Asked(b)' : ~Undoes(q, call[b].q.op, m)
      BY <1>b DEF Asked
    <3>3. InOrder(queue', b, call[b].q, Asked(b)', answer[b] = "pending")
      BY <1>c, <3>1, <3>2, AppendOther
    <3>. QED
      BY <1>b, <1>c, <3>3
  <2>2. InOrder(queue', c, call'[c].q, Asked(c)', answer'[c] = "pending")
    <3>1. InOrder(queue', c, q, Asked(c)', TRUE)
      BY <1>c, AppendOwn
    <3>. QED
      BY <1>b, <1>c, <3>1
  <2>3. ASSUME NEW op \in Ops, NEW m \in Held(op)' PROVE Clean(queue', op, m)
    <3>1. m \in Held(op) /\ ~Undoes(q, op, m)
      BY <1>b
    <3>2. Clean(queue, op, m)
      BY <3>1 DEF PromiseInv, QueueOK
    <3>. QED
      BY <1>c, <3>1, <3>2, AppendClean
  <2>. QED
    BY <2>1, <2>2, <2>3 DEF QueueOK
<1>3. StoreOK'
  <2>1. ASSUME at \in {"changed", "written"}
        PROVE  queue'[1] = queue[1] /\ queue[1].by # c
    <3>1. queue # <<>>
      BY <2>1 DEF HistoryInv, TypeOK, StoreTypeOK
    <3>. QED
      BY <1>c, <3>1 DEF Absent
  <2>2. ASSUME NEW b \in Callers, NEW m \in call'[b].of
        PROVE  /\ answer'[b] = "done" => InStore(call[b].q.op, m)'
               /\ at' \in {"changed", "written"} /\ queue'[1].by = b =>
                    Good(call'[b].q.op, mem'[m])
    <3>1. CASE b = c
      BY <1>a, <1>c, <2>1, <3>1
    <3>2. CASE b # c
      BY <1>a, <1>b, <1>c, <2>1, <2>2, <3>2 DEF PromiseInv, StoreOK, InStore
    <3>. QED
      BY <3>1, <3>2
  <2>3. ASSUME NEW op \in Ops \ {"put"}, NEW m \in Held(op)' PROVE InStore(op, m)'
    BY <1>a, <1>b, <2>3 DEF PromiseInv, StoreOK, InStore
  <2>. QED
    BY <2>2, <2>3 DEF StoreOK
<1>4. PutOK'
  <2>1. ASSUME NEW m, NoneBehind(m) PROVE NoneBehind(m)'
    BY <1>b, <2>1 DEF NoneBehind
  <2>2. ASSUME NEW b \in Callers, call'[b].q.op = "put", NEW m \in call'[b].of
        PROVE  NoneBehind(m)
    <3>1. CASE b = c
      BY <1>b, <2>2, <3>1
    <3>2. CASE b # c
      BY <1>b, <2>2, <3>2 DEF PromiseInv, PutOK
    <3>. QED
      BY <3>1, <3>2
  <2>3. ASSUME NEW m \in kept'
        PROVE  NoneBehind(m) /\ (Good("put", indexed'[m]) \/ InStore("put", m)')
    <3>1. m \in kept
      BY <1>b, <2>3 DEF Ops, Held
    <3>2. indexed' = indexed
      BY <1>a DEF Begin
    <3>. QED
      BY <1>a, <3>1, <3>2 DEF PromiseInv, PutOK, InStore
  <2>. QED
    BY <2>1, <2>2, <2>3 DEF PutOK
<1>. QED
  BY <1>a, <1>1, <1>2, <1>3, <1>4, BeginPromises DEF PromiseInv

\* A deletion that has still to ask the application undoes every put from now on.
LEMMA DeleteIfSenderPromises ==
    ASSUME HistoryInv, PromiseInv, NEW c \in Callers, DeleteIfSender(c)
    PROVE  PromiseInv'
<1>a. PICK q \in Requests : Begin(c, q) /\ Breaks(c, q, "opening") /\ q.op = "delete"
  BY RequestsAre DEF DeleteIfSender, Delete, NoDelete
<1>s. UNCHANGED <<mem, queue, file, tmp, at, answer>>
  BY DEF DeleteIfSender, storeVars
<1>b. /\ \A b \in Callers \ {c} :
           /\ call'[b].at = call[b].at /\ call'[b].q = call[b].q
           /\ call'[b].idb = call[b].idb /\ call'[b].of \subseteq call[b].of
           /\ \A m \in call'[b].of : ~Undoes(q, call[b].q.op, m)
      /\ call'[c].at = "opening" /\ call'[c].q = q /\ call'[c].idb = "pending"
      /\ call'[c].of \subseteq q.of
      /\ \A op \in Ops : \A m \in Held(op)' : m \in Held(op) /\ ~Undoes(q, op, m)
  BY <1>a, BreaksOnlyUndone
<1>c. answer[c] = "none" /\ call[c].at = "idle" /\ Absent(queue, c)
  <2>1. answer[c] = "none" /\ call[c].at = "idle"
    BY <1>a DEF Begin, PromiseInv, ShapeOK
  <2>. QED
    BY <2>1 DEF PromiseInv, QueueOK, InOrder
<1>1. ShapeOK'
  BY <1>a, <1>b, <1>c, <1>s DEF ShapeOK, PromiseInv
<1>2. QueueOK'
  <2>1. ASSUME NEW b \in Callers \ {c}
        PROVE  InOrder(queue', b, call'[b].q, Asked(b)', answer'[b] = "pending")
    <3>1. InOrder(queue, b, call[b].q, Asked(b), answer[b] = "pending")
      BY DEF PromiseInv, QueueOK
    <3>2. Asked(b)' \in SUBSET Asked(b)
      BY <1>b DEF Asked
    <3>3. InOrder(queue, b, call[b].q, Asked(b)', answer[b] = "pending")
      BY <3>1, <3>2, FewerInOrder
    <3>. QED
      BY <1>b, <1>s, <3>3
  <2>2. InOrder(queue', c, call'[c].q, Asked(c)', answer'[c] = "pending")
    <3>1. Asked(c)' = {}
      BY <1>b DEF Asked
    <3>. QED
      BY <1>c, <1>s, <3>1, AbsentOrder
  <2>3. ASSUME NEW op \in Ops, NEW m \in Held(op)' PROVE Clean(queue', op, m)
    BY <1>b, <1>s DEF PromiseInv, QueueOK
  <2>. QED
    BY <2>1, <2>2, <2>3 DEF QueueOK
<1>3. StoreOK'
  <2>2. ASSUME NEW b \in Callers, NEW m \in call'[b].of
        PROVE  /\ answer'[b] = "done" => InStore(call[b].q.op, m)'
               /\ at' \in {"changed", "written"} /\ queue'[1].by = b =>
                    Good(call'[b].q.op, mem'[m])
    <3>1. CASE b = c
      <4>1. at \in {"changed", "written"} => queue[1].by # c
        <5>1. at \in {"changed", "written"} => queue # <<>> /\ queue \in Seq(Waiting)
          BY DEF HistoryInv, TypeOK, StoreTypeOK, Waiting
        <5>. QED
          BY <1>c, <5>1 DEF Absent
      <4>. QED
        BY <1>c, <1>s, <3>1, <4>1
    <3>2. CASE b # c
      BY <1>b, <1>s, <2>2, <3>2 DEF PromiseInv, StoreOK, InStore
    <3>. QED
      BY <3>1, <3>2
  <2>3. ASSUME NEW op \in Ops \ {"put"}, NEW m \in Held(op)' PROVE InStore(op, m)'
    BY <1>b, <1>s, <2>3 DEF PromiseInv, StoreOK, InStore
  <2>. QED
    BY <2>2, <2>3 DEF StoreOK
<1>4. PutOK'
  <2>1. ASSUME NEW m, NoneBehind(m), ~Undoes(q, "put", m) PROVE NoneBehind(m)'
    BY <1>a, <1>b, <2>1 DEF NoneBehind, Undoes
  <2>2. ASSUME NEW b \in Callers, call'[b].q.op = "put", NEW m \in call'[b].of
        PROVE  NoneBehind(m) /\ ~Undoes(q, "put", m)
    <3>1. b # c
      BY <1>a, <1>b, <2>2
    <3>. QED
      BY <1>b, <2>2, <3>1 DEF PromiseInv, PutOK
  <2>3. ASSUME NEW m \in kept'
        PROVE  /\ NoneBehind(m) /\ ~Undoes(q, "put", m)
               /\ Good("put", indexed'[m]) \/ InStore("put", m)'
    <3>1. m \in kept /\ ~Undoes(q, "put", m)
      BY <1>b, <2>3 DEF Ops, Held
    <3>2. indexed' = indexed
      BY <1>a DEF Begin
    <3>. QED
      BY <1>s, <3>1, <3>2 DEF PromiseInv, PutOK, InStore
  <2>. QED
    BY <2>1, <2>2, <2>3 DEF PutOK
<1>. QED
  BY <1>a, <1>1, <1>2, <1>3, <1>4, BeginPromises DEF PromiseInv

\* A deletion that has its database submits its request, which no put under way or
\* kept has to fear; without a database it ends.
LEMMA DatabaseOpenedPromises ==
    ASSUME HistoryInv, PromiseInv, NEW c \in Callers, DatabaseOpened(c)
    PROVE  PromiseInv'
<1>s. /\ call[c].at = "opening" /\ UNCHANGED <<mem, file, tmp, at, mirror, indexed, idb, db>>
      /\ UNCHANGED <<kept, removed, seen>>
  BY DEF DatabaseOpened, promises
<1>h. \A op \in Ops : Held(op)' = Held(op)
  BY <1>s DEF Held
<1>c. /\ answer[c] = "none" /\ Absent(queue, c) /\ call[c].q.op = "delete"
      /\ queue \in Seq(Waiting)
  <2>1. answer[c] = "none" /\ call[c].q.op = "delete"
    BY <1>s DEF PromiseInv, ShapeOK
  <2>. QED
    BY <2>1 DEF PromiseInv, QueueOK, InOrder, HistoryInv, TypeOK, StoreTypeOK, Waiting
<1>f. at \in {"changed", "written"} => queue # <<>> /\ queue[1].by # c
  <2>1. at \in {"changed", "written"} => queue # <<>>
    BY DEF HistoryInv, TypeOK, StoreTypeOK
  <2>. QED
    BY <1>c, <2>1 DEF Absent
<1>1. ASSUME db = "open", call' = [call EXCEPT ![c].at = "settling"], Submit(c, call[c].q)
      PROVE  PromiseInv'
  <2>b. /\ \A b \in Callers \ {c} : call'[b] = call[b] /\ answer'[b] = answer[b]
        /\ call'[c].at = "settling" /\ call'[c].q = call[c].q /\ call'[c].idb = call[c].idb
        /\ call'[c].of = call[c].of /\ answer'[c] = "pending"
        /\ queue' = Append(queue, [by |-> c, q |-> call[c].q])
    <3>1. call \in [Callers -> Calling] /\ call[c] \in Calling
      BY DEF HistoryInv, TypeOK, Calling
    <3>2. call'[c] = [call[c] EXCEPT !.at = "settling"]
      BY <1>1, <3>1
    <3>. QED
      BY <1>1, <3>1, <3>2 DEF Submit, HistoryInv, TypeOK, StoreTypeOK, Calling
  <2>1. ShapeOK'
    BY <2>b DEF PromiseInv, ShapeOK
  <2>2. MirrorOK' /\ IdbOK' /\ IndexedOK'
    <3>1. \A b \in Callers : /\ call'[b].q = call[b].q /\ call'[b].of = call[b].of
                             /\ call'[b].idb = call[b].idb
      BY <2>b
    <3>. QED
      BY <1>s, <1>h, <3>1 DEF PromiseInv, MirrorOK, IdbOK, IndexedOK
  <2>3. QueueOK'
    <3>1. ASSUME NEW b \in Callers \ {c}, NEW m \in Asked(b)
          PROVE  ~Undoes(call[c].q, call[b].q.op, m)
      <4>1. call[b].q.op = "put" => m \notin call[c].q.of
        BY <1>s, <3>1 DEF Asked, PromiseInv, PutOK, NoneBehind
      <4>. QED
        BY <1>c, <4>1 DEF Undoes
    <3>2. ASSUME NEW b \in Callers \ {c}
          PROVE  InOrder(queue', b, call'[b].q, Asked(b)', answer'[b] = "pending")
      <4>1. InOrder(queue, b, call[b].q, Asked(b), answer[b] = "pending")
        BY DEF PromiseInv, QueueOK
      <4>2. Asked(b)' = Asked(b)
        BY <2>b DEF Asked
      <4>3. InOrder(queue', b, call[b].q, Asked(b), answer[b] = "pending")
        BY <1>c, <2>b, <3>1, <4>1, AppendOther
      <4>. QED
        BY <2>b, <4>2, <4>3
    <3>3. InOrder(queue', c, call'[c].q, Asked(c)', answer'[c] = "pending")
      <4>1. InOrder(queue', c, call[c].q, Asked(c)', TRUE)
        BY <1>c, <2>b, AppendOwn
      <4>. QED
        BY <2>b, <4>1
    <3>4. ASSUME NEW op \in Ops, NEW m \in Held(op)' PROVE Clean(queue', op, m)
      <4>1. m \in Held(op) /\ Clean(queue, op, m)
        BY <1>h, <3>4 DEF PromiseInv, QueueOK
      <4>2. op = "put" => m \notin call[c].q.of
        BY <1>s, <4>1 DEF Held, PromiseInv, PutOK, NoneBehind
      <4>3. ~Undoes(call[c].q, op, m)
        BY <1>c, <4>2 DEF Undoes
      <4>. QED
        BY <1>c, <2>b, <4>1, <4>3, AppendClean
    <3>. QED
      BY <3>2, <3>3, <3>4 DEF QueueOK
  <2>4. StoreOK'
    <3>1. at \in {"changed", "written"} => queue'[1] = queue[1]
      BY <1>c, <1>f, <2>b
    <3>2. ASSUME NEW b \in Callers, NEW m \in call'[b].of
          PROVE  /\ answer'[b] = "done" => InStore(call[b].q.op, m)'
                 /\ at' \in {"changed", "written"} /\ queue'[1].by = b =>
                      Good(call'[b].q.op, mem'[m])
      <4>1. CASE b = c
        BY <1>s, <1>f, <2>b, <3>1, <4>1
      <4>2. CASE b # c
        BY <1>s, <2>b, <3>1, <3>2, <4>2 DEF PromiseInv, StoreOK, InStore
      <4>. QED
        BY <4>1, <4>2
    <3>3. ASSUME NEW op \in Ops \ {"put"}, NEW m \in Held(op)' PROVE InStore(op, m)'
      BY <1>s, <1>h, <3>3 DEF PromiseInv, StoreOK, InStore
    <3>. QED
      BY <3>2, <3>3 DEF StoreOK
  <2>5. PutOK'
    BY <1>s, <2>b DEF PromiseInv, PutOK, NoneBehind, InStore
  <2>. QED
    BY <2>1, <2>2, <2>3, <2>4, <2>5 DEF PromiseInv
<1>2. ASSUME db = "refused", call' = [call EXCEPT ![c] = Idle], UNCHANGED <<queue, answer>>
      PROVE  PromiseInv'
  <2>b. /\ \A b \in Callers \ {c} : call'[b] = call[b]
        /\ call'[c] = Idle /\ Idle.at = "idle" /\ Idle.of = {} /\ Idle.idb = "none"
        /\ Idle.q.op = "delete"
    BY <1>2 DEF HistoryInv, TypeOK, Idle, NoDelete, Delete
  <2>1. ShapeOK'
    BY <1>2, <1>c, <2>b DEF PromiseInv, ShapeOK
  <2>2. MirrorOK' /\ IdbOK' /\ IndexedOK'
    BY <1>2, <1>s, <1>h, <2>b DEF PromiseInv, MirrorOK, IdbOK, IndexedOK
  <2>3. QueueOK'
    <3>1. ASSUME NEW b \in Callers
          PROVE  InOrder(queue', b, call'[b].q, Asked(b)', answer'[b] = "pending")
      <4>1. CASE b = c
        <5>1. Asked(b)' = {}
          BY <2>b, <4>1 DEF Asked
        <5>. QED
          BY <1>2, <1>c, <4>1, <5>1, AbsentOrder
      <4>2. CASE b # c
        BY <1>2, <2>b, <4>2 DEF PromiseInv, QueueOK, Asked
      <4>. QED
        BY <4>1, <4>2
    <3>2. ASSUME NEW op \in Ops, NEW m \in Held(op)' PROVE Clean(queue', op, m)
      BY <1>2, <1>h, <3>2 DEF PromiseInv, QueueOK
    <3>. QED
      BY <3>1, <3>2 DEF QueueOK
  <2>4. StoreOK'
    BY <1>2, <1>s, <1>h, <2>b DEF PromiseInv, StoreOK, InStore
  <2>5. PutOK'
    BY <1>s, <2>b DEF PromiseInv, PutOK, NoneBehind, InStore
  <2>. QED
    BY <2>1, <2>2, <2>3, <2>4, <2>5 DEF PromiseInv
<1>. QED
  BY <1>1, <1>2 DEF DatabaseOpened

\* A call that ends has kept its promise.
LEMMA SettlePromises ==
    ASSUME HistoryInv, PromiseInv, NEW c \in Callers, Settle(c)
    PROVE  PromiseInv'
<1>s. /\ call[c].at = "settling" /\ call[c].idb # "pending" /\ answer[c] # "pending"
      /\ UNCHANGED <<mem, queue, file, tmp, at, mirror, indexed, idb, db>>
  BY DEF Settle
<1>b. /\ \A b \in Callers \ {c} : call'[b] = call[b] /\ answer'[b] = answer[b]
      /\ call'[c] = Idle /\ Idle.at = "idle" /\ Idle.of = {} /\ Idle.idb = "none"
      /\ Idle.q.op = "delete" /\ answer'[c] = "none"
  BY DEF Settle, HistoryInv, TypeOK, StoreTypeOK, Idle, NoDelete, Delete
<1>q. /\ Absent(queue, c) /\ \A m \in call[c].of : Clean(queue, call[c].q.op, m)
      /\ db # "refused" =>
            Absent(idb, c) /\ \A m \in call[c].of : Clean(idb, call[c].q.op, m)
  <2>1. Asked(c) = call[c].of
    BY <1>s DEF Asked
  <2>. QED
    BY <1>s, <2>1 DEF PromiseInv, QueueOK, IdbOK, InOrder
\* What the call promises is what its copies hold.
<1>h. ASSUME NEW op \in Ops, NEW m \in Held(op)'
      PROVE  \/ m \in Held(op)
             \/ /\ op = call[c].q.op /\ m \in call[c].of
                /\ \/ call[c].idb = "done" /\ answer[c] = "done"
                   \/ op = "put" /\ (call[c].idb = "done" \/ answer[c] = "done")
  <2>1. CASE op = "put"
    BY <1>h, <2>1 DEF Settle, Held
  <2>2. CASE op = "read"
    BY <1>h, <2>2 DEF Settle, Held
  <2>3. CASE op = "delete"
    BY <1>h, <2>3 DEF Settle, Held
  <2>. QED
    BY <2>1, <2>2, <2>3 DEF Ops
<1>1. ShapeOK'
  BY <1>b DEF PromiseInv, ShapeOK
<1>2. MirrorOK'
  <2>1. ASSUME NEW op \in Ops \ {"put"}, NEW m \in Held(op)' PROVE Good(op, mirror'[m])
    BY <1>s, <1>h, <2>1 DEF PromiseInv, MirrorOK
  <2>. QED
    BY <1>s, <1>b, <2>1 DEF PromiseInv, MirrorOK
<1>3. IdbOK'
  <2>1. ASSUME db # "refused", NEW b \in Callers
        PROVE  InOrder(idb, b, call'[b].q, call'[b].of, call'[b].idb = "pending")
    <3>1. CASE b = c
      BY <1>b, <1>q, <2>1, <3>1, AbsentOrder
    <3>2. CASE b # c
      BY <1>b, <2>1, <3>2 DEF PromiseInv, IdbOK
    <3>. QED
      BY <3>1, <3>2
  <2>2. ASSUME db # "refused", NEW op \in Ops, NEW m \in Held(op)' PROVE Clean(idb, op, m)
    BY <1>h, <1>q, <2>2 DEF PromiseInv, IdbOK
  <2>. QED
    BY <1>s, <2>1, <2>2 DEF IdbOK
<1>4. IndexedOK'
  <2>1. ASSUME NEW op \in Ops \ {"put"}, NEW m \in Held(op)' PROVE Good(op, indexed'[m])
    BY <1>s, <1>h, <2>1 DEF PromiseInv, IndexedOK
  <2>. QED
    BY <1>s, <1>b, <2>1 DEF PromiseInv, IndexedOK
<1>5. QueueOK'
  <2>1. ASSUME NEW b \in Callers
        PROVE  InOrder(queue', b, call'[b].q, Asked(b)', answer'[b] = "pending")
    <3>1. CASE b = c
      <4>1. Asked(b)' = {}
        BY <1>b, <3>1 DEF Asked
      <4>. QED
        BY <1>s, <1>q, <3>1, <4>1, AbsentOrder
    <3>2. CASE b # c
      BY <1>s, <1>b, <3>2 DEF PromiseInv, QueueOK, Asked
    <3>. QED
      BY <3>1, <3>2
  <2>2. ASSUME NEW op \in Ops, NEW m \in Held(op)' PROVE Clean(queue', op, m)
    BY <1>s, <1>h, <1>q, <2>2 DEF PromiseInv, QueueOK
  <2>. QED
    BY <2>1, <2>2 DEF QueueOK
<1>6. StoreOK'
  <2>1. ASSUME NEW b \in Callers, NEW m \in call'[b].of
        PROVE  /\ answer'[b] = "done" => InStore(call[b].q.op, m)'
               /\ at' \in {"changed", "written"} /\ queue'[1].by = b =>
                    Good(call'[b].q.op, mem'[m])
    <3>1. b # c
      BY <1>b, <2>1
    <3>. QED
      BY <1>s, <1>b, <2>1, <3>1 DEF PromiseInv, StoreOK, InStore
  <2>2. ASSUME NEW op \in Ops \ {"put"}, NEW m \in Held(op)' PROVE InStore(op, m)'
    <3>1. InStore(op, m)
      BY <1>h, <2>2 DEF PromiseInv, StoreOK
    <3>. QED
      BY <1>s, <3>1 DEF InStore
  <2>. QED
    BY <2>1, <2>2 DEF StoreOK
<1>7. PutOK'
  <2>1. ASSUME NEW m, NoneBehind(m) PROVE NoneBehind(m)'
    BY <1>b, <2>1 DEF NoneBehind
  <2>2. ASSUME NEW b \in Callers, call'[b].q.op = "put", NEW m \in call'[b].of
        PROVE  NoneBehind(m)
    BY <1>b, <2>2 DEF PromiseInv, PutOK
  <2>3. ASSUME NEW m \in kept'
        PROVE  NoneBehind(m) /\ (Good("put", indexed[m]) \/ InStore("put", m))
    <3>1. \/ m \in kept
          \/ /\ call[c].q.op = "put" /\ m \in call[c].of
             /\ call[c].idb = "done" \/ answer[c] = "done"
      BY <2>3 DEF Settle
    <3>. QED
      BY <3>1 DEF PromiseInv, PutOK, IndexedOK, StoreOK
  <2>4. ASSUME NEW m, InStore("put", m) PROVE InStore("put", m)'
    BY <1>s, <2>4 DEF InStore
  <2>. QED
    BY <1>s, <2>1, <2>2, <2>3, <2>4 DEF PutOK
<1>. QED
  BY <1>1, <1>2, <1>3, <1>4, <1>5, <1>6, <1>7 DEF PromiseInv

\* A transaction that ends is that of the caller it was made by, and undoes nothing of
\* what was answered before.
LEMMA TransactionPromises ==
    ASSUME HistoryInv, PromiseInv, Transaction
    PROVE  PromiseInv'
<1> DEFINE by == idb[1].by
<1>s. /\ idb # <<>> /\ idb' = Tail(idb) /\ db \in {"open", "refused"} /\ db' = db
      /\ UNCHANGED <<mem, queue, file, tmp, at, answer, mirror, kept, removed, seen>>
  BY DEF Transaction, HistoryInv, TypeOK, storeVars, promises
<1>h. \A op \in Ops : Held(op)' = Held(op)
  BY <1>s DEF Held
<1>t. /\ idb \in Seq(Transactions) /\ idb[1] \in Transactions /\ by \in Callers
      /\ idb[1].q \in Requests /\ indexed \in Data
  <2>1. idb \in Seq(Transactions) /\ indexed \in Data
    BY DEF HistoryInv, TypeOK, Transactions
  <2>2. idb[1] \in Transactions
    BY <1>s, <2>1
  <2>. QED
    BY <2>1, <2>2 DEF Transactions
<1>a. PICK a \in {"done", "failed"} :
        /\ call' = [call EXCEPT ![by].idb = a]
        /\ a = "done" => db = "open" /\ indexed' = Apply(idb[1].q, indexed)
        /\ a = "failed" => indexed' = indexed
  BY DEF Transaction
<1>b. \A b \in Callers :
        /\ call'[b].at = call[b].at /\ call'[b].q = call[b].q /\ call'[b].of = call[b].of
        /\ call'[b].idb = IF b = by THEN a ELSE call[b].idb
  <2>1. call \in [Callers -> Calling] /\ \A b \in Callers : call[b] \in Calling
    BY DEF HistoryInv, TypeOK, Calling
  <2>2. \A b \in Callers : call'[b] = IF b = by THEN [call[b] EXCEPT !.idb = a] ELSE call[b]
    BY <1>a, <2>1
  <2>. QED
    BY <2>1, <2>2 DEF Calling
<1> HIDE DEF by
\* What is good in indexed stays so, unless this transaction undoes it.
<1>g. ASSUME NEW op \in Ops, NEW m \in Msgs, Good(op, indexed[m]),
             a = "done" => ~Undoes(idb[1].q, op, m)
      PROVE  Good(op, indexed'[m])
  BY <1>a, <1>g, <1>t, GoodStays
<1>k. ASSUME NEW op \in Ops, NEW m \in Held(op), a = "done" PROVE ~Undoes(idb[1].q, op, m)
  <2>1. Clean(idb, op, m)
    BY <1>a, <1>k DEF PromiseInv, IdbOK
  <2>. QED
    BY <1>s, <1>t, <2>1, TailClean
<1>1. ShapeOK'
  BY <1>a, <1>b, <1>s DEF PromiseInv, ShapeOK
<1>2. MirrorOK'
  BY <1>b, <1>h, <1>s DEF PromiseInv, MirrorOK
<1>3. IdbOK'
  <2>1. ASSUME db # "refused", NEW b \in Callers
        PROVE  InOrder(idb', b, call'[b].q, call'[b].of, call'[b].idb = "pending")
    <3>1. InOrder(idb, b, call[b].q, call[b].of, call[b].idb = "pending")
      BY <2>1 DEF PromiseInv, IdbOK
    <3>2. CASE b = by
      <4>1. InOrder(idb', b, call[b].q, call[b].of, FALSE)
        BY <1>s, <1>t, <3>1, <3>2, TailOrder DEF by
      <4>2. call'[b].idb # "pending"
        BY <1>a, <1>b, <3>2
      <4>. QED
        BY <1>b, <4>1, <4>2
    <3>3. CASE b # by
      <4>1. InOrder(idb', b, call[b].q, call[b].of, call[b].idb = "pending")
        BY <1>s, <1>t, <3>1, TailOrder
      <4>. QED
        BY <1>b, <3>3, <4>1
    <3>. QED
      BY <3>2, <3>3
  <2>2. ASSUME db # "refused", NEW op \in Ops, NEW m \in Held(op) PROVE Clean(idb', op, m)
    <3>1. Clean(idb, op, m)
      BY <2>2 DEF PromiseInv, IdbOK
    <3>. QED
      BY <1>s, <1>t, <3>1, TailClean
  <2>. QED
    BY <1>s, <1>h, <2>1, <2>2 DEF IdbOK
<1>4. IndexedOK'
  <2>1. ASSUME NEW b \in Callers, call'[b].idb = "done"
        PROVE  db' = "open" /\ \A m \in call'[b].of : Good(call'[b].q.op, indexed'[m])
    <3>1. CASE b = by
      <4>1. a = "done" /\ db = "open" /\ indexed' = Apply(idb[1].q, indexed)
        BY <1>a, <1>b, <2>1, <3>1
      <4>2. idb[1].q = call[b].q
        <5>1. InOrder(idb, b, call[b].q, call[b].of, call[b].idb = "pending")
          BY <4>1 DEF PromiseInv, IdbOK
        <5>2. \A i \in 1..Len(idb) : idb[i].by = b => idb[i].q = call[b].q
          BY <5>1 DEF InOrder
        <5>. QED
          BY <1>s, <1>t, <3>1, <5>2 DEF by
      <4>3. ASSUME NEW m \in call'[b].of PROVE Good(call[b].q.op, indexed'[m])
        <5>1. m \in call[b].q.of /\ m \in Msgs
          BY <1>b, <4>3, CallerTypes DEF PromiseInv, ShapeOK
        <5>. QED
          BY <1>t, <4>1, <4>2, <5>1, GoodStays, CallerTypes
      <4>. QED
        BY <1>b, <1>s, <4>1, <4>3
    <3>2. CASE b # by
      <4>1. call[b].idb = "done" /\ db = "open"
        BY <1>b, <2>1, <3>2 DEF PromiseInv, IndexedOK
      <4>2. ASSUME NEW m \in call'[b].of PROVE Good(call[b].q.op, indexed'[m])
        <5>1. m \in call[b].of /\ m \in Msgs /\ call[b].q.op \in Ops
          BY <1>b, <4>2, CallerTypes
        <5>2. Good(call[b].q.op, indexed[m])
          BY <4>1, <5>1 DEF PromiseInv, IndexedOK
        <5>3. Clean(idb, call[b].q.op, m)
          BY <4>1, <5>1 DEF PromiseInv, IdbOK, InOrder
        <5>4. ~Undoes(idb[1].q, call[b].q.op, m)
          BY <1>s, <1>t, <5>3, TailClean
        <5>. QED
          BY <1>g, <5>1, <5>2, <5>4
      <4>. QED
        BY <1>b, <1>s, <4>1, <4>2
    <3>. QED
      BY <3>1, <3>2
  <2>2. ASSUME NEW op \in Ops \ {"put"}, NEW m \in Held(op) PROVE Good(op, indexed'[m])
    <3>1. Good(op, indexed[m]) /\ m \in Msgs
      BY <2>2, HeldTypes DEF PromiseInv, IndexedOK
    <3>. QED
      BY <1>g, <1>k, <2>2, <3>1
  <2>. QED
    BY <1>h, <2>1, <2>2 DEF IndexedOK
<1>5. QueueOK'
  BY <1>b, <1>h, <1>s DEF PromiseInv, QueueOK, Asked
<1>6. StoreOK'
  BY <1>b, <1>h, <1>s DEF PromiseInv, StoreOK, InStore
<1>7. PutOK'
  <2>1. ASSUME NEW m, NoneBehind(m) PROVE NoneBehind(m)'
    BY <1>b, <2>1 DEF NoneBehind
  <2>2. ASSUME NEW m \in kept PROVE Good("put", indexed'[m]) \/ InStore("put", m)'
    <3>1. CASE Good("put", indexed[m])
      <4>1. "put" \in Ops /\ m \in Held("put")
        BY <2>2 DEF Ops, Held
      <4>. QED
        BY <1>g, <1>k, <3>1, <4>1, HeldTypes
    <3>2. CASE InStore("put", m)
      BY <1>s, <3>2 DEF InStore
    <3>. QED
      BY <2>2, <3>1, <3>2 DEF PromiseInv, PutOK
  <2>. QED
    BY <1>b, <1>s, <2>1, <2>2 DEF PromiseInv, PutOK
<1>. QED
  BY <1>1, <1>2, <1>3, <1>4, <1>5, <1>6, <1>7 DEF PromiseInv

\* No transaction ends before the database is open or refused.
LEMMA OpenDatabasePromises ==
    ASSUME HistoryInv, PromiseInv, OpenDatabase
    PROVE  PromiseInv'
<1>s. /\ db = "opening"
      /\ UNCHANGED <<mem, queue, file, tmp, at, answer, mirror, indexed, idb, call, kept,
                     removed, seen>>
  BY DEF OpenDatabase, storeVars, promises
<1>h. \A op \in Ops : Held(op)' = Held(op)
  BY <1>s DEF Held
<1>1. IndexedOK'
  BY <1>s, <1>h DEF PromiseInv, IndexedOK
<1>2. IdbOK'
  BY <1>s, <1>h DEF PromiseInv, IdbOK
<1>3. ShapeOK' /\ MirrorOK' /\ QueueOK'
  BY <1>s, <1>h DEF PromiseInv, ShapeOK, MirrorOK, QueueOK, Asked
<1>4. StoreOK' /\ PutOK'
  BY <1>s, <1>h DEF PromiseInv, StoreOK, PutOK, InStore, NoneBehind
<1>. QED
  BY <1>1, <1>2, <1>3, <1>4 DEF PromiseInv

\* The application changes its table by the first request, whose caller finds there what
\* it has asked for, or has no promise of it any more.
LEMMA WorksPromises ==
    ASSUME HistoryInv, PromiseInv, Works
    PROVE  PromiseInv'
<1> DEFINE q == queue[1].q
           dropped == Holds(Apply(q, mem)) \ Holds(mem')
<1>s. /\ at = "idle" /\ at' = "changed" /\ queue # <<>>
      /\ mem' = Newest(MaxMessages, Apply(q, mem))
      /\ UNCHANGED <<queue, file, answer, mirror, indexed, idb, db, removed, seen>>
      /\ kept' = kept \ dropped
  BY DEF Works, Work
<1>t. queue \in Seq(Waiting) /\ q \in Requests /\ mem \in Data /\ Apply(q, mem) \in Data
  <2>1. queue \in Seq(Waiting) /\ mem \in Data
    BY DEF HistoryInv, TypeOK, StoreTypeOK, Waiting
  <2>2. queue[1] \in Waiting
    BY <1>s, <2>1
  <2>3. q \in Requests
    BY <2>2 DEF Waiting
  <2>. QED
    BY <2>1, <2>3, TablesStay
<1>b. ASSUME NEW b \in Callers
      PROVE  /\ call'[b].at = call[b].at /\ call'[b].q = call[b].q
             /\ call'[b].idb = call[b].idb /\ call'[b].of \subseteq call[b].of
             /\ call[b].q.op = "put" => \A m \in call'[b].of : m \notin dropped
  <2>1. call'[b] = IF call[b].q.op # "put" THEN call[b] ELSE [call[b] EXCEPT !.of = @ \ dropped]
    BY DEF Works
  <2>2. call[b] \in Calling
    BY DEF HistoryInv, TypeOK, Calling
  <2>. HIDE DEF dropped
  <2>. QED
    BY <2>1, <2>2 DEF Calling
<1>h. ASSUME NEW op \in Ops
      PROVE  /\ Held(op)' \subseteq Held(op)
             /\ op # "put" => Held(op)' = Held(op)
             /\ op = "put" => \A m \in Held(op)' : m \notin dropped
  BY <1>s DEF Held, Ops
<1>g. ASSUME NEW op \in Ops, NEW m \in Msgs, Good(op, Apply(q, mem)[m]),
             op = "put" => m \notin dropped
      PROVE  Good(op, mem'[m])
  <2>1. CASE op = "put"
    BY <1>g, <2>1 DEF Good, Holds
  <2>2. CASE op # "put"
    BY <1>g, <1>s, <1>t, <2>2, GoodStays
  <2>. QED
    BY <2>1, <2>2
<1>k. ASSUME NEW op \in Ops, NEW m \in Msgs, Clean(queue, op, m), InStore(op, m),
             op = "put" => m \notin dropped
      PROVE  Good(op, mem'[m]) /\ Good(op, file'[m])
  <2>1. ~Undoes(q, op, m)
    BY <1>s, <1>t, <1>k, TailClean
  <2>2. Good(op, mem[m]) /\ Good(op, file[m])
    BY <1>s, <1>k DEF InStore
  <2>3. Good(op, Apply(q, mem)[m])
    BY <1>t, <2>1, <2>2, GoodStays
  <2>4. Good(op, mem'[m])
    BY <1>g, <1>k, <2>3
  <2>. QED
    BY <1>s, <2>2, <2>4
<1> HIDE DEF q, dropped
<1>1. ShapeOK'
  BY <1>b, <1>s DEF PromiseInv, ShapeOK
<1>2. MirrorOK' /\ IndexedOK'
  BY <1>b, <1>h, <1>s DEF PromiseInv, MirrorOK, IndexedOK
<1>3. IdbOK'
  <2>1. ASSUME db # "refused", NEW b \in Callers
        PROVE  InOrder(idb, b, call[b].q, call'[b].of, call[b].idb = "pending")
    BY <1>b, <2>1, FewerInOrder DEF PromiseInv, IdbOK
  <2>2. ASSUME db # "refused", NEW op \in Ops, NEW m \in Held(op)' PROVE Clean(idb, op, m)
    BY <1>h, <2>2 DEF PromiseInv, IdbOK
  <2>. QED
    BY <1>b, <1>s, <2>1, <2>2 DEF IdbOK
<1>4. QueueOK'
  <2>1. ASSUME NEW b \in Callers
        PROVE  InOrder(queue, b, call[b].q, Asked(b)', answer[b] = "pending")
    <3>1. Asked(b)' \in SUBSET Asked(b)
      BY <1>b DEF Asked
    <3>. QED
      BY <3>1, FewerInOrder DEF PromiseInv, QueueOK
  <2>2. ASSUME NEW op \in Ops, NEW m \in Held(op)' PROVE Clean(queue, op, m)
    BY <1>h, <2>2 DEF PromiseInv, QueueOK
  <2>. QED
    BY <1>b, <1>s, <2>1, <2>2 DEF QueueOK
<1>5. StoreOK'
  <2>1. ASSUME NEW b \in Callers, NEW m \in call'[b].of
        PROVE  /\ answer'[b] = "done" => InStore(call[b].q.op, m)'
               /\ at' \in {"changed", "written"} /\ queue'[1].by = b =>
                    Good(call'[b].q.op, mem'[m])
    <3>1. /\ m \in call[b].of /\ m \in call[b].q.of /\ m \in Msgs /\ call[b].q.op \in Ops
          /\ call[b].q.op = "put" => m \notin dropped
      BY <1>b, <2>1, CallerTypes DEF PromiseInv, ShapeOK
    <3>2. ASSUME answer[b] = "done"
          PROVE  Good(call[b].q.op, mem'[m]) /\ Good(call[b].q.op, file'[m])
      <4>1. InStore(call[b].q.op, m)
        BY <3>1, <3>2 DEF PromiseInv, StoreOK
      <4>2. call[b].at = "settling"
        BY <3>2 DEF PromiseInv, ShapeOK
      <4>3. Clean(queue, call[b].q.op, m)
        BY <3>1, <3>2, <4>2 DEF PromiseInv, QueueOK, InOrder, Asked
      <4>. QED
        BY <1>k, <3>1, <4>1, <4>3
    <3>3. ASSUME queue[1].by = b PROVE Good(call[b].q.op, mem'[m])
      <4>1. \A i \in 1..Len(queue) : queue[i].by = b => queue[i].q = call[b].q
        BY DEF PromiseInv, QueueOK, InOrder
      <4>2. q = call[b].q
        BY <1>s, <1>t, <3>3, <4>1 DEF q
      <4>3. Good(call[b].q.op, Apply(q, mem)[m])
        BY <1>t, <3>1, <4>2, GoodStays
      <4>. QED
        BY <1>g, <3>1, <4>3
    <3>. QED
      BY <1>b, <1>s, <3>2, <3>3 DEF InStore
  <2>2. ASSUME NEW op \in Ops \ {"put"}, NEW m \in Held(op)' PROVE InStore(op, m)'
    <3>1. m \in Held(op) /\ m \in Msgs
      BY <1>h, <2>2, HeldTypes
    <3>2. Clean(queue, op, m) /\ InStore(op, m)
      BY <2>2, <3>1 DEF PromiseInv, QueueOK, StoreOK
    <3>. QED
      BY <1>k, <2>2, <3>1, <3>2 DEF InStore
  <2>. QED
    BY <2>1, <2>2 DEF StoreOK
<1>6. PutOK'
  <2>1. ASSUME NEW m, NoneBehind(m) PROVE NoneBehind(m)'
    BY <1>b, <2>1 DEF NoneBehind
  <2>2. ASSUME NEW m \in kept' PROVE Good("put", indexed'[m]) \/ InStore("put", m)'
    <3>1. "put" \in Ops /\ m \in Held("put") /\ m \in Msgs /\ m \notin dropped
      BY <1>s, <2>2, HeldTypes DEF Ops, Held
    <3>2. Clean(queue, "put", m)
      BY <3>1 DEF PromiseInv, QueueOK
    <3>3. Good("put", indexed[m]) \/ InStore("put", m)
      BY <1>s, <2>2 DEF PromiseInv, PutOK
    <3>. QED
      BY <1>k, <1>s, <3>1, <3>2, <3>3 DEF InStore
  <2>. QED
    BY <1>b, <1>s, <2>1, <2>2 DEF PromiseInv, PutOK
<1>. QED
  BY <1>1, <1>2, <1>3, <1>4, <1>5, <1>6 DEF PromiseInv

\* A request is answered, as done when the file has become what the table is.
LEMMA AnswerPromises ==
    ASSUME HistoryInv, PromiseInv, NEW a \in {"done", "failed"}, Answers(a),
           queue # <<>>, at # "down", a = "done" => at \in {"changed", "written"},
           at' = "idle", UNCHANGED <<mem, clientVars, promises>>,
           IF a = "done" THEN file' = mem ELSE file' = file
    PROVE  PromiseInv'
<1>s. /\ UNCHANGED <<mem, mirror, indexed, idb, db, call, kept, removed, seen>>
      /\ queue # <<>> /\ queue \in Seq(Waiting) /\ queue' = Tail(queue)
  BY DEF clientVars, promises, Answers, HistoryInv, TypeOK, StoreTypeOK, Waiting
<1>h. \A op \in Ops : Held(op)' = Held(op)
  BY <1>s DEF Held
<1>b. \A b \in Callers : answer'[b] = IF b = queue[1].by THEN a ELSE answer[b]
  BY DEF Answers
<1>c. ASSUME NEW b \in Callers, b = queue[1].by PROVE answer[b] = "pending"
  <2>1. 1 \in 1..Len(queue)
    BY <1>s
  <2>2. ~Absent(queue, b)
    BY <1>c, <2>1 DEF Absent
  <2>. QED
    BY <2>2 DEF PromiseInv, QueueOK, InOrder
<1>k. ASSUME NEW op, NEW m, InStore(op, m) PROVE InStore(op, m)'
  BY <1>k, <1>s DEF InStore
<1>1. ShapeOK'
  BY <1>b, <1>c, <1>s DEF PromiseInv, ShapeOK
<1>2. MirrorOK' /\ IdbOK' /\ IndexedOK'
  BY <1>h, <1>s DEF PromiseInv, MirrorOK, IdbOK, IndexedOK
<1>3. QueueOK'
  <2>1. ASSUME NEW b \in Callers
        PROVE  InOrder(queue', b, call[b].q, Asked(b), answer'[b] = "pending")
    <3>1. InOrder(queue, b, call[b].q, Asked(b), answer[b] = "pending")
      BY DEF PromiseInv, QueueOK
    <3>2. CASE b = queue[1].by
      <4>1. InOrder(queue', b, call[b].q, Asked(b), FALSE)
        BY <1>s, <3>1, <3>2, TailOrder
      <4>2. answer'[b] # "pending"
        BY <1>b, <3>2
      <4>. QED
        BY <4>1, <4>2
    <3>3. CASE b # queue[1].by
      BY <1>b, <1>s, <3>1, <3>3, TailOrder
    <3>. QED
      BY <3>2, <3>3
  <2>2. ASSUME NEW op \in Ops, NEW m \in Held(op) PROVE Clean(queue', op, m)
    <3>1. Clean(queue, op, m)
      BY DEF PromiseInv, QueueOK
    <3>. QED
      BY <1>s, <3>1, TailClean
  <2>3. \A b \in Callers : Asked(b)' = Asked(b)
    BY <1>s DEF Asked
  <2>. QED
    BY <1>h, <1>s, <2>1, <2>2, <2>3 DEF QueueOK
<1>4. StoreOK'
  <2>1. ASSUME NEW b \in Callers, NEW m \in call[b].of, answer'[b] = "done"
        PROVE  InStore(call[b].q.op, m)'
    <3>1. CASE b = queue[1].by
      <4>1. a = "done" /\ file' = mem /\ mem' = mem /\ call' = call
        BY <1>b, <1>s, <2>1, <3>1
      <4>2. Good(call[b].q.op, mem[m])
        BY <3>1, <4>1 DEF PromiseInv, StoreOK
      <4>. QED
        BY <4>1, <4>2 DEF InStore
    <3>2. CASE b # queue[1].by
      BY <1>b, <1>s, <2>1, <3>2 DEF PromiseInv, StoreOK, InStore
    <3>. QED
      BY <3>1, <3>2
  <2>2. \A op \in Ops \ {"put"} : \A m \in Held(op) : InStore(op, m)'
    BY <1>k DEF PromiseInv, StoreOK
  <2>. QED
    BY <1>h, <1>s, <2>1, <2>2 DEF StoreOK
<1>5. PutOK'
  BY <1>k, <1>s DEF PromiseInv, PutOK, NoneBehind
<1>. QED
  BY <1>1, <1>2, <1>3, <1>4, <1>5 DEF PromiseInv

\* Nothing of the promises is about the temporary file.
LEMMA QuietPromises ==
    ASSUME PromiseInv, UNCHANGED <<mem, queue, file, answer, clientVars, promises>>,
           \/ at' = at
           \/ at \in {"changed", "written"} /\ at' \in {"changed", "written"}
    PROVE  PromiseInv'
<1>s. /\ UNCHANGED <<mem, queue, file, answer, mirror, indexed, idb, db, call>>
      /\ UNCHANGED <<kept, removed, seen>>
  BY DEF clientVars, promises
<1>h. \A op \in Ops : Held(op)' = Held(op)
  BY <1>s DEF Held
<1>1. ShapeOK' /\ MirrorOK' /\ IdbOK' /\ IndexedOK'
  BY <1>s, <1>h DEF PromiseInv, ShapeOK, MirrorOK, IdbOK, IndexedOK
<1>2. QueueOK'
  BY <1>s, <1>h DEF PromiseInv, QueueOK, Asked
<1>3. StoreOK' /\ PutOK'
  BY <1>s, <1>h DEF PromiseInv, StoreOK, PutOK, InStore, NoneBehind
<1>. QED
  BY <1>1, <1>2, <1>3 DEF PromiseInv

\* The page ends: no call is under way, and what has been promised is in the copies, or
\* will be loaded into them.
LEMMA LeavesPromises ==
    ASSUME HistoryInv, PromiseInv, Leaves, answer' = [c \in Callers |-> "none"],
           \A c \in Callers : Absent(queue, c)',
           \A op \in Ops : \A m \in Held(op) : Clean(queue, op, m)',
           file' = file, at' # "down" => mem' = mem /\ at # "down"
    PROVE  PromiseInv'
<1>s. /\ UNCHANGED <<mirror, indexed, kept, removed, seen>>
      /\ idb' = <<>> /\ db' = "opening"
  BY DEF Leaves, promises
<1>h. \A op \in Ops : Held(op)' = Held(op)
  BY <1>s DEF Held
<1>b. \A c \in Callers : /\ call'[c].at = "idle" /\ call'[c].of = {} /\ call'[c].idb = "none"
                         /\ answer'[c] = "none" /\ Asked(c)' = {}
  BY DEF Leaves, Idle, Asked
<1>k. ASSUME NEW op, NEW m, InStore(op, m) PROVE InStore(op, m)'
  BY <1>k DEF InStore
<1>1. ShapeOK' /\ MirrorOK'
  BY <1>b, <1>h, <1>s DEF PromiseInv, ShapeOK, MirrorOK
<1>2. IdbOK'
  <2>1. Len(idb') = 0
    BY <1>s
  <2>. QED
    BY <1>b, <2>1 DEF IdbOK, InOrder, CleanBehind, Clean, Absent
<1>3. IndexedOK'
  BY <1>b, <1>h, <1>s DEF PromiseInv, IndexedOK
<1>4. QueueOK'
  <2>1. ASSUME NEW c \in Callers
        PROVE  InOrder(queue', c, call'[c].q, Asked(c)', answer'[c] = "pending")
    <3>1. Absent(queue', c)
      OBVIOUS
    <3>. QED
      BY <1>b, <3>1, AbsentOrder
  <2>. QED
    BY <1>h, <2>1 DEF QueueOK
<1>5. StoreOK'
  BY <1>b, <1>h, <1>k DEF PromiseInv, StoreOK
<1>6. PutOK'
  BY <1>b, <1>k, <1>s DEF PromiseInv, PutOK, NoneBehind
<1>. QED
  BY <1>1, <1>2, <1>3, <1>4, <1>5, <1>6 DEF PromiseInv

\* The requests of a page that is reloaded go on, for nobody.
LEMMA ReloadPromises == ASSUME HistoryInv, PromiseInv, Reload PROVE PromiseInv'
<1>s. /\ Leaves /\ at # "down" /\ UNCHANGED <<mem, file, at>>
      /\ answer' = [c \in Callers |-> "none"] /\ queue \in Seq(Waiting)
  BY DEF Reload, Forget, HistoryInv, TypeOK, StoreTypeOK, Waiting
<1>1. /\ Len(queue') = Len(queue)
      /\ \A i \in 1..Len(queue) : queue'[i] = [queue[i] EXCEPT !.by = Nobody]
  BY <1>s DEF Reload, Forget
<1>2. \A i \in 1..Len(queue) : queue'[i].by = Nobody /\ queue'[i].q = queue[i].q
  <2>1. ASSUME NEW i \in 1..Len(queue)
        PROVE  queue'[i].by = Nobody /\ queue'[i].q = queue[i].q
    <3>1. queue[i] \in Waiting
      BY <1>s
    <3>. QED
      BY <1>1, <3>1 DEF Waiting
  <2>. QED
    BY <2>1
<1>3. \A c \in Callers : Absent(queue, c)'
  BY <1>1, <1>2, HistoryAssumption DEF Absent
<1>4. \A op \in Ops : \A m \in Held(op) : Clean(queue, op, m)'
  <2>1. \A op \in Ops : \A m \in Held(op) : Clean(queue, op, m)
    BY DEF PromiseInv, QueueOK
  <2>. QED
    BY <1>1, <1>2, <2>1 DEF Clean, Undoes
<1>. QED
  BY <1>s, <1>3, <1>4, LeavesPromises

\* The application ends with all its requests.
LEMMA QuitPromises == ASSUME HistoryInv, PromiseInv, Quit PROVE PromiseInv'
<1>s. /\ Leaves /\ at' = "down" /\ file' = file
      /\ answer' = [c \in Callers |-> "none"] /\ Len(queue') = 0
  BY DEF Quit, Crash
<1>1. /\ \A c \in Callers : Absent(queue, c)'
      /\ \A op \in Ops : \A m \in Held(op) : Clean(queue, op, m)'
  BY <1>s DEF Absent, Clean
<1>. QED
  BY <1>s, <1>1, LeavesPromises

\* The table that is loaded is the one of the file.
LEMMA LoadPromises ==
    ASSUME HistoryInv, PromiseInv, Load, UNCHANGED <<clientVars, promises>>
    PROVE  PromiseInv'
<1>s. /\ UNCHANGED <<queue, file, answer, mirror, indexed, idb, db, call, kept, removed, seen>>
      /\ at = "down" /\ at' = "idle" /\ mem' = file /\ \A c \in Callers : call[c].of = {}
  <2>1. mem' = file
    BY WholeFileLoads DEF Load, HistoryInv, TypeOK, StoreTypeOK
  <2>. QED
    BY <2>1 DEF Load, clientVars, promises, HistoryInv, PromiseInv, ShapeOK
<1>h. \A op \in Ops : Held(op)' = Held(op)
  BY <1>s DEF Held
<1>k. ASSUME NEW op, NEW m, InStore(op, m) PROVE InStore(op, m)'
  BY <1>k, <1>s DEF InStore
<1>1. ShapeOK' /\ MirrorOK' /\ IdbOK' /\ IndexedOK'
  BY <1>s, <1>h DEF PromiseInv, ShapeOK, MirrorOK, IdbOK, IndexedOK
<1>2. QueueOK'
  BY <1>s, <1>h DEF PromiseInv, QueueOK, Asked
<1>3. StoreOK'
  BY <1>s, <1>h, <1>k DEF PromiseInv, StoreOK
<1>4. PutOK'
  BY <1>s, <1>k DEF PromiseInv, PutOK, NoneBehind
<1>. QED
  BY <1>1, <1>2, <1>3, <1>4 DEF PromiseInv

\* Every step keeps the invariant.
LEMMA PromiseStep == ASSUME HistoryInv, PromiseInv, [Next]_vars PROVE PromiseInv'
<1>s. SUFFICES ASSUME HistoryInv, PromiseInv PROVE [Next]_vars => PromiseInv'
  OBVIOUS
<1>1. ASSUME NEW c \in Callers, ClientStep(c) PROVE PromiseInv'
  <2>1. ASSUME NEW q \in Requests, Calls(c, q) PROVE PromiseInv'
    BY <1>s, <2>1, CallsPromises
  <2>2. CASE PutMessage(c)
    BY <2>1, <2>2, RequestsAre DEF PutMessage
  <2>3. CASE MarkConversation(c) \/ Remove(c) \/ Clear(c)
    BY <2>1, <2>3, RequestsAre DEF MarkConversation, Remove, Clear
  <2>. QED
    BY <1>s, <1>1, <2>2, <2>3, DeleteIfSenderPromises, DatabaseOpenedPromises, SettlePromises
       DEF ClientStep
<1>2. CASE OpenDatabase \/ Transaction \/ Works \/ Reload \/ Quit
  BY <1>s, <1>2, OpenDatabasePromises, TransactionPromises, WorksPromises, ReloadPromises,
     QuitPromises
<1>3. CASE Write /\ UNCHANGED <<clientVars, promises>>
  BY <1>s, <1>3, QuietPromises DEF Write
<1>4. CASE Rename /\ UNCHANGED <<clientVars, promises>>
  BY <1>s, <1>4, AnswerPromises DEF Rename, HistoryInv, TypeOK, StoreTypeOK
<1>5. CASE PersistFails /\ UNCHANGED <<clientVars, promises>>
  BY <1>s, <1>5, AnswerPromises DEF PersistFails, HistoryInv, TypeOK, StoreTypeOK
<1>r. CASE Refuses /\ UNCHANGED <<clientVars, promises>>
  BY <1>s, <1>r, AnswerPromises DEF Refuses
<1>6. CASE Load /\ UNCHANGED <<clientVars, promises>>
  BY <1>s, <1>6, LoadPromises
<1>7. CASE UNCHANGED vars
  BY <1>s, <1>7, QuietPromises DEF vars, storeVars
<1>. QED
  BY <1>1, <1>2, <1>3, <1>4, <1>5, <1>r, <1>6, <1>7 DEF Next

\* What callers, copies and queues are to each other while promises are given and kept
\* (history.js:97 put, :128 markRead, :135 remove, :142 deleteIfSender, :162 clear).
THEOREM PromiseInvariant == Spec => []PromiseInv
<1>1. Init => PromiseInv
  <2>s. SUFFICES ASSUME Init PROVE PromiseInv
    OBVIOUS
  <2>1. /\ \A c \in Callers : /\ call[c].at = "idle" /\ call[c].of = {} /\ call[c].idb = "none"
                              /\ answer[c] = "none" /\ Asked(c) = {}
        /\ Len(idb) = 0 /\ Len(queue) = 0
    BY <2>s DEF Init, StoreInit, Idle, Asked
  <2>2. \A op \in Ops : Held(op) = {}
    BY <2>s DEF Init, Held, Ops
  <2>3. ShapeOK /\ MirrorOK /\ IndexedOK
    BY <2>1, <2>2 DEF ShapeOK, MirrorOK, IndexedOK
  <2>4. IdbOK /\ QueueOK
    BY <2>1, <2>2 DEF IdbOK, QueueOK, InOrder, Absent
  <2>5. StoreOK /\ PutOK
    BY <2>s, <2>1, <2>2 DEF Init, StoreOK, PutOK
  <2>. QED
    BY <2>3, <2>4, <2>5 DEF PromiseInv
<1>. QED
  BY <1>1, PromiseStep, HistoryInvHolds, PTL DEF Spec

\* What a call has promised holds in the copies, whatever overlaps, fails, is reloaded or
\* crashes afterwards: a removal or a reading in all copies, a put in one that lasts.
THEOREM PromisesAreKept == Spec => []PromisesHold
<1>1. HistoryInv /\ PromiseInv => PromisesHold
  <2>s. SUFFICES ASSUME HistoryInv, PromiseInv PROVE PromisesHold
    OBVIOUS
  <2>1. Loaded(file) = file
    BY <2>s, WholeFileLoads DEF HistoryInv, TypeOK, StoreTypeOK
  <2>2. ASSUME NEW op \in Ops \ {"put"}, NEW m \in Held(op) PROVE Good(op, mem[m])
    <3>1. CASE at = "down"
      <4>1. mem = Empty /\ m \in Msgs
        BY <2>s, <2>2, <3>1, HeldTypes DEF HistoryInv
      <4>. QED
        BY <2>2, <4>1 DEF Empty, Good, Ops
    <3>2. CASE at # "down"
      BY <2>s, <2>2, <3>2 DEF PromiseInv, StoreOK, InStore
    <3>. QED
      BY <3>1, <3>2
  <2>3. ASSUME NEW op \in Ops \ {"put"}, NEW m \in Held(op), NEW d \in Copies
        PROVE  Good(op, d[m])
    BY <2>s, <2>1, <2>2, <2>3
       DEF Copies, PromiseInv, MirrorOK, IndexedOK, StoreOK, InStore
  <2>4. CommandsReachAllCopies
    BY <2>3 DEF CommandsReachAllCopies, Ops, Held, Good
  <2>5. PutIsKept
    BY <2>s, <2>1 DEF PutIsKept, PromiseInv, PutOK, InStore, Good
  <2>. QED
    BY <2>4, <2>5 DEF PromisesHold
<1>. QED
  BY <1>1, PromiseInvariant, HistoryInvHolds, PTL
===============================================================================
