----------------------------- MODULE LocalHistory -----------------------------
(***************************************************************************)
(* The local history of the client (frontend/client/src/history.js): every *)
(* record in up to three copies, the mirror in localStorage, IndexedDB and *)
(* the desktop application's history (module HistoryStore).  A call        *)
(* changes the mirror at once, then waits for the other two, whose         *)
(* failures it swallows.                                                   *)
(***************************************************************************)
EXTENDS HistoryStore

CONSTANTS
    MirrorSize,     \* 300 records
    MaxCalls        \* bound: calls in a behaviour

ASSUME MirrorAssumption == MirrorSize \in Nat /\ MaxCalls \in Nat

VARIABLES
    mirror,
    indexed,        \* what IndexedDB has committed
    idb,            \* its transactions that have not ended, in their order
    db,             \* db(): "opening", "open", or "refused" until a reload
    call,           \* of each caller: its await, its request, how IndexedDB answered
    calls,          \* calls so far
    kept,           \* history: messages put with success, not removed since
    removed,        \* history: messages removed from all copies, not put since
    seen            \* history: messages marked read in all copies, not put since

clientVars == <<mirror, indexed, idb, db, call, calls>>
promises   == <<kept, removed, seen>>
vars == <<storeVars, clientVars, promises>>

Idle == [at |-> "idle", q |-> NoDelete, idb |-> "none", of |-> {}]

Init ==
    /\ StoreInit
    /\ mirror = Empty /\ indexed = Empty /\ idb = <<>> /\ db = "opening"
    /\ call = [c \in Callers |-> Idle] /\ calls = 0
    /\ kept = {} /\ removed = {} /\ seen = {}

------------------------------------------------------------------------------
(* The calls.                                                              *)

\* saveMirror: the newest records, fewer when localStorage refuses them.
SaveMirror(d) == \E k \in 0..MirrorSize : mirror' = Newest(k, d)

\* A put begins: the promises of a removal or a reading end, also those of the calls
\* under way; a removal ends those of a put.
Breaks(c, q, waits) ==
    LET undone(d) == \/ q.op = "put" /\ d.op # "put"
                     \/ q.op = "delete" /\ d.op # "delete"
        struck(b) == IF b # c /\ undone(call[b].q) THEN [call[b] EXCEPT !.of = @ \ q.of]
                     ELSE call[b]
        behind    == UNION {call[b].q.of : b \in {b \in Callers : call[b].at = "opening"}}
    IN
    /\ call' = [b \in Callers |->
                  IF b # c THEN struck(b)
                  ELSE [at |-> waits, q |-> q, idb |-> "pending",
                        of |-> IF q.op = "put" THEN q.of \ behind ELSE q.of]]
    /\ kept'    = IF q.op = "delete" THEN kept \ q.of ELSE kept
    /\ removed' = IF q.op = "put" THEN removed \ q.of ELSE removed
    /\ seen'    = IF q.op = "put" THEN seen \ q.of ELSE seen

\* Every call: the mirror, the transaction, the request to the application.
Begin(c, q) ==
    /\ calls < MaxCalls /\ calls' = calls + 1
    /\ call[c].at = "idle" /\ at # "down"
    /\ idb' = Append(idb, [by |-> c, q |-> q])
    /\ SaveMirror(Apply(q, mirror))
    /\ UNCHANGED <<indexed, db>>

Calls(c, q) ==
    /\ Begin(c, q) /\ Breaks(c, q, "settling")
    /\ Submit(c, q)
    /\ UNCHANGED <<mem, file, tmp, at>>

PutMessage(c) == \E m \in Msgs, read \in BOOLEAN : Calls(c, Put(m, read))

MarkConversation(c) == Calls(c, MarkRead)

Remove(c) == \E m \in Msgs : Calls(c, Delete({m}))

Clear(c) == Calls(c, Delete(Msgs))

\* deleteIfSender awaits db() before it asks the application; actor tells whether the
\* event's actor has sent the message.
DeleteIfSender(c) ==
    /\ \E m \in Msgs, actor \in BOOLEAN :
         LET q == IF actor THEN Delete({m}) ELSE NoDelete IN
         Begin(c, q) /\ Breaks(c, q, "opening")
    /\ UNCHANGED storeVars

DatabaseOpened(c) ==
    /\ call[c].at = "opening"
    /\ \/ /\ db = "open"
          /\ call' = [call EXCEPT ![c].at = "settling"]
          /\ Submit(c, call[c].q)
       \/ /\ db = "refused"
          /\ call' = [call EXCEPT ![c] = Idle]
          /\ UNCHANGED <<queue, answer>>
    /\ UNCHANGED <<mem, file, tmp, at, mirror, indexed, idb, db, calls, promises>>

\* allSettled: what came of the call.
Settle(c) ==
    LET q    == call[c].q
        of   == call[c].of
        all  == call[c].idb = "done" /\ answer[c] = "done"
        some == call[c].idb = "done" \/ answer[c] = "done"
    IN
    /\ call[c].at = "settling" /\ call[c].idb # "pending" /\ answer[c] # "pending"
    /\ call' = [call EXCEPT ![c] = Idle]
    /\ answer' = [answer EXCEPT ![c] = "none"]
    /\ kept'    = IF q.op = "put" /\ some THEN kept \cup of ELSE kept
    /\ removed' = IF q.op = "delete" /\ all THEN removed \cup of ELSE removed
    /\ seen'    = IF q.op = "read" /\ all THEN seen \cup of ELSE seen
    /\ UNCHANGED <<mem, queue, file, tmp, at, mirror, indexed, idb, db, calls>>

------------------------------------------------------------------------------
(* IndexedDB and the page.                                                 *)

OpenDatabase ==
    /\ db = "opening" /\ db' \in {"open", "refused"}
    /\ UNCHANGED <<storeVars, mirror, indexed, idb, call, calls, promises>>

\* The promise resolves with the success of the request, and an abort goes unnoticed.
BugTransaction ==
    LET by == idb[1].by IN
    /\ idb # <<>> /\ db # "opening"
    /\ idb' = Tail(idb)
    /\ \/ db = "open" /\ indexed' = Apply(idb[1].q, indexed)
       \/ UNCHANGED indexed
    /\ call' = [call EXCEPT ![by].idb = "done"]
    /\ UNCHANGED <<storeVars, mirror, db, calls, promises>>

\* A transaction commits or aborts, in the order in which they were made; without a
\* database none was.
Transaction ==
    LET by == idb[1].by IN
    /\ idb # <<>> /\ db # "opening"
    /\ idb' = Tail(idb)
    /\ \/ /\ db = "open"
          /\ indexed' = Apply(idb[1].q, indexed)
          /\ call' = [call EXCEPT ![by].idb = "done"]
       \/ /\ call' = [call EXCEPT ![by].idb = "failed"]
          /\ UNCHANGED indexed
    /\ UNCHANGED <<storeVars, mirror, db, calls, promises>>

\* The page is reloaded: its calls and transactions end, its requests go on.
Leaves ==
    /\ call' = [c \in Callers |-> Idle]
    /\ idb' = <<>> /\ db' = "opening"
    /\ UNCHANGED <<mirror, indexed, calls, promises>>

Reload ==
    /\ at # "down"
    /\ Forget /\ Leaves

\* The application ends, and the page with it.
Quit == Crash /\ Leaves

\* The application's table drops what are too many, which ends the promise of their put.
Works ==
    /\ Work
    /\ LET dropped == Holds(Apply(queue[1].q, mem)) \ Holds(mem') IN
         /\ kept' = kept \ dropped
         /\ call' = [c \in Callers |-> IF call[c].q.op # "put" THEN call[c]
                                       ELSE [call[c] EXCEPT !.of = @ \ dropped]]
    /\ UNCHANGED <<mirror, indexed, idb, db, calls, removed, seen>>

------------------------------------------------------------------------------
ClientStep(c) ==
    \/ PutMessage(c) \/ MarkConversation(c) \/ Remove(c) \/ Clear(c) \/ DeleteIfSender(c)
    \/ DatabaseOpened(c) \/ Settle(c)

Next ==
    \/ \E c \in Callers : ClientStep(c)
    \/ OpenDatabase \/ Transaction
    \/ (Refuses \/ Write \/ Rename \/ PersistFails \/ Load) /\ UNCHANGED <<clientVars, promises>>
    \/ Works
    \/ Reload \/ Quit

Spec == Init /\ [][Next]_vars

------------------------------------------------------------------------------
(* Properties.                                                             *)

TypeOK ==
    /\ StoreTypeOK
    /\ mirror \in Data /\ indexed \in Data
    /\ idb \in Seq([by : Callers, q : Requests])
    /\ db \in {"opening", "open", "refused"}
    /\ call \in [Callers -> [at : {"idle", "opening", "settling"}, q : Requests,
                             idb : {"none", "pending", "done", "failed"}, of : SUBSET Msgs]]
    /\ calls \in 0..MaxCalls
    /\ kept \subseteq Msgs /\ removed \subseteq Msgs /\ seen \subseteq Msgs

Copies == {mirror, indexed, mem, Loaded(file)}

\* A removal or a reading that no copy has refused holds in every copy, and goes on to
\* hold through reloads and crashes, however it overlaps with puts that began before it
\* (history.js:128 markRead, :135 remove, :142 deleteIfSender, :162 clear).
CommandsReachAllCopies ==
    \A d \in Copies : /\ \A m \in removed : d[m] = "none"
                      /\ \A m \in seen : d[m] # "unread"

\* A message of which IndexedDB or the application has taken the put is there to be read
\* from one of them, after reloads and crashes too, until it is removed or the
\* application drops it as one of too many (history.js:97 put).
PutIsKept == \A m \in kept : indexed[m] # "none" \/ Loaded(file)[m] # "none"

\* What a call that ended has promised holds in the copies.
PromisesHold == CommandsReachAllCopies /\ PutIsKept
===============================================================================
