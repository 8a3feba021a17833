----------------------------- MODULE HistoryStore -----------------------------
(***************************************************************************)
(* The history of the desktop application (desktop/history-store.js): a    *)
(* table of records in memory, which each request changes and writes as a  *)
(* whole to a file beside the history's, renamed over it afterwards.       *)
(* Requests come over IPC and run one after the other.  The records are    *)
(* those of one conversation of one account, whose keys begin alike; a     *)
(* message is its place in the order of sort keys.                         *)
(***************************************************************************)
EXTENDS Integers, Sequences, FiniteSets

CONSTANTS
    MaxMsg,         \* bound: messages
    Own,            \* messages sent by this account
    MaxMessages,    \* MAX_MESSAGES
    Callers,        \* who waits for an answer
    Nobody          \* who sent a request before the page was reloaded

Msgs == 1..MaxMsg

ASSUME HistoryAssumption ==
    /\ MaxMsg \in Nat /\ Own \subseteq Msgs /\ MaxMessages \in Nat \ {0}
    /\ Nobody \notin Callers

Flags == {"none", "unread", "read"}     \* "none": there is no such record
Data  == [Msgs -> Flags]
Empty == [m \in Msgs |-> "none"]
Torn  == <<>>                           \* a file that was not written to its end

Holds(d) == {m \in Msgs : d[m] # "none"}

VARIABLES
    mem,            \* this.data
    queue,          \* this.queue: requests that wait for their turn
    file,           \* what is at filePath
    tmp,            \* what is at filePath.tmp
    at,             \* of the request under way: "changed", "written"; or "idle", "down"
    answer          \* of each caller: "none", "pending", "done" or "failed"

storeVars == <<mem, queue, file, tmp, at, answer>>

Put(m, read)     == [op |-> "put", of |-> {m}, read |-> read \/ m \in Own]
MarkRead         == [op |-> "read", of |-> Msgs, read |-> TRUE]
Delete(S)        == [op |-> "delete", of |-> S, read |-> FALSE]

\* deleteIfSender of another one's message; nothing is deleted.
NoDelete         == Delete({})

Requests == [op : {"put", "read", "delete"}, of : SUBSET Msgs, read : BOOLEAN]

\* What a request does to a copy of the history.
Apply(q, d) ==
    [m \in Msgs |->
        IF m \notin q.of THEN d[m]
        ELSE CASE q.op = "put"    -> IF q.read THEN "read" ELSE "unread"
               [] q.op = "read"   -> IF d[m] = "none" THEN "none" ELSE "read"
               [] q.op = "delete" -> "none"]

\* The newest k records.
Newest(k, d) ==
    [m \in Msgs |-> IF Cardinality({n \in Holds(d) : n > m}) < k THEN d[m] ELSE "none"]

\* load: a file that cannot be parsed leaves the table empty.
Loaded(f) == IF f = Torn THEN Empty ELSE f

StoreInit ==
    /\ mem = Empty /\ queue = <<>>
    /\ file = Empty /\ tmp = Torn
    /\ at = "idle"
    /\ answer = [c \in Callers |-> "none"]

\* mutate: the request waits for its turn.
Submit(c, q) ==
    /\ queue' = Append(queue, [by |-> c, q |-> q])
    /\ answer' = [answer EXCEPT ![c] = "pending"]

Answers(a) ==
    /\ answer' = [c \in Callers |-> IF c = queue[1].by THEN a ELSE answer[c]]
    /\ queue' = Tail(queue)

\* persist writes the file in place.
BugWork ==
    /\ at = "idle" /\ queue # <<>>
    /\ at' = "changed"
    /\ mem' = Newest(MaxMessages, Apply(queue[1].q, mem))
    /\ file' = Torn
    /\ UNCHANGED <<queue, tmp, answer>>

\* The request changes the table, and persist begins to write.
Work ==
    /\ at = "idle" /\ queue # <<>>
    /\ at' = "changed"
    /\ mem' = Newest(MaxMessages, Apply(queue[1].q, mem))
    /\ tmp' = Torn
    /\ UNCHANGED <<queue, file, answer>>

\* cleanMessage throws, at a message that is too large or has no valid time: the request
\* is rejected, and nothing is changed or written.
Refuses ==
    /\ at = "idle" /\ queue # <<>> /\ queue[1].q.op = "put"
    /\ Answers("failed")
    /\ UNCHANGED <<mem, file, tmp, at>>

Write ==
    /\ at = "changed" /\ at' = "written"
    /\ tmp' = mem
    /\ UNCHANGED <<mem, queue, file, answer>>

Rename ==
    /\ at = "written" /\ at' = "idle"
    /\ file' = tmp /\ tmp' = Torn
    /\ Answers("done")
    /\ UNCHANGED mem

\* A failure goes unnoticed.
BugPersistFails ==
    /\ at \in {"changed", "written"} /\ at' = "idle"
    /\ Answers("done")
    /\ UNCHANGED <<mem, file, tmp>>

\* The disk refuses: the request is rejected, and the next one runs all the same.
PersistFails ==
    /\ at \in {"changed", "written"} /\ at' = "idle"
    /\ Answers("failed")
    /\ UNCHANGED <<mem, file, tmp>>

\* The page is reloaded: its requests go on, for nobody.
Forget ==
    /\ queue' = [i \in DOMAIN queue |-> [queue[i] EXCEPT !.by = Nobody]]
    /\ answer' = [c \in Callers |-> "none"]
    /\ UNCHANGED <<mem, file, tmp, at>>

\* The application ends at any instruction, and is started again.
Crash ==
    /\ at # "down" /\ at' = "down"
    /\ mem' = Empty /\ queue' = <<>>
    /\ answer' = [c \in Callers |-> "none"]
    /\ UNCHANGED <<file, tmp>>

Load ==
    /\ at = "down" /\ at' = "idle"
    /\ mem' = Loaded(file)
    /\ UNCHANGED <<queue, file, tmp, answer>>

------------------------------------------------------------------------------
(* Properties.                                                             *)

StoreTypeOK ==
    /\ mem \in Data /\ file \in Data /\ tmp \in Data \cup {Torn}
    /\ queue \in Seq([by : Callers \cup {Nobody}, q : Requests])
    /\ at \in {"idle", "changed", "written", "down"}
    /\ answer \in [Callers -> {"none", "pending", "done", "failed"}]
    /\ at \in {"changed", "written"} => queue # <<>>

\* A crash at any instruction leaves a file that holds one of the tables that requests
\* left, whole, and at least that of the last request that was answered as done
\* (history-store.js:57 persist; desktop/history-store.test.js:17 "persists and reloads
\* paginated history").
Durable == INSTANCE DurableHistory WITH
    data <- mem, disk <- Loaded(file),
    at   <- IF at \in {"changed", "written"} THEN "busy" ELSE at
FileIsWhole == Durable!Spec
===============================================================================
