---------------------------- MODULE DurableHistory ----------------------------
(***************************************************************************)
(* What the desktop history (desktop/history-store.js) promises of its     *)
(* file: requests are carried out one at a time; what a start loads is     *)
(* always what some request left, whole, and never older than the last     *)
(* request that was answered as done.                                      *)
(***************************************************************************)
CONSTANTS
    Data,           \* contents of the history
    Empty,          \* the content at the first start
    Callers         \* who waits for an answer

VARIABLES
    data,           \* what page answers
    disk,           \* what a start loads
    at,             \* "idle", "busy" with a request, "down"
    answer          \* of each caller: "none", "pending", "done" or "failed"

NoAnswers == [c \in Callers |-> "none"]

Init == data = Empty /\ disk = Empty /\ at = "idle" /\ answer = NoAnswers

\* A caller asks, takes its answer, or is not there any more.
Ask(c)  == at # "down" /\ answer' = [answer EXCEPT ![c] = "pending"]
           /\ UNCHANGED <<data, disk, at>>
Take(c) == answer' = [answer EXCEPT ![c] = "none"] /\ UNCHANGED <<data, disk, at>>
Leave   == answer' = NoAnswers /\ UNCHANGED <<data, disk, at>>

\* A request changes the history in memory ...
Change == at = "idle" /\ at' = "busy" /\ data' \in Data /\ UNCHANGED <<disk, answer>>

Tell(a) == \/ UNCHANGED answer
           \/ \E c \in Callers : answer' = [answer EXCEPT ![c] = a]

\* ... and is answered when the disk has it, or rejected, before it changes anything too.
Save   == at = "busy" /\ at' = "idle" /\ disk' = data /\ data' = data /\ Tell("done")
Reject == at # "down" /\ at' = "idle" /\ UNCHANGED <<data, disk>> /\ Tell("failed")

\* The application ends, and starts again.
End   == at # "down" /\ at' = "down" /\ data' \in Data /\ disk' = disk /\ answer' = NoAnswers
Start == at = "down" /\ at' = "idle" /\ data' = disk /\ UNCHANGED <<disk, answer>>

Next ==
    \/ \E c \in Callers : Ask(c) \/ Take(c)
    \/ Leave \/ Change \/ Save \/ Reject \/ End \/ Start

Spec == Init /\ [][Next]_<<data, disk, at, answer>>
===============================================================================
