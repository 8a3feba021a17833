------------------------------ MODULE MessageId ------------------------------
(***************************************************************************)
(* nextMessageID (server/internal/api/handlers.go:46-62): the ids of       *)
(* messages and of clear events.  Every goroutine that handles a request   *)
(* runs the loop "load, read the clock, compare and swap" on one atomic    *)
(* counter, which a restart of the server sets back to zero; only the wall *)
(* clock carries the order of ids over a restart.                          *)
(***************************************************************************)
EXTENDS Naturals

CONSTANTS
    Calls,      \* the calls of nextMessageID
    Burst,      \* ids per millisecond: 1000 in the code
    MaxClock    \* bound: the last millisecond of the model

ASSUME BurstAssumption == Burst \in Nat \ {0}
ASSUME ClockAssumption == MaxClock \in Nat \ {0}

VARIABLES
    messageSequence,    \* the atomic counter
    clock,              \* time.Now().UnixMilli(): wall time, which may be set back
    pc,                 \* where each call is
    current,            \* its local variables
    candidate,
    issued,             \* history: the id each call returned, 0 before
    before              \* history: the calls that had returned when each began

idVars == <<messageSequence, clock, pc, current, candidate, issued, before>>

Returned == {c \in Calls : issued[c] # 0}

\* Every id so far belongs to a millisecond before t.
Past(t) == \A c \in Calls : issued[c] < t * Burst

IdInit ==
    /\ messageSequence = 0
    /\ clock = 1
    /\ pc = [c \in Calls |-> "idle"]
    /\ current = [c \in Calls |-> 0]
    /\ candidate = [c \in Calls |-> 0]
    /\ issued = [c \in Calls |-> 0]
    /\ before = [c \in Calls |-> {}]

------------------------------------------------------------------------------
(* Faulty variants of actions below: plausible bugs that a property reports. *)

\* messageSequence.Store(candidate) in place of the compare and swap.
BugStore(c) ==
    /\ pc[c] = "swap"
    /\ messageSequence' = candidate[c]
    /\ issued' = [issued EXCEPT ![c] = candidate[c]]
    /\ pc' = [pc EXCEPT ![c] = "done"]
    /\ UNCHANGED <<clock, current, candidate, before>>

\* The usual "millisecond, then a counter modulo its width", which the clock
\* alone orders.
BugCounterWraps(c) ==
    /\ pc[c] = "clock"
    /\ candidate' = [candidate EXCEPT ![c] = clock * Burst + ((current[c] + 1) % Burst)]
    /\ pc' = [pc EXCEPT ![c] = "swap"]
    /\ UNCHANGED <<messageSequence, clock, current, issued, before>>

\* The loop repeats the compare and swap without a new load.
BugNoReload(c) ==
    /\ pc[c] = "swap"
    /\ messageSequence = current[c]
    /\ messageSequence' = candidate[c]
    /\ issued' = [issued EXCEPT ![c] = candidate[c]]
    /\ pc' = [pc EXCEPT ![c] = "done"]
    /\ UNCHANGED <<clock, current, candidate, before>>

------------------------------------------------------------------------------
(* nextMessageID.                                                          *)

Call(c) ==
    /\ pc[c] = "idle"
    /\ before' = [before EXCEPT ![c] = Returned]
    /\ pc' = [pc EXCEPT ![c] = "load"]
    /\ UNCHANGED <<messageSequence, clock, current, candidate, issued>>

Load(c) ==
    /\ pc[c] = "load"
    /\ current' = [current EXCEPT ![c] = messageSequence]
    /\ pc' = [pc EXCEPT ![c] = "clock"]
    /\ UNCHANGED <<messageSequence, clock, candidate, issued, before>>

ReadClock(c) ==
    /\ pc[c] = "clock"
    /\ candidate' = [candidate EXCEPT ![c] =
                        IF clock * Burst <= current[c] THEN current[c] + 1
                                                       ELSE clock * Burst]
    /\ pc' = [pc EXCEPT ![c] = "swap"]
    /\ UNCHANGED <<messageSequence, clock, current, issued, before>>

\* CompareAndSwap; when another call was faster, the loop starts again.
Swap(c) ==
    /\ pc[c] = "swap"
    /\ IF messageSequence = current[c]
       THEN /\ messageSequence' = candidate[c]
            /\ issued' = [issued EXCEPT ![c] = candidate[c]]
            /\ pc' = [pc EXCEPT ![c] = "done"]
       ELSE /\ pc' = [pc EXCEPT ![c] = "load"]
            /\ UNCHANGED <<messageSequence, issued>>
    /\ UNCHANGED <<clock, current, candidate, before>>

------------------------------------------------------------------------------
(* The environment.                                                        *)

\* Wall time advances, or is set back.  What the comment at handlers.go:47 takes
\* for granted is explicit here: a process that has no id yet, whose counter
\* cannot help, sees a clock beyond every id of the processes before it.
SetClock(t) ==
    /\ t # clock
    /\ messageSequence = 0 => Past(t)
    /\ clock' = t
    /\ UNCHANGED <<messageSequence, pc, current, candidate, issued, before>>

\* The server stops and starts again: the counter is lost, and calls under way
\* with it.
Restart ==
    /\ messageSequence # 0
    /\ Past(clock)
    /\ messageSequence' = 0
    /\ pc' = [c \in Calls |-> IF pc[c] \in {"idle", "done"} THEN pc[c] ELSE "lost"]
    /\ UNCHANGED <<clock, current, candidate, issued, before>>

IdNext ==
    \/ \E c \in Calls : Call(c) \/ Load(c) \/ ReadClock(c) \/ Swap(c)
    \/ \E t \in 1..MaxClock : SetClock(t)
    \/ Restart

IdSpec == IdInit /\ [][IdNext]_idVars /\ \A c \in Calls : WF_idVars(Load(c) \/ ReadClock(c) \/ Swap(c))

------------------------------------------------------------------------------
(* Properties.                                                             *)

IdTypeOK ==
    /\ messageSequence \in Nat
    /\ clock \in 1..MaxClock
    /\ pc \in [Calls -> {"idle", "load", "clock", "swap", "done", "lost"}]
    /\ current \in [Calls -> Nat]
    /\ candidate \in [Calls -> Nat]
    /\ issued \in [Calls -> Nat]
    /\ before \in [Calls -> SUBSET Calls]

\* handlers.go:46-48: no two calls get the same id, neither two that race for the
\* counter, nor a burst that outruns the clock, nor calls on the two sides of a
\* restart.
IdsUnique == \A c, d \in Returned : issued[c] = issued[d] => c = d

\* handlers.go:46 "sortable identifiers": a call that begins after another has
\* returned gets the greater id, so the order of ids is the order of sending;
\* clients page and sort by it.
IdsFollowCalls == \A c \in Returned : \A d \in before[c] : issued[d] < issued[c]

\* The loop has no bound, but a failed swap means another call succeeded: every
\* call ends.
CallsEnd == \A c \in Calls : pc[c] = "load" ~> pc[c] \in {"done", "lost"}

==============================================================================
