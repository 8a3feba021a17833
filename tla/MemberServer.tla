----------------------------- MODULE MemberServer -----------------------------
(***************************************************************************)
(* What the server is to a member of a conversation who only receives and  *)
(* whose account stays: the messages of the others, which of them it would *)
(* still hand out as pending, and the clear that a device of the member    *)
(* has still to carry out.  Queue and clear are the member's, whichever of *)
(* its devices asks.  MessageStore implements it for each such member,     *)
(* with transactions, clean-ups and crashes of several handlers; Delivery  *)
(* is a device that works with it.                                         *)
(***************************************************************************)
EXTENDS Naturals

CONSTANTS
    Peers,          \* the other members
    Msgs,           \* messages they send
    From            \* who sends each

VARIABLES
    peers,         \* those of them who still have an account
    sent,           \* messages the server has ever taken
    history,        \* those it shows
    queue,          \* those it hands out as pending
    clear,          \* the clear it hands out as pending, or 0
    lastClear       \* the id of the last clear

vars == <<peers, sent, history, queue, clear, lastClear>>

Init ==
    /\ peers = Peers
    /\ sent = {} /\ history = {} /\ queue = {}
    /\ clear = 0 /\ lastClear = 0

\* A message comes into the history and the queue at once, and only once ...
Send(m) ==
    /\ m \notin sent /\ From[m] \in peers
    /\ sent' = sent \cup {m}
    /\ history' = history \cup {m}
    /\ queue' = queue \cup {m}
    /\ UNCHANGED <<peers, clear, lastClear>>

\* ... or into neither, when the author's account was deleted while it was sent.
SendUnseen(m) ==
    /\ m \notin sent /\ From[m] \notin peers
    /\ sent' = sent \cup {m}
    /\ UNCHANGED <<peers, history, queue, clear, lastClear>>

\* Recalls and clears take it from both at once ...
Recall(m) ==
    /\ m \in history
    /\ history' = history \ {m}
    /\ queue' = queue \ {m}
    /\ UNCHANGED <<peers, sent, clear, lastClear>>

\* ... and a clear takes the place of the one that is pending.
Clear ==
    /\ history' = {} /\ queue' = {}
    /\ lastClear' = lastClear + 1
    /\ clear' = lastClear'
    /\ UNCHANGED <<peers, sent>>

\* So does the deletion of an account with all that it has sent; if the pending clear
\* is of this account, the clear is withdrawn.
AccountDeleted(v) ==
    /\ v \in peers
    /\ peers' = peers \ {v}
    /\ history' = {m \in history : From[m] # v}
    /\ queue' = {m \in queue : From[m] # v}
    /\ clear' \in {clear, 0}
    /\ UNCHANGED <<sent, lastClear>>

\* A device of the member acknowledges, or the message expires; the history stays.
Taken(m) ==
    /\ m \in queue
    /\ queue' = queue \ {m}
    /\ UNCHANGED <<peers, sent, history, clear, lastClear>>

Cleared ==
    /\ clear # 0
    /\ clear' = 0
    /\ UNCHANGED <<peers, sent, history, queue, lastClear>>

Next ==
    \/ \E m \in Msgs : Send(m) \/ SendUnseen(m) \/ Recall(m) \/ Taken(m)
    \/ \E v \in Peers : AccountDeleted(v)
    \/ Clear \/ Cleared

Spec == Init /\ [][Next]_vars
===============================================================================
