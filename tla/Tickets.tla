------------------------------- MODULE Tickets -------------------------------
(***************************************************************************)
(* Single-use WebSocket tickets (server/internal/auth/auth.go:77-104).  A  *)
(* bearer of a token issues a ticket for itself, and a socket upgrade      *)
(* consumes it within 30 seconds.  Both read the clock outside the mutex:  *)
(* Issue before it, so that its clean-up may work with an old time, and    *)
(* Consume after it.                                                       *)
(***************************************************************************)
EXTENDS Naturals

CONSTANTS
    Users,      \* user ids
    Issues,     \* calls of IssueWebSocketTicket; the 256 random bits never repeat,
                \* so each call stands for its ticket
    Caller,     \* the user of each
    Uses,       \* calls of ConsumeWebSocketTicket
    Presented,  \* the ticket each presents; it may be presented before it exists
    Lifetime,   \* 30 s in the code
    MaxClock    \* bound: the last instant of the model

ASSUME CallAssumption ==
    /\ Caller \in [Issues -> Users]
    /\ Presented \in [Uses -> Issues]
    /\ Issues \cap Uses = {}
ASSUME TimeAssumption == Lifetime \in Nat /\ MaxClock \in Nat

VARIABLES
    tickets,    \* the map, as the set of its keys
    expires,    \* expiry of each ticket that was ever put into the map
    clock,      \* time.Now(), monotonic
    pc,         \* where each call is
    now,        \* Issue: its time
    entry,      \* Consume: the entry it found, as a set of at most one ticket
    granted     \* Consume: the users its answer names, at most one

ticketVars == <<tickets, expires, clock, pc, now, entry, granted>>

TicketInit ==
    /\ tickets = {}
    /\ expires = [i \in Issues |-> 0]
    /\ clock = 0
    /\ pc = [c \in Issues \cup Uses |-> "idle"]
    /\ now = [i \in Issues |-> 0]
    /\ entry = [c \in Uses |-> {}]
    /\ granted = [c \in Uses |-> {}]

------------------------------------------------------------------------------
(* Faulty variants of actions below: plausible bugs that a property reports. *)

\* The delete happens only after the check, in a second critical section.
BugTakeKeeps(c) ==
    /\ pc[c] = "idle"
    /\ entry' = [entry EXCEPT ![c] = tickets \cap {Presented[c]}]
    /\ pc' = [pc EXCEPT ![c] = "taken"]
    /\ UNCHANGED <<tickets, expires, clock, now, granted>>

\* The clean-up removes every ticket of the map that expires within a lifetime.
BugStoreCleansAll(i) ==
    /\ pc[i] = "timed"
    /\ pc' = [pc EXCEPT ![i] = "done"]
    /\ expires' = [expires EXCEPT ![i] = now[i] + Lifetime]
    /\ tickets' = {i} \cup {j \in tickets : expires[j] > expires'[i]}
    /\ UNCHANGED <<clock, now, entry, granted>>

\* The answer does not look at the expiry: the clean-up is meant to do it.
BugAnswerIgnoresExpiry(c) ==
    /\ pc[c] = "taken"
    /\ pc' = [pc EXCEPT ![c] = "done"]
    /\ granted' = [granted EXCEPT ![c] = {Caller[i] : i \in entry[c]}]
    /\ UNCHANGED <<tickets, expires, clock, now, entry>>

------------------------------------------------------------------------------
(* IssueWebSocketTicket.                                                   *)

IssueTime(i) ==
    /\ pc[i] = "idle"
    /\ now' = [now EXCEPT ![i] = clock]
    /\ pc' = [pc EXCEPT ![i] = "timed"]
    /\ UNCHANGED <<tickets, expires, clock, entry, granted>>

\* Under the mutex: expired tickets go, the new one comes.
IssueStore(i) ==
    /\ pc[i] = "timed"
    /\ pc' = [pc EXCEPT ![i] = "done"]
    /\ expires' = [expires EXCEPT ![i] = now[i] + Lifetime]
    /\ tickets' = {i} \cup {j \in tickets : expires[j] > now[i]}
    /\ UNCHANGED <<clock, now, entry, granted>>

(* ConsumeWebSocketTicket.                                                 *)

\* Under the mutex: look the ticket up and delete it.
Take(c) ==
    /\ pc[c] = "idle"
    /\ entry' = [entry EXCEPT ![c] = tickets \cap {Presented[c]}]
    /\ tickets' = tickets \ {Presented[c]}
    /\ pc' = [pc EXCEPT ![c] = "taken"]
    /\ UNCHANGED <<expires, clock, now, granted>>

\* After the mutex: the entry must exist and not have expired by now.
Answer(c) ==
    /\ pc[c] = "taken"
    /\ pc' = [pc EXCEPT ![c] = "done"]
    /\ granted' = [granted EXCEPT ![c] =
                     {Caller[i] : i \in {j \in entry[c] : expires[j] > clock}}]
    /\ UNCHANGED <<tickets, expires, clock, now, entry>>

Tick ==
    /\ clock < MaxClock
    /\ clock' = clock + 1
    /\ UNCHANGED <<tickets, expires, pc, now, entry, granted>>

\* The map lives in memory only: a restart invalidates every ticket.
Restart ==
    /\ tickets' = {}
    /\ pc' = [c \in Issues \cup Uses |->
                IF pc[c] \in {"timed", "taken"} THEN "lost" ELSE pc[c]]
    /\ <<tickets, pc>>' # <<tickets, pc>>
    /\ UNCHANGED <<expires, clock, now, entry, granted>>

TicketNext ==
    \/ \E i \in Issues : IssueTime(i) \/ IssueStore(i)
    \/ \E c \in Uses : Take(c) \/ Answer(c)
    \/ Tick
    \/ Restart

TicketSpec == TicketInit /\ [][TicketNext]_ticketVars

------------------------------------------------------------------------------
(* Properties.                                                             *)

TicketTypeOK ==
    /\ tickets \in SUBSET Issues
    /\ expires \in [Issues -> Nat]
    /\ clock \in 0..MaxClock
    /\ pc \in [Issues \cup Uses -> {"idle", "timed", "taken", "done", "lost"}]
    /\ now \in [Issues -> Nat]
    /\ entry \in [Uses -> SUBSET Issues]
    /\ granted \in [Uses -> SUBSET Users]

\* auth.go:75: a ticket opens at most one socket, and for the user it was issued
\* to, however many upgrades present it at once.
SingleUse ==
    \A c \in Uses :
        /\ granted[c] \subseteq {Caller[Presented[c]]}
        /\ \A d \in Uses : /\ granted[c] # {} /\ granted[d] # {}
                           /\ Presented[c] = Presented[d]
                           => c = d

\* The clean-up in IssueWebSocketTicket, which may work with an old time and finds
\* tickets stored meanwhile, removes none that is still good.
GoodTicketIsKept ==
    [][\A k \in Issues : (pc[k] = "timed" /\ pc'[k] = "done")
                            => \A i \in tickets \ tickets' : expires[i] <= clock]_ticketVars

\* No socket opens with a ticket older than its lifetime: an answer that names a
\* user is given before the ticket expires.
ExpiredIsRefused ==
    [][\A c \in Uses : granted'[c] # granted[c]
                          => clock < now[Presented[c]] + Lifetime]_ticketVars

==============================================================================
