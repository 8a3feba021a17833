------------------------------- MODULE MCHub --------------------------------
(* An instance of Hub for TLC: which user a connection belongs to and which  *)
(* users each SendTo names.                                                  *)
EXTENDS Hub

CONSTANTS u1, u2, s1, s2

MCOwner == [c \in Clients |-> u1]
\* The first message is for both users, the second for u1 alone.
MCWanted == [s \in Senders |-> IF s = s1 THEN {u1, u2} ELSE {u1}]
==============================================================================
