-------------------------------- MODULE MCRoom --------------------------------
(* Instances of Room for TLC: the messages of one room, and another room to   *)
(* leave it for.                                                              *)
EXTENDS Room, TLC

CONSTANTS r1, r2, m1, m2

MCHome == [m \in Msgs |-> r1]

Interchangeable == Permutations(Openers) \cup Permutations(Jobs)
===============================================================================
