------------------------------ MODULE MCTickets ------------------------------
(* A small instance of Tickets: ticket i1 of u1 is presented twice, i2 once. *)
EXTENDS Tickets, TLC

CONSTANTS u1, u2, i1, i2, i3, c1, c2, c3

MCCaller    == (i1 :> u1) @@ (i2 :> u2) @@ (i3 :> u1)
MCPresented == (c1 :> i1) @@ (c2 :> i1) @@ (c3 :> i2)

==============================================================================
