-------------------------------- MODULE MCKeys --------------------------------
(* Instances of Keys for TLC: two tabs, of one device or of two.              *)
EXTENDS Keys, TLC

CONSTANTS t1, t2, d1, d2

OneOrTwoDevices == {[t \in Tabs |-> d1], (t1 :> d1) @@ (t2 :> d2)}
===============================================================================
