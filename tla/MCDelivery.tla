----------------------------- MODULE MCDelivery ------------------------------
(* Small instances of Delivery; messages and runs of syncOffline are          *)
(* interchangeable.                                                           *)
EXTENDS Delivery, TLC

MCFrom == [m \in Msgs |-> CHOOSE p \in Peers : TRUE]

DeliverySymmetry == Permutations(Msgs) \cup Permutations(Syncs)

==============================================================================
