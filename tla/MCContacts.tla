----------------------------- MODULE MCContacts ------------------------------
(* A small instance of Contacts: k1 and k2 race for the conversation of alice *)
(* and bob, k4 names nobody but its caller.                                   *)
EXTENDS Contacts, TLC

CONSTANTS alice, bob, k1, k2, k4

MCRequests == {<<alice, bob>>, <<bob, alice>>}
MCCreator == [k \in Creations |-> IF k = k2 THEN bob ELSE alice]
MCInvited == [k \in Creations |-> CASE k = k1 -> {bob}
                                    [] k = k2 -> {alice}
                                    [] k = k4 -> {}]

==============================================================================
