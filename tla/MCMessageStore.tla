---------------------------- MODULE MCMessageStore --------------------------
(* The instance of MessageStore for TLC: alice sends, recalls and clears.    *)
EXTENDS MessageStore, TLC

CONSTANTS alice, bob, carol, a1

MCAuthor == [m \in Msgs |-> alice]
MCAttOf  == [m \in Msgs |-> a1]
MCTarget == [r \in Recalls |-> CHOOSE m \in Msgs : TRUE]
MCBy     == [r \in Recalls |-> alice]
MCActor  == [k \in Clears |-> alice]

\* bob and carol only receive.
Receivers == Permutations({bob, carol})
==============================================================================
