---------------------------- MODULE MCLocalHistory ----------------------------
(* Instances of LocalHistory for TLC.                                         *)
EXTENDS LocalHistory, TLC

Interchangeable == Permutations(Callers)
===============================================================================
