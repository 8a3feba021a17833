------------------------------- MODULE MCWidget ------------------------------
(* Small instances of Widget.                                                 *)
EXTENDS Widget
==============================================================================
