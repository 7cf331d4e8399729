------------------------------- MODULE MCRebind -------------------------------
(* Instances of ProfileRebind for TLC.                                     *)
EXTENDS ProfileRebind

CONSTANTS a, b, rebinder

Spec == Init /\ [][Next]_rbvars
===============================================================================
