------------------------------ MODULE MCReload -------------------------------
(* Instances of LiveReload for TLC. *)
EXTENDS LiveReload, TLC

CONSTANTS h1, h2, v1, v2, bad, weights, stranger

Symmetry == Permutations(Hooks)
=============================================================================
