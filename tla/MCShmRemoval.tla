---------------------------- MODULE MCShmRemoval ----------------------------
(* Model checking ShmRemoval.                                              *)
EXTENDS ShmRemoval, TLC

CONSTANTS p1, p2, p3

Symmetry == Permutations(Proc)
=============================================================================
