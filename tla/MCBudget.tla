------------------------------ MODULE MCBudget ------------------------------
(* Small instances of Budget for TLC. *)
EXTENDS Budget, TLC

CONSTANTS o1, o2, o3, d1

Symmetry == Permutations(Outfits)
=============================================================================
