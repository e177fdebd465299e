----------------------------- MODULE MCBudget -----------------------------
(* Small instances of Budget. *)
EXTENDS Budget, TLC

RunSymmetry == Permutations(Runs)
=============================================================================
