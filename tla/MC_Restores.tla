---------------------------- MODULE MC_Restores ----------------------------
(* Small instances of RestoreHistory for TLC. *)
EXTENDS RestoreHistory, TLC

CONSTANTS f, g, r1, s1

MC_OneRun == r1 :> s1

Symmetry == Permutations({f, g})
===============================================================================
