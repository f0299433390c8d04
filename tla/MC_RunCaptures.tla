---------------------------- MODULE MC_RunCaptures ----------------------------
(* Small instances of RunCaptureHistory for TLC. *)
EXTENDS RunCaptureHistory, TLC

CONSTANTS f, g, r1, r2, s1

MC_OneSession == r1 :> s1 @@ r2 :> s1

Symmetry == Permutations({f, g})
===============================================================================
