--------------------------- MODULE MC_SessionRuns ---------------------------
(* Small instances of SessionRuns for TLC. *)
EXTENDS SessionRuns, TLC

CONSTANTS o1, s1, e1, e2, e3, i1

MC_Users == Tokens \cup Ops

=============================================================================
