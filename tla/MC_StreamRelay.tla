--------------------------- MODULE MC_StreamRelay ----------------------------
(* Small instances of StreamRelay for TLC: a session with one run, and the    *)
(* event loop as the only publisher.                                          *)
EXTENDS StreamRelay

CONSTANTS c1, c2, s1, r1, loop
=============================================================================
