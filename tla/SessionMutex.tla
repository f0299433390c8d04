---------------------------- MODULE SessionMutex ----------------------------
(* What the session locks of the runtime promise: each session has at most   *)
(* one owner, an owner keeps the session until it gives it back, and nobody  *)
(* else takes it before. A crash of the process takes every owner away.      *)
CONSTANTS Users, Sessions, None

VARIABLE owner

Init == owner = [s \in Sessions |-> None]

Take(s, u) ==
  /\ owner[s] = None
  /\ owner' = [owner EXCEPT ![s] = u]

Give(s) ==
  /\ owner[s] # None
  /\ owner' = [owner EXCEPT ![s] = None]

Crash == owner' = [s \in Sessions |-> None]

Next ==
  \/ \E s \in Sessions, u \in Users : Take(s, u)
  \/ \E s \in Sessions : Give(s)
  \/ Crash

Spec == Init /\ [][Next]_owner
=============================================================================
