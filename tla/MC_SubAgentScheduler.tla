------------------------- MODULE MC_SubAgentScheduler -------------------------
(* A small instance of SubAgentScheduler for TLC. *)
EXTENDS SubAgentScheduler, TLC

CONSTANTS a, b, c

MC_Order == <<a, b, c>>

Task(status, deps, required) ==
  [status |-> status, deps |-> deps, required |-> required, supersedes |-> {},
   subagent |-> TRUE, retries |-> 0, limit |-> 0, wait |-> FALSE]

Others(item) == [item EXCEPT !.subagent = FALSE]

\* A chain of three todos, the last one listed first.
MC_Chain ==
  [t \in TodoIds |-> IF t = a THEN Task("pending", {b}, TRUE)
                     ELSE IF t = b THEN Task("pending", {c}, FALSE)
                     ELSE Task("pending", {}, TRUE)]

\* Two todos: independent ones, an interrupted one and one with a retry time, one
\* that waits for a todo someone else executes.
MC_Pairs ==
  {[t \in TodoIds |-> IF t = c THEN NoTodo ELSE Task("pending", {}, t = a)],
   [t \in TodoIds |-> IF t = c THEN NoTodo ELSE IF t = a THEN Task("in_progress", {}, TRUE)
                      ELSE [Task("pending", {}, FALSE) EXCEPT !.wait = TRUE]],
   [t \in TodoIds |-> IF t = c THEN NoTodo ELSE IF t = a THEN Others(Task("pending", {}, TRUE))
                      ELSE Task("pending", {a}, FALSE)]}

MC_Lists == {MC_Chain} \cup MC_Pairs
===============================================================================
