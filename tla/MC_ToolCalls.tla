---------------------------- MODULE MC_ToolCalls -----------------------------
(* A small instance of ToolCalls for TLC: two tools whose approvals are       *)
(* remembered under one key, and a question.                                  *)
EXTENDS ToolCalls, TLC

CONSTANTS edit, write, ask, k1, e1, e2, e3, run

MC_ToolOf == [c \in Calls |-> <<edit, write, ask>>[c]]
MC_KeyOf == [c \in Calls |-> k1]
MC_Policy == [c \in Calls |-> <<"ask", "ask", "allow">>[c]]
=============================================================================
