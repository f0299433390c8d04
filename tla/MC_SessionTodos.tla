--------------------------- MODULE MC_SessionTodos ---------------------------
(* A small instance of SessionTodos for TLC. *)
EXTENDS SessionTodos, TLC

CONSTANTS a, b

Item(status, deps) ==
  [status |-> status, deps |-> deps, required |-> TRUE, supersedes |-> {},
   reason |-> FALSE, age |-> "unset"]

\* One todo, and a chain of two, as a plan action submits them; the second of the
\* chain may be under way or done before the first.
MC_ReplaceLists ==
  {[EmptyList EXCEPT ![t] = Item("pending", {})] : t \in {a, b}}
    \cup {[EmptyList EXCEPT ![p[1]] = Item(first, {}), ![p[2]] = Item(second, {p[1]})] :
            p \in {<<a, b>>, <<b, a>>}, first \in {"pending", "completed"},
            second \in {"pending", "in_progress", "completed"}}

Symmetry == Permutations({a, b})

==============================================================================
