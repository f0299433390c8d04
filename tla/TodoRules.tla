------------------------------ MODULE TodoRules ------------------------------
(***************************************************************************)
(* The rules internal/session/todo.go enforces on a todo list, as pure     *)
(* operators.  A list is a function from every todo id to its item, or to  *)
(* NoTodo when the id is not listed; an item is any record that has at     *)
(* least the fields status, deps, required and supersedes, so that each    *)
(* component keeps only the further fields its own properties tell apart.  *)
(***************************************************************************)
EXTENDS Naturals, FiniteSets

CONSTANTS TodoIds,      \* the todo ids in use
          NoTodo        \* the entry of an id that is not listed

Status == {"pending", "in_progress", "blocked", "completed", "failed", "canceled"}

Terminal == {"completed", "failed", "canceled"}

Open == Status \ Terminal

\* Mutant: a failed todo may be queued again.
TransitionsReopenFailed ==
  ({"pending", "failed"} \X {"in_progress", "blocked", "failed", "canceled"})
    \cup ({"in_progress"} \X {"completed", "failed", "blocked", "canceled"})
    \cup ({"blocked"} \X {"pending", "in_progress", "failed", "canceled"})

\* The moves of the status machine other than staying put.
Transitions ==
  ({"pending"} \X {"in_progress", "blocked", "failed", "canceled"})
    \cup ({"in_progress"} \X {"completed", "failed", "blocked", "canceled"})
    \cup ({"blocked"} \X {"pending", "in_progress", "failed", "canceled"})

ValidTransition(from, to) == from = to \/ <<from, to>> \in Transitions

Listed(list) == {t \in TodoIds : list[t] # NoTodo}

\* Dependencies and superseded todos are listed, and never the todo itself.
ReferencesListed(list) ==
  \A t \in Listed(list) :
    list[t].deps \cup list[t].supersedes \subseteq Listed(list) \ {t}

\* A required todo may be canceled only while a required todo that is not
\* canceled declares that it supersedes it.
CanceledReplaced(list) ==
  \A t \in Listed(list) :
    (list[t].required /\ list[t].status = "canceled") =>
      \E r \in Listed(list) : /\ list[r].required
                              /\ list[r].status # "canceled"
                              /\ t \in list[r].supersedes

\* The dependency graph has a cycle exactly when some non-empty set of todos
\* has, for each of its members, a dependency inside the set.
Cyclic(list) ==
  \E S \in SUBSET Listed(list) :
    S # {} /\ \A t \in S : list[t].deps \cap S # {}

\* What every write and every load of a list demands of it.
WellFormed(list) ==
  /\ ReferencesListed(list)
  /\ CanceledReplaced(list)
  /\ ~Cyclic(list)

\* A todo that is being worked on, or is done, has all its dependencies done.
DepsAllow(list, t) ==
  list[t].status \in {"in_progress", "completed"} =>
    \A d \in list[t].deps : list[d] # NoTodo /\ list[d].status = "completed"

Dependents(list, t) == {u \in Listed(list) : t \in list[u].deps}

\* Mutant: the dependencies are not looked at.
UpdateAllowedIgnoringDeps(list, t, item) ==
  /\ list[t] # NoTodo
  /\ ValidTransition(list[t].status, item.status)
  /\ WellFormed([list EXCEPT ![t] = item])

\* May t's item be replaced by item through UpdateTodo?
UpdateAllowed(list, t, item) ==
  LET next == [list EXCEPT ![t] = item]
  IN /\ list[t] # NoTodo
     /\ ValidTransition(list[t].status, item.status)
     /\ WellFormed(next)
     /\ DepsAllow(next, t)

\* May t be deleted?
DeleteAllowed(list, t) ==
  /\ list[t] # NoTodo
  /\ Dependents(list, t) = {}
  /\ WellFormed([list EXCEPT ![t] = NoTodo])
==============================================================================
