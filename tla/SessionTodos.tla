----------------------------- MODULE SessionTodos -----------------------------
(***************************************************************************)
(* One session's todo list and plan over a sequence of runs: the run       *)
(* boundary that prunes the list, the todo_write tool the model calls in   *)
(* build mode, the accept gate that ends a run, the plan revisions         *)
(* produced in plan mode, and the client that approves a plan revision.    *)
(*                                                                         *)
(* Runs of a session are serialised by the session lock, todo_write calls  *)
(* by the lock of the tool's name, and every edit is saved and installed   *)
(* under the run's mutex, so the saved list and the list in memory are one *)
(* variable here; an edit whose save fails leaves both as they were.       *)
(***************************************************************************)
EXTENDS TodoRules

CONSTANTS ReplaceLists,   \* lists the model may submit with the plan action
          MaxRevision,    \* bound: plan revisions explored
          MaxEdits        \* bound: todo_write calls explored

\* When the todo was created, as the accept gate tells it apart: before the
\* plan was, since then, or unstamped.
Age == {"unset", "old", "new"}

TodoItem == [status     : Status,
             deps       : SUBSET TodoIds,
             required   : BOOLEAN,
             supersedes : SUBSET TodoIds,
             reason     : BOOLEAN,         \* blocked_reason is not empty
             age        : Age]

TodoList == [TodoIds -> TodoItem \cup {NoTodo}]

\* Only a blocked todo carries a blocked_reason.
ReasonsInOrder(list) ==
  \A t \in Listed(list) : list[t].reason => list[t].status = "blocked"

ASSUME NoTodoAssumption == NoTodo \notin TodoItem

ASSUME InputsAssumption == /\ ReplaceLists \subseteq TodoList
                           /\ \A list \in ReplaceLists :
                                /\ Listed(list) # {}
                                /\ ReasonsInOrder(list)

ASSUME BoundsAssumption == MaxRevision \in Nat /\ MaxEdits \in Nat

PlanStatus == {"none", "draft", "approved", "completed"}

VARIABLES todos,      \* the todo list
          plan,       \* the current plan: status, revision, todos it owns
          run,        \* "idle", or the mode of the run in progress
          outcome,    \* how the last run ended
          seen,       \* the plan revision the client last fetched
          approved,   \* the plan revision the client last approved
          edits       \* todo_write calls so far, for the bound

vars == <<todos, plan, run, outcome, seen, approved, edits>>

EmptyList == [t \in TodoIds |-> NoTodo]

Init ==
  /\ todos = EmptyList
  /\ plan = [status |-> "none", revision |-> 0, owned |-> {}]
  /\ run = "idle"
  /\ outcome = "none"
  /\ seen = 0
  /\ approved = 0
  /\ edits = 0

-------------------------------------------------------------------------------
(* The plan's share of the list. *)

PostPlanRequired(item) ==
  item.required /\ item.status \in Open /\ item.age = "new"

\* Mutant: todos created after the plan are forgotten.
PlanOwnedOnly(list) ==
  {t \in Listed(list) : plan.status # "none" /\ t \in plan.owned}

\* What the accept gate looks at and a run with an active plan inherits.
PlanOwned(list) ==
  {t \in Listed(list) :
     plan.status # "none" /\ (t \in plan.owned \/ PostPlanRequired(list[t]))}

Restricted(list, kept) ==
  [t \in TodoIds |-> IF t \in kept THEN list[t] ELSE NoTodo]

PlanActive == plan.status \in {"draft", "approved"}

\* Mutant: a draft plan does not keep its todos.
InheritedApprovedOnly ==
  IF plan.status = "approved" THEN Restricted(todos, PlanOwned(todos)) ELSE EmptyList

\* The list a new run inherits.
Inherited == IF PlanActive THEN Restricted(todos, PlanOwned(todos)) ELSE EmptyList

-------------------------------------------------------------------------------
(* Runs. *)

\* Mutant: the pruned list is installed without validation.
StartRunUnchecked(mode) ==
  /\ run = "idle"
  /\ todos' = Inherited
  /\ run' = mode
  /\ outcome' = "none"
  /\ UNCHANGED <<plan, seen, approved, edits>>

\* A run begins: the list is pruned and, if that changed it, saved, and the
\* save validates it; a refused save ends the run before it did anything.
StartRun(mode) ==
  /\ run = "idle"
  /\ IF Inherited = todos \/ WellFormed(Inherited)
       THEN /\ todos' = Inherited
            /\ run' = mode
            /\ outcome' = "none"
       ELSE /\ outcome' = "boundary_refused"
            /\ UNCHANGED <<todos, run>>
  /\ UNCHANGED <<plan, seen, approved, edits>>

EndRun(how) == run' = "idle" /\ outcome' = how

\* The run is canceled, reaches a limit, fails, or the process stops.
StopRun ==
  /\ run # "idle"
  /\ EndRun("stopped")
  /\ UNCHANGED <<todos, plan, seen, approved, edits>>

\* The accept gate on a turn that ends with text and no tool call.
RequiredFailed ==
  \E t \in PlanOwned(todos) : todos[t].required /\ todos[t].status = "failed"

RequiredOpen ==
  \E t \in PlanOwned(todos) : todos[t].required /\ todos[t].status \in Open

GateOutcome ==
  IF RequiredFailed THEN "failed" ELSE IF RequiredOpen THEN "continued" ELSE "accepted"

\* A "continued" turn goes on until its allowance is used up, which is a
\* StopRun here; the other two outcomes end the run.
AcceptTurn ==
  /\ run = "build"
  /\ GateOutcome # "continued"
  /\ EndRun(GateOutcome)
  /\ plan' = IF GateOutcome = "accepted" /\ plan.status # "none"
               THEN [plan EXCEPT !.status = "completed"] ELSE plan
  /\ UNCHANGED <<todos, seen, approved, edits>>

\* A plan-mode turn that yields a plan installs its next revision as a draft.
\* The first revision dates the plan: what is listed by then is older than it.
PlanTurn(owned) ==
  /\ run = "plan"
  /\ plan.revision < MaxRevision
  /\ plan' = [status |-> "draft", revision |-> plan.revision + 1, owned |-> owned]
  /\ todos' = IF plan.status # "none" THEN todos
              ELSE [t \in TodoIds |->
                      IF todos[t] = NoTodo \/ todos[t].age # "new" THEN todos[t]
                      ELSE [todos[t] EXCEPT !.age = "old"]]
  /\ EndRun("planned")
  /\ UNCHANGED <<seen, approved, edits>>

-------------------------------------------------------------------------------
(* The todo_write tool.  A call the list's rules refuse changes nothing. *)

Editing ==
  /\ run = "build"
  /\ edits < MaxEdits
  /\ edits' = edits + 1
  /\ UNCHANGED <<plan, run, outcome, seen, approved>>

\* Mutant: the reason outlives the blocked status.
NormalizeItemKeepingReason(item) == item

\* A reason is kept only while the todo is blocked.
NormalizeItem(item) == [item EXCEPT !.reason = @ /\ item.status = "blocked"]

NewItem(status, deps, required, supersedes, reason) ==
  NormalizeItem([status |-> status, deps |-> deps, required |-> required,
                 supersedes |-> supersedes, reason |-> reason, age |-> "new"])

\* A new todo comes in whatever status the model gives it: only an update looks
\* at what it depends on.
AddTodo(t, item) ==
  LET next == [todos EXCEPT ![t] = item]
  IN /\ Editing
     /\ todos[t] = NoTodo
     /\ WellFormed(next)
     /\ todos' = next

\* The plan action replaces the whole list with one that carries no stamps; it
\* does not look at dependencies either.
ReplaceTodos(list) ==
  /\ Editing
  /\ WellFormed(list)
  /\ todos' = list

\* update, set_status, claim, complete and fail all come down to UpdateTodo;
\* complete on a pending todo is two of them, through in_progress.
UpdateTodo(t, status, deps, required, reason) ==
  /\ Editing
  /\ todos[t] # NoTodo
  /\ LET item == NormalizeItem([todos[t] EXCEPT !.status = status, !.deps = deps,
                                                !.required = required,
                                                !.reason = reason])
     IN /\ UpdateAllowed(todos, t, item)
        /\ todos' = [todos EXCEPT ![t] = item]

DeleteTodo(t) ==
  /\ Editing
  /\ DeleteAllowed(todos, t)
  /\ todos' = [todos EXCEPT ![t] = NoTodo]

-------------------------------------------------------------------------------
(* The client. *)

FetchPlan ==
  /\ seen # plan.revision
  /\ seen' = plan.revision
  /\ UNCHANGED <<todos, plan, run, outcome, approved, edits>>

\* Mutant: the revision the client names is not compared.
ApprovePlanAnyRevision ==
  /\ run = "idle"
  /\ plan.status = "draft"
  /\ seen > 0
  /\ plan' = [plan EXCEPT !.status = "approved"]
  /\ approved' = seen
  /\ UNCHANGED <<todos, run, outcome, seen, edits>>

\* Approval names the revision the client looked at; it waits for the session
\* lock, so no run is in progress.
ApprovePlan ==
  /\ run = "idle"
  /\ plan.status = "draft"
  /\ seen > 0
  /\ seen = plan.revision
  /\ plan' = [plan EXCEPT !.status = "approved"]
  /\ approved' = seen
  /\ UNCHANGED <<todos, run, outcome, seen, edits>>

-------------------------------------------------------------------------------
Next ==
  \/ \E mode \in {"build", "plan"} : StartRun(mode)
  \/ StopRun
  \/ AcceptTurn
  \/ \E owned \in SUBSET TodoIds : PlanTurn(owned)
  \/ \E t \in TodoIds, status \in Status, deps \in SUBSET TodoIds,
        required \in BOOLEAN, supersedes \in SUBSET TodoIds, reason \in BOOLEAN :
       AddTodo(t, NewItem(status, deps, required, supersedes, reason))
  \/ \E list \in ReplaceLists : ReplaceTodos(list)
  \/ \E t \in TodoIds, status \in Status, deps \in SUBSET TodoIds,
        required \in BOOLEAN, reason \in BOOLEAN :
       UpdateTodo(t, status, deps, required, reason)
  \/ \E t \in TodoIds : DeleteTodo(t)
  \/ FetchPlan
  \/ ApprovePlan

Spec == Init /\ [][Next]_vars
-------------------------------------------------------------------------------
(* Properties. *)

\* The shape of the state; in particular a todo that is not blocked carries no
\* blocked_reason, whichever call moved it out of that status.
TypeOK ==
  /\ todos \in TodoList
  /\ ReasonsInOrder(todos)
  /\ plan \in [status : PlanStatus, revision : 0..MaxRevision, owned : SUBSET TodoIds]
  /\ run \in {"idle", "build", "plan"}
  /\ outcome \in {"none", "stopped", "planned", "accepted", "failed", "boundary_refused"}
  /\ seen \in 0..MaxRevision
  /\ approved \in 0..MaxRevision
  /\ edits \in 0..MaxEdits

\* The saved list can always be loaded again: no edit, removal or pruning
\* leaves a dangling reference, a cycle or an unreplaced cancellation.
ListLoads == WellFormed(todos)

\* A listed todo whose dependencies are in order stays in order, and none is moved
\* to another status ahead of them, whatever is edited, removed, pruned or redated
\* around it.  Only creating a todo, alone or in a list that replaces all others,
\* may put it ahead of what it depends on.
DependenciesStayDone ==
  [][(\A list \in ReplaceLists : ~ReplaceTodos(list)) =>
       \A t \in Listed(todos) :
         (todos'[t] # NoTodo
            /\ (DepsAllow(todos, t) \/ todos'[t].status # todos[t].status))
           => DepsAllow(todos', t)]_vars

\* A todo that reached a terminal status keeps it for as long as it is listed,
\* unless the model replaces the whole list.
TerminalIsFinal ==
  [][(\A list \in ReplaceLists : ~ReplaceTodos(list)) =>
       \A t \in Listed(todos) :
         (todos[t].status \in Terminal /\ todos'[t] # NoTodo) =>
           todos'[t].status = todos[t].status]_vars

\* Neither a run boundary nor a plan revision drops a todo the active plan
\* owns: while the plan is active only an explicit edit of the model does.
OwnedTodosSurvive ==
  [][(PlanActive /\ edits' = edits) =>
       \A t \in PlanOwned(todos) : todos'[t] # NoTodo]_vars

\* A plan is completed by a run only when every required todo it owns, and
\* every open required todo created since it was made, has converged.
CompletionConverged ==
  [][(plan.status # "completed" /\ plan'.status = "completed") =>
       \A t \in Listed(todos') :
         (todos'[t].required /\ (t \in plan.owned \/ todos'[t].age = "new")) =>
           /\ todos'[t].status \in Terminal
           /\ t \in plan.owned => todos'[t].status # "failed"]_vars

\* An approved plan is the revision the client looked at when it approved.
ApprovedIsSeen == plan.status = "approved" => approved = plan.revision

\* What the comment of resetTodosForUserRun promises: the todos an earlier
\* task left behind do not keep a new run of the session from starting.
LeftoversNeverBlockRun == outcome # "boundary_refused"
===============================================================================
