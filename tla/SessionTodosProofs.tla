-------------------------- MODULE SessionTodosProofs --------------------------
(* Proofs about SessionTodos, for every set of todo ids and every bound. *)
EXTENDS SessionTodos, TLAPS

\* A new todo, and an updated one, is an item without a stray blocked_reason.
LEMMA NormalizedItem ==
  ASSUME NEW item \in TodoItem
  PROVE  /\ NormalizeItem(item) \in TodoItem
         /\ NormalizeItem(item).reason => NormalizeItem(item).status = "blocked"
  BY DEF NormalizeItem, TodoItem

\* Setting one entry of a list to an item whose reason is in order, or to
\* NoTodo, keeps the list's type and its reasons in order.
LEMMA PutKeepsReasons ==
  ASSUME NEW list \in TodoList, ReasonsInOrder(list), NEW u \in TodoIds,
         NEW item \in TodoItem \cup {NoTodo},
         item = NoTodo \/ (item.reason => item.status = "blocked")
  PROVE  /\ [list EXCEPT ![u] = item] \in TodoList
         /\ ReasonsInOrder([list EXCEPT ![u] = item])
  BY DEF TodoList, Listed, ReasonsInOrder

\* Keeping some of a list's entries keeps its type and its reasons in order.
LEMMA RestrictKeepsReasons ==
  ASSUME NEW list \in TodoList, ReasonsInOrder(list), NEW kept
  PROVE  /\ Restricted(list, kept) \in TodoList
         /\ ReasonsInOrder(Restricted(list, kept))
  BY DEF TodoList, Listed, Restricted, ReasonsInOrder

\* The list a new run inherits is a restriction of the current one.
LEMMA InheritedIsRestriction ==
  \E kept : Inherited = Restricted(todos, kept)
<1>1. CASE PlanActive
  BY <1>1 DEF Inherited
<1>2. CASE ~PlanActive
  <2>1. EmptyList = Restricted(todos, {})
    BY DEF EmptyList, Restricted
  <2> QED
    BY <1>2, <2>1 DEF Inherited
<1> QED
  BY <1>1, <1>2

-------------------------------------------------------------------------------
\* The state keeps its type, and a todo that is not blocked never carries a
\* blocked_reason (normalizeTodoItem clears it on every write).
THEOREM TypeCorrect == Spec => []TypeOK
<1>1. Init => TypeOK
  BY BoundsAssumption DEF Init, TypeOK, EmptyList, TodoList, Listed, PlanStatus, ReasonsInOrder
<1>2. TypeOK /\ [Next]_vars => TypeOK'
  <2> SUFFICES ASSUME TypeOK, [Next]_vars PROVE TypeOK'
    OBVIOUS
  <2>1. ASSUME NEW mode \in {"build", "plan"}, StartRun(mode) PROVE TypeOK'
    <3>1. PICK kept : Inherited = Restricted(todos, kept)
      BY InheritedIsRestriction
    <3>2. /\ Inherited \in TodoList
          /\ ReasonsInOrder(Inherited)
      BY <3>1, RestrictKeepsReasons DEF TypeOK
    <3>3. todos' \in {todos, Inherited}
      BY <2>1 DEF StartRun, TypeOK, PlanStatus
    <3>4. /\ todos' \in TodoList
          /\ ReasonsInOrder(todos')
      BY <3>2, <3>3 DEF TypeOK
    <3> QED
      BY <2>1, <3>4 DEF StartRun, Listed, TypeOK, PlanStatus, ReasonsInOrder
  <2>2. CASE StopRun
    BY <2>2 DEF StopRun, EndRun, Listed, TypeOK, PlanStatus, ReasonsInOrder
  <2>3. CASE AcceptTurn
    BY <2>3 DEF AcceptTurn, EndRun, GateOutcome, Listed, TypeOK, PlanStatus, ReasonsInOrder
  <2>4. ASSUME NEW owned \in SUBSET TodoIds, PlanTurn(owned) PROVE TypeOK'
    <3>1. todos' \in TodoList
      BY <2>4 DEF PlanTurn, TodoList, TodoItem, Age, TypeOK, PlanStatus
    <3>2. ReasonsInOrder(todos')
      BY <2>4, NoTodoAssumption DEF PlanTurn, TodoList, TodoItem, Listed, ReasonsInOrder, TypeOK, PlanStatus
    <3>3. plan' \in [status : PlanStatus, revision : 0..MaxRevision, owned : SUBSET TodoIds]
      BY <2>4, BoundsAssumption DEF PlanTurn, TypeOK, PlanStatus
    <3> QED
      BY <2>4, <3>1, <3>2, <3>3 DEF PlanTurn, EndRun, Listed, TypeOK, PlanStatus, ReasonsInOrder
  <2>5. ASSUME NEW t \in TodoIds, NEW status \in Status, NEW deps \in SUBSET TodoIds,
               NEW required \in BOOLEAN, NEW supersedes \in SUBSET TodoIds,
               NEW reason \in BOOLEAN,
               AddTodo(t, NewItem(status, deps, required, supersedes, reason))
        PROVE  TypeOK'
    <3> DEFINE item == [status |-> status, deps |-> deps, required |-> required,
                        supersedes |-> supersedes, reason |-> reason, age |-> "new"]
    <3>1. item \in TodoItem
      BY InputsAssumption DEF TodoItem, Age, TypeOK, PlanStatus
    <3>2. /\ NormalizeItem(item) \in TodoItem
          /\ NormalizeItem(item).reason => NormalizeItem(item).status = "blocked"
      BY <3>1, NormalizedItem
    <3>3. todos' = [todos EXCEPT ![t] = NormalizeItem(item)]
      BY <2>5 DEF AddTodo, NewItem
    <3>4. /\ todos' \in TodoList
          /\ ReasonsInOrder(todos')
      BY <3>2, <3>3, PutKeepsReasons DEF TypeOK
    <3> QED
      BY <2>5, <3>4, BoundsAssumption DEF AddTodo, Editing, Listed, TypeOK, PlanStatus, ReasonsInOrder
  <2>6. ASSUME NEW list \in ReplaceLists, ReplaceTodos(list) PROVE TypeOK'
    BY <2>6, InputsAssumption, BoundsAssumption DEF ReplaceTodos, Editing, Listed, TypeOK, PlanStatus, ReasonsInOrder
  <2>7. ASSUME NEW t \in TodoIds, NEW status \in Status, NEW deps \in SUBSET TodoIds,
               NEW required \in BOOLEAN, NEW reason \in BOOLEAN,
               UpdateTodo(t, status, deps, required, reason)
        PROVE  TypeOK'
    <3> DEFINE item == [todos[t] EXCEPT !.status = status, !.deps = deps,
                                        !.required = required, !.reason = reason]
    <3>1. todos[t] \in TodoItem
      BY <2>7 DEF UpdateTodo, TodoList, TypeOK, PlanStatus
    <3>2. item \in TodoItem
      BY <3>1 DEF TodoItem, TypeOK, PlanStatus
    <3>3. /\ NormalizeItem(item) \in TodoItem
          /\ NormalizeItem(item).reason => NormalizeItem(item).status = "blocked"
      BY <3>2, NormalizedItem
    <3>4. todos' = [todos EXCEPT ![t] = NormalizeItem(item)]
      BY <2>7 DEF UpdateTodo, TypeOK, PlanStatus
    <3>5. /\ todos' \in TodoList
          /\ ReasonsInOrder(todos')
      BY <3>3, <3>4, PutKeepsReasons DEF TypeOK
    <3> QED
      BY <2>7, <3>5, BoundsAssumption DEF UpdateTodo, Editing, Listed, TypeOK, PlanStatus, ReasonsInOrder
  <2>8. ASSUME NEW t \in TodoIds, DeleteTodo(t) PROVE TypeOK'
    <3>1. /\ todos' \in TodoList
          /\ ReasonsInOrder(todos')
      BY <2>8, PutKeepsReasons DEF DeleteTodo, TypeOK, PlanStatus
    <3> QED
      BY <2>8, <3>1, BoundsAssumption DEF DeleteTodo, Editing, Listed, TypeOK, PlanStatus, ReasonsInOrder
  <2>9. CASE FetchPlan
    BY <2>9 DEF FetchPlan, Listed, TypeOK, PlanStatus, ReasonsInOrder
  <2>10. CASE ApprovePlan
    BY <2>10 DEF ApprovePlan, Listed, TypeOK, PlanStatus, ReasonsInOrder
  <2>11. CASE UNCHANGED vars
    BY <2>11 DEF vars, Listed, TypeOK, PlanStatus, ReasonsInOrder
  <2> QED
    BY <2>1, <2>2, <2>3, <2>4, <2>5, <2>6, <2>7, <2>8, <2>9, <2>10, <2>11 DEF Next
<1> QED
  BY <1>1, <1>2, PTL DEF Spec

-------------------------------------------------------------------------------
\* Whether a list is well formed depends on its entries' links and statuses only.
LEMMA RedatingKeepsWellFormed ==
  ASSUME NEW list \in TodoList, NEW list2 \in TodoList, WellFormed(list),
         \A t \in TodoIds :
           IF list[t] = NoTodo THEN list2[t] = NoTodo
           ELSE /\ list2[t] # NoTodo
                /\ list2[t].status = list[t].status
                /\ list2[t].deps = list[t].deps
                /\ list2[t].required = list[t].required
                /\ list2[t].supersedes = list[t].supersedes
  PROVE  WellFormed(list2)
<1>1. Listed(list2) = Listed(list)
  BY DEF Listed
<1>2. ReferencesListed(list2)
  BY <1>1 DEF WellFormed, ReferencesListed, Listed
<1>3. CanceledReplaced(list2)
  BY <1>1 DEF WellFormed, CanceledReplaced, Listed
<1>4. ~Cyclic(list2)
  BY <1>1 DEF WellFormed, Cyclic, Listed
<1> QED
  BY <1>2, <1>3, <1>4 DEF WellFormed

\* The first plan revision redates todos and changes nothing else of them.
LEMMA PlanTurnRedates ==
  ASSUME TypeOK, NEW owned \in SUBSET TodoIds, PlanTurn(owned), NEW t \in TodoIds
  PROVE  IF todos[t] = NoTodo THEN todos'[t] = NoTodo
         ELSE /\ todos'[t] # NoTodo
              /\ todos'[t].status = todos[t].status
              /\ todos'[t].deps = todos[t].deps
              /\ todos'[t].required = todos[t].required
              /\ todos'[t].supersedes = todos[t].supersedes
<1>1. todos[t] \in TodoItem \cup {NoTodo}
  BY DEF TypeOK, TodoList
<1>2. todos'[t] = todos[t] \/ (todos[t] # NoTodo /\ todos'[t] = [todos[t] EXCEPT !.age = "old"])
  BY DEF PlanTurn, TypeOK
<1>3. ASSUME todos[t] # NoTodo PROVE [todos[t] EXCEPT !.age = "old"] \in TodoItem
  BY <1>1, <1>3 DEF TodoItem, Age
<1> QED
  BY <1>1, <1>2, <1>3, NoTodoAssumption DEF TodoItem

\* The saved list can always be loaded again (normalizeAndValidateTodos accepts
\* it), whatever runs, edits, prunings and plan revisions came before.
THEOREM ListAlwaysLoads == Spec => []ListLoads
<1>1. Init => ListLoads
  BY DEF Init, EmptyList, ListLoads, WellFormed, ReferencesListed, CanceledReplaced,
         Cyclic, Listed
<1>2. TypeOK /\ TypeOK' /\ ListLoads /\ [Next]_vars => ListLoads'
  <2> SUFFICES ASSUME TypeOK, TypeOK', ListLoads, [Next]_vars PROVE WellFormed(todos')
    BY DEF ListLoads, WellFormed, ReferencesListed, CanceledReplaced, Cyclic, Listed
  <2>0. WellFormed(todos)
    BY DEF ListLoads
  <2>1. ASSUME NEW mode \in {"build", "plan"}, StartRun(mode) PROVE WellFormed(todos')
    <3>1. CASE Inherited = todos \/ WellFormed(Inherited)
      BY <2>0, <2>1, <3>1 DEF StartRun
    <3>2. CASE ~(Inherited = todos \/ WellFormed(Inherited))
      BY <2>0, <2>1, <3>2 DEF StartRun
    <3> QED
      BY <3>1, <3>2
  <2>2. ASSUME NEW owned \in SUBSET TodoIds, PlanTurn(owned) PROVE WellFormed(todos')
    <3>1. \A t \in TodoIds :
            IF todos[t] = NoTodo THEN todos'[t] = NoTodo
            ELSE /\ todos'[t] # NoTodo
                 /\ todos'[t].status = todos[t].status
                 /\ todos'[t].deps = todos[t].deps
                 /\ todos'[t].required = todos[t].required
                 /\ todos'[t].supersedes = todos[t].supersedes
      BY <2>2, PlanTurnRedates
    <3>2. todos \in TodoList /\ todos' \in TodoList
      BY DEF TypeOK
    <3> QED
      BY <2>0, <3>1, <3>2, RedatingKeepsWellFormed
  <2>3. ASSUME NEW t \in TodoIds, NEW item, AddTodo(t, item) PROVE WellFormed(todos')
    BY <2>3 DEF AddTodo
  <2>4. ASSUME NEW list \in ReplaceLists, ReplaceTodos(list) PROVE WellFormed(todos')
    BY <2>4 DEF ReplaceTodos
  <2>5. ASSUME NEW t \in TodoIds, NEW status, NEW deps, NEW required, NEW reason,
               UpdateTodo(t, status, deps, required, reason)
        PROVE  WellFormed(todos')
    BY <2>5 DEF UpdateTodo, UpdateAllowed
  <2>6. ASSUME NEW t \in TodoIds, DeleteTodo(t) PROVE WellFormed(todos')
    BY <2>6 DEF DeleteTodo, DeleteAllowed
  <2>7. CASE UNCHANGED todos
    BY <2>0, <2>7
  <2>8. StopRun \/ AcceptTurn \/ FetchPlan \/ ApprovePlan \/ UNCHANGED vars => UNCHANGED todos
    BY DEF StopRun, AcceptTurn, FetchPlan, ApprovePlan, vars
  <2> QED
    BY <2>1, <2>2, <2>3, <2>4, <2>5, <2>6, <2>7, <2>8 DEF Next
<1> QED
  BY <1>1, <1>2, TypeCorrect, PTL DEF Spec

-------------------------------------------------------------------------------
\* An approved plan is the revision the client looked at: the approval checks
\* the revision under the session lock, and every new revision is a draft.
THEOREM ApprovalNamesItsRevision == Spec => []ApprovedIsSeen
<1>1. Init => ApprovedIsSeen
  BY DEF Init, ApprovedIsSeen
<1>2. TypeOK /\ ApprovedIsSeen /\ [Next]_vars => ApprovedIsSeen'
  <2> SUFFICES ASSUME TypeOK, ApprovedIsSeen, [Next]_vars PROVE ApprovedIsSeen'
    OBVIOUS
  <2> USE DEF TypeOK, PlanStatus, ApprovedIsSeen
  <2>1. ASSUME NEW mode \in {"build", "plan"}, StartRun(mode) PROVE ApprovedIsSeen'
    BY <2>1 DEF StartRun
  <2>2. ASSUME NEW owned \in SUBSET TodoIds, PlanTurn(owned) PROVE ApprovedIsSeen'
    BY <2>2 DEF PlanTurn
  <2>3. CASE AcceptTurn
    BY <2>3 DEF AcceptTurn
  <2>4. CASE ApprovePlan
    BY <2>4 DEF ApprovePlan
  <2>5. ASSUME Editing PROVE ApprovedIsSeen'
    BY <2>5 DEF Editing
  <2>6. StopRun \/ FetchPlan \/ UNCHANGED vars => ApprovedIsSeen'
    BY DEF StopRun, FetchPlan, vars
  <2> QED
    BY <2>1, <2>2, <2>3, <2>4, <2>5, <2>6
    DEF Next, AddTodo, ReplaceTodos, UpdateTodo, DeleteTodo
<1> QED
  BY <1>1, <1>2, TypeCorrect, PTL DEF Spec

-------------------------------------------------------------------------------
\* Writing one entry keeps the dependencies of another todo done, unless that
\* todo has started and the entry, which it depends on, is no longer completed.
LEMMA PutKeepsDependenciesDone ==
  ASSUME NEW list \in TodoList, NEW u \in TodoIds, NEW item \in TodoItem \cup {NoTodo},
         NEW t \in Listed(list) \ {u}, DepsAllow(list, t),
         u \in list[t].deps /\ list[t].status \in {"in_progress", "completed"}
           => item # NoTodo /\ item.status = "completed"
  PROVE  DepsAllow([list EXCEPT ![u] = item], t)
<1> DEFINE next == [list EXCEPT ![u] = item]
<1>1. t \in TodoIds /\ list[t] \in TodoItem /\ next[t] = list[t]
  BY DEF Listed, TodoList
<1> SUFFICES ASSUME list[t].status \in {"in_progress", "completed"}, NEW d \in list[t].deps
             PROVE  next[d] # NoTodo /\ next[d].status = "completed"
  BY <1>1 DEF DepsAllow
<1>2. d \in TodoIds
  BY <1>1 DEF TodoItem
<1>3. list[d] # NoTodo /\ list[d].status = "completed"
  BY DEF DepsAllow
<1>4. CASE d = u
  BY <1>4 DEF TodoList
<1>5. CASE d # u
  BY <1>2, <1>3, <1>5 DEF TodoList
<1> QED
  BY <1>4, <1>5

\* A todo that is kept in a well formed part of a list keeps what it depends on.
LEMMA RestrictKeepsDependenciesDone ==
  ASSUME NEW list \in TodoList, NEW kept, WellFormed(Restricted(list, kept)),
         NEW t \in Listed(Restricted(list, kept)), DepsAllow(list, t)
  PROVE  DepsAllow(Restricted(list, kept), t)
<1> DEFINE next == Restricted(list, kept)
<1> SUFFICES ASSUME next[t].status \in {"in_progress", "completed"},
                    NEW d \in next[t].deps
             PROVE  next[d] # NoTodo /\ next[d].status = "completed"
  BY DEF DepsAllow
<1>1. d \in Listed(next)
  BY DEF WellFormed, ReferencesListed
<1>2. next[t] = list[t] /\ next[d] = list[d] /\ t \in Listed(list) /\ next[d] # NoTodo
  BY <1>1 DEF Restricted, Listed
<1> QED
  BY <1>1, <1>2 DEF DepsAllow

\* The steps other than a run's start, a plan turn and the edits leave the list.
LEMMA ListKept ==
  StopRun \/ AcceptTurn \/ FetchPlan \/ ApprovePlan \/ UNCHANGED vars => UNCHANGED todos
BY DEF StopRun, AcceptTurn, FetchPlan, ApprovePlan, vars

\* No step other than the creation of a todo puts one ahead of its dependencies.
\* An update looks at the dependencies of its todo, a completed dependency stays
\* completed and is not deleted while a todo depends on it, a new todo was nobody's
\* dependency, and a list that is pruned and saved is well formed
\* (ensureTodoDependenciesForStatus, ValidTransition and DeleteTodo of todo.go).
THEOREM DependenciesStay == Spec => DependenciesStayDone
<1> DEFINE StayDone ==
      (\A list \in ReplaceLists : ~ReplaceTodos(list)) =>
        \A t \in Listed(todos) :
          (todos'[t] # NoTodo
             /\ (DepsAllow(todos, t) \/ todos'[t].status # todos[t].status))
            => DepsAllow(todos', t)
<1>1. TypeOK /\ TypeOK' /\ ListLoads /\ [Next]_vars => StayDone
  <2> SUFFICES ASSUME TypeOK, TypeOK', ListLoads, [Next]_vars,
                      \A list \in ReplaceLists : ~ReplaceTodos(list),
                      NEW t \in Listed(todos), todos'[t] # NoTodo,
                      DepsAllow(todos, t) \/ todos'[t].status # todos[t].status
               PROVE  DepsAllow(todos', t)
    OBVIOUS
  <2>0. /\ todos \in TodoList
        /\ todos' \in TodoList
        /\ WellFormed(todos)
        /\ t \in TodoIds /\ todos[t] \in TodoItem /\ todos[t] # NoTodo
    BY DEF TypeOK, ListLoads, TodoList, Listed
  <2>1. ASSUME NEW mode \in {"build", "plan"}, StartRun(mode)
        PROVE  DepsAllow(todos', t)
    <3>1. CASE todos' = todos
      BY <2>0, <3>1
    <3>2. CASE todos' # todos
      <4>1. todos' = Inherited /\ WellFormed(Inherited)
        BY <2>1, <3>2 DEF StartRun
      <4>2. PICK kept : Inherited = Restricted(todos, kept)
        BY InheritedIsRestriction
      <4>3. t \in Listed(Restricted(todos, kept)) /\ todos'[t] = todos[t]
        BY <2>0, <4>1, <4>2 DEF Restricted, Listed
      <4> QED
        BY <2>0, <4>1, <4>2, <4>3, RestrictKeepsDependenciesDone
    <3> QED
      BY <3>1, <3>2
  <2>2. ASSUME NEW owned \in SUBSET TodoIds, PlanTurn(owned)
        PROVE  DepsAllow(todos', t)
    <3>1. \A u \in TodoIds :
            IF todos[u] = NoTodo THEN todos'[u] = NoTodo
            ELSE /\ todos'[u] # NoTodo
                 /\ todos'[u].status = todos[u].status
                 /\ todos'[u].deps = todos[u].deps
      BY <2>2, PlanTurnRedates
    <3>2. todos[t].deps \subseteq TodoIds /\ DepsAllow(todos, t)
      BY <2>0, <3>1 DEF TodoItem
    <3> QED
      BY <2>0, <3>1, <3>2 DEF DepsAllow
  <2>3. ASSUME NEW u \in TodoIds, NEW status \in Status, NEW deps \in SUBSET TodoIds,
               NEW required \in BOOLEAN, NEW supersedes \in SUBSET TodoIds,
               NEW reason \in BOOLEAN,
               AddTodo(u, NewItem(status, deps, required, supersedes, reason))
        PROVE  DepsAllow(todos', t)
    <3> DEFINE item == NewItem(status, deps, required, supersedes, reason)
    <3>1. todos[u] = NoTodo /\ todos' = [todos EXCEPT ![u] = item]
      BY <2>3 DEF AddTodo
    <3>2. item \in TodoItem
      <4>1. todos'[u] = item /\ item # NoTodo
        BY <2>0, <3>1, NoTodoAssumption, NormalizedItem DEF NewItem, TodoItem, Age, TodoList
      <4> QED
        BY <2>0, <4>1 DEF TodoList
    <3> HIDE DEF item
    <3>3. t # u /\ t \in Listed(todos) /\ todos'[t] = todos[t]
      BY <2>0, <3>1 DEF Listed, TodoList
    <3>4. u \notin todos[t].deps
      BY <2>0, <3>1 DEF WellFormed, ReferencesListed, Listed
    <3>5. DepsAllow(todos, t)
      BY <3>3
    <3> QED
      BY <2>0, <3>1, <3>2, <3>3, <3>4, <3>5, PutKeepsDependenciesDone
  <2>4. ASSUME NEW u \in TodoIds, NEW status \in Status, NEW deps \in SUBSET TodoIds,
               NEW required \in BOOLEAN, NEW reason \in BOOLEAN,
               UpdateTodo(u, status, deps, required, reason)
        PROVE  DepsAllow(todos', t)
    <3> DEFINE item == NormalizeItem([todos[u] EXCEPT !.status = status, !.deps = deps,
                                                      !.required = required,
                                                      !.reason = reason])
    <3>1. todos[u] \in TodoItem
      BY <2>0, <2>4 DEF UpdateTodo, TodoList
    <3>2. [todos[u] EXCEPT !.status = status, !.deps = deps, !.required = required,
                           !.reason = reason] \in TodoItem
      BY <3>1 DEF TodoItem
    <3>3. item \in TodoItem
      BY <3>2, NormalizedItem
    <3>4. /\ todos' = [todos EXCEPT ![u] = item]
          /\ ValidTransition(todos[u].status, item.status)
          /\ DepsAllow([todos EXCEPT ![u] = item], u)
      BY <2>4 DEF UpdateTodo, UpdateAllowed
    <3> HIDE DEF item
    <3>5. CASE t = u
      BY <3>4, <3>5
    <3>6. CASE t # u
      <4>1. todos'[t] = todos[t] /\ t \in Listed(todos) \ {u} /\ DepsAllow(todos, t)
        BY <2>0, <3>4, <3>6 DEF TodoList
      <4>2. todos[u].status = "completed" => item.status = "completed"
        BY <3>4 DEF ValidTransition, Transitions
      <4>3. u \in todos[t].deps /\ todos[t].status \in {"in_progress", "completed"}
              => item # NoTodo /\ item.status = "completed"
        BY <3>3, <4>1, <4>2, NoTodoAssumption DEF DepsAllow
      <4> QED
        BY <2>0, <3>3, <3>4, <4>1, <4>3, PutKeepsDependenciesDone
    <3> QED
      BY <3>5, <3>6
  <2>5. ASSUME NEW u \in TodoIds, DeleteTodo(u)
        PROVE  DepsAllow(todos', t)
    <3>1. todos' = [todos EXCEPT ![u] = NoTodo] /\ Dependents(todos, u) = {}
      BY <2>5 DEF DeleteTodo, DeleteAllowed
    <3>2. t # u /\ todos'[t] = todos[t] /\ t \in Listed(todos) \ {u}
      BY <2>0, <3>1 DEF TodoList
    <3>3. u \notin todos[t].deps /\ DepsAllow(todos, t)
      BY <3>1, <3>2 DEF Dependents
    <3> QED
      BY <2>0, <3>1, <3>2, <3>3, PutKeepsDependenciesDone
  <2>6. CASE UNCHANGED todos
    BY <2>6
  <2> QED
    BY <2>1, <2>2, <2>3, <2>4, <2>5, <2>6, ListKept DEF Next
<1>2. Spec => [][StayDone]_vars
  <2>1. TypeOK /\ TypeOK' /\ ListLoads /\ [Next]_vars => [StayDone]_vars
    BY <1>1
  <2> QED
    BY <2>1, TypeCorrect, ListAlwaysLoads, PTL DEF Spec
<1> QED
  BY <1>2 DEF DependenciesStayDone

-------------------------------------------------------------------------------
(* What a step may never do. *)

\* No call of todo_write other than plan moves a todo out of a terminal status,
\* nor does a run boundary or a plan revision (ValidTransition of todo.go).
THEOREM TerminalStays == Spec => TerminalIsFinal
<1> DEFINE Final ==
      (\A list \in ReplaceLists : ~ReplaceTodos(list)) =>
        \A t \in Listed(todos) :
          (todos[t].status \in Terminal /\ todos'[t] # NoTodo) =>
            todos'[t].status = todos[t].status
<1>1. TypeOK /\ [Next]_vars => Final
  <2> SUFFICES ASSUME TypeOK, [Next]_vars, \A list \in ReplaceLists : ~ReplaceTodos(list),
                      NEW t \in Listed(todos), todos[t].status \in Terminal, todos'[t] # NoTodo
               PROVE  todos'[t].status = todos[t].status
    OBVIOUS
  <2>0. t \in TodoIds /\ todos[t] # NoTodo /\ todos \in TodoList
    BY DEF Listed, TypeOK
  <2>1. ASSUME NEW mode \in {"build", "plan"}, StartRun(mode)
        PROVE  todos'[t].status = todos[t].status
    <3>1. PICK kept : Inherited = Restricted(todos, kept)
      BY InheritedIsRestriction
    <3>2. todos' \in {todos, Inherited}
      BY <2>1 DEF StartRun
    <3> QED
      BY <2>0, <3>1, <3>2 DEF Restricted
  <2>2. ASSUME NEW owned \in SUBSET TodoIds, PlanTurn(owned)
        PROVE  todos'[t].status = todos[t].status
    BY <2>0, <2>2, PlanTurnRedates
  <2>3. ASSUME NEW u \in TodoIds, NEW item, AddTodo(u, item)
        PROVE  todos'[t].status = todos[t].status
    BY <2>0, <2>3 DEF AddTodo, TodoList
  <2>4. ASSUME NEW u \in TodoIds, NEW status \in Status, NEW deps \in SUBSET TodoIds,
               NEW required \in BOOLEAN, NEW reason \in BOOLEAN,
               UpdateTodo(u, status, deps, required, reason)
        PROVE  todos'[t].status = todos[t].status
    <3> DEFINE item == NormalizeItem([todos[u] EXCEPT !.status = status, !.deps = deps,
                                                      !.required = required,
                                                      !.reason = reason])
    <3>1. ValidTransition(todos[u].status, item.status) /\ todos' = [todos EXCEPT ![u] = item]
      BY <2>4 DEF UpdateTodo, UpdateAllowed
    <3> HIDE DEF item
    <3> QED
      BY <2>0, <3>1 DEF ValidTransition, Transitions, Terminal, TodoList
  <2>5. ASSUME NEW u \in TodoIds, DeleteTodo(u)
        PROVE  todos'[t].status = todos[t].status
    BY <2>0, <2>5 DEF DeleteTodo, TodoList
  <2> QED
    BY <2>1, <2>2, <2>3, <2>4, <2>5, ListKept DEF Next
<1>2. Spec => [][Final]_vars
  <2>1. TypeOK /\ [Next]_vars => [Final]_vars
    BY <1>1
  <2> QED
    BY <2>1, TypeCorrect, PTL DEF Spec
<1> QED
  BY <1>2 DEF TerminalIsFinal

\* A plan is completed only by the accept gate, and only when all it has to
\* bring about has converged.
THEOREM CompletedConverged == Spec => CompletionConverged
<1> DEFINE Converged ==
      (plan.status # "completed" /\ plan'.status = "completed") =>
        \A t \in Listed(todos') :
          (todos'[t].required /\ (t \in plan.owned \/ todos'[t].age = "new")) =>
            /\ todos'[t].status \in Terminal
            /\ t \in plan.owned => todos'[t].status # "failed"
<1>1. TypeOK /\ [Next]_vars => Converged
  <2> SUFFICES ASSUME TypeOK, [Next]_vars,
                      plan.status # "completed", plan'.status = "completed",
                      NEW t \in Listed(todos'), todos'[t].required,
                      t \in plan.owned \/ todos'[t].age = "new"
               PROVE  /\ todos'[t].status \in Terminal
                      /\ t \in plan.owned => todos'[t].status # "failed"
    OBVIOUS
  <2>1. AcceptTurn
    <3>1. Editing \/ StopRun \/ FetchPlan \/ UNCHANGED vars => plan' = plan
      BY DEF Editing, StopRun, FetchPlan, vars
    <3>2. \A mode \in {"build", "plan"} : StartRun(mode) => plan' = plan
      BY DEF StartRun
    <3>3. \A owned \in SUBSET TodoIds : PlanTurn(owned) => plan'.status = "draft"
      BY DEF PlanTurn
    <3>4. ApprovePlan => plan'.status = "approved"
      BY DEF ApprovePlan, TypeOK
    <3> QED
      BY <3>1, <3>2, <3>3, <3>4
      DEF Next, AddTodo, ReplaceTodos, UpdateTodo, DeleteTodo
  <2>2. /\ todos' = todos /\ t \in Listed(todos) /\ todos[t] \in TodoItem
        /\ plan.status # "none" /\ ~RequiredFailed /\ ~RequiredOpen
    <3>1. todos' = todos /\ t \in Listed(todos)
      BY <2>1 DEF AcceptTurn, Listed
    <3>2. GateOutcome = "accepted" /\ plan.status # "none"
      BY <2>1 DEF AcceptTurn
    <3> QED
      BY <3>1, <3>2 DEF GateOutcome, Listed, TypeOK, TodoList
  <2>3. todos[t].status \in Status
    BY <2>2 DEF TodoItem
  <2>4. CASE t \in plan.owned
    <3>1. t \in PlanOwned(todos)
      BY <2>2, <2>4 DEF PlanOwned
    <3> QED
      BY <2>2, <2>3, <3>1 DEF RequiredFailed, RequiredOpen, Open
  <2>5. CASE t \notin plan.owned
    <3>1. todos[t].status \in Open => t \in PlanOwned(todos)
      BY <2>2, <2>5 DEF PlanOwned, PostPlanRequired
    <3> QED
      BY <2>2, <2>3, <2>5, <3>1 DEF RequiredOpen, Open
  <2> QED
    BY <2>4, <2>5
<1>2. Spec => [][Converged]_vars
  <2>1. TypeOK /\ [Next]_vars => [Converged]_vars
    BY <1>1
  <2> QED
    BY <2>1, TypeCorrect, PTL DEF Spec
<1> QED
  BY <1>2 DEF CompletionConverged

\* Neither the pruning at a run's start nor a plan revision drops a todo that
\* the active plan owns.
THEOREM OwnedSurvive == Spec => OwnedTodosSurvive
<1> DEFINE Survive ==
      (PlanActive /\ edits' = edits) => \A t \in PlanOwned(todos) : todos'[t] # NoTodo
<1>1. TypeOK /\ [Next]_vars => Survive
  <2> SUFFICES ASSUME TypeOK, [Next]_vars, PlanActive, edits' = edits,
                      NEW t \in PlanOwned(todos)
               PROVE  todos'[t] # NoTodo
    OBVIOUS
  <2>0. t \in TodoIds /\ todos[t] # NoTodo
    BY DEF PlanOwned, Listed
  <2>1. ASSUME NEW mode \in {"build", "plan"}, StartRun(mode) PROVE todos'[t] # NoTodo
    BY <2>0, <2>1 DEF StartRun, Inherited, Restricted
  <2>2. ASSUME NEW owned \in SUBSET TodoIds, PlanTurn(owned) PROVE todos'[t] # NoTodo
    BY <2>0, <2>2, PlanTurnRedates
  <2>3. ~Editing
    <3>1. edits \in Nat
      BY BoundsAssumption DEF TypeOK
    <3> QED
      BY <3>1 DEF Editing
  <2> QED
    BY <2>0, <2>1, <2>2, <2>3, ListKept
    DEF Next, AddTodo, ReplaceTodos, UpdateTodo, DeleteTodo
<1>2. Spec => [][Survive]_vars
  <2>1. TypeOK /\ [Next]_vars => [Survive]_vars
    BY <1>1
  <2> QED
    BY <2>1, TypeCorrect, PTL DEF Spec
<1> QED
  BY <1>2 DEF OwnedTodosSurvive
===============================================================================
