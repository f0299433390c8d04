----------------------- MODULE SubAgentSchedulerProofs -----------------------
(* Proofs about SubAgentScheduler, for every list, configuration and bound. *)
EXTENDS SubAgentScheduler, FiniteSetTheorems, TLAPS

\* Where the steps between two calls of the scheduler find what they work on.
Located ==
  /\ pc = "reread" => pass.pos \in DOMAIN Order /\ running[NextTask] = 0
  /\ \A t \in pass.ready : running[t] = 0
  /\ pc \in {"apply", "cancelwrite", "cancelfail"} =>
       /\ cur \in [kind : {"success", "failure", "cancel"}, id : TodoIds]
       /\ pass.snap[cur.id] # NoTodo

\* What the store keeps of an item is an item, with a retry time only where it
\* means something.
LEMMA StoredItem ==
  ASSUME NEW item \in TodoItem
  PROVE  /\ Stored(item) \in TodoItem
         /\ Stored(item).wait => Stored(item).status \in {"pending", "failed"}
  BY DEF Stored, TodoItem

\* A write keeps the type of the store, and of fresh.
LEMMA WriteKeepsType ==
  ASSUME StoreTypeOK, fresh \subseteq TodoIds, later' \subseteq TodoIds,
         NEW t \in TodoIds, NEW item \in TodoItem, Write(t, item)
  PROVE  StoreTypeOK' /\ fresh' \subseteq TodoIds
  BY StoredItem DEF Write, TodoList, StoreTypeOK, RetryTimesInOrder, Listed

LEMMA StoreKept == StoreTypeOK /\ UNCHANGED storeVars => StoreTypeOK'
  BY DEF StoreTypeOK, storeVars, RetryTimesInOrder, Listed

LEMMA ExecutorsKept == ExecutorTypeOK /\ UNCHANGED runVars => ExecutorTypeOK'
  BY DEF ExecutorTypeOK, runVars

LEMMA EndKept == EndTypeOK /\ UNCHANGED endVars => EndTypeOK'
  BY DEF EndTypeOK, endVars, Endings

\* The position of a pass is that of a todo until the pass is over.
LEMMA NextTaskIsTodo ==
  ASSUME StepTypeOK, pass.pos <= Len(Order)
  PROVE  NextTask \in TodoIds /\ pass.pos \in DOMAIN Order
  BY OrderAssumption DEF StepTypeOK, NextTask, Pass

\* An empty pass has the type of a pass.
LEMMA NoPassType == NoPass \in Pass /\ NoPass.ready = {}
  BY DEF NoPass, TodoList, Pass

\* Moving on to the next todo keeps the type of the pass, and its ready todos.
LEMMA MoveOnType ==
  ASSUME StepTypeOK, MoveOn
  PROVE  pass' \in Pass /\ pass'.ready = pass.ready
  BY DEF StepTypeOK, MoveOn, Pass

\* So does moving on with another set of ready todos, or another entry.
LEMMA ReadyType ==
  ASSUME StepTypeOK, NEW R \in SUBSET TodoIds,
         pass' = [pass EXCEPT !.pos = @ + 1, !.ready = R]
  PROVE  pass' \in Pass /\ pass'.ready = R
<1>1. pass = [snap |-> pass.snap, pos |-> pass.pos, ready |-> pass.ready,
              started |-> pass.started]
  BY DEF StepTypeOK, Pass
<1>2. pass' = [snap |-> pass.snap, pos |-> pass.pos + 1, ready |-> R,
               started |-> pass.started]
  BY <1>1
<1> QED
  BY <1>2 DEF StepTypeOK, Pass

LEMMA LearnedType ==
  ASSUME StepTypeOK, NEW t \in TodoIds, NEW entry \in TodoItem \cup {NoTodo},
         pass' = [pass EXCEPT !.pos = @ + 1, !.snap[t] = entry]
  PROVE  pass' \in Pass /\ pass'.ready = pass.ready
<1>1. pass = [snap |-> pass.snap, pos |-> pass.pos, ready |-> pass.ready,
              started |-> pass.started]
  BY DEF StepTypeOK, Pass
<1>2. pass' = [snap |-> [pass.snap EXCEPT ![t] = entry], pos |-> pass.pos + 1,
               ready |-> pass.ready, started |-> pass.started]
  BY <1>1
<1>3. [pass.snap EXCEPT ![t] = entry] \in TodoList
  BY DEF StepTypeOK, Pass, TodoList
<1> QED
  BY <1>2, <1>3 DEF StepTypeOK, Pass

\* An abort, and the end of a run, leave nothing to locate.
LEMMA AbortTyped ==
  ASSUME StepTypeOK, NEW why \in Endings, Abort(why), fresh' \subseteq TodoIds
  PROVE  StepTypeOK' /\ Located'
<1>1. Running \subseteq TodoIds
  BY DEF Running
<1> QED
  BY <1>1, NoPassType DEF Abort, StepTypeOK, Located, PcValues, NoCur, Endings

LEMMA FinishTyped ==
  ASSUME ExecutorTypeOK, EndTypeOK, NEW why \in Endings, Finish(why), UNCHANGED <<runs, edits>>
  PROVE  StepTypeOK' /\ ExecutorTypeOK' /\ EndTypeOK' /\ Located'
<1>1. StepTypeOK' /\ Located'
  BY NoPassType DEF Finish, StepTypeOK, Located, PcValues, NoCur, NoStop, Endings
<1>2. ExecutorTypeOK'
  BY DEF Finish, ExecutorTypeOK, NotRunning
<1>3. EndTypeOK'
  BY DEF Finish, EndTypeOK, Endings
<1> QED
  BY <1>1, <1>2, <1>3

-------------------------------------------------------------------------------
\* The state keeps its type, and every step finds the todo it works on.
LEMMA InitTyped == Init => TypeOK /\ Located
<1> SUFFICES ASSUME Init PROVE TypeOK /\ Located
  OBVIOUS
<1>1. StoreTypeOK
  BY InitialAssumption DEF Init, StoreTypeOK
<1>2. StepTypeOK /\ Located
  BY NoPassType DEF Init, StepTypeOK, Located, PcValues, NoStop, Endings
<1>3. ExecutorTypeOK
  BY DEF Init, ExecutorTypeOK, NotRunning
<1>4. EndTypeOK
  <2>1. MaxRuns \in Nat /\ MaxEdits \in Nat
    BY ConfigAssumption
  <2>2. 0 \in 0..MaxRuns /\ 0 \in 0..MaxEdits
    BY <2>1
  <2> QED
    BY <2>2 DEF Init, EndTypeOK, Endings
<1> QED
  BY <1>1, <1>2, <1>3, <1>4 DEF TypeOK

LEMMA StartRunTyped ==
  ASSUME TypeOK, Located, StartRun
  PROVE  TypeOK' /\ Located'
<1>1. StoreTypeOK'
  BY StoreKept DEF StartRun, TypeOK
<1>2. pass' \in Pass /\ pass'.ready = {}
  BY NoPassType DEF StartRun, TypeOK, StoreTypeOK, Pass, NoPass
<1>3. StepTypeOK' /\ Located'
  BY <1>2 DEF StartRun, TypeOK, StepTypeOK, Located, PcValues, Listed
<1>4. ExecutorTypeOK'
  BY ExecutorsKept DEF StartRun, TypeOK
<1>5. EndTypeOK'
  BY ConfigAssumption DEF StartRun, TypeOK, EndTypeOK, Endings
<1> QED
  BY <1>1, <1>3, <1>4, <1>5 DEF TypeOK

LEMMA StartCanceledTyped ==
  ASSUME TypeOK, Located, StartCanceled
  PROVE  TypeOK' /\ Located'
<1>1. StoreTypeOK' /\ ExecutorTypeOK'
  BY StoreKept, ExecutorsKept DEF StartCanceled, TypeOK
<1>2. StepTypeOK' /\ Located'
  BY DEF StartCanceled, TypeOK, StepTypeOK, Located, NextTask, runVars
<1>3. EndTypeOK'
  BY ConfigAssumption DEF StartCanceled, TypeOK, EndTypeOK, Endings
<1> QED
  BY <1>1, <1>2, <1>3 DEF TypeOK

LEMMA RecoveredType ==
  ASSUME NEW item \in TodoItem
  PROVE  RecoveredItem(item) \in TodoItem
<1> DEFINE gaveUp == RecoveryFail \/ (Limit(item) > 0 /\ item.retries + 1 > Limit(item))
<1>1. Limit(item) \in Nat
  BY ConfigAssumption DEF Limit, TodoItem
<1>2. item.retries + 1 \in Nat
  BY DEF TodoItem
<1>3. CASE gaveUp
  BY <1>1, <1>2, <1>3 DEF RecoveredItem, TodoItem, Status
<1>4. CASE ~gaveUp
  BY <1>1, <1>2, <1>4 DEF RecoveredItem, TodoItem, Status
<1> QED
  BY <1>3, <1>4

LEMMA RecoverTyped ==
  ASSUME TypeOK, Located, Recover
  PROVE  TypeOK' /\ Located'
<1> DEFINE t == NextTask
           item == RecoveredItem(pass.snap[t])
<1>0. t \in TodoIds
  BY NextTaskIsTodo DEF Recover, TypeOK
<1>1. CASE MoveOn /\ UNCHANGED <<pc, storeVars, fresh, runVars, cur, stop, endVars>>
  <2>1. StepTypeOK' /\ Located'
    BY <1>1, MoveOnType DEF Recover, TypeOK, StepTypeOK, Located, runVars
  <2> QED
    BY <1>1, <2>1, StoreKept, ExecutorsKept, EndKept DEF TypeOK
<1>2. CASE /\ Interrupted(pass.snap[t])
           /\ Write(t, item)
           /\ MoveOn
           /\ UNCHANGED <<pc, later, runVars, cur, stop, endVars>>
  <2>1. pass.snap[t] \in TodoItem
    BY <1>0, <1>2 DEF Interrupted, TypeOK, StepTypeOK, Pass, TodoList
  <2>2. item \in TodoItem
    BY <1>0, <2>1, RecoveredType
  <2>3. StoreTypeOK' /\ fresh' \subseteq TodoIds
    <3> HIDE DEF t, item
    <3> QED
      BY <1>0, <1>2, <2>2, WriteKeepsType DEF TypeOK, StepTypeOK, StoreTypeOK
  <2>4. StepTypeOK' /\ Located'
    BY <1>2, <2>3, MoveOnType DEF Recover, TypeOK, StepTypeOK, Located, runVars
  <2> QED
    BY <1>2, <2>3, <2>4, ExecutorsKept, EndKept DEF TypeOK
<1>3. CASE Finish("store_error") /\ UNCHANGED <<storeVars, runs, edits>>
  BY <1>3, StoreKept, FinishTyped DEF TypeOK, Endings
<1> QED
  BY <1>1, <1>2, <1>3 DEF Recover

\* The steps that only move the run on to its next stage, with an empty pass.
LEMMA StageTyped ==
  ASSUME TypeOK, Located, Recovered \/ EndPass \/ Poll \/ Collected
  PROVE  TypeOK' /\ Located'
<1>1. StepTypeOK'
  BY NoPassType DEF Recovered, EndPass, Poll, Collected, TypeOK, StepTypeOK, PcValues
<1>2. Located'
  BY NoPassType DEF Recovered, EndPass, Poll, Collected, TypeOK, Located, runVars
<1>3. UNCHANGED storeVars /\ UNCHANGED runVars /\ UNCHANGED endVars
  BY DEF Recovered, EndPass, Poll, Collected
<1> QED
  BY <1>1, <1>2, <1>3, StoreKept, ExecutorsKept, EndKept DEF TypeOK

LEMMA BeginPassTyped ==
  ASSUME TypeOK, Located, BeginPass
  PROVE  TypeOK' /\ Located'
<1>1. pass' \in Pass /\ pass'.ready = {}
  BY NoPassType DEF BeginPass, TypeOK, StoreTypeOK, Pass, NoPass
<1>2. StepTypeOK' /\ Located'
  BY <1>1 DEF BeginPass, TypeOK, StepTypeOK, Located, PcValues, Listed
<1> QED
  BY <1>2, StoreKept, ExecutorsKept, EndKept DEF BeginPass, TypeOK

LEMMA SeeCancelTyped ==
  ASSUME TypeOK, Located, SeeCancel
  PROVE  TypeOK' /\ Located'
<1>1. fresh' \subseteq TodoIds
  BY DEF SeeCancel, TypeOK, StepTypeOK
<1>2. StepTypeOK' /\ Located'
  BY <1>1, AbortTyped DEF SeeCancel, TypeOK, Endings
<1> QED
  BY <1>2, StoreKept, ExecutorsKept, EndKept DEF SeeCancel, TypeOK

LEMMA DecideTyped ==
  ASSUME TypeOK, Located, Decide
  PROVE  TypeOK' /\ Located'
<1>1. CASE Finish("finished")
  BY <1>1, FinishTyped, StoreKept DEF Decide, TypeOK, Endings
<1>2. CASE ~Finish("finished")
  <2>1. StepTypeOK' /\ Located'
    BY <1>2 DEF Decide, TypeOK, StepTypeOK, Located, PcValues, runVars
  <2> QED
    BY <1>2, <2>1, StoreKept, ExecutorsKept, EndKept DEF Decide, TypeOK, endVars
<1> QED
  BY <1>1, <1>2

LEMMA SkipTyped ==
  ASSUME TypeOK, Located, Skip
  PROVE  TypeOK' /\ Located'
<1>1. StepTypeOK' /\ Located'
  BY MoveOnType DEF Skip, TypeOK, StepTypeOK, Located, runVars
<1> QED
  BY <1>1, StoreKept, ExecutorsKept, EndKept DEF Skip, TypeOK

\* The four things a pass can do with a todo it considers.
LEMMA CollectingTyped ==
  ASSUME TypeOK, Located, NEW t \in TodoIds, Collecting(t)
  PROVE  /\ pc = "collect"
         /\ t = NextTask
         /\ pass.pos \in DOMAIN Order
         /\ running[t] = 0
         /\ pass.snap[t] \in TodoItem
  BY NextTaskIsTodo DEF Collecting, Considered, TypeOK, StepTypeOK, Pass, TodoList

LEMMA FailDependentTyped ==
  ASSUME TypeOK, Located, NEW t \in TodoIds, FailDependent(t)
  PROVE  TypeOK' /\ Located'
<1> DEFINE item == [pass.snap[t] EXCEPT !.status = "failed", !.retries = 0, !.wait = FALSE]
<1>0. pc = "collect" /\ pass.snap[t] \in TodoItem
  BY CollectingTyped DEF FailDependent
<1>a. ExecutorTypeOK' /\ EndTypeOK' /\ running' = running
  BY ExecutorsKept, EndKept DEF FailDependent, TypeOK, runVars
<1>1. CASE /\ Write(t, item)
           /\ pass' = [pass EXCEPT !.pos = @ + 1, !.snap[t] = Stored(item)]
           /\ UNCHANGED <<pc, later, cur, stop>>
  <2>1. item \in TodoItem
    BY <1>0 DEF TodoItem, Status
  <2>2. Stored(item) \in TodoItem
    BY <2>1, StoredItem
  <2> HIDE DEF item
  <2>3. StoreTypeOK' /\ fresh' \subseteq TodoIds
    BY <1>1, <2>1, WriteKeepsType DEF TypeOK, StepTypeOK, StoreTypeOK
  <2>4. pass' \in Pass /\ pass'.ready = pass.ready
    BY <1>1, <2>2, LearnedType DEF TypeOK
  <2>5. StepTypeOK' /\ Located'
    BY <1>0, <1>1, <1>a, <2>3, <2>4 DEF TypeOK, StepTypeOK, Located
  <2> QED
    BY <1>a, <2>3, <2>5 DEF TypeOK
<1>2. CASE /\ Conflict(t)
           /\ pass' = [pass EXCEPT !.pos = @ + 1, !.snap[t] = todos[t]]
           /\ UNCHANGED <<fresh, pc, storeVars, cur, stop>>
  <2>1. pass' \in Pass /\ pass'.ready = pass.ready
    BY <1>2, LearnedType DEF TypeOK, StoreTypeOK, TodoList
  <2>2. StepTypeOK' /\ Located'
    BY <1>0, <1>2, <1>a, <2>1 DEF TypeOK, StepTypeOK, Located
  <2> QED
    BY <1>2, <1>a, <2>2, StoreKept DEF TypeOK
<1>3. CASE Abort("store_error") /\ UNCHANGED <<fresh, storeVars>>
  BY <1>3, <1>a, AbortTyped, StoreKept DEF TypeOK, StepTypeOK, Endings
<1> QED
  BY <1>1, <1>2, <1>3 DEF FailDependent

LEMMA BlockTyped ==
  ASSUME TypeOK, Located, NEW t \in TodoIds, Block(t)
  PROVE  TypeOK' /\ Located'
<1> DEFINE item == [pass.snap[t] EXCEPT !.status = "blocked"]
<1>0. pc = "collect" /\ pass.snap[t] \in TodoItem
  BY CollectingTyped DEF Block
<1>a. ExecutorTypeOK' /\ EndTypeOK' /\ running' = running
  BY ExecutorsKept, EndKept DEF Block, TypeOK, runVars
<1>1. CASE MoveOn /\ UNCHANGED <<fresh, pc, storeVars, cur, stop>>
  <2>1. StepTypeOK' /\ Located'
    BY <1>0, <1>1, <1>a, MoveOnType DEF TypeOK, StepTypeOK, Located
  <2> QED
    BY <1>1, <1>a, <2>1, StoreKept DEF TypeOK
<1>2. CASE Write(t, item) /\ MoveOn /\ UNCHANGED <<pc, later, cur, stop>>
  <2>1. item \in TodoItem
    BY <1>0 DEF TodoItem, Status
  <2> HIDE DEF item
  <2>2. StoreTypeOK' /\ fresh' \subseteq TodoIds
    BY <1>2, <2>1, WriteKeepsType DEF TypeOK, StepTypeOK, StoreTypeOK
  <2>3. StepTypeOK' /\ Located'
    BY <1>0, <1>2, <1>a, <2>2, MoveOnType DEF TypeOK, StepTypeOK, Located
  <2> QED
    BY <1>a, <2>2, <2>3 DEF TypeOK
<1>3. CASE Abort("store_error") /\ UNCHANGED <<fresh, storeVars>>
  BY <1>3, <1>a, AbortTyped, StoreKept DEF TypeOK, StepTypeOK, Endings
<1> QED
  BY <1>1, <1>2, <1>3 DEF Block

LEMMA MakeReadyTyped ==
  ASSUME TypeOK, Located, NEW t \in TodoIds, MakeReady(t)
  PROVE  TypeOK' /\ Located'
<1> DEFINE R == IF Waiting(t) THEN pass.ready ELSE pass.ready \cup {t}
<1>a. pass' = [pass EXCEPT !.pos = @ + 1, !.ready = R]
  BY DEF MakeReady
<1>b. R \in SUBSET TodoIds /\ R \subseteq pass.ready \cup {t}
  BY DEF TypeOK, StepTypeOK, Pass
<1> HIDE DEF R
<1>1. pass' \in Pass /\ pass'.ready \subseteq pass.ready \cup {t}
  BY <1>a, <1>b, ReadyType DEF TypeOK
<1>2. StepTypeOK' /\ Located'
  BY <1>1, CollectingTyped DEF MakeReady, TypeOK, StepTypeOK, Located, runVars
<1> QED
  BY <1>2, StoreKept, ExecutorsKept, EndKept DEF MakeReady, TypeOK

LEMMA UnlockTyped ==
  ASSUME TypeOK, Located, NEW t \in TodoIds, Unlock(t)
  PROVE  TypeOK' /\ Located'
<1> DEFINE item == [pass.snap[t] EXCEPT !.status = "pending", !.wait = FALSE]
<1>0. /\ pc = "collect"
      /\ t = NextTask
      /\ pass.pos \in DOMAIN Order
      /\ running[t] = 0
      /\ pass.snap[t] \in TodoItem
  BY CollectingTyped DEF Unlock
<1>a. ExecutorTypeOK' /\ EndTypeOK' /\ running' = running
  BY ExecutorsKept, EndKept DEF Unlock, TypeOK, runVars
<1>1. CASE MoveOn /\ UNCHANGED <<fresh, pc, storeVars, cur, stop>>
  <2>1. StepTypeOK' /\ Located'
    BY <1>0, <1>1, <1>a, MoveOnType DEF TypeOK, StepTypeOK, Located
  <2> QED
    BY <1>1, <1>a, <2>1, StoreKept DEF TypeOK
<1>2. CASE Write(t, item) /\ pc' = "reread" /\ UNCHANGED <<pass, later, cur, stop>>
  <2>1. item \in TodoItem
    BY <1>0 DEF TodoItem, Status
  <2> HIDE DEF item
  <2>2. StoreTypeOK' /\ fresh' \subseteq TodoIds
    BY <1>2, <2>1, WriteKeepsType DEF TypeOK, StepTypeOK, StoreTypeOK
  <2>3. StepTypeOK' /\ Located'
    BY <1>0, <1>2, <1>a, <2>2 DEF TypeOK, StepTypeOK, Located, PcValues, NextTask
  <2> QED
    BY <1>a, <2>2, <2>3 DEF TypeOK
<1>3. CASE Abort("store_error") /\ UNCHANGED <<fresh, storeVars>>
  BY <1>3, <1>a, AbortTyped, StoreKept DEF TypeOK, StepTypeOK, Endings
<1> QED
  BY <1>1, <1>2, <1>3 DEF Unlock

LEMMA RereadTyped ==
  ASSUME TypeOK, Located, Reread
  PROVE  TypeOK' /\ Located'
<1>0. NextTask \in TodoIds /\ running[NextTask] = 0
  BY OrderAssumption DEF Reread, Located, NextTask
<1>1. pass' \in Pass /\ pass'.ready \subseteq pass.ready \cup {NextTask}
  <2> DEFINE t == NextTask
             R == IF todos[t].wait /\ t \in later THEN pass.ready ELSE pass.ready \cup {t}
  <2>1. R \in SUBSET TodoIds /\ R \subseteq pass.ready \cup {t}
    BY <1>0 DEF TypeOK, StepTypeOK, Pass
  <2>2. MoveOn \/ pass' = [pass EXCEPT !.pos = @ + 1, !.ready = R]
    BY DEF Reread
  <2> HIDE DEF R
  <2> QED
    BY <2>1, <2>2, ReadyType, MoveOnType DEF TypeOK
<1>2. fresh' \subseteq TodoIds
  BY <1>0 DEF Reread, TypeOK, StepTypeOK
<1>3. StepTypeOK' /\ Located'
  BY <1>0, <1>1, <1>2 DEF Reread, TypeOK, StepTypeOK, Located, PcValues, runVars
<1> QED
  BY <1>3, StoreKept, ExecutorsKept, EndKept DEF Reread, TypeOK

LEMMA StartTaskTyped ==
  ASSUME TypeOK, Located, NEW t \in TodoIds, StartTask(t)
  PROVE  TypeOK' /\ Located'
<1> DEFINE item == [todos[t] EXCEPT !.status = "in_progress", !.wait = FALSE]
           attempt == todos[t].retries + 1
<1>a. EndTypeOK' /\ pc = "start"
  BY EndKept DEF StartTask, TypeOK
<1>1. CASE pass' = [pass EXCEPT !.ready = @ \ {t}]
           /\ UNCHANGED <<fresh, pc, storeVars, running, exec, cur, stop>>
  <2>1. pass' \in Pass /\ pass'.ready \subseteq pass.ready
    BY <1>1 DEF TypeOK, StepTypeOK, Pass
  <2>2. StepTypeOK' /\ Located'
    BY <1>1, <1>a, <2>1 DEF TypeOK, StepTypeOK, Located
  <2>3. UNCHANGED runVars
    BY <1>1 DEF StartTask, runVars
  <2> QED
    BY <1>1, <1>a, <2>2, <2>3, StoreKept, ExecutorsKept DEF TypeOK
<1>2. CASE /\ Accepted(t, item)
           /\ Write(t, item)
           /\ running' = [running EXCEPT ![t] = attempt]
           /\ exec' = exec \cup {[id |-> t, attempt |-> attempt]}
           /\ pass' = [pass EXCEPT !.ready = @ \ {t}, !.started = TRUE]
           /\ UNCHANGED <<pc, later, cur, stop>>
  <2>1. todos[t] \in TodoItem
    BY <1>2 DEF Accepted, UpdateAllowed, TypeOK, StoreTypeOK, TodoList
  <2>2. item \in TodoItem /\ attempt \in Nat \ {0}
    <3>1. item \in TodoItem
      BY <2>1 DEF TodoItem, Status
    <3>2. todos[t].retries \in Nat
      BY <2>1 DEF TodoItem
    <3> QED
      BY <3>1, <3>2
  <2> HIDE DEF item, attempt
  <2>3. StoreTypeOK' /\ fresh' \subseteq TodoIds
    BY <1>2, <2>2, WriteKeepsType DEF TypeOK, StepTypeOK, StoreTypeOK
  <2>4. pass' \in Pass /\ pass'.ready = pass.ready \ {t}
    BY <1>2 DEF TypeOK, StepTypeOK, Pass
  <2>5. StepTypeOK'
    BY <1>2, <2>3, <2>4 DEF TypeOK, StepTypeOK
  <2>6. Located'
    BY <1>2, <1>a, <2>4 DEF TypeOK, ExecutorTypeOK, Located
  <2>7. ExecutorTypeOK'
    BY <1>2, <2>2 DEF StartTask, TypeOK, ExecutorTypeOK
  <2> QED
    BY <1>a, <2>3, <2>5, <2>6, <2>7 DEF TypeOK
<1>3. CASE Abort("store_error") /\ UNCHANGED <<fresh, storeVars, running, exec>>
  <2>1. UNCHANGED runVars
    BY <1>3 DEF StartTask, runVars
  <2> QED
    BY <1>3, <1>a, <2>1, AbortTyped, StoreKept, ExecutorsKept
    DEF TypeOK, StepTypeOK, Endings
<1> QED
  BY <1>1, <1>2, <1>3 DEF StartTask

LEMMA ExecutorEndsTyped ==
  ASSUME TypeOK, Located, NEW e \in exec, ExecutorEnds(e)
  PROVE  TypeOK' /\ Located'
<1>1. ExecutorTypeOK'
  BY DEF ExecutorEnds, Send, TypeOK, ExecutorTypeOK
<1>2. StepTypeOK' /\ Located'
  BY DEF ExecutorEnds, TypeOK, StepTypeOK, Located, NextTask
<1> QED
  BY <1>1, <1>2, StoreKept, EndKept DEF ExecutorEnds, TypeOK

LEMMA OrphanEndsTyped ==
  ASSUME TypeOK, Located, NEW t \in TodoIds, OrphanEnds(t)
  PROVE  TypeOK' /\ Located'
<1>1. ExecutorTypeOK'
  BY DEF OrphanEnds, TypeOK, ExecutorTypeOK
<1>2. StepTypeOK' /\ Located'
  BY DEF OrphanEnds, TypeOK, StepTypeOK, Located, NextTask
<1> QED
  BY <1>1, <1>2, StoreKept, EndKept DEF OrphanEnds, TypeOK

\* Reading a todo to write it back makes a pass of that todo alone.
LEMMA HeldType ==
  ASSUME TypeOK, NEW t \in TodoIds, todos[t] # NoTodo,
         pass' = [NoPass EXCEPT !.snap[t] = todos[t]]
  PROVE  pass' \in Pass /\ pass'.ready = {} /\ pass'.snap[t] # NoTodo
  BY NoPassType DEF TypeOK, StoreTypeOK, TodoList, Pass, NoPass

LEMMA ReceiveOutcomeTyped ==
  ASSUME TypeOK, Located, NEW o \in chan, ReceiveOutcome(o)
  PROVE  TypeOK' /\ Located'
<1>0. o.id \in TodoIds /\ pc = "await"
  BY DEF ReceiveOutcome, TypeOK, ExecutorTypeOK
<1>1. ExecutorTypeOK' /\ \A t \in TodoIds : running'[t] \in {running[t], 0}
  BY DEF ReceiveOutcome, TypeOK, ExecutorTypeOK
<1>2. CASE pc' = "check" /\ UNCHANGED <<pass, fresh, cur>>
  <2>1. StepTypeOK' /\ Located'
    BY <1>1, <1>2 DEF ReceiveOutcome, TypeOK, StepTypeOK, Located, PcValues, Pass
  <2> QED
    BY <1>1, <2>1, StoreKept, EndKept DEF ReceiveOutcome, TypeOK
<1>3. CASE ~(pc' = "check" /\ UNCHANGED <<pass, fresh, cur>>)
  <2>1. /\ todos[o.id] # NoTodo
        /\ pc' = "apply"
        /\ pass' = [NoPass EXCEPT !.snap[o.id] = todos[o.id]]
        /\ fresh' = {o.id}
        /\ cur' = [kind |-> IF o.ok THEN "success" ELSE "failure", id |-> o.id]
    BY <1>3 DEF ReceiveOutcome
  <2>2. pass' \in Pass /\ pass'.ready = {} /\ pass'.snap[o.id] # NoTodo
    BY <1>0, <2>1, HeldType
  <2>3. StepTypeOK' /\ Located'
    BY <1>0, <2>1, <2>2 DEF ReceiveOutcome, TypeOK, StepTypeOK, Located, PcValues
  <2> QED
    BY <1>1, <2>3, StoreKept, EndKept DEF ReceiveOutcome, TypeOK
<1> QED
  BY <1>2, <1>3

LEMMA AppliedTyped ==
  ASSUME StepTypeOK, fresh' \subseteq TodoIds, Applied
  PROVE  StepTypeOK' /\ Located'
  BY NoPassType DEF Applied, StepTypeOK, Located, PcValues

LEMMA HeldItem ==
  ASSUME TypeOK, Located, pc \in {"apply", "cancelwrite", "cancelfail"}
  PROVE  cur.id \in TodoIds /\ pass.snap[cur.id] \in TodoItem
  BY DEF TypeOK, Located, StepTypeOK, Pass, TodoList

LEMMA ApplySuccessTyped ==
  ASSUME TypeOK, Located, ApplySuccess
  PROVE  TypeOK' /\ Located'
<1> DEFINE t == cur.id
           item == [pass.snap[t] EXCEPT !.status = "completed", !.retries = 0, !.wait = FALSE]
<1>0. t \in TodoIds /\ pass.snap[t] \in TodoItem
  BY HeldItem DEF ApplySuccess
<1>a. ExecutorTypeOK' /\ EndTypeOK'
  BY ExecutorsKept, EndKept DEF ApplySuccess, TypeOK
<1>1. item \in TodoItem
  BY <1>0 DEF TodoItem, Status
<1>2. CASE Write(t, item) /\ Applied /\ UNCHANGED later
  <2> HIDE DEF item, t
  <2>1. StoreTypeOK' /\ fresh' \subseteq TodoIds
    BY <1>0, <1>1, <1>2, WriteKeepsType DEF TypeOK, StepTypeOK, StoreTypeOK
  <2> QED
    BY <1>2, <1>a, <2>1, AppliedTyped DEF TypeOK
<1>3. CASE Applied /\ UNCHANGED <<storeVars, fresh>>
  BY <1>3, <1>a, AppliedTyped, StoreKept DEF TypeOK, StepTypeOK
<1>4. CASE Abort("store_error") /\ UNCHANGED <<storeVars, fresh>>
  BY <1>4, <1>a, AbortTyped, StoreKept DEF TypeOK, StepTypeOK, Endings
<1> QED
  BY <1>2, <1>3, <1>4 DEF ApplySuccess

LEMMA FailedAttemptType ==
  ASSUME NEW item \in TodoItem, NEW retry \in BOOLEAN
  PROVE  [item EXCEPT !.status = IF retry THEN "blocked" ELSE "failed", !.retries = @ + 1,
                      !.limit = Limit(item), !.wait = retry] \in TodoItem
<1>1. Limit(item) \in Nat
  BY ConfigAssumption DEF Limit, TodoItem
<1>2. item.retries + 1 \in Nat
  BY DEF TodoItem
<1> DEFINE status == IF retry THEN "blocked" ELSE "failed"
<1>3. status \in Status
  BY DEF Status
<1> HIDE DEF status
<1>4. [item EXCEPT !.status = status, !.retries = @ + 1, !.limit = Limit(item), !.wait = retry]
        \in TodoItem
  BY <1>1, <1>2, <1>3 DEF TodoItem
<1> QED
  BY <1>4 DEF status

LEMMA ApplyFailureTyped ==
  ASSUME TypeOK, Located, ApplyFailure
  PROVE  TypeOK' /\ Located'
<1> DEFINE t == cur.id
           retry == RetryLeft(pass.snap[t])
           item == [pass.snap[t] EXCEPT !.status = IF retry THEN "blocked" ELSE "failed",
                                        !.retries = @ + 1, !.limit = Limit(pass.snap[t]),
                                        !.wait = retry]
<1>0. t \in TodoIds /\ pass.snap[t] \in TodoItem
  BY HeldItem DEF ApplyFailure
<1>a. ExecutorTypeOK' /\ EndTypeOK'
  BY ExecutorsKept, EndKept DEF ApplyFailure, TypeOK
<1>1. item \in TodoItem
  <2>1. retry \in BOOLEAN
    BY DEF RetryLeft
  <2> HIDE DEF retry, t
  <2> QED
    BY <1>0, <2>1, FailedAttemptType
<1>2. CASE /\ Write(t, item)
           /\ later' = IF retry THEN later \cup {t} ELSE later \ {t}
           /\ IF FailFast /\ ~retry THEN Abort("fail_fast") ELSE Applied
  <2> HIDE DEF item, t, retry
  <2>1. later' \subseteq TodoIds
    BY <1>0, <1>2 DEF TypeOK, StoreTypeOK
  <2>2. StoreTypeOK' /\ fresh' \subseteq TodoIds
    BY <1>0, <1>1, <1>2, <2>1, WriteKeepsType DEF TypeOK, StepTypeOK
  <2>3. Abort("fail_fast") \/ Applied
    BY <1>2
  <2> QED
    BY <1>a, <2>2, <2>3, AppliedTyped, AbortTyped DEF TypeOK, Endings
<1>3. CASE Applied /\ UNCHANGED <<storeVars, fresh>>
  BY <1>3, <1>a, AppliedTyped, StoreKept DEF TypeOK, StepTypeOK
<1>4. CASE Abort("store_error") /\ UNCHANGED <<storeVars, fresh>>
  BY <1>4, <1>a, AbortTyped, StoreKept DEF TypeOK, StepTypeOK, Endings
<1> QED
  BY <1>2, <1>3, <1>4 DEF ApplyFailure

LEMMA CancelNextTyped ==
  ASSUME TypeOK, Located, NEW t \in TodoIds, CancelNext(t)
  PROVE  TypeOK' /\ Located'
<1>a. StoreTypeOK' /\ ExecutorTypeOK' /\ EndTypeOK' /\ pc = "cancel" /\ running' = running
  BY StoreKept, ExecutorsKept, EndKept DEF CancelNext, TypeOK, runVars
<1>1. CASE todos[t] # NoTodo /\ todos[t].status \in Open
  <2>1. pass' \in Pass /\ pass'.ready = {} /\ pass'.snap[t] # NoTodo
    BY <1>1, HeldType DEF CancelNext
  <2>2. StepTypeOK' /\ Located'
    BY <1>1, <2>1 DEF CancelNext, TypeOK, StepTypeOK, Located, PcValues
  <2> QED
    BY <1>a, <2>2 DEF TypeOK
<1>2. CASE ~(todos[t] # NoTodo /\ todos[t].status \in Open)
  <2>1. StepTypeOK' /\ Located'
    BY <1>2, <1>a DEF CancelNext, TypeOK, StepTypeOK, Located
  <2> QED
    BY <1>a, <2>1 DEF TypeOK
<1> QED
  BY <1>1, <1>2

LEMMA CanceledTyped ==
  ASSUME StepTypeOK, fresh' \subseteq TodoIds, Canceled
  PROVE  StepTypeOK' /\ Located'
  BY NoPassType DEF Canceled, StepTypeOK, Located, PcValues

LEMMA CancelWriteTyped ==
  ASSUME TypeOK, Located, CancelWrite
  PROVE  TypeOK' /\ Located'
<1> DEFINE t == cur.id
           item == [pass.snap[t] EXCEPT !.status = "canceled"]
<1>0. t \in TodoIds /\ pass.snap[t] \in TodoItem
  BY HeldItem DEF CancelWrite
<1>a. ExecutorTypeOK' /\ EndTypeOK' /\ later' = later /\ pc = "cancelwrite"
  BY ExecutorsKept, EndKept DEF CancelWrite, TypeOK
<1>1. CASE Write(t, item) /\ Canceled
  <2>1. item \in TodoItem
    BY <1>0 DEF TodoItem, Status
  <2> HIDE DEF item, t
  <2>2. StoreTypeOK' /\ fresh' \subseteq TodoIds
    BY <1>0, <1>1, <1>a, <2>1, WriteKeepsType DEF TypeOK, StepTypeOK, StoreTypeOK
  <2> QED
    BY <1>1, <1>a, <2>2, CanceledTyped DEF TypeOK
<1>2. CASE /\ pc' = "cancelfail"
           /\ IF Conflict(t)
                THEN /\ pass' = [NoPass EXCEPT !.snap[t] = todos[t]]
                     /\ fresh' = {t}
                ELSE UNCHANGED <<pass, fresh>>
           /\ UNCHANGED <<todos, cur, stop>>
  <2>1. /\ pass' \in Pass
        /\ pass'.ready = {} \/ pass' = pass
        /\ pass'.snap[t] # NoTodo
        /\ fresh' \subseteq TodoIds
    <3>1. CASE Conflict(t)
      <4>1. todos[t] # NoTodo /\ pass' = [NoPass EXCEPT !.snap[t] = todos[t]] /\ fresh' = {t}
        BY <1>2, <3>1 DEF Conflict
      <4> HIDE DEF t
      <4> QED
        BY <1>0, <4>1, HeldType
    <3>2. CASE ~Conflict(t)
      BY <1>2, <1>a, <3>2 DEF Located, TypeOK, StepTypeOK
    <3> QED
      BY <3>1, <3>2
  <2>2. StepTypeOK'
    BY <1>2, <2>1 DEF TypeOK, StepTypeOK, PcValues
  <2>3. Located'
    BY <1>2, <1>a, <2>1 DEF CancelWrite, TypeOK, Located, runVars
  <2>4. UNCHANGED storeVars
    BY <1>2, <1>a DEF storeVars
  <2> QED
    BY <1>a, <2>2, <2>3, <2>4, StoreKept DEF TypeOK
<1> QED
  BY <1>1, <1>2 DEF CancelWrite

LEMMA CancelFailTyped ==
  ASSUME TypeOK, Located, CancelFail
  PROVE  TypeOK' /\ Located'
<1> DEFINE t == cur.id
           item == [pass.snap[t] EXCEPT !.status = "failed", !.wait = FALSE]
<1>0. t \in TodoIds /\ pass.snap[t] \in TodoItem
  BY HeldItem DEF CancelFail
<1>a. ExecutorTypeOK' /\ EndTypeOK' /\ later' = later /\ Canceled
  BY ExecutorsKept, EndKept DEF CancelFail, TypeOK
<1>1. StoreTypeOK' /\ fresh' \subseteq TodoIds
  <2>1. CASE Write(t, item)
    <3>1. item \in TodoItem
      BY <1>0 DEF TodoItem, Status
    <3> HIDE DEF item, t
    <3> QED
      BY <1>0, <1>a, <2>1, <3>1, WriteKeepsType DEF TypeOK, StepTypeOK, StoreTypeOK
  <2>2. CASE UNCHANGED <<todos, fresh>>
    BY <1>a, <2>2, StoreKept DEF TypeOK, StepTypeOK, storeVars
  <2> QED
    BY <2>1, <2>2 DEF CancelFail
<1> QED
  BY <1>a, <1>1, CanceledTyped DEF TypeOK

LEMMA StoppedTyped ==
  ASSUME TypeOK, Located, Stopped
  PROVE  TypeOK' /\ Located'
<1>1. stop.why \in Endings
  BY DEF TypeOK, StepTypeOK
<1> QED
  BY <1>1, FinishTyped, StoreKept DEF Stopped, TypeOK

\* The steps of the environment.
LEMMA EnvironmentTyped ==
  ASSUME TypeOK, Located,
         \/ CancelRun
         \/ \E t \in TodoIds : TimePasses(t)
         \/ UNCHANGED vars
  PROVE  TypeOK' /\ Located'
<1>1. StoreTypeOK'
  BY DEF CancelRun, TimePasses, vars, storeVars, TypeOK, StoreTypeOK, RetryTimesInOrder, Listed
<1>2. StepTypeOK' /\ Located'
  BY DEF CancelRun, TimePasses, vars, runVars, TypeOK, StepTypeOK, Located, NextTask
<1>3. ExecutorTypeOK'
  BY DEF CancelRun, TimePasses, vars, runVars, TypeOK, ExecutorTypeOK
<1>4. EndTypeOK'
  BY DEF CancelRun, TimePasses, vars, endVars, TypeOK, EndTypeOK, Endings
<1> QED
  BY <1>1, <1>2, <1>3, <1>4 DEF TypeOK

LEMMA CrashTyped ==
  ASSUME TypeOK, Located, Crash
  PROVE  TypeOK' /\ Located'
<1>1. StepTypeOK' /\ Located'
  BY NoPassType DEF Crash, StepTypeOK, Located, PcValues, NoCur, NoStop, Endings
<1>2. ExecutorTypeOK'
  BY DEF Crash, ExecutorTypeOK, NotRunning
<1>3. EndTypeOK'
  BY DEF Crash, TypeOK, EndTypeOK, Endings
<1> QED
  BY <1>1, <1>2, <1>3, StoreKept DEF Crash, TypeOK

LEMMA EditTyped ==
  ASSUME TypeOK, Located, NEW t \in TodoIds,
         (\E status \in Status : EditStatus(t, status)) \/ EditDelete(t)
  PROVE  TypeOK' /\ Located'
<1>a. Editing
  BY DEF EditStatus, EditDelete
<1>1. StoreTypeOK' /\ fresh' \subseteq TodoIds
  <2>1. CASE EditDelete(t)
    BY <2>1 DEF EditDelete, Editing, TypeOK, StoreTypeOK, StepTypeOK, TodoList,
                RetryTimesInOrder, Listed
  <2>2. ASSUME NEW status \in Status, EditStatus(t, status)
        PROVE  StoreTypeOK' /\ fresh' \subseteq TodoIds
    <3> DEFINE item == [todos[t] EXCEPT !.status = status]
    <3>1. todos[t] \in TodoItem
      BY <2>2 DEF EditStatus, TypeOK, StoreTypeOK, TodoList
    <3>2. item \in TodoItem
      BY <3>1 DEF TodoItem
    <3>3. Write(t, item)
      BY <2>2 DEF EditStatus
    <3> HIDE DEF item
    <3> QED
      BY <1>a, <3>2, <3>3, WriteKeepsType DEF Editing, TypeOK, StepTypeOK, StoreTypeOK
  <2> QED
    BY <2>1, <2>2
<1>2. StepTypeOK' /\ Located'
  BY <1>a, <1>1 DEF Editing, TypeOK, StepTypeOK, Located, runVars, NextTask
<1>3. EndTypeOK'
  BY <1>a, ConfigAssumption DEF Editing, TypeOK, EndTypeOK, Endings
<1> QED
  BY <1>a, <1>1, <1>2, <1>3, ExecutorsKept DEF Editing, TypeOK

LEMMA StepTyped == TypeOK /\ Located /\ [Next]_vars => TypeOK' /\ Located'
<1> SUFFICES ASSUME TypeOK, Located, [Next]_vars PROVE TypeOK' /\ Located'
  OBVIOUS
<1>1. ASSUME RunStep PROVE TypeOK' /\ Located'
  BY <1>1, RecoverTyped, StageTyped, BeginPassTyped, SeeCancelTyped, SkipTyped, RereadTyped,
     DecideTyped, FailDependentTyped, BlockTyped, MakeReadyTyped, UnlockTyped,
     StartTaskTyped, ReceiveOutcomeTyped, ApplySuccessTyped, ApplyFailureTyped,
     CancelNextTyped, CancelWriteTyped, CancelFailTyped, StoppedTyped
  DEF RunStep
<1>2. ASSUME NEW e \in exec, ExecutorEnds(e) PROVE TypeOK' /\ Located'
  BY <1>2, ExecutorEndsTyped
<1>3. ASSUME NEW t \in TodoIds, OrphanEnds(t) PROVE TypeOK' /\ Located'
  BY <1>3, OrphanEndsTyped
<1> QED
  BY <1>1, <1>2, <1>3, StartRunTyped, StartCanceledTyped, EnvironmentTyped, CrashTyped, EditTyped DEF Next

\* The state keeps its type, for every list, configuration and bound; the
\* second half says that no step looks for a todo that is not there.
THEOREM TypeCorrect == Spec => []TypeOK
<1>1. TypeOK /\ Located /\ [Next]_vars => TypeOK' /\ Located'
  BY StepTyped
<1> QED
  BY InitTyped, <1>1, PTL DEF Spec

-------------------------------------------------------------------------------
(* No outcome is lost. *)

Accounted == OutcomesAccounted /\ WithinConcurrency

LEMMA RunningFinite == IsFiniteSet(Running) /\ Cardinality(Running) \in Nat
<1>1. Running \in SUBSET TodoIds
  BY DEF Running
<1> QED
  BY <1>1, FiniteAssumption, FS_Subset, FS_CardinalityType

\* While an executor is at work there is room for its outcome: the outcomes
\* waiting belong to different running todos, and none of them to its own.
LEMMA RoomForOutcome ==
  ASSUME TypeOK, Accounted, NEW e \in exec
  PROVE  Cardinality(chan) < MaxConcurrency
<1> DEFINE others == Running \ {e.id}
           idOf == [o \in chan |-> o.id]
<1>1. e.id \in Running
  BY DEF TypeOK, ExecutorTypeOK, Accounted, OutcomesAccounted, Running
<1>2. \A o \in chan : o.id \in others
  <2> SUFFICES ASSUME NEW o \in chan PROVE o.id \in others
    OBVIOUS
  <2>1. o.id \in Running
    BY DEF TypeOK, ExecutorTypeOK, Accounted, OutcomesAccounted, Running
  <2>2. o.id # e.id
    BY <2>1 DEF Accounted, OutcomesAccounted
  <2> QED
    BY <2>1, <2>2
<1>3. idOf \in Injection(chan, others)
  BY <1>2 DEF Injection, IsInjective, Accounted, OutcomesAccounted
<1>4. IsFiniteSet(others) /\ Cardinality(others) = Cardinality(Running) - 1
  BY <1>1, RunningFinite, FS_RemoveElement
<1>5. IsFiniteSet(chan) /\ Cardinality(chan) <= Cardinality(others)
  BY <1>3, <1>4, FS_Injection
<1>6. Cardinality(chan) \in Nat
  BY <1>5, FS_CardinalityType
<1> QED
  BY <1>4, <1>5, <1>6, RunningFinite, ConfigAssumption DEF Accounted, WithinConcurrency

\* Steps that leave the executors, or take all of them away.
LEMMA AccountedKept ==
  ASSUME Accounted, UNCHANGED <<running, exec, chan>>
  PROVE  Accounted'
  BY DEF Accounted, OutcomesAccounted, WithinConcurrency, Running

LEMMA AccountedCleared ==
  ASSUME running' = NotRunning, exec' = {}, chan' = {}
  PROVE  Accounted'
<1>1. Running' = {}
  BY DEF Running, NotRunning
<1>2. Cardinality({}) = 0
  BY FS_EmptySet
<1> QED
  BY <1>1, <1>2, ConfigAssumption DEF Accounted, OutcomesAccounted, WithinConcurrency

LEMMA AccountedInit == Init => Accounted
<1> SUFFICES ASSUME Init PROVE Accounted
  OBVIOUS
<1>1. Running = {}
  BY DEF Init, Running, NotRunning
<1>2. Cardinality({}) = 0
  BY FS_EmptySet
<1> QED
  BY <1>1, <1>2, ConfigAssumption DEF Init, Accounted, OutcomesAccounted, WithinConcurrency

LEMMA StartTaskAccounted ==
  ASSUME TypeOK, Located, Accounted, NEW t \in TodoIds, StartTask(t)
  PROVE  Accounted'
<1> DEFINE attempt == todos[t].retries + 1
           new == [id |-> t, attempt |-> attempt]
<1>1. CASE UNCHANGED <<running, exec>>
  BY <1>1, AccountedKept DEF StartTask
<1>2. CASE /\ todos[t] # NoTodo
           /\ running' = [running EXCEPT ![t] = attempt]
           /\ exec' = exec \cup {new}
  <2>1. attempt \in Nat \ {0}
    <3>1. todos[t].retries \in Nat
      BY <1>2 DEF TypeOK, StoreTypeOK, TodoList, TodoItem
    <3> QED
      BY <3>1
  <2>2. running[t] = 0 /\ t \notin Running
    BY DEF StartTask, Located, Running
  <2>3. chan' = chan
    BY DEF StartTask
  <2> HIDE DEF attempt
  <2>4. /\ \A e \in exec : e.id # t
        /\ \A o \in chan : o.id # t
    BY <2>2 DEF TypeOK, ExecutorTypeOK, Accounted, OutcomesAccounted
  <2>5. \A u \in TodoIds : running'[u] = IF u = t THEN attempt ELSE running[u]
    BY <1>2 DEF TypeOK, ExecutorTypeOK
  <2>6. Running' = Running \cup {t}
    BY <2>1, <2>5 DEF Running
  <2>7. OutcomesAccounted'
    <3>1. \A e \in exec' : running'[e.id] = e.attempt
      BY <1>2, <2>4, <2>5 DEF TypeOK, ExecutorTypeOK, Accounted, OutcomesAccounted
    <3>2. \A o \in chan' : running'[o.id] = o.attempt
      BY <2>3, <2>4, <2>5 DEF TypeOK, ExecutorTypeOK, Accounted, OutcomesAccounted
    <3>3. \A u \in Running' :
            (\E e \in exec' : e.id = u) <=> ~(\E o \in chan' : o.id = u)
      <4>1. new.id = t
        OBVIOUS
      <4> HIDE DEF new
      <4> QED
        BY <1>2, <2>3, <2>4, <2>6, <4>1 DEF Accounted, OutcomesAccounted
    <3> QED
      BY <2>3, <3>1, <3>2, <3>3 DEF Accounted, OutcomesAccounted
  <2>8. WithinConcurrency'
    <3>1. Cardinality(Running) < MaxConcurrency
      BY DEF StartTask, Room
    <3>2. Cardinality(Running \cup {t}) = Cardinality(Running) + 1
      BY <2>2, RunningFinite, FS_AddElement
    <3> QED
      BY <2>6, <3>1, <3>2, RunningFinite, ConfigAssumption DEF WithinConcurrency
  <2> QED
    BY <2>7, <2>8 DEF Accounted
<1> QED
  BY <1>1, <1>2 DEF StartTask, Accepted, UpdateAllowed

LEMMA ExecutorEndsAccounted ==
  ASSUME TypeOK, Accounted, NEW e \in exec, ExecutorEnds(e)
  PROVE  Accounted'
<1>1. PICK ok \in BOOLEAN :
        chan' = chan \cup {[id |-> e.id, attempt |-> e.attempt, ok |-> ok]}
  BY RoomForOutcome DEF ExecutorEnds, Send
<1> DEFINE new == [id |-> e.id, attempt |-> e.attempt, ok |-> ok]
<1>2. /\ exec' = exec \ {e}
      /\ running' = running
      /\ Running' = Running
  BY DEF ExecutorEnds, Running
<1>3. new.id = e.id /\ new.attempt = e.attempt
  OBVIOUS
<1> HIDE DEF new
<1>4. e.id \in Running
  BY DEF TypeOK, ExecutorTypeOK, Accounted, OutcomesAccounted, Running
<1>5. \A o \in chan : o.id # e.id
  BY <1>4 DEF Accounted, OutcomesAccounted
<1>6. \A e2 \in exec : e2.id = e.id => e2 = e
  BY DEF TypeOK, ExecutorTypeOK, Accounted, OutcomesAccounted
<1>7. chan' = chan \cup {new}
  BY <1>1 DEF new
<1>8. OutcomesAccounted'
  <2>1. \A o \in chan' : running'[o.id] = o.attempt
    BY <1>2, <1>3, <1>7 DEF Accounted, OutcomesAccounted
  <2>2. \A t \in Running' :
          (\E x \in exec' : x.id = t) <=> ~(\E o \in chan' : o.id = t)
    BY <1>2, <1>3, <1>5, <1>6, <1>7 DEF Accounted, OutcomesAccounted
  <2>3. \A o1, o2 \in chan' : o1.id = o2.id => o1 = o2
    BY <1>3, <1>5, <1>7 DEF Accounted, OutcomesAccounted
  <2> QED
    BY <1>2, <2>1, <2>2, <2>3 DEF Accounted, OutcomesAccounted
<1> QED
  BY <1>2, <1>8 DEF Accounted, WithinConcurrency

LEMMA ReceiveOutcomeAccounted ==
  ASSUME TypeOK, Accounted, NEW o \in chan, ReceiveOutcome(o)
  PROVE  Accounted'
<1>1. /\ running' = [running EXCEPT ![o.id] = 0]
      /\ chan' = chan \ {o}
      /\ exec' = exec
  BY DEF ReceiveOutcome, Accounted, OutcomesAccounted
<1>2. o.id \in Running
  BY DEF TypeOK, ExecutorTypeOK, Accounted, OutcomesAccounted, Running
<1>3. /\ \A e \in exec : e.id # o.id
      /\ \A o2 \in chan' : o2.id # o.id
  BY <1>1, <1>2 DEF Accounted, OutcomesAccounted
<1>4. \A t \in TodoIds : running'[t] = IF t = o.id THEN 0 ELSE running[t]
  BY <1>1 DEF TypeOK, ExecutorTypeOK
<1>5. Running' = Running \ {o.id}
  BY <1>4 DEF Running
<1>6. OutcomesAccounted'
  <2>1. \A e \in exec' : running'[e.id] = e.attempt
    BY <1>1, <1>3, <1>4 DEF TypeOK, ExecutorTypeOK, Accounted, OutcomesAccounted
  <2>2. \A x \in chan' : running'[x.id] = x.attempt
    BY <1>1, <1>3, <1>4 DEF TypeOK, ExecutorTypeOK, Accounted, OutcomesAccounted
  <2>3. \A t \in Running' :
          (\E e \in exec' : e.id = t) <=> ~(\E x \in chan' : x.id = t)
    BY <1>1, <1>5 DEF Accounted, OutcomesAccounted
  <2> QED
    BY <1>1, <2>1, <2>2, <2>3 DEF Accounted, OutcomesAccounted
<1>7. WithinConcurrency'
  <2>1. Cardinality(Running \ {o.id}) = Cardinality(Running) - 1
    BY <1>2, RunningFinite, FS_RemoveElement
  <2> QED
    BY <1>5, <2>1, RunningFinite, ConfigAssumption DEF Accounted, WithinConcurrency
<1> QED
  BY <1>6, <1>7 DEF Accounted

LEMMA AccountedStep == TypeOK /\ Located /\ Accounted /\ [Next]_vars => Accounted'
<1> SUFFICES ASSUME TypeOK, Located, Accounted, [Next]_vars PROVE Accounted'
  OBVIOUS
<1>1. ASSUME NEW why, Finish(why) PROVE Accounted'
  BY <1>1, AccountedCleared DEF Finish
<1>2. CASE Crash
  BY <1>2, AccountedCleared DEF Crash
<1>3. CASE Recover \/ Decide \/ Stopped
  <2>1. CASE UNCHANGED <<running, exec, chan>>
    BY <2>1, AccountedKept
  <2>2. (\E why : Finish(why)) \/ UNCHANGED <<running, exec, chan>>
    BY <1>3 DEF Recover, Decide, Stopped, runVars
  <2> QED
    BY <1>1, <2>1, <2>2
<1>4. ASSUME NEW t \in TodoIds, StartTask(t) PROVE Accounted'
  BY <1>4, StartTaskAccounted
<1>5. ASSUME NEW e \in exec, ExecutorEnds(e) PROVE Accounted'
  BY <1>5, ExecutorEndsAccounted
<1>6. ASSUME NEW o \in chan, ReceiveOutcome(o) PROVE Accounted'
  BY <1>6, ReceiveOutcomeAccounted
<1>7. ASSUME \/ StartRun \/ StartCanceled \/ Recovered \/ BeginPass \/ SeeCancel \/ Skip \/ Reread \/ Collected
             \/ EndPass \/ Poll \/ ApplySuccess \/ ApplyFailure \/ CancelWrite \/ CancelFail
             \/ CancelRun
             \/ \E t \in TodoIds : \/ FailDependent(t) \/ Block(t) \/ MakeReady(t) \/ Unlock(t)
                                   \/ CancelNext(t) \/ OrphanEnds(t) \/ TimePasses(t)
                                   \/ EditDelete(t)
                                   \/ \E status \in Status : EditStatus(t, status)
             \/ UNCHANGED vars
      PROVE  UNCHANGED <<running, exec, chan>>
  BY <1>7 DEF StartRun, StartCanceled, Recovered, BeginPass, SeeCancel, Skip, Reread, Collected, EndPass, Poll,
    ApplySuccess, ApplyFailure, CancelWrite, CancelFail, CancelRun, FailDependent, Block,
    MakeReady, Unlock, CancelNext, OrphanEnds, TimePasses, EditDelete, EditStatus, Editing,
    vars, runVars
<1> QED
  BY <1>2, <1>3, <1>4, <1>5, <1>6, <1>7, AccountedKept DEF Next, RunStep

\* No outcome of a subagent is lost: whatever others do to the list, whatever
\* fails, and however runs end, the non-blocking send of executeTaskAsync never
\* finds the buffer full, and handleOneOutcome never receives an outcome of an
\* attempt that is not the running one.
THEOREM NoOutcomeLost == Spec => [](OutcomesAccounted /\ WithinConcurrency)
<1>1. Init => Accounted
  BY AccountedInit
<1>2. TypeOK /\ Located /\ Accounted /\ [Next]_vars => TypeOK' /\ Located' /\ Accounted'
  BY StepTyped, AccountedStep
<1>3. Accounted => OutcomesAccounted /\ WithinConcurrency
  BY DEF Accounted
<1> QED
  BY InitTyped, <1>1, <1>2, <1>3, PTL DEF Spec

-------------------------------------------------------------------------------
(***************************************************************************)
(* While nobody else edits the list, the scheduler owns the todos it works *)
(* on: no write of its own is refused, no todo has two executors, and no   *)
(* run that returned leaves a todo in progress.  One invariant, Owned,     *)
(* carries the three properties, for every list, configuration and bound.  *)
(***************************************************************************)

\* Nothing more is to be done for t: it is gone or has a terminal status.
Closed(t) == todos[t] = NoTodo \/ todos[t].status \in Terminal

Completed(t) == todos[t] # NoTodo /\ todos[t].status = "completed"

\* t is listed and open, and all it depends on is completed.
Workable(t) ==
  /\ todos[t] # NoTodo
  /\ todos[t].status \in Open
  /\ \A d \in todos[t].deps : Completed(d)

Canceling == pc \in {"cancel", "cancelwrite", "cancelfail"}

Idle == pc \in {"off", "recover"}

\* The places of the list the pass has still to look at.
Ahead == {i \in DOMAIN Order : i >= pass.pos /\ (pc = "reread" => i # pass.pos)}

\* Todos that executors work on: what is left of earlier runs is closed, what
\* this run started is in progress until the run, in stopping, closes it.
ExecutorsHeld ==
  /\ \A t \in orphans : Closed(t) /\ running[t] = 0
  /\ Idle \/ pc = "decide" => Running = {}
  /\ ~Canceling => \A t \in Running : Workable(t) /\ todos[t].status = "in_progress"
  /\ Canceling => \A t \in Running : t \in stop.left \/ Closed(t)

\* A todo of the subagent that is in progress is one the run works on, or has
\* still to recover, or has still to cancel.
InProgressHeld ==
  \A t \in TodoIds : Interrupted(todos[t]) =>
    /\ pc = "off" => ended \in {"none", "crashed", "unstarted"}
    /\ pc = "recover" => \E i \in Ahead : Order[i] = t
    /\ Canceling => t \in stop.left
    /\ Idle \/ Canceling \/ running[t] # 0 \/ (pc = "apply" /\ t = cur.id)

\* The snapshot of a pass is the stored list as far as the pass has still to
\* look at it, and its ready todos may all be started.
PassHeld ==
  /\ pc \in {"recover", "collect", "reread"} =>
       \A i \in Ahead : /\ pass.snap[Order[i]] = todos[Order[i]]
                        /\ todos[Order[i]] # NoTodo => Order[i] \in fresh
  /\ pc \in {"collect", "reread"} =>
       /\ \A d \in TodoIds :
            (pass.snap[d] # NoTodo /\ pass.snap[d].status = "completed") => Completed(d)
       /\ \A t \in pass.ready : \E i \in DOMAIN Order : i < pass.pos /\ Order[i] = t
  /\ pc \in {"collect", "reread", "start"} =>
       \A t \in pass.ready : Workable(t) /\ t \in fresh
  /\ pc = "reread" => Workable(NextTask)

\* The todo being written back is as it was read.
CurHeld ==
  pc \in {"apply", "cancelwrite", "cancelfail"} =>
    /\ pass.snap[cur.id] = todos[cur.id]
    /\ cur.id \in fresh
    /\ todos[cur.id].status \in Open
    /\ pc = "apply" => /\ Workable(cur.id)
                       /\ todos[cur.id].status = "in_progress"
                       /\ running[cur.id] = 0

NoStoreError ==
  /\ pc # "off" => ended = "none"
  /\ ended # "store_error" /\ stop.why # "store_error"

Owned ==
  /\ WellFormed(todos)
  /\ NoStoreError
  /\ ExecutorsHeld
  /\ InProgressHeld
  /\ PassHeld
  /\ CurHeld

OwnInv == edits = 0 => Owned

-------------------------------------------------------------------------------
(* Writes. *)

\* The fields of a todo that the scheduler leaves as they are.
SameReferences(item, old) ==
  /\ item.deps = old.deps
  /\ item.supersedes = old.supersedes
  /\ item.required = old.required

\* Setting the status of a todo to anything but canceled keeps the list well
\* formed: its graph stays, and what it superseded it still supersedes.
LEMMA StatusKeepsWellFormed ==
  ASSUME TypeOK, WellFormed(todos), NEW t \in TodoIds, todos[t] # NoTodo,
         todos[t].status # "canceled",
         NEW item \in TodoItem, SameReferences(item, todos[t]), item.status # "canceled"
  PROVE  WellFormed([todos EXCEPT ![t] = item])
<1> DEFINE next == [todos EXCEPT ![t] = item]
<1>1. /\ next[t] = item
      /\ \A u \in TodoIds : u # t => next[u] = todos[u]
  BY DEF TypeOK, StoreTypeOK, TodoList
<1>2. item # NoTodo
  BY NoTodoAssumption
<1> HIDE DEF next
<1>3. Listed(next) = Listed(todos)
  BY <1>1, <1>2 DEF Listed
<1>4. \A u \in Listed(todos) : SameReferences(next[u], todos[u])
  BY <1>1 DEF SameReferences, Listed
<1>5. ReferencesListed(next)
  BY <1>3, <1>4 DEF WellFormed, ReferencesListed, SameReferences
<1>6. ~Cyclic(next)
  BY <1>3, <1>4 DEF WellFormed, Cyclic, SameReferences
<1>7. CanceledReplaced(next)
  <2> SUFFICES ASSUME NEW u \in Listed(next), next[u].required, next[u].status = "canceled"
               PROVE  \E r \in Listed(next) : /\ next[r].required
                                              /\ next[r].status # "canceled"
                                              /\ u \in next[r].supersedes
    BY DEF CanceledReplaced
  <2>1. u # t /\ u \in Listed(todos) /\ next[u] = todos[u]
    BY <1>1, <1>3 DEF Listed
  <2>2. PICK r \in Listed(todos) : /\ todos[r].required
                                   /\ todos[r].status # "canceled"
                                   /\ u \in todos[r].supersedes
    BY <2>1 DEF WellFormed, CanceledReplaced
  <2>3. next[r].status # "canceled"
    BY <1>1, <2>2 DEF Listed
  <2> QED
    BY <1>3, <1>4, <2>2, <2>3 DEF SameReferences
<1> QED
  BY <1>5, <1>6, <1>7 DEF WellFormed, next

\* What the store keeps of an item differs at most in its retry time.
LEMMA StoredFields ==
  ASSUME NEW item \in TodoItem
  PROVE  /\ Stored(item) \in TodoItem
         /\ SameReferences(Stored(item), item)
         /\ Stored(item).status = item.status
         /\ Stored(item).subagent = item.subagent
  BY DEF Stored, TodoItem, SameReferences

\* The store accepts a write with a fresh copy that moves an open todo on,
\* into work or completion only when the todo is workable.
LEMMA OwnWriteAccepted ==
  ASSUME TypeOK, WellFormed(todos), NEW t \in TodoIds, t \in fresh, todos[t] # NoTodo,
         todos[t].status \in Open,
         NEW item \in TodoItem, SameReferences(item, todos[t]), item.status # "canceled",
         ValidTransition(todos[t].status, item.status),
         item.status \in {"in_progress", "completed"} => Workable(t)
  PROVE  Accepted(t, item)
<1> DEFINE kept == Stored(item)
           next == [todos EXCEPT ![t] = kept]
<1>1. kept \in TodoItem /\ SameReferences(kept, todos[t]) /\ kept.status = item.status
  BY StoredFields DEF SameReferences
<1> HIDE DEF kept
<1>2. todos[t].status # "canceled"
  BY DEF Open, Status, Terminal
<1>3. WellFormed(next)
  BY <1>1, <1>2, StatusKeepsWellFormed
<1>4. DepsAllow(next, t)
  <2> SUFFICES ASSUME kept.status \in {"in_progress", "completed"},
                      NEW d \in kept.deps
               PROVE  next[d] # NoTodo /\ next[d].status = "completed"
    BY DEF DepsAllow, TypeOK, StoreTypeOK, TodoList
  <2>1. Completed(d)
    BY <1>1 DEF Workable, SameReferences
  <2>2. d \in TodoIds /\ d # t
    BY <1>1 DEF WellFormed, ReferencesListed, Listed, SameReferences
  <2> QED
    BY <2>1, <2>2 DEF Completed, TypeOK, StoreTypeOK, TodoList
<1> QED
  BY <1>1, <1>3, <1>4 DEF Accepted, UpdateAllowed, kept

\* An accepted write changes one todo, keeps the list well formed, and takes
\* nothing back: what was closed or completed stays so.
LEMMA WriteKeeps ==
  ASSUME TypeOK, NEW t \in TodoIds, NEW item \in TodoItem, Accepted(t, item), Write(t, item),
         SameReferences(item, todos[t])
  PROVE  /\ WellFormed(todos)'
         /\ fresh' = fresh \ {t}
         /\ \A u \in TodoIds : u # t => todos'[u] = todos[u]
         /\ todos'[t] # NoTodo /\ todos'[t].status = item.status
         /\ todos'[t].deps = todos[t].deps
         /\ todos'[t].subagent = item.subagent
         /\ \A u \in TodoIds : Closed(u) => Closed(u)'
         /\ \A u \in TodoIds : Completed(u) => Completed(u)'
         /\ \A u \in TodoIds : Workable(u) /\ u # t => Workable(u)'
         /\ Workable(t) /\ item.status \in Open => Workable(t)'
<1> DEFINE kept == Stored(item)
<1>1. kept \in TodoItem /\ SameReferences(kept, todos[t]) /\ kept.status = item.status
      /\ kept.subagent = item.subagent /\ kept # NoTodo
  BY StoredFields, NoTodoAssumption DEF SameReferences
<1>2. todos' = [todos EXCEPT ![t] = kept] /\ fresh' = fresh \ {t}
  BY DEF Write
<1>3. /\ todos[t] # NoTodo
      /\ ValidTransition(todos[t].status, kept.status)
      /\ WellFormed([todos EXCEPT ![t] = kept])
  BY <1>1 DEF Accepted, UpdateAllowed
<1> HIDE DEF kept
<1>4. WellFormed(todos)'
  BY <1>2, <1>3
<1>5. todos'[t] = kept /\ \A u \in TodoIds : u # t => todos'[u] = todos[u]
  BY <1>2 DEF TypeOK, StoreTypeOK, TodoList
<1>6. todos[t].status \in Terminal => kept.status = todos[t].status
  BY <1>3 DEF ValidTransition, Transitions, Terminal
<1>7. \A u \in TodoIds : Closed(u) => Closed(u)'
  BY <1>3, <1>5, <1>6 DEF Closed
<1>8. \A u \in TodoIds : Completed(u) => Completed(u)'
  BY <1>1, <1>5, <1>6 DEF Completed, Terminal
<1>9. \A u \in TodoIds : todos[u] # NoTodo => todos[u].deps \subseteq TodoIds
  BY DEF TypeOK, StoreTypeOK, TodoList, TodoItem
<1>10. \A u \in TodoIds : Workable(u) /\ u # t => Workable(u)'
  BY <1>5, <1>8, <1>9 DEF Workable
<1>11. Workable(t) /\ item.status \in Open => Workable(t)'
  BY <1>1, <1>5, <1>8, <1>9 DEF Workable, SameReferences
<1> QED
  BY <1>1, <1>2, <1>4, <1>5, <1>7, <1>8, <1>10, <1>11 DEF SameReferences

-------------------------------------------------------------------------------
(* What several steps share. *)

\* Steps that leave the scheduler's own state, and may only end an orphan.
LEMMA OwnedKept ==
  ASSUME Owned, UNCHANGED <<todos, pc, pass, fresh, running, cur, stop, ended>>,
         orphans' \subseteq orphans
  PROVE  Owned'
<1>1. WellFormed(todos)' /\ NoStoreError'
  BY DEF Owned, NoStoreError
<1>2. ExecutorsHeld'
  BY DEF Owned, ExecutorsHeld, Idle, Canceling, Closed, Workable, Completed, Running
<1>3. InProgressHeld'
  BY DEF Owned, InProgressHeld, Idle, Canceling, Ahead
<1>4. PassHeld'
  BY DEF Owned, PassHeld, Ahead, Workable, Completed, NextTask
<1>5. CurHeld'
  BY DEF Owned, CurHeld, Workable, Completed
<1> QED
  BY <1>1, <1>2, <1>3, <1>4, <1>5 DEF Owned

\* A run at work aborts, for another reason than the store's: what it runs is
\* what is left to cancel.
LEMMA OwnedAbort ==
  ASSUME TypeOK, Owned, ~Canceling, ~Idle, NEW why, why # "store_error", Abort(why),
         UNCHANGED <<running, orphans, ended>>,
         WellFormed(todos)',
         \A u \in TodoIds : Closed(u) => Closed(u)',
         \A u \in TodoIds : Interrupted(todos'[u]) => running[u] # 0
  PROVE  Owned'
<1>1. pc' = "cancel" /\ stop'.left = Running /\ stop'.why = why /\ Running' = Running
  BY DEF Abort, Running
<1>2. Canceling' /\ ~Idle' /\ pc' \notin {"off", "recover", "decide"}
  BY <1>1 DEF Canceling, Idle
<1>3. NoStoreError'
  BY <1>1 DEF Owned, NoStoreError, Idle
<1>4. ExecutorsHeld'
  <2>1. \A t \in orphans' : Closed(t)' /\ running'[t] = 0
    BY DEF Owned, ExecutorsHeld, TypeOK, ExecutorTypeOK
  <2> QED
    BY <1>1, <1>2, <2>1 DEF ExecutorsHeld
<1>5. InProgressHeld'
  BY <1>1, <1>2 DEF InProgressHeld, Running
<1>6. PassHeld' /\ CurHeld'
  BY <1>1 DEF PassHeld, CurHeld
<1> QED
  BY <1>3, <1>4, <1>5, <1>6 DEF Owned

\* A run ends when what it still runs is closed and, unless it crashed, nothing
\* is left in progress; its executors become orphans of closed todos.
LEMMA OwnedFinish ==
  ASSUME TypeOK, Accounted, Owned, NEW why, why # "store_error", Finish(why),
         UNCHANGED storeVars,
         \A t \in Running : Closed(t),
         why # "none" => \A t \in TodoIds : ~Interrupted(todos[t])
  PROVE  Owned'
<1>1. /\ pc' = "off" /\ ended' = why /\ todos' = todos /\ stop' = NoStop
      /\ orphans' = orphans \cup {e.id : e \in exec}
      /\ Running' = {} /\ \A t \in TodoIds : running'[t] = 0
  BY DEF Finish, Running, NotRunning, storeVars
<1>2. ~Canceling' /\ Idle'
  BY <1>1 DEF Canceling, Idle
<1>3. NoStoreError'
  BY <1>1 DEF NoStoreError, NoStop
<1>4. \A e \in exec : e.id \in Running
  BY DEF TypeOK, ExecutorTypeOK, Accounted, OutcomesAccounted, Running
<1>5. ExecutorsHeld'
  <2>1. \A t \in orphans' : t \in TodoIds /\ Closed(t)
    BY <1>1, <1>4 DEF Owned, ExecutorsHeld, TypeOK, ExecutorTypeOK
  <2> QED
    BY <1>1, <1>2, <2>1 DEF ExecutorsHeld, Closed
<1>6. InProgressHeld'
  BY <1>1, <1>2 DEF InProgressHeld
<1>7. PassHeld' /\ CurHeld'
  BY <1>1 DEF PassHeld, CurHeld
<1> QED
  BY <1>1, <1>3, <1>5, <1>6, <1>7 DEF Owned

\* Moving on leaves one place of the list behind.
LEMMA AheadMoves ==
  ASSUME TypeOK, pass.pos \in DOMAIN Order, pass'.pos = pass.pos + 1, pc' # "reread"
  PROVE  /\ Ahead' \subseteq Ahead
         /\ \A i \in Ahead' : Order[i] \in TodoIds /\ Order[i] # NextTask
         /\ \A i \in Ahead : Order[i] # NextTask => i \in Ahead'
<1>1. /\ DOMAIN Order \subseteq Nat
      /\ \A i \in DOMAIN Order : Order[i] \in TodoIds
      /\ \A i, j \in DOMAIN Order : Order[i] = Order[j] => i = j
  BY OrderAssumption
<1>2. pass.pos \in Nat
  BY <1>1
<1> QED
  BY <1>1, <1>2 DEF Ahead, NextTask

\* What a step of a pass may do to the store: change the next todo, if the run
\* does not run it, and take nothing back.
Touched(t) ==
  /\ WellFormed(todos)'
  /\ UNCHANGED todos \/ running[t] = 0
  /\ \A u \in TodoIds : u # t => todos'[u] = todos[u]
  /\ \A u \in TodoIds : Closed(u) => Closed(u)'
  /\ \A u \in TodoIds : Completed(u) => Completed(u)'
  /\ \A u \in TodoIds : Workable(u) /\ u # t => Workable(u)'
  /\ Interrupted(todos'[t]) => Interrupted(todos[t])

LEMMA NotTouched ==
  ASSUME Owned, UNCHANGED todos, NEW t
  PROVE  Touched(t)
  BY DEF Owned, Touched, Closed, Completed, Workable

\* A pass moves on from the next todo, and keeps what it has been ready with.
LEMMA OwnedPassMoves ==
  ASSUME TypeOK, Owned, pc \in {"collect", "reread"}, pc' = "collect",
         pass.pos \in DOMAIN Order, NEW t, t = NextTask, Touched(t),
         pass'.pos = pass.pos + 1,
         \A u \in TodoIds : u # t => pass'.snap[u] = pass.snap[u],
         (pass'.snap[t] # NoTodo /\ pass'.snap[t].status = "completed")
            => Completed(t)',
         pass'.ready \subseteq pass.ready \cup {t},
         t \in pass'.ready => Workable(t)' /\ t \in fresh',
         fresh \ {t} \subseteq fresh',
         UNCHANGED <<runVars, cur, stop, ended>>
  PROVE  Owned'
<1>0. t \in TodoIds /\ t = Order[pass.pos] /\ pass.pos \in Nat
  BY OrderAssumption DEF NextTask
<1>a. /\ running' = running /\ orphans' = orphans /\ ended' = ended /\ stop' = stop
      /\ Running' = Running
  BY DEF runVars, Running
<1>b. /\ ~Canceling /\ ~Idle /\ ~Canceling' /\ ~Idle'
  BY DEF Canceling, Idle
<1>1. WellFormed(todos)' /\ NoStoreError'
  BY <1>a DEF Owned, NoStoreError, Touched
<1>2. ExecutorsHeld'
  <2>1. \A u \in orphans' : Closed(u)' /\ running'[u] = 0
    BY <1>a DEF Owned, ExecutorsHeld, Touched, TypeOK, ExecutorTypeOK
  <2>2. \A u \in Running' : Workable(u)' /\ todos'[u].status = "in_progress"
    <3> SUFFICES ASSUME NEW u \in Running
                 PROVE  Workable(u)' /\ todos'[u].status = "in_progress"
      BY <1>a
    <3>1. u \in TodoIds /\ running[u] # 0
      BY DEF Running
    <3>2. Workable(u) /\ todos[u].status = "in_progress"
      BY <1>b DEF Owned, ExecutorsHeld
    <3>3. CASE UNCHANGED todos
      BY <3>2, <3>3 DEF Workable, Completed
    <3>4. CASE u # t
      BY <3>1, <3>2, <3>4 DEF Touched
    <3> QED
      BY <3>1, <3>3, <3>4 DEF Touched
  <2> QED
    BY <1>b, <2>1, <2>2 DEF ExecutorsHeld
<1>3. InProgressHeld'
  <2>1. \A u \in TodoIds : Interrupted(todos'[u]) => Interrupted(todos[u])
    BY DEF Touched
  <2>2. \A u \in TodoIds : Interrupted(todos[u]) => running[u] # 0
    BY <1>b DEF Owned, InProgressHeld
  <2> QED
    BY <1>a, <1>b, <2>1, <2>2 DEF InProgressHeld, Idle
<1>4. PassHeld'
  <2>1. \A i \in Ahead' : /\ pass'.snap[Order[i]] = todos'[Order[i]]
                          /\ todos'[Order[i]] # NoTodo => Order[i] \in fresh'
    <3> SUFFICES ASSUME NEW i \in Ahead'
                 PROVE  /\ pass'.snap[Order[i]] = todos'[Order[i]]
                        /\ todos'[Order[i]] # NoTodo => Order[i] \in fresh'
      OBVIOUS
    <3>1. i \in Ahead /\ Order[i] \in TodoIds /\ Order[i] # t
      BY AheadMoves
    <3>2. /\ pass.snap[Order[i]] = todos[Order[i]]
          /\ todos[Order[i]] # NoTodo => Order[i] \in fresh
      BY <3>1 DEF Owned, PassHeld
    <3> QED
      BY <3>1, <3>2 DEF Touched
  <2>2. \A d \in TodoIds :
          (pass'.snap[d] # NoTodo /\ pass'.snap[d].status = "completed") => Completed(d)'
    <3>1. \A d \in TodoIds :
            (pass.snap[d] # NoTodo /\ pass.snap[d].status = "completed") => Completed(d)
      BY DEF Owned, PassHeld
    <3>2. \A d \in TodoIds : Completed(d) => Completed(d)'
      BY DEF Touched
    <3> QED
      BY <3>1, <3>2
  <2>3. \A u \in pass.ready : \E i \in DOMAIN Order : i < pass.pos /\ Order[i] = u
    BY DEF Owned, PassHeld
  <2>4. \A u \in pass'.ready : \E i \in DOMAIN Order : i < pass'.pos /\ Order[i] = u
    <3> SUFFICES ASSUME NEW u \in pass'.ready
                 PROVE  \E i \in DOMAIN Order : i < pass'.pos /\ Order[i] = u
      OBVIOUS
    <3>1. CASE u = t
      BY <1>0, <3>1
    <3>2. CASE u \in pass.ready
      <4>1. PICK i \in DOMAIN Order : i < pass.pos /\ Order[i] = u
        BY <2>3, <3>2
      <4>2. i \in Nat
        BY OrderAssumption
      <4> QED
        BY <1>0, <4>1, <4>2
    <3> QED
      BY <3>1, <3>2
  <2>5. \A u \in pass'.ready : Workable(u)' /\ u \in fresh'
    <3> SUFFICES ASSUME NEW u \in pass'.ready, u # t
                 PROVE  Workable(u)' /\ u \in fresh'
      OBVIOUS
    <3>1. u \in pass.ready /\ u \in TodoIds
      BY DEF TypeOK, StepTypeOK, Pass
    <3>2. Workable(u) /\ u \in fresh
      BY <3>1 DEF Owned, PassHeld
    <3> QED
      BY <3>1, <3>2 DEF Touched
  <2> QED
    BY <2>1, <2>2, <2>4, <2>5 DEF PassHeld
<1>5. CurHeld'
  BY DEF CurHeld
<1> QED
  BY <1>1, <1>2, <1>3, <1>4, <1>5 DEF Owned

-------------------------------------------------------------------------------
(* The steps of a run up to the start of its todos. *)

LEMMA OwnedInit == Init => Owned
<1> SUFFICES ASSUME Init PROVE Owned
  OBVIOUS
<1>1. WellFormed(todos) /\ Running = {}
  BY InitialAssumption DEF Init, Running, NotRunning
<1> QED
  BY <1>1 DEF Init, Owned, NoStoreError, NoStop, ExecutorsHeld, InProgressHeld, PassHeld,
              CurHeld, Idle, Canceling

LEMMA StartRunOwned ==
  ASSUME TypeOK, Owned, StartRun
  PROVE  Owned'
<1>1. /\ pc = "off" /\ pc' = "recover" /\ ended' = "none" /\ fresh' = Listed(todos)
      /\ pass'.snap = todos /\ pass'.pos = 1
      /\ UNCHANGED <<todos, running, orphans, stop>>
  BY DEF StartRun, NoPass, storeVars, runVars
<1>2. Idle /\ Idle' /\ ~Canceling /\ ~Canceling' /\ Running' = Running
  BY <1>1 DEF Idle, Canceling, Running
<1>3. WellFormed(todos)' /\ NoStoreError'
  BY <1>1 DEF Owned, NoStoreError
<1>4. ExecutorsHeld'
  BY <1>1, <1>2 DEF Owned, ExecutorsHeld, Closed
<1>5. Ahead' = DOMAIN Order
  <2>1. \A i \in DOMAIN Order : i >= 1
    BY OrderAssumption
  <2>2. pc' # "reread" /\ pass'.pos = 1
    BY <1>1
  <2> QED
    BY <2>1, <2>2 DEF Ahead
<1>6. InProgressHeld'
  BY <1>1, <1>2, <1>5, OrderAssumption DEF InProgressHeld
<1>7. PassHeld'
  <2>1. \A i \in DOMAIN Order : Order[i] \in TodoIds
    BY OrderAssumption
  <2> QED
    BY <1>1, <1>5, <2>1 DEF PassHeld, Listed
<1>8. CurHeld'
  BY <1>1 DEF CurHeld
<1> QED
  BY <1>3, <1>4, <1>6, <1>7, <1>8 DEF Owned

LEMMA RecoveredFields ==
  ASSUME NEW item \in TodoItem
  PROVE  /\ SameReferences(RecoveredItem(item), item)
         /\ RecoveredItem(item).status \in {"failed", "blocked"}
  BY DEF RecoveredItem, SameReferences, TodoItem

\* What the recovery finds at its place is what is stored.
LEMMA RecoverPlace ==
  ASSUME TypeOK, Owned, pc \in {"recover", "collect"}, pass.pos <= Len(Order)
  PROVE  /\ NextTask \in TodoIds
         /\ pass.pos \in DOMAIN Order
         /\ pass.snap[NextTask] = todos[NextTask]
         /\ todos[NextTask] # NoTodo => NextTask \in fresh
<1>1. NextTask \in TodoIds /\ pass.pos \in DOMAIN Order
  BY NextTaskIsTodo DEF TypeOK
<1>2. pass.pos \in Ahead
  BY <1>1, OrderAssumption DEF Ahead
<1> QED
  BY <1>1, <1>2 DEF Owned, PassHeld, NextTask

LEMMA RecoverOwned ==
  ASSUME TypeOK, Owned, Recover
  PROVE  Owned'
<1>1. PICK t \in TodoIds : t = NextTask
  BY RecoverPlace DEF Recover
<1> DEFINE item == RecoveredItem(todos[t])
<1>2. /\ pc = "recover" /\ pass.pos \in DOMAIN Order /\ pass.snap[t] = todos[t]
      /\ todos[t] # NoTodo => t \in fresh
  BY <1>1, RecoverPlace DEF Recover
<1>3. todos[t] # NoTodo => todos[t] \in TodoItem
  BY DEF TypeOK, StoreTypeOK, TodoList
<1>4. Interrupted(todos[t]) =>
        /\ Accepted(t, item)
        /\ item \in TodoItem
        /\ SameReferences(item, todos[t])
        /\ item.status \in {"failed", "blocked"}
  <2> SUFFICES ASSUME Interrupted(todos[t])
               PROVE  /\ Accepted(t, item)
                      /\ item \in TodoItem
                      /\ SameReferences(item, todos[t])
                      /\ item.status \in {"failed", "blocked"}
    OBVIOUS
  <2>1. todos[t] # NoTodo /\ todos[t].status = "in_progress" /\ t \in fresh
    BY <1>2 DEF Interrupted
  <2>2. item \in TodoItem /\ SameReferences(item, todos[t]) /\ item.status \in {"failed", "blocked"}
    BY <1>3, <2>1, RecoveredType, RecoveredFields
  <2> HIDE DEF item
  <2>3. ValidTransition(todos[t].status, item.status)
    BY <2>1, <2>2 DEF ValidTransition, Transitions
  <2>4. todos[t].status \in Open
    BY <2>1 DEF Open, Status, Terminal
  <2> QED
    BY <2>1, <2>2, <2>3, <2>4, OwnWriteAccepted DEF Owned
<1>5. ~Conflict(t) \/ ~Interrupted(todos[t])
  BY <1>2 DEF Conflict, Interrupted
<1>6. /\ MoveOn
      /\ UNCHANGED <<pc, running, orphans, stop, ended>>
      /\ \/ UNCHANGED <<todos, fresh>> /\ ~Interrupted(todos[t])
         \/ Interrupted(todos[t]) /\ Write(t, item)
  BY <1>1, <1>2, <1>4, <1>5 DEF Recover, Refused, runVars, endVars, storeVars
<1> HIDE DEF item
<1>7. /\ WellFormed(todos)'
      /\ \A u \in TodoIds : u # t => todos'[u] = todos[u]
      /\ ~Interrupted(todos'[t])
      /\ \A u \in TodoIds : Closed(u) => Closed(u)'
      /\ fresh \ {t} \subseteq fresh'
  <2>1. CASE UNCHANGED <<todos, fresh>> /\ ~Interrupted(todos[t])
    BY <2>1 DEF Owned, Closed
  <2>2. CASE Interrupted(todos[t]) /\ Write(t, item)
    <3>1. todos'[t].status = item.status /\ item.status \in {"failed", "blocked"}
      BY <1>4, <2>2, WriteKeeps
    <3>2. ~Interrupted(todos'[t])
      BY <3>1 DEF Interrupted
    <3> QED
      BY <1>4, <2>2, <3>2, WriteKeeps
  <2> QED
    BY <1>6, <2>1, <2>2
<1>8. /\ pc' = "recover" /\ pass'.pos = pass.pos + 1 /\ pass'.snap = pass.snap
      /\ Running' = Running /\ Idle /\ Idle' /\ ~Canceling /\ ~Canceling'
  BY <1>2, <1>6 DEF MoveOn, TypeOK, StepTypeOK, Pass, Running, Idle, Canceling
<1>9. NoStoreError'
  BY <1>6 DEF Owned, NoStoreError
<1>10. ExecutorsHeld'
  BY <1>6, <1>7, <1>8 DEF Owned, ExecutorsHeld, TypeOK, ExecutorTypeOK
<1>11. InProgressHeld'
  <2> SUFFICES ASSUME NEW u \in TodoIds, Interrupted(todos'[u])
               PROVE  \E i \in Ahead' : Order[i] = u
    BY <1>8 DEF InProgressHeld
  <2>1. u # t /\ Interrupted(todos[u])
    BY <1>7
  <2>2. PICK i \in Ahead : Order[i] = u
    BY <1>2, <2>1 DEF Owned, InProgressHeld
  <2> QED
    BY <1>1, <1>2, <1>8, <2>1, <2>2, AheadMoves
<1>12. PassHeld'
  <2> SUFFICES ASSUME NEW i \in Ahead'
               PROVE  /\ pass'.snap[Order[i]] = todos'[Order[i]]
                      /\ todos'[Order[i]] # NoTodo => Order[i] \in fresh'
    BY <1>8 DEF PassHeld
  <2>1. i \in Ahead /\ Order[i] \in TodoIds /\ Order[i] # t
    BY <1>1, <1>2, <1>8, AheadMoves
  <2>2. /\ pass.snap[Order[i]] = todos[Order[i]]
        /\ todos[Order[i]] # NoTodo => Order[i] \in fresh
    BY <1>2, <2>1 DEF Owned, PassHeld
  <2> QED
    BY <1>7, <1>8, <2>1, <2>2
<1>13. CurHeld'
  BY <1>8 DEF CurHeld
<1> QED
  BY <1>7, <1>9, <1>10, <1>11, <1>12, <1>13 DEF Owned

\* The steps that only move the run on to its next stage.
LEMMA StageOwned ==
  ASSUME TypeOK, Owned, Recovered \/ EndPass \/ Poll \/ Collected
  PROVE  Owned'
<1>1. UNCHANGED <<todos, running, orphans, stop, ended, fresh>>
  BY DEF Recovered, EndPass, Poll, Collected, storeVars, runVars, endVars
<1>2. /\ Running' = Running
      /\ ~Canceling /\ ~Canceling' /\ ~Idle'
      /\ pc' \in {"check", "start", "decide", "await"}
      /\ pc' = "decide" => Running = {}
  BY <1>1 DEF Recovered, EndPass, Poll, Collected, Running, Canceling, Idle
<1>3. WellFormed(todos)' /\ NoStoreError'
  BY <1>1, <1>2 DEF Owned, NoStoreError, Recovered, EndPass, Poll, Collected
<1>4. ExecutorsHeld'
  BY <1>1, <1>2 DEF Owned, ExecutorsHeld, Closed, Workable, Completed
<1>5. InProgressHeld'
  <2>1. Recovered => Ahead = {}
    <3>1. \A i \in DOMAIN Order : i \in Nat /\ i <= Len(Order)
      BY OrderAssumption
    <3> QED
      BY <3>1, OrderAssumption DEF Recovered, Ahead, TypeOK, StepTypeOK, Pass
  <2>2. \A u \in TodoIds : Interrupted(todos[u]) => running[u] # 0
    BY <2>1 DEF Owned, InProgressHeld, Recovered, EndPass, Poll, Collected, Idle, Canceling
  <2> QED
    BY <1>1, <1>2, <2>2 DEF InProgressHeld, Idle
<1>6. PassHeld'
  BY <1>1, <1>2 DEF Owned, PassHeld, Recovered, EndPass, Poll, Collected, Workable, Completed
<1>7. CurHeld'
  BY <1>2 DEF CurHeld
<1> QED
  BY <1>3, <1>4, <1>5, <1>6, <1>7 DEF Owned

LEMMA BeginPassOwned ==
  ASSUME TypeOK, Owned, BeginPass
  PROVE  Owned'
<1>1. /\ pc = "check" /\ pc' = "collect" /\ fresh' = Listed(todos)
      /\ pass'.snap = todos /\ pass'.ready = {}
      /\ UNCHANGED <<todos, running, orphans, stop, ended>>
  BY DEF BeginPass, NoPass, storeVars, runVars, endVars
<1>2. Running' = Running /\ ~Canceling /\ ~Canceling' /\ ~Idle /\ ~Idle'
  BY <1>1 DEF Running, Canceling, Idle
<1>3. WellFormed(todos)' /\ NoStoreError'
  BY <1>1 DEF Owned, NoStoreError
<1>4. ExecutorsHeld'
  BY <1>1, <1>2 DEF Owned, ExecutorsHeld, Closed, Workable, Completed
<1>5. InProgressHeld'
  BY <1>1, <1>2 DEF Owned, InProgressHeld, Idle
<1>6. PassHeld'
  <2>1. \A i \in Ahead' : Order[i] \in TodoIds
    BY OrderAssumption DEF Ahead
  <2> QED
    BY <1>1, <2>1 DEF PassHeld, Listed, Completed
<1>7. CurHeld'
  BY <1>1 DEF CurHeld
<1> QED
  BY <1>3, <1>4, <1>5, <1>6, <1>7 DEF Owned

LEMMA SeeCancelOwned ==
  ASSUME TypeOK, Owned, SeeCancel
  PROVE  Owned'
<1>1. /\ ~Canceling /\ ~Idle /\ pc # "apply"
      /\ Abort("canceled")
      /\ UNCHANGED <<todos, running, orphans, ended>>
  BY DEF SeeCancel, Canceling, Idle, storeVars, runVars, endVars
<1>2. \A u \in TodoIds : Interrupted(todos[u]) => running[u] # 0
  BY <1>1 DEF Owned, InProgressHeld
<1>3. \A u \in TodoIds : Closed(u) => Closed(u)'
  BY <1>1 DEF Closed
<1>4. WellFormed(todos)' /\ \A u \in TodoIds : Interrupted(todos'[u]) => running[u] # 0
  BY <1>1, <1>2 DEF Owned
<1> QED
  BY <1>1, <1>3, <1>4, OwnedAbort

LEMMA DecideOwned ==
  ASSUME TypeOK, Accounted, Owned, Decide
  PROVE  Owned'
<1>1. pc = "decide" /\ UNCHANGED storeVars /\ Running = {}
  BY DEF Decide, Owned, ExecutorsHeld
<1>2. CASE Finish("finished")
  <2>1. \A t \in TodoIds : ~Interrupted(todos[t])
    BY <1>1 DEF Owned, InProgressHeld, Idle, Canceling, Running
  <2> QED
    BY <1>1, <1>2, <2>1, OwnedFinish
<1>3. CASE ~Finish("finished")
  <2>1. /\ pc' = "sleep"
        /\ UNCHANGED <<todos, running, orphans, stop, ended, fresh, pass>>
    BY <1>1, <1>3 DEF Decide, runVars, storeVars
  <2>2. Running' = Running /\ ~Canceling /\ ~Canceling' /\ ~Idle /\ ~Idle'
    BY <1>1, <2>1 DEF Running, Canceling, Idle
  <2>3. WellFormed(todos)' /\ NoStoreError'
    BY <1>1, <2>1 DEF Owned, NoStoreError
  <2>4. ExecutorsHeld'
    BY <1>1, <2>1, <2>2 DEF Owned, ExecutorsHeld, Closed
  <2>5. InProgressHeld'
    BY <1>1, <2>1, <2>2 DEF Owned, InProgressHeld
  <2>6. PassHeld' /\ CurHeld'
    BY <2>1 DEF PassHeld, CurHeld
  <2> QED
    BY <2>3, <2>4, <2>5, <2>6 DEF Owned
<1> QED
  BY <1>2, <1>3

-------------------------------------------------------------------------------
(* The steps of a pass, and the start of a todo. *)

LEMMA SkipOwned ==
  ASSUME TypeOK, Owned, Skip
  PROVE  Owned'
<1>1. PICK t \in TodoIds : t = NextTask
  BY RecoverPlace DEF Skip
<1>2. /\ pc = "collect" /\ pass.pos \in DOMAIN Order /\ pass.snap[t] = todos[t]
  BY <1>1, RecoverPlace DEF Skip
<1>3. /\ pc' = "collect" /\ pass'.pos = pass.pos + 1 /\ pass'.snap = pass.snap
      /\ pass'.ready = pass.ready
      /\ UNCHANGED <<todos, fresh, runVars, cur, stop, ended>>
  BY <1>2 DEF Skip, MoveOn, TypeOK, StepTypeOK, Pass, storeVars, endVars
<1>4. Touched(t)
  BY <1>3, NotTouched
<1>5. pass.snap[t] # NoTodo /\ pass.snap[t].status = "completed" => Completed(t)'
  BY <1>2, <1>3 DEF Completed
<1>6. t \notin pass'.ready
  <2> SUFFICES ASSUME t \in pass.ready PROVE FALSE
    BY <1>3
  <2>1. PICK i \in DOMAIN Order : i < pass.pos /\ Order[i] = t
    BY <1>2 DEF Owned, PassHeld
  <2> QED
    BY <1>1, <1>2, <2>1, OrderAssumption DEF NextTask
<1> QED
  BY <1>1, <1>2, <1>3, <1>4, <1>5, <1>6, OwnedPassMoves

\* What a pass finds in a todo it considers is what is stored, and it has not
\* made it ready before.
LEMMA CollectingOwned ==
  ASSUME TypeOK, Owned, NEW t \in TodoIds, Collecting(t)
  PROVE  /\ pc = "collect" /\ t = NextTask /\ pass.pos \in DOMAIN Order
         /\ pass.snap[t] = todos[t]
         /\ todos[t] \in TodoItem /\ todos[t] # NoTodo /\ todos[t].status \in Open
         /\ t \in fresh /\ ~Conflict(t)
         /\ running[t] = 0
         /\ t \notin pass.ready
         /\ DependenciesCompleted(t) => Workable(t)
<1>1. /\ pc = "collect" /\ t = NextTask /\ pass.pos \in DOMAIN Order
      /\ pass.snap[t] = todos[t]
      /\ todos[t] # NoTodo => t \in fresh
  BY RecoverPlace DEF Collecting
<1>2. todos[t] # NoTodo /\ todos[t].status \in Open /\ running[t] = 0
  BY <1>1 DEF Collecting, Considered
<1>3. todos[t] \in TodoItem
  BY <1>2 DEF TypeOK, StoreTypeOK, TodoList
<1>4. t \notin pass.ready
  <2> SUFFICES ASSUME t \in pass.ready PROVE FALSE
    OBVIOUS
  <2>1. PICK i \in DOMAIN Order : i < pass.pos /\ Order[i] = t
    BY <1>1 DEF Owned, PassHeld
  <2> QED
    BY <1>1, <2>1, OrderAssumption DEF NextTask
<1>5. DependenciesCompleted(t) => Workable(t)
  <2> SUFFICES ASSUME DependenciesCompleted(t), NEW d \in todos[t].deps PROVE Completed(d)
    BY <1>2 DEF Workable
  <2>1. d \in TodoIds /\ pass.snap[d] # NoTodo /\ pass.snap[d].status = "completed"
    BY <1>1, <1>3 DEF DependenciesCompleted, TodoItem
  <2> QED
    BY <1>1, <2>1 DEF Owned, PassHeld
<1> QED
  BY <1>1, <1>2, <1>3, <1>4, <1>5 DEF Conflict

\* A pass that writes the next todo, with another status, touches only it.
LEMMA WriteTouches ==
  ASSUME TypeOK, Owned, NEW t \in TodoIds, running[t] = 0,
         NEW item \in TodoItem, SameReferences(item, todos[t]), item.status # "in_progress",
         Accepted(t, item), Write(t, item)
  PROVE  Touched(t) /\ fresh \ {t} \subseteq fresh'
<1>1. ~Interrupted(todos'[t])
  BY WriteKeeps DEF Interrupted
<1> QED
  BY <1>1, WriteKeeps DEF Touched

LEMMA FailDependentOwned ==
  ASSUME TypeOK, Owned, NEW t \in TodoIds, FailDependent(t)
  PROVE  Owned'
<1> DEFINE item == [pass.snap[t] EXCEPT !.status = "failed", !.retries = 0, !.wait = FALSE]
<1>1. Collecting(t)
  BY DEF FailDependent
<1>2. item \in TodoItem /\ SameReferences(item, todos[t]) /\ item.status = "failed"
  BY <1>1, CollectingOwned DEF TodoItem, Status, SameReferences
<1>3. Accepted(t, item)
  <2> HIDE DEF item
  <2>1. ValidTransition(todos[t].status, "failed")
    BY <1>1, CollectingOwned DEF ValidTransition, Transitions, Open, Status, Terminal
  <2> QED
    BY <1>1, <1>2, <2>1, CollectingOwned, OwnWriteAccepted DEF Owned
<1>4. /\ Write(t, item)
      /\ pass' = [pass EXCEPT !.pos = @ + 1, !.snap[t] = Stored(item)]
      /\ UNCHANGED <<pc, cur, stop, runVars, ended>>
  BY <1>1, <1>3, CollectingOwned DEF FailDependent, Refused, endVars
<1> HIDE DEF item
<1>5. Stored(item).status = "failed"
  BY <1>2, StoredFields
<1>6. /\ pass'.pos = pass.pos + 1 /\ pass'.ready = pass.ready
      /\ \A u \in TodoIds : u # t => pass'.snap[u] = pass.snap[u]
      /\ pass'.snap[t].status = "failed"
  BY <1>4, <1>5 DEF TypeOK, StepTypeOK, Pass, TodoList
<1>7. Touched(t) /\ fresh \ {t} \subseteq fresh'
  BY <1>1, <1>2, <1>3, <1>4, CollectingOwned, WriteTouches
<1> QED
  BY <1>1, <1>4, <1>6, <1>7, CollectingOwned, OwnedPassMoves

LEMMA BlockOwned ==
  ASSUME TypeOK, Owned, NEW t \in TodoIds, Block(t)
  PROVE  Owned'
<1> DEFINE item == [pass.snap[t] EXCEPT !.status = "blocked"]
<1>1. Collecting(t)
  BY DEF Block
<1>2. item \in TodoItem /\ SameReferences(item, todos[t]) /\ item.status = "blocked"
  BY <1>1, CollectingOwned DEF TodoItem, Status, SameReferences
<1>3. todos[t].status # "blocked" => Accepted(t, item)
  <2> HIDE DEF item
  <2>1. ValidTransition(todos[t].status, "blocked")
    BY <1>1, CollectingOwned DEF ValidTransition, Transitions, Open, Status, Terminal
  <2> QED
    BY <1>1, <1>2, <2>1, CollectingOwned, OwnWriteAccepted DEF Owned
<1>4. /\ MoveOn /\ UNCHANGED <<pc, cur, stop, runVars, ended>>
      /\ \/ UNCHANGED <<todos, fresh>>
         \/ Accepted(t, item) /\ Write(t, item)
  BY <1>1, <1>3, CollectingOwned DEF Block, Refused, endVars, storeVars
<1> HIDE DEF item
<1>5. /\ pass'.pos = pass.pos + 1 /\ pass'.ready = pass.ready /\ pass'.snap = pass.snap
  BY <1>4 DEF MoveOn, TypeOK, StepTypeOK, Pass
<1>6. pass'.snap[t].status # "completed"
  BY <1>1, <1>5, CollectingOwned DEF Open, Terminal
<1>7. Touched(t) /\ fresh \ {t} \subseteq fresh'
  BY <1>1, <1>2, <1>4, CollectingOwned, WriteTouches, NotTouched
<1> QED
  BY <1>1, <1>4, <1>5, <1>6, <1>7, CollectingOwned, OwnedPassMoves

LEMMA MakeReadyOwned ==
  ASSUME TypeOK, Owned, NEW t \in TodoIds, MakeReady(t)
  PROVE  Owned'
<1>1. Collecting(t) /\ DependenciesCompleted(t)
  BY DEF MakeReady
<1>2. UNCHANGED <<todos, fresh, pc, cur, stop, runVars, ended>>
  BY DEF MakeReady, endVars, storeVars
<1>3. /\ pass'.pos = pass.pos + 1 /\ pass'.snap = pass.snap
      /\ pass'.ready \subseteq pass.ready \cup {t}
  BY DEF MakeReady, TypeOK, StepTypeOK, Pass
<1>4. Workable(t)' /\ t \in fresh'
  BY <1>1, <1>2, CollectingOwned DEF Workable, Completed
<1>5. Touched(t)
  BY <1>2, NotTouched
<1>6. pass'.snap[t].status # "completed"
  BY <1>1, <1>3, CollectingOwned DEF Open, Terminal
<1> QED
  BY <1>1, <1>2, <1>3, <1>4, <1>5, <1>6, CollectingOwned, OwnedPassMoves

LEMMA UnlockOwned ==
  ASSUME TypeOK, Owned, NEW t \in TodoIds, Unlock(t)
  PROVE  Owned'
<1> DEFINE item == [pass.snap[t] EXCEPT !.status = "pending", !.wait = FALSE]
<1>1. Collecting(t) /\ DependenciesCompleted(t) /\ pass.snap[t].status = "blocked"
  BY DEF Unlock
<1>2. item \in TodoItem /\ SameReferences(item, todos[t]) /\ item.status = "pending"
  BY <1>1, CollectingOwned DEF TodoItem, Status, SameReferences
<1>3. Accepted(t, item)
  <2> HIDE DEF item
  <2>1. ValidTransition(todos[t].status, "pending")
    BY <1>1, CollectingOwned DEF ValidTransition, Transitions
  <2> QED
    BY <1>1, <1>2, <2>1, CollectingOwned, OwnWriteAccepted DEF Owned
<1>4. UNCHANGED <<cur, stop, runVars, ended>>
  BY <1>1, <1>3, CollectingOwned DEF Unlock, Refused, endVars
<1>5. CASE MoveOn /\ UNCHANGED <<todos, fresh, pc>>
  <2>1. /\ pass'.pos = pass.pos + 1 /\ pass'.ready = pass.ready /\ pass'.snap = pass.snap
    BY <1>5 DEF MoveOn, TypeOK, StepTypeOK, Pass
  <2>2. pass'.snap[t].status # "completed"
    BY <1>1, <2>1
  <2>3. Touched(t)
    BY <1>5, NotTouched
  <2> QED
    BY <1>1, <1>4, <1>5, <2>1, <2>2, <2>3, CollectingOwned, OwnedPassMoves
<1>6. CASE Write(t, item) /\ pc' = "reread" /\ UNCHANGED pass
  <2> HIDE DEF item
  <2>1. Touched(t) /\ fresh \ {t} \subseteq fresh'
    BY <1>1, <1>2, <1>3, <1>6, CollectingOwned, WriteTouches
  <2>2. /\ running' = running /\ orphans' = orphans /\ Running' = Running
        /\ ~Canceling /\ ~Canceling' /\ ~Idle /\ ~Idle' /\ pc = "collect"
        /\ t = NextTask /\ t \notin Running
    BY <1>1, <1>4, <1>6, CollectingOwned DEF runVars, Running, Canceling, Idle
  <2>3. WellFormed(todos)' /\ NoStoreError'
    BY <1>4, <1>6, <2>1, <2>2 DEF Owned, NoStoreError, Touched
  <2>4. ExecutorsHeld'
    <3>1. \A u \in orphans' : Closed(u)' /\ running'[u] = 0
      BY <2>1, <2>2 DEF Owned, ExecutorsHeld, Touched, TypeOK, ExecutorTypeOK
    <3>2. \A u \in Running' : u \in TodoIds /\ u # t
      BY <2>2 DEF Running
    <3>3. \A u \in Running' : Workable(u)' /\ todos'[u].status = "in_progress"
      BY <2>1, <2>2, <3>2 DEF Owned, ExecutorsHeld, Touched
    <3> QED
      BY <1>6, <2>2, <3>1, <3>3 DEF ExecutorsHeld
  <2>5. InProgressHeld'
    <3>1. \A u \in TodoIds : Interrupted(todos'[u]) => Interrupted(todos[u])
      BY <2>1 DEF Touched
    <3>2. \A u \in TodoIds : Interrupted(todos[u]) => running[u] # 0
      BY <2>2 DEF Owned, InProgressHeld
    <3> QED
      BY <1>6, <2>2, <3>1, <3>2 DEF InProgressHeld, Idle
  <2>6. PassHeld'
    <3>1. \A i \in Ahead' : i \in Ahead /\ Order[i] \in TodoIds /\ Order[i] # t
      BY <1>1, <1>6, <2>2, OrderAssumption, CollectingOwned DEF Ahead, NextTask
    <3>2. \A i \in Ahead' : /\ pass'.snap[Order[i]] = todos'[Order[i]]
                            /\ todos'[Order[i]] # NoTodo => Order[i] \in fresh'
      BY <1>6, <2>1, <2>2, <3>1 DEF Owned, PassHeld, Touched
    <3>3. \A d \in TodoIds :
            (pass'.snap[d] # NoTodo /\ pass'.snap[d].status = "completed") => Completed(d)'
      <4>1. \A d \in TodoIds :
              (pass.snap[d] # NoTodo /\ pass.snap[d].status = "completed") => Completed(d)
        BY <2>2 DEF Owned, PassHeld
      <4>2. \A d \in TodoIds : Completed(d) => Completed(d)'
        BY <2>1 DEF Touched
      <4> QED
        BY <1>6, <4>1, <4>2
    <3>4. \A u \in pass'.ready : \E i \in DOMAIN Order : i < pass'.pos /\ Order[i] = u
      BY <1>6, <2>2 DEF Owned, PassHeld
    <3>5. \A u \in pass'.ready : Workable(u)' /\ u \in fresh'
      <4>1. \A u \in pass.ready : u \in TodoIds /\ u # t
        BY <1>1, CollectingOwned DEF TypeOK, StepTypeOK, Pass
      <4>2. \A u \in pass.ready : Workable(u) /\ u \in fresh
        BY <2>2 DEF Owned, PassHeld
      <4> QED
        BY <1>6, <2>1, <4>1, <4>2 DEF Touched
    <3>6. Workable(t)'
      <4>1. Workable(t) /\ item.status \in Open
        BY <1>1, <1>2, CollectingOwned DEF Open, Status, Terminal
      <4> QED
        BY <1>2, <1>3, <1>6, <4>1, WriteKeeps
    <3>7. NextTask' = t
      BY <1>6, <2>2 DEF NextTask
    <3> QED
      BY <1>6, <3>2, <3>3, <3>4, <3>5, <3>6, <3>7 DEF PassHeld
  <2>7. CurHeld'
    BY <1>6 DEF CurHeld
  <2> QED
    BY <2>3, <2>4, <2>5, <2>6, <2>7 DEF Owned
<1> QED
  BY <1>1, <1>3, <1>5, <1>6, CollectingOwned DEF Unlock, Refused, storeVars

LEMMA RereadOwned ==
  ASSUME TypeOK, Located, Owned, Reread
  PROVE  Owned'
<1>1. PICK t \in TodoIds : t = NextTask
  BY OrderAssumption DEF Reread, Located, NextTask
<1>2. /\ pc = "reread" /\ pc' = "collect" /\ pass.pos \in DOMAIN Order
      /\ Workable(t) /\ todos[t] # NoTodo
  BY <1>1 DEF Reread, Located, Owned, PassHeld, Workable
<1>3. /\ pass'.pos = pass.pos + 1 /\ pass'.snap = pass.snap
      /\ pass'.ready \subseteq pass.ready \cup {t}
      /\ fresh' = fresh \cup {t}
      /\ UNCHANGED <<todos, cur, stop, runVars, ended>>
  BY <1>1, <1>2 DEF Reread, TypeOK, StepTypeOK, Pass, storeVars, endVars
<1>4. Workable(t)' /\ Touched(t)
  BY <1>2, <1>3, NotTouched DEF Workable, Completed
<1>5. (pass'.snap[t] # NoTodo /\ pass'.snap[t].status = "completed") => Completed(t)'
  BY <1>2, <1>3 DEF Owned, PassHeld, Completed
<1> QED
  BY <1>1, <1>2, <1>3, <1>4, <1>5, OwnedPassMoves

\* Starting a todo is accepted, and no orphan works on it: it is open.
LEMMA StartTaskOwned ==
  ASSUME TypeOK, Located, Owned, NEW t \in TodoIds, StartTask(t)
  PROVE  Owned'
<1> DEFINE item == [todos[t] EXCEPT !.status = "in_progress", !.wait = FALSE]
           attempt == todos[t].retries + 1
<1>1. /\ pc = "start" /\ t \in pass.ready /\ running[t] = 0
      /\ Workable(t) /\ t \in fresh /\ ~Conflict(t)
      /\ ~Canceling /\ ~Idle
  BY DEF StartTask, Located, Owned, PassHeld, Conflict, Canceling, Idle
<1>2. todos[t] \in TodoItem /\ todos[t] # NoTodo /\ todos[t].status \in Open
  BY <1>1 DEF Workable, TypeOK, StoreTypeOK, TodoList
<1>3. item \in TodoItem /\ SameReferences(item, todos[t]) /\ item.status = "in_progress"
  BY <1>2 DEF TodoItem, Status, SameReferences
<1>4. Accepted(t, item)
  <2> HIDE DEF item
  <2>1. ValidTransition(todos[t].status, "in_progress")
    BY <1>2 DEF ValidTransition, Transitions, Open, Status, Terminal
  <2> QED
    BY <1>1, <1>2, <1>3, <2>1, OwnWriteAccepted DEF Owned
<1>5. attempt # 0
  <2>1. todos[t].retries \in Nat
    BY <1>2 DEF TodoItem
  <2> QED
    BY <2>1
<1>6. /\ Write(t, item)
      /\ running' = [running EXCEPT ![t] = attempt]
      /\ pass' = [pass EXCEPT !.ready = @ \ {t}, !.started = TRUE]
      /\ UNCHANGED <<pc, cur, stop, orphans, ended>>
  BY <1>1, <1>4 DEF StartTask, Refused, endVars
<1> HIDE DEF item, attempt
<1>7. /\ \A u \in TodoIds : u # t => running'[u] = running[u]
      /\ running'[t] # 0 /\ Running' = Running \cup {t}
      /\ ~Canceling' /\ ~Idle' /\ pass'.ready = pass.ready \ {t}
  BY <1>1, <1>5, <1>6 DEF TypeOK, ExecutorTypeOK, StepTypeOK, Pass, Running, Canceling, Idle
<1>8. /\ WellFormed(todos)'
      /\ fresh' = fresh \ {t}
      /\ \A u \in TodoIds : u # t => todos'[u] = todos[u]
      /\ todos'[t].status = "in_progress"
      /\ \A u \in TodoIds : Closed(u) => Closed(u)'
      /\ \A u \in TodoIds : Workable(u) => Workable(u)'
  <2>1. item.status \in Open
    BY <1>3 DEF Open, Status, Terminal
  <2> QED
    BY <1>1, <1>3, <1>4, <1>6, <2>1, WriteKeeps
<1>9. NoStoreError'
  BY <1>1, <1>6 DEF Owned, NoStoreError
<1>10. ExecutorsHeld'
  <2>1. t \notin orphans
    BY <1>2 DEF Owned, ExecutorsHeld, Closed, Open
  <2>2. \A u \in orphans' : Closed(u)' /\ running'[u] = 0
    BY <1>6, <1>7, <1>8, <2>1 DEF Owned, ExecutorsHeld, TypeOK, ExecutorTypeOK
  <2>3. \A u \in Running' : Workable(u)' /\ todos'[u].status = "in_progress"
    <3>1. \A u \in Running : u \in TodoIds /\ Workable(u) /\ todos[u].status = "in_progress"
      BY <1>1 DEF Owned, ExecutorsHeld, Running
    <3> QED
      BY <1>1, <1>7, <1>8, <3>1
  <2> QED
    BY <1>1, <1>6, <1>7, <2>2, <2>3 DEF ExecutorsHeld
<1>11. InProgressHeld'
  <2>1. \A u \in TodoIds : Interrupted(todos[u]) => running[u] # 0
    BY <1>1 DEF Owned, InProgressHeld
  <2> QED
    BY <1>1, <1>6, <1>7, <1>8, <2>1 DEF InProgressHeld, Idle
<1>12. PassHeld'
  <2>1. \A u \in pass.ready : u \in TodoIds /\ Workable(u) /\ u \in fresh
    BY <1>1 DEF Owned, PassHeld, TypeOK, StepTypeOK, Pass
  <2>2. \A u \in pass'.ready : Workable(u)' /\ u \in fresh'
    BY <1>7, <1>8, <2>1
  <2> QED
    BY <1>1, <1>6, <2>2 DEF PassHeld
<1>13. CurHeld'
  BY <1>1, <1>6 DEF CurHeld
<1> QED
  BY <1>8, <1>9, <1>10, <1>11, <1>12, <1>13 DEF Owned

-------------------------------------------------------------------------------
(* Outcomes, and the end of a run. *)

\* An outcome received is that of a todo in progress, so it is written back.
LEMMA ReceiveOutcomeOwned ==
  ASSUME TypeOK, Accounted, Owned, NEW o \in chan, ReceiveOutcome(o)
  PROVE  Owned'
<1> DEFINE t == o.id
<1>1. /\ pc = "await" /\ t \in TodoIds /\ running[t] = o.attempt /\ t \in Running
      /\ ~Canceling /\ ~Idle
  BY DEF ReceiveOutcome, TypeOK, ExecutorTypeOK, Accounted, OutcomesAccounted, Running,
         Canceling, Idle
<1>2. /\ Workable(t) /\ todos[t].status = "in_progress"
      /\ todos[t] # NoTodo /\ todos[t].status \in Open
  BY <1>1 DEF Owned, ExecutorsHeld, Workable
<1>3. /\ running' = [running EXCEPT ![t] = 0]
      /\ pc' = "apply"
      /\ pass' = [NoPass EXCEPT !.snap[t] = todos[t]]
      /\ fresh' = {t}
      /\ cur' = [kind |-> IF o.ok THEN "success" ELSE "failure", id |-> t]
      /\ UNCHANGED <<todos, orphans, stop, ended>>
  BY <1>1, <1>2 DEF ReceiveOutcome, storeVars, endVars
<1> HIDE DEF t
<1>4. /\ cur'.id = t /\ pass'.snap[t] = todos[t] /\ running'[t] = 0
      /\ \A u \in TodoIds : u # t => running'[u] = running[u]
      /\ Running' = Running \ {t}
      /\ ~Canceling' /\ ~Idle'
  BY <1>1, <1>3 DEF TypeOK, ExecutorTypeOK, NoPass, Running, Canceling, Idle
<1>5. WellFormed(todos)' /\ NoStoreError'
  BY <1>1, <1>3 DEF Owned, NoStoreError
<1>6. ExecutorsHeld'
  <2>1. \A u \in orphans' : Closed(u)' /\ running'[u] = 0
    BY <1>3, <1>4 DEF Owned, ExecutorsHeld, Closed, TypeOK, ExecutorTypeOK
  <2>2. \A u \in Running' : Workable(u)' /\ todos'[u].status = "in_progress"
    BY <1>1, <1>3, <1>4 DEF Owned, ExecutorsHeld, Workable, Completed
  <2> QED
    BY <1>3, <1>4, <2>1, <2>2 DEF ExecutorsHeld
<1>7. InProgressHeld'
  <2>1. \A u \in TodoIds : Interrupted(todos[u]) => running[u] # 0
    BY <1>1 DEF Owned, InProgressHeld
  <2> QED
    BY <1>3, <1>4, <2>1 DEF InProgressHeld, Idle
<1>8. PassHeld'
  BY <1>3 DEF PassHeld
<1>9. CurHeld'
  BY <1>2, <1>3, <1>4 DEF CurHeld, Workable, Completed
<1> QED
  BY <1>5, <1>6, <1>7, <1>8, <1>9 DEF Owned

\* What the run holds in hand while it writes an outcome, or a cancel, back.
LEMMA HeldOwned ==
  ASSUME TypeOK, Located, Owned, pc \in {"apply", "cancelwrite", "cancelfail"}
  PROVE  /\ cur.id \in TodoIds
         /\ pass.snap[cur.id] = todos[cur.id]
         /\ todos[cur.id] \in TodoItem /\ todos[cur.id] # NoTodo
         /\ todos[cur.id].status \in Open
         /\ cur.id \in fresh /\ ~Conflict(cur.id)
  BY HeldItem DEF Owned, CurHeld, Located, Conflict

\* After its outcome is written the run does not work on the todo any more.
LEMMA OutcomeWritten ==
  ASSUME TypeOK, Located, Owned, pc = "apply", NEW t, t = cur.id,
         NEW item \in TodoItem, SameReferences(item, todos[t]), item.status # "in_progress",
         Accepted(t, item), Write(t, item), UNCHANGED <<running, orphans, ended>>
  PROVE  /\ WellFormed(todos)'
         /\ \A u \in TodoIds : Closed(u) => Closed(u)'
         /\ \A u \in TodoIds : Interrupted(todos'[u]) => running[u] # 0
         /\ \A u \in orphans' : Closed(u)' /\ running'[u] = 0
         /\ \A u \in Running' : Workable(u)' /\ todos'[u].status = "in_progress"
<1>1. t \in TodoIds /\ running[t] = 0 /\ ~Canceling /\ ~Idle
  BY HeldOwned DEF Owned, CurHeld, Canceling, Idle
<1>2. /\ WellFormed(todos)'
      /\ \A u \in TodoIds : u # t => todos'[u] = todos[u]
      /\ ~Interrupted(todos'[t])
      /\ \A u \in TodoIds : Closed(u) => Closed(u)'
      /\ \A u \in TodoIds : Workable(u) /\ u # t => Workable(u)'
  BY <1>1, WriteKeeps DEF Interrupted
<1>3. \A u \in TodoIds : Interrupted(todos'[u]) => running[u] # 0
  BY <1>1, <1>2 DEF Owned, InProgressHeld
<1>4. \A u \in orphans' : Closed(u)' /\ running'[u] = 0
  BY <1>2 DEF Owned, ExecutorsHeld, TypeOK, ExecutorTypeOK
<1>5. \A u \in Running' : u \in Running /\ u \in TodoIds /\ u # t
  BY <1>1 DEF Running
<1>6. \A u \in Running' : Workable(u)' /\ todos'[u].status = "in_progress"
  BY <1>1, <1>2, <1>5 DEF Owned, ExecutorsHeld
<1> QED
  BY <1>2, <1>3, <1>4, <1>6

LEMMA AppliedOwned ==
  ASSUME TypeOK, Located, Owned, pc = "apply", NEW t, t = cur.id,
         NEW item \in TodoItem, SameReferences(item, todos[t]), item.status # "in_progress",
         Accepted(t, item), Write(t, item), Applied,
         UNCHANGED <<running, orphans, ended>>
  PROVE  Owned'
<1>1. pc' = "check" /\ stop' = stop /\ ~Canceling' /\ ~Idle'
  BY DEF Applied, Canceling, Idle
<1>2. NoStoreError'
  BY <1>1 DEF Owned, NoStoreError
<1>3. ExecutorsHeld'
  BY <1>1, OutcomeWritten DEF ExecutorsHeld
<1>4. InProgressHeld'
  BY <1>1, OutcomeWritten DEF InProgressHeld
<1>5. PassHeld' /\ CurHeld'
  BY <1>1 DEF PassHeld, CurHeld
<1> QED
  BY <1>2, <1>3, <1>4, <1>5, OutcomeWritten DEF Owned

LEMMA ApplySuccessOwned ==
  ASSUME TypeOK, Located, Owned, ApplySuccess
  PROVE  Owned'
<1> DEFINE t == cur.id
           item == [pass.snap[t] EXCEPT !.status = "completed", !.retries = 0, !.wait = FALSE]
<1>1. pc = "apply"
  BY DEF ApplySuccess
<1>2. item \in TodoItem /\ SameReferences(item, todos[t]) /\ item.status = "completed"
  BY <1>1, HeldOwned DEF TodoItem, Status, SameReferences
<1>3. Workable(t) /\ ValidTransition(todos[t].status, "completed")
  BY <1>1 DEF Owned, CurHeld, ValidTransition, Transitions
<1>4. Accepted(t, item)
  <2> HIDE DEF item
  <2> QED
    BY <1>1, <1>2, <1>3, HeldOwned, OwnWriteAccepted DEF Owned
<1>5. Write(t, item) /\ Applied /\ UNCHANGED <<running, orphans, ended>>
  BY <1>1, <1>4, HeldOwned DEF ApplySuccess, Refused, runVars, endVars
<1> HIDE DEF item
<1> QED
  BY <1>1, <1>2, <1>4, <1>5, AppliedOwned

LEMMA ApplyFailureOwned ==
  ASSUME TypeOK, Located, Owned, ApplyFailure
  PROVE  Owned'
<1> DEFINE t == cur.id
           retry == RetryLeft(pass.snap[t])
           item == [pass.snap[t] EXCEPT !.status = IF retry THEN "blocked" ELSE "failed",
                                        !.retries = @ + 1, !.limit = Limit(pass.snap[t]),
                                        !.wait = retry]
<1>1. pc = "apply"
  BY DEF ApplyFailure
<1>2. todos[t] \in TodoItem /\ pass.snap[t] = todos[t]
  BY <1>1, HeldOwned
<1>3. item \in TodoItem
  <2>1. retry \in BOOLEAN
    BY DEF RetryLeft
  <2> HIDE DEF retry, t
  <2> QED
    BY <1>2, <2>1, FailedAttemptType
<1>4. SameReferences(item, todos[t]) /\ item.status \in {"blocked", "failed"}
  <2> HIDE DEF retry
  <2> QED
    BY <1>2 DEF TodoItem, SameReferences
<1>5. todos[t].status = "in_progress"
  BY <1>1 DEF Owned, CurHeld
<1>6. Accepted(t, item)
  <2> HIDE DEF item
  <2>1. ValidTransition(todos[t].status, item.status)
    BY <1>4, <1>5 DEF ValidTransition, Transitions
  <2> QED
    BY <1>1, <1>3, <1>4, <2>1, HeldOwned, OwnWriteAccepted DEF Owned
<1>7. /\ Write(t, item) /\ UNCHANGED <<running, orphans, ended>>
      /\ Applied \/ Abort("fail_fast")
  BY <1>1, <1>6, HeldOwned DEF ApplyFailure, Refused, runVars, endVars
<1> HIDE DEF item
<1>8. CASE Applied
  BY <1>1, <1>3, <1>4, <1>6, <1>7, <1>8, AppliedOwned
<1>9. CASE Abort("fail_fast")
  <2>1. ~Canceling /\ ~Idle
    BY <1>1 DEF Canceling, Idle
  <2>2. /\ WellFormed(todos)'
        /\ \A u \in TodoIds : Closed(u) => Closed(u)'
        /\ \A u \in TodoIds : Interrupted(todos'[u]) => running[u] # 0
    BY <1>1, <1>3, <1>4, <1>6, <1>7, OutcomeWritten
  <2> QED
    BY <1>7, <1>9, <2>1, <2>2, OwnedAbort
<1> QED
  BY <1>7, <1>8, <1>9

\* A step of the cancellation that closes todos, and leaves out of what is left
\* only a todo that is closed.
LEMMA OwnedCanceling ==
  ASSUME TypeOK, Owned, Canceling, pc' = "cancel",
         NEW t \in TodoIds, stop' = [stop EXCEPT !.left = @ \ {t}],
         UNCHANGED <<running, orphans, ended>>,
         WellFormed(todos)',
         Closed(t)',
         \A u \in TodoIds : u # t => todos'[u] = todos[u],
         \A u \in TodoIds : Closed(u) => Closed(u)'
  PROVE  Owned'
<1>1. /\ stop'.left = stop.left \ {t} /\ stop'.why = stop.why
      /\ Canceling' /\ ~Idle' /\ ~Idle /\ Running' = Running
  BY DEF TypeOK, StepTypeOK, Canceling, Idle, Running
<1>2. ~Interrupted(todos'[t])
  BY DEF Closed, Interrupted, Terminal
<1>3. NoStoreError'
  BY <1>1 DEF Owned, NoStoreError, Canceling
<1>4. ExecutorsHeld'
  <2>1. \A u \in orphans' : Closed(u)' /\ running'[u] = 0
    BY DEF Owned, ExecutorsHeld, TypeOK, ExecutorTypeOK
  <2>2. \A u \in Running : u \in TodoIds
    BY DEF Running
  <2>3. \A u \in Running : u \in stop'.left \/ Closed(u)'
    BY <1>1, <2>2 DEF Owned, ExecutorsHeld
  <2> QED
    BY <1>1, <2>1, <2>3 DEF ExecutorsHeld, Idle
<1>5. InProgressHeld'
  BY <1>1, <1>2 DEF Owned, InProgressHeld, Idle
<1>6. PassHeld' /\ CurHeld'
  BY DEF PassHeld, CurHeld
<1> QED
  BY <1>3, <1>4, <1>5, <1>6 DEF Owned

LEMMA CancelNextOwned ==
  ASSUME TypeOK, Owned, NEW t \in TodoIds, CancelNext(t)
  PROVE  Owned'
<1>1. /\ pc = "cancel" /\ Canceling /\ ~Idle
      /\ UNCHANGED <<todos, running, orphans, ended>>
  BY DEF CancelNext, Canceling, Idle, storeVars, runVars, endVars
<1>2. CASE todos[t] # NoTodo /\ todos[t].status \in Open
  <2>1. /\ pc' = "cancelwrite" /\ stop' = stop
        /\ pass' = [NoPass EXCEPT !.snap[t] = todos[t]]
        /\ fresh' = {t}
        /\ cur' = [kind |-> "cancel", id |-> t]
    BY <1>2 DEF CancelNext
  <2>2. Canceling' /\ ~Idle' /\ Running' = Running /\ cur'.id = t /\ pass'.snap[t] = todos[t]
    BY <1>1, <2>1 DEF Canceling, Idle, Running, NoPass
  <2>3. WellFormed(todos)' /\ NoStoreError'
    BY <1>1, <2>1 DEF Owned, NoStoreError
  <2>4. ExecutorsHeld'
    BY <1>1, <2>1, <2>2 DEF Owned, ExecutorsHeld, Closed
  <2>5. InProgressHeld'
    BY <1>1, <2>1, <2>2 DEF Owned, InProgressHeld
  <2>6. PassHeld' /\ CurHeld'
    BY <1>1, <1>2, <2>1, <2>2 DEF PassHeld, CurHeld
  <2> QED
    BY <2>3, <2>4, <2>5, <2>6 DEF Owned
<1>3. CASE ~(todos[t] # NoTodo /\ todos[t].status \in Open)
  <2>1. pc' = "cancel" /\ stop' = [stop EXCEPT !.left = @ \ {t}]
    BY <1>1, <1>3 DEF CancelNext
  <2>2. Closed(t)
    BY <1>3 DEF Closed, Open, TypeOK, StoreTypeOK, TodoList, TodoItem
  <2>3. \A u \in TodoIds : Closed(u) => Closed(u)'
    BY <1>1 DEF Closed
  <2>4. WellFormed(todos)' /\ Closed(t)'
    BY <1>1, <2>2, <2>3 DEF Owned
  <2> QED
    BY <1>1, <2>1, <2>3, <2>4, OwnedCanceling
<1> QED
  BY <1>2, <1>3

LEMMA CancelWriteOwned ==
  ASSUME TypeOK, Located, Owned, CancelWrite
  PROVE  Owned'
<1>0. PICK t \in TodoIds : t = cur.id
  BY HeldOwned DEF CancelWrite
<1> DEFINE item == [pass.snap[t] EXCEPT !.status = "canceled"]
<1>1. /\ pc = "cancelwrite" /\ Canceling /\ ~Idle
      /\ UNCHANGED <<running, orphans, ended>>
  BY DEF CancelWrite, Canceling, Idle, runVars, endVars
<1>2. item \in TodoItem /\ SameReferences(item, todos[t]) /\ item.status = "canceled"
  BY <1>0, <1>1, HeldOwned DEF TodoItem, Status, SameReferences
<1> HIDE DEF item
<1>3. CASE Accepted(t, item) /\ Write(t, item) /\ Canceled
  <2>1. Closed(t)'
    BY <1>0, <1>1, <1>2, <1>3, HeldOwned, WriteKeeps DEF Closed, Terminal
  <2>2. /\ WellFormed(todos)'
        /\ \A u \in TodoIds : u # t => todos'[u] = todos[u]
        /\ \A u \in TodoIds : Closed(u) => Closed(u)'
    BY <1>0, <1>1, <1>2, <1>3, HeldOwned, WriteKeeps
  <2>3. t \in TodoIds /\ pc' = "cancel" /\ stop' = [stop EXCEPT !.left = @ \ {t}]
    BY <1>0, <1>1, <1>3, HeldOwned DEF Canceled
  <2> QED
    BY <1>1, <2>1, <2>2, <2>3, OwnedCanceling
<1>4. CASE pc' = "cancelfail" /\ UNCHANGED <<todos, cur, stop, pass, fresh>>
  <2>1. Canceling' /\ ~Idle' /\ Running' = Running
    BY <1>1, <1>4 DEF Canceling, Idle, Running
  <2>2. WellFormed(todos)' /\ NoStoreError'
    BY <1>1, <1>4 DEF Owned, NoStoreError
  <2>3. ExecutorsHeld'
    BY <1>1, <1>4, <2>1 DEF Owned, ExecutorsHeld, Closed
  <2>4. InProgressHeld'
    BY <1>1, <1>4, <2>1 DEF Owned, InProgressHeld
  <2>5. PassHeld' /\ CurHeld'
    BY <1>1, <1>4 DEF Owned, PassHeld, CurHeld
  <2> QED
    BY <2>2, <2>3, <2>4, <2>5 DEF Owned
<1> QED
  BY <1>0, <1>1, <1>3, <1>4, HeldOwned DEF CancelWrite, item

\* The failure that a refused cancel falls back to is accepted.
LEMMA CancelFailOwned ==
  ASSUME TypeOK, Located, Owned, CancelFail
  PROVE  Owned'
<1>0. PICK t \in TodoIds : t = cur.id
  BY HeldOwned DEF CancelFail
<1> DEFINE item == [pass.snap[t] EXCEPT !.status = "failed", !.wait = FALSE]
<1>1. /\ pc = "cancelfail" /\ Canceling /\ Canceled
      /\ UNCHANGED <<running, orphans, ended>>
  BY DEF CancelFail, Canceling, runVars, endVars
<1>2. item \in TodoItem /\ SameReferences(item, todos[t]) /\ item.status = "failed"
  BY <1>0, <1>1, HeldOwned DEF TodoItem, Status, SameReferences
<1>3. Accepted(t, item)
  <2> HIDE DEF item
  <2>1. ValidTransition(todos[t].status, "failed")
    BY <1>0, <1>1, HeldOwned DEF ValidTransition, Transitions, Open, Status, Terminal
  <2> QED
    BY <1>0, <1>1, <1>2, <2>1, HeldOwned, OwnWriteAccepted DEF Owned
<1>4. Write(t, item)
  BY <1>0, <1>3 DEF CancelFail
<1> HIDE DEF item
<1>5. Closed(t)'
  BY <1>0, <1>1, <1>2, <1>3, <1>4, HeldOwned, WriteKeeps DEF Closed, Terminal
<1>6. /\ WellFormed(todos)'
      /\ \A u \in TodoIds : u # t => todos'[u] = todos[u]
      /\ \A u \in TodoIds : Closed(u) => Closed(u)'
  BY <1>0, <1>1, <1>2, <1>3, <1>4, HeldOwned, WriteKeeps
<1>7. t \in TodoIds /\ pc' = "cancel" /\ stop' = [stop EXCEPT !.left = @ \ {t}]
  BY <1>0, <1>1, HeldOwned DEF Canceled
<1> QED
  BY <1>1, <1>5, <1>6, <1>7, OwnedCanceling

LEMMA StoppedOwned ==
  ASSUME TypeOK, Accounted, Owned, Stopped
  PROVE  Owned'
<1>1. /\ pc = "cancel" /\ Canceling /\ stop.left = {}
      /\ Finish(stop.why) /\ UNCHANGED storeVars /\ stop.why # "store_error"
  BY DEF Stopped, Canceling, Owned, NoStoreError
<1>2. \A t \in Running : Closed(t)
  BY <1>1 DEF Owned, ExecutorsHeld
<1>3. \A t \in TodoIds : ~Interrupted(todos[t])
  BY <1>1 DEF Owned, InProgressHeld
<1> QED
  BY <1>1, <1>2, <1>3, OwnedFinish

LEMMA StartCanceledOwned ==
  ASSUME TypeOK, Owned, StartCanceled
  PROVE  Owned'
<1>1. /\ pc = "off" /\ ended' = "unstarted"
      /\ UNCHANGED <<todos, pc, pass, fresh, running, orphans, cur, stop>>
  BY DEF StartCanceled, storeVars, runVars
<1>2. Idle /\ Idle' /\ ~Canceling /\ ~Canceling' /\ Running' = Running
  BY <1>1 DEF Idle, Canceling, Running
<1>3. WellFormed(todos)' /\ NoStoreError'
  BY <1>1 DEF Owned, NoStoreError
<1>4. ExecutorsHeld'
  BY <1>1, <1>2 DEF Owned, ExecutorsHeld, Closed
<1>5. InProgressHeld'
  BY <1>1, <1>2 DEF InProgressHeld
<1>6. PassHeld' /\ CurHeld'
  BY <1>1 DEF PassHeld, CurHeld
<1> QED
  BY <1>3, <1>4, <1>5, <1>6 DEF Owned

LEMMA CrashOwned ==
  ASSUME TypeOK, Owned, Crash
  PROVE  Owned'
<1>1. /\ pc' = "off" /\ ended' = "crashed" /\ stop' = NoStop /\ orphans' = {}
      /\ todos' = todos /\ Running' = {}
  BY DEF Crash, storeVars, Running, NotRunning
<1>2. ~Canceling' /\ Idle'
  BY <1>1 DEF Canceling, Idle
<1> QED
  BY <1>1, <1>2 DEF Owned, NoStoreError, NoStop, ExecutorsHeld, InProgressHeld, PassHeld, CurHeld

-------------------------------------------------------------------------------
(* The invariant, and what follows from it. *)

\* The steps of a run.
LEMMA RunStepOwned ==
  ASSUME TypeOK, Located, Accounted, Owned, RunStep
  PROVE  Owned'
<1>1. ASSUME Recover \/ Recovered \/ BeginPass \/ SeeCancel \/ Skip \/ Reread \/ Collected
             \/ EndPass \/ Decide \/ Poll
      PROVE  Owned'
  BY <1>1, RecoverOwned, StageOwned, BeginPassOwned, SeeCancelOwned, SkipOwned, RereadOwned,
     DecideOwned
<1>2. ASSUME NEW t \in TodoIds,
             FailDependent(t) \/ Block(t) \/ MakeReady(t) \/ Unlock(t) \/ StartTask(t)
      PROVE  Owned'
  BY <1>2, FailDependentOwned, BlockOwned, MakeReadyOwned, UnlockOwned, StartTaskOwned
<1>3. ASSUME NEW o \in chan, ReceiveOutcome(o) PROVE Owned'
  BY <1>3, ReceiveOutcomeOwned
<1>4. ASSUME ApplySuccess \/ ApplyFailure PROVE Owned'
  BY <1>4, ApplySuccessOwned, ApplyFailureOwned
<1>5. ASSUME NEW t \in TodoIds, CancelNext(t) PROVE Owned'
  BY <1>5, CancelNextOwned
<1>6. ASSUME CancelWrite \/ CancelFail \/ Stopped PROVE Owned'
  BY <1>6, CancelWriteOwned, CancelFailOwned, StoppedOwned
<1> QED
  BY <1>1, <1>2, <1>3, <1>4, <1>5, <1>6 DEF RunStep

\* The steps of the environment, other than an edit.
LEMMA EnvironmentOwned ==
  ASSUME Owned,
         \/ \E e \in exec : ExecutorEnds(e)
         \/ \E t \in TodoIds : OrphanEnds(t) \/ TimePasses(t)
         \/ CancelRun
         \/ UNCHANGED vars
  PROVE  Owned'
<1>1. UNCHANGED <<todos, pc, pass, fresh, running, cur, stop, ended>> /\ orphans' \subseteq orphans
  BY DEF ExecutorEnds, OrphanEnds, TimePasses, CancelRun, vars, storeVars, runVars, endVars
<1> QED
  BY <1>1, OwnedKept

OwnedUntilEdited == edits = 0 => Owned

LEMMA OwnedStep ==
  ASSUME TypeOK, Located, Accounted, OwnedUntilEdited, [Next]_vars
  PROVE  OwnedUntilEdited'
<1>1. ASSUME NEW t \in TodoIds,
             EditDelete(t) \/ \E status \in Status : EditStatus(t, status)
      PROVE  edits' # 0
  <2>1. edits' = edits + 1
    BY <1>1 DEF EditDelete, EditStatus, Editing
  <2>2. edits \in Nat
    BY ConfigAssumption DEF TypeOK, EndTypeOK
  <2> QED
    BY <2>1, <2>2
<1>2. ASSUME \/ StartRun \/ StartCanceled \/ RunStep \/ CancelRun \/ Crash \/ UNCHANGED vars
             \/ \E e \in exec : ExecutorEnds(e)
             \/ \E t \in TodoIds : OrphanEnds(t) \/ TimePasses(t)
      PROVE  edits' = edits
  BY <1>2 DEF StartRun, StartCanceled, RunStep, CancelRun, Crash, ExecutorEnds, OrphanEnds, TimePasses,
    Recover, Recovered, BeginPass, SeeCancel, Skip, Reread, Collected, EndPass, Decide, Poll,
    FailDependent, Block, MakeReady, Unlock, StartTask, ReceiveOutcome, ApplySuccess,
    ApplyFailure, CancelNext, CancelWrite, CancelFail, Stopped, vars, endVars
<1>3. ASSUME \/ StartRun \/ StartCanceled \/ RunStep \/ CancelRun \/ Crash \/ UNCHANGED vars
             \/ \E e \in exec : ExecutorEnds(e)
             \/ \E t \in TodoIds : OrphanEnds(t) \/ TimePasses(t)
      PROVE  OwnedUntilEdited'
  <2> SUFFICES ASSUME edits' = 0 PROVE Owned'
    BY DEF OwnedUntilEdited
  <2>1. Owned
    BY <1>2, <1>3 DEF OwnedUntilEdited
  <2> QED
    BY <1>3, <2>1, StartRunOwned, StartCanceledOwned, RunStepOwned, CrashOwned, EnvironmentOwned
<1> QED
  BY <1>1, <1>3 DEF Next, OwnedUntilEdited

\* The whole of the invariant holds of every reachable state.
LEMMA AlwaysOwned == Spec => [](TypeOK /\ Located /\ Accounted /\ OwnedUntilEdited)
<1>1. Init => TypeOK /\ Located /\ Accounted /\ OwnedUntilEdited
  BY InitTyped, AccountedInit, OwnedInit DEF OwnedUntilEdited
<1>2. TypeOK /\ Located /\ Accounted /\ OwnedUntilEdited /\ [Next]_vars
        => TypeOK' /\ Located' /\ Accounted' /\ OwnedUntilEdited'
  BY StepTyped, AccountedStep, OwnedStep
<1> QED
  BY <1>1, <1>2, PTL DEF Spec

\* No todo is worked on twice: while nobody else edits the list,
\* startReadyTasks never starts an executor for a todo that an executor left behind by an
\* earlier, canceled or fail-fast, run still works on.
THEOREM OneExecutor == Spec => []OneExecutorEach
<1>1. TypeOK /\ Accounted /\ OwnedUntilEdited => OneExecutorEach
  <2> SUFFICES ASSUME TypeOK, Accounted, Owned, NEW e \in exec, e.id \in orphans PROVE FALSE
    BY DEF OneExecutorEach, OwnedUntilEdited
  <2>1. running[e.id] # 0
    BY DEF TypeOK, ExecutorTypeOK, Accounted, OutcomesAccounted
  <2> QED
    BY <2>1 DEF Owned, ExecutorsHeld
<1> QED
  BY AlwaysOwned, <1>1, PTL

\* A run that got past the check of its context and returned, finished, canceled
\* or failed fast, left no todo of the subagent in progress: it recovered those a
\* crash had left, and cancelRunningTodos reaches all of its own.
THEOREM NothingInProgress == Spec => []NothingLeftInProgress
<1>1. OwnedUntilEdited => NothingLeftInProgress
  <2> SUFFICES ASSUME Owned, ended \notin {"none", "crashed", "unstarted"},
                      NEW t \in Listed(todos), Interrupted(todos[t])
               PROVE  FALSE
    BY DEF NothingLeftInProgress, OwnedUntilEdited
  <2>1. pc = "off" /\ t \in TodoIds
    BY DEF Owned, NoStoreError, Listed
  <2> QED
    BY <2>1 DEF Owned, InProgressHeld
<1> QED
  BY AlwaysOwned, <1>1, PTL

\* Every write of the scheduler obeys the rules of the list: with the list to
\* itself no run ends with an error of the store.
THEOREM WritesAccepted == Spec => []OwnWritesAccepted
<1>1. OwnedUntilEdited => OwnWritesAccepted
  BY DEF OwnWritesAccepted, OwnedUntilEdited, Owned, NoStoreError
<1> QED
  BY AlwaysOwned, <1>1, PTL
===============================================================================
