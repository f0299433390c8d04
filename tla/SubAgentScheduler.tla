-------------------------- MODULE SubAgentScheduler --------------------------
(***************************************************************************)
(* The subagent scheduler: one Run is a goroutine that recovers            *)
(* interrupted todos, then repeats passes over the list (collect the ready *)
(* todos, claim and start them, wait for one outcome) until nothing can be *)
(* scheduled, its context is canceled, or an error ends it.  Each started  *)
(* todo has an executor goroutine of its own, and another party may edit   *)
(* the todo store between any two calls the scheduler makes on it.         *)
(*                                                                         *)
(* A todo's revision is not a number here: fresh holds the todos whose     *)
(* copy in the scheduler's hands still has the stored revision.  The order *)
(* in which ready todos are claimed (priority with aging) is left open.    *)
(***************************************************************************)
EXTENDS TodoRules, Sequences

CONSTANTS Order,           \* the todo ids in list order
          InitialLists,    \* lists the store may hold at first
          MaxConcurrency,
          MaxRetries,
          FailFastRuns,    \* runs, by number, whose FailureMode is fail-fast
          RecoveryFail,    \* RecoveryMode is fail
          DispatchOnce,
          MaxRuns,         \* bound: runs explored
          MaxEdits         \* bound: edits by others explored

TodoItem == [status     : Status,
             deps       : SUBSET TodoIds,
             required   : BOOLEAN,
             supersedes : SUBSET TodoIds,
             subagent   : BOOLEAN,      \* its executor is the subagent
             retries    : Nat,
             limit      : Nat,          \* its own retry limit; 0 when unset
             wait       : BOOLEAN]      \* next_retry_at is set

TodoList == [TodoIds -> TodoItem \cup {NoTodo}]

\* A retry time is set only on a todo that is pending or failed.
RetryTimesInOrder(list) ==
  \A t \in Listed(list) : list[t].wait => list[t].status \in {"pending", "failed"}

ASSUME NoTodoAssumption == NoTodo \notin TodoItem

ASSUME OrderAssumption ==
  /\ Order \in Seq(TodoIds)
  /\ \A t \in TodoIds : \E i \in DOMAIN Order : Order[i] = t
  /\ \A i, j \in DOMAIN Order : Order[i] = Order[j] => i = j

ASSUME InitialAssumption ==
  /\ InitialLists \subseteq TodoList
  /\ \A list \in InitialLists : WellFormed(list) /\ RetryTimesInOrder(list)

ASSUME FiniteAssumption == IsFiniteSet(TodoIds)

ASSUME ConfigAssumption ==
  /\ MaxConcurrency \in Nat \ {0}
  /\ MaxRetries \in Nat /\ MaxRuns \in Nat /\ MaxEdits \in Nat
  /\ FailFastRuns \subseteq Nat /\ RecoveryFail \in BOOLEAN /\ DispatchOnce \in BOOLEAN

VARIABLES todos,     \* the store
          pc,        \* where Run is; "off" between runs
          pass,      \* the pass: its snapshot, position, ready todos, any started
          fresh,     \* todos whose copy in hand has the stored revision
          running,   \* state.running: the attempt of each todo, 0 when absent
          exec,      \* executors of this run still at work
          chan,      \* state.outcomes: the outcomes sent and not yet received
          cur,       \* the outcome, or the canceled todo, being written back
          stop,      \* why the run is stopping, and the todos still to cancel
          ctxDone,   \* the run's context is canceled
          later,     \* todos whose last scheduled retry time is still ahead
          orphans,   \* todos some executor of an earlier run still works on
          ended,     \* how the last run ended
          runs,      \* runs so far, for the bound
          edits      \* edits by others so far, for the bound

storeVars == <<todos, later>>
runVars == <<running, exec, chan, orphans>>
endVars == <<ctxDone, ended, runs, edits>>
vars == <<storeVars, pc, pass, fresh, runVars, cur, stop, endVars>>

NoPass == [snap |-> [t \in TodoIds |-> NoTodo], pos |-> 1, ready |-> {}, started |-> FALSE]

NoCur == [kind |-> "none"]

NoStop == [why |-> "none", left |-> {}]

NotRunning == [t \in TodoIds |-> 0]

Running == {t \in TodoIds : running[t] # 0}

Init ==
  /\ todos \in InitialLists
  /\ pc = "off"
  /\ pass = NoPass
  /\ fresh = {}
  /\ running = NotRunning
  /\ exec = {}
  /\ chan = {}
  /\ cur = NoCur
  /\ stop = NoStop
  /\ ctxDone = FALSE
  /\ later = {t \in TodoIds : todos[t] # NoTodo /\ todos[t].wait}
  /\ orphans = {}
  /\ ended = "none"
  /\ runs = 0
  /\ edits = 0

-------------------------------------------------------------------------------
(* Writing to the store with the revision of the copy in hand. *)

\* Mutant: a retry time outlives the statuses it means something for.
StoredKeepingRetryTime(item) == item

\* next_retry_at is kept only while the todo is pending or failed.
Stored(item) == [item EXCEPT !.wait = @ /\ item.status \in {"pending", "failed"}]

Accepted(t, item) == t \in fresh /\ UpdateAllowed(todos, t, Stored(item))

Conflict(t) == todos[t] # NoTodo /\ t \notin fresh

\* The store refuses the write for another reason: no such todo, an invalid
\* transition, unmet dependencies, or a list that would not be well formed.
Refused(t, item) == ~Accepted(t, item) /\ ~Conflict(t)

Write(t, item) ==
  /\ todos' = [todos EXCEPT ![t] = Stored(item)]
  /\ fresh' = fresh \ {t}

Limit(item) == IF item.limit > 0 THEN item.limit ELSE MaxRetries

\* Mutant: the todos of the run are left as they are.
AbortWithoutCancel(why) ==
  /\ pc' = "cancel"
  /\ stop' = [why |-> why, left |-> {}]
  /\ pass' = NoPass
  /\ cur' = NoCur

\* An error ends the run: the todos it still runs are canceled first.
Abort(why) ==
  /\ pc' = "cancel"
  /\ stop' = [why |-> why, left |-> Running]
  /\ pass' = NoPass
  /\ cur' = NoCur

\* The run returns; executors it leaves behind go on by themselves.
Finish(why) ==
  /\ pc' = "off"
  /\ ended' = why
  /\ orphans' = orphans \cup {e.id : e \in exec}
  /\ running' = NotRunning
  /\ exec' = {}
  /\ chan' = {}
  /\ ctxDone' = FALSE
  /\ pass' = NoPass
  /\ fresh' = {}
  /\ cur' = NoCur
  /\ stop' = NoStop

-------------------------------------------------------------------------------
(* Run, and the recovery of interrupted todos. *)

StartRun ==
  /\ pc = "off"
  /\ runs < MaxRuns
  /\ runs' = runs + 1
  /\ pc' = "recover"
  /\ ended' = "none"
  /\ pass' = [NoPass EXCEPT !.snap = todos]
  /\ fresh' = Listed(todos)
  /\ UNCHANGED <<storeVars, runVars, cur, stop, ctxDone, edits>>

\* A context that is canceled before the call: Run returns at once, and recovers
\* nothing.
StartCanceled ==
  /\ pc = "off"
  /\ runs < MaxRuns
  /\ runs' = runs + 1
  /\ ended' = "unstarted"
  /\ UNCHANGED <<storeVars, pc, pass, fresh, runVars, cur, stop, ctxDone, edits>>

NextTask == Order[pass.pos]

MoveOn == pass' = [pass EXCEPT !.pos = @ + 1]

Interrupted(item) == item # NoTodo /\ item.subagent /\ item.status = "in_progress"

RecoveredItem(item) ==
  LET gaveUp == RecoveryFail \/ (Limit(item) > 0 /\ item.retries + 1 > Limit(item))
  IN [item EXCEPT !.status = IF gaveUp THEN "failed" ELSE "blocked",
                  !.retries = @ + 1, !.limit = Limit(item), !.wait = ~gaveUp]

\* One todo of the list read when the run began.
Recover ==
  /\ pc = "recover"
  /\ pass.pos <= Len(Order)
  /\ LET t == NextTask
         item == RecoveredItem(pass.snap[t])
     IN \/ /\ ~Interrupted(pass.snap[t]) \/ Conflict(t)
           /\ MoveOn
           /\ UNCHANGED <<pc, storeVars, fresh, runVars, cur, stop, endVars>>
        \/ /\ Interrupted(pass.snap[t])
           /\ Accepted(t, item)
           /\ Write(t, item)
           /\ MoveOn
           /\ UNCHANGED <<pc, later, runVars, cur, stop, endVars>>
        \/ /\ Interrupted(pass.snap[t])
           /\ Refused(t, item)
           /\ Finish("store_error")
           /\ UNCHANGED <<storeVars, runs, edits>>

Recovered ==
  /\ pc = "recover"
  /\ pass.pos > Len(Order)
  /\ pc' = "check"
  /\ pass' = NoPass
  /\ UNCHANGED <<storeVars, fresh, runVars, cur, stop, endVars>>

-------------------------------------------------------------------------------
(* One pass: collect the ready todos. *)

BeginPass ==
  /\ pc = "check"
  /\ ~ctxDone
  /\ pc' = "collect"
  /\ pass' = [NoPass EXCEPT !.snap = todos]
  /\ fresh' = Listed(todos)
  /\ UNCHANGED <<storeVars, runVars, cur, stop, endVars>>

\* The context is looked at before a pass and in both waits.
SeeCancel ==
  /\ pc \in {"check", "sleep", "await"}
  /\ ctxDone
  /\ Abort("canceled")
  /\ UNCHANGED <<storeVars, fresh, runVars, endVars>>

Considered(t) ==
  /\ pass.snap[t] # NoTodo
  /\ pass.snap[t].status \in Open
  /\ pass.snap[t].subagent
  /\ running[t] = 0

DependencyFailed(t) ==
  \E d \in pass.snap[t].deps :
    pass.snap[d] # NoTodo /\ pass.snap[d].status \in {"failed", "canceled"}

\* Mutant: dependencies are taken for completed.
DependenciesCompletedAlways(t) == TRUE

DependenciesCompleted(t) ==
  \A d \in pass.snap[t].deps :
    pass.snap[d] # NoTodo /\ pass.snap[d].status = "completed"

Waiting(t) == pass.snap[t].wait /\ t \in later

Skip ==
  /\ pc = "collect"
  /\ pass.pos <= Len(Order)
  /\ ~Considered(NextTask)
  /\ MoveOn
  /\ UNCHANGED <<pc, storeVars, fresh, runVars, cur, stop, endVars>>

Collecting(t) == pc = "collect" /\ pass.pos <= Len(Order) /\ t = NextTask /\ Considered(t)

\* A todo with a failed dependency fails too, and the snapshot learns of it so
\* that todos later in the list see it in the same pass.
FailDependent(t) ==
  LET item == [pass.snap[t] EXCEPT !.status = "failed", !.retries = 0, !.wait = FALSE]
  IN /\ Collecting(t)
     /\ DependencyFailed(t)
     /\ \/ /\ Accepted(t, item)
           /\ Write(t, item)
           /\ pass' = [pass EXCEPT !.pos = @ + 1, !.snap[t] = Stored(item)]
           /\ UNCHANGED <<pc, later, cur, stop>>
        \/ /\ Conflict(t)
           /\ pass' = [pass EXCEPT !.pos = @ + 1, !.snap[t] = todos[t]]
           /\ UNCHANGED <<fresh, pc, storeVars, cur, stop>>
        \/ /\ Refused(t, item)
           /\ Abort("store_error")
           /\ UNCHANGED <<fresh, storeVars>>
     /\ UNCHANGED <<runVars, endVars>>

\* A todo whose dependencies are not all completed is blocked.
Block(t) ==
  LET item == [pass.snap[t] EXCEPT !.status = "blocked"]
  IN /\ Collecting(t)
     /\ ~DependencyFailed(t)
     /\ ~DependenciesCompleted(t)
     /\ \/ /\ pass.snap[t].status = "blocked" \/ Conflict(t)
           /\ MoveOn
           /\ UNCHANGED <<fresh, pc, storeVars, cur, stop>>
        \/ /\ pass.snap[t].status # "blocked"
           /\ Accepted(t, item)
           /\ Write(t, item)
           /\ MoveOn
           /\ UNCHANGED <<pc, later, cur, stop>>
        \/ /\ pass.snap[t].status # "blocked"
           /\ Refused(t, item)
           /\ Abort("store_error")
           /\ UNCHANGED <<fresh, storeVars>>
     /\ UNCHANGED <<runVars, endVars>>

\* A pending todo is ready once its retry time has come; so is one in progress
\* that this run does not run.
MakeReady(t) ==
  /\ Collecting(t)
  /\ ~DependencyFailed(t)
  /\ DependenciesCompleted(t)
  /\ pass.snap[t].status # "blocked"
  /\ pass' = [pass EXCEPT !.pos = @ + 1,
                          !.ready = IF Waiting(t) THEN @ ELSE @ \cup {t}]
  /\ UNCHANGED <<pc, storeVars, fresh, runVars, cur, stop, endVars>>

\* A blocked todo becomes pending first, unless its retry time is ahead; it is
\* read back by the next step.
Unlock(t) ==
  LET item == [pass.snap[t] EXCEPT !.status = "pending", !.wait = FALSE]
  IN /\ Collecting(t)
     /\ ~DependencyFailed(t)
     /\ DependenciesCompleted(t)
     /\ pass.snap[t].status = "blocked"
     /\ \/ /\ Waiting(t) \/ Conflict(t)
           /\ MoveOn
           /\ UNCHANGED <<fresh, pc, storeVars, cur, stop>>
        \/ /\ ~Waiting(t)
           /\ Accepted(t, item)
           /\ Write(t, item)
           /\ pc' = "reread"
           /\ UNCHANGED <<pass, later, cur, stop>>
        \/ /\ ~Waiting(t)
           /\ Refused(t, item)
           /\ Abort("store_error")
           /\ UNCHANGED <<fresh, storeVars>>
     /\ UNCHANGED <<runVars, endVars>>

\* Whatever is read back is taken for ready, also when someone else has moved
\* it on meanwhile.
Reread ==
  LET t == NextTask
  IN /\ pc = "reread"
     /\ pc' = "collect"
     /\ IF todos[t] = NoTodo
          THEN MoveOn /\ UNCHANGED fresh
          ELSE /\ pass' = [pass EXCEPT !.pos = @ + 1,
                                       !.ready = IF todos[t].wait /\ t \in later
                                                 THEN @ ELSE @ \cup {t}]
               /\ fresh' = fresh \cup {t}
     /\ UNCHANGED <<storeVars, runVars, cur, stop, endVars>>

Collected ==
  /\ pc = "collect"
  /\ pass.pos > Len(Order)
  /\ pc' = "start"
  /\ UNCHANGED <<storeVars, pass, fresh, runVars, cur, stop, endVars>>

-------------------------------------------------------------------------------
(* The same pass: claim and start ready todos, as far as there is room. *)

Room == Cardinality(Running) < MaxConcurrency

\* The copy of a ready todo that is still fresh is the stored todo.  A ready
\* todo is never running, so the code's own check of that has no effect.
StartTask(t) ==
  LET item == [todos[t] EXCEPT !.status = "in_progress", !.wait = FALSE]
      attempt == todos[t].retries + 1
  IN /\ pc = "start"
     /\ Room
     /\ t \in pass.ready
     /\ \/ /\ Conflict(t)
           /\ pass' = [pass EXCEPT !.ready = @ \ {t}]
           /\ UNCHANGED <<fresh, pc, storeVars, running, exec, cur, stop>>
        \/ /\ Accepted(t, item)
           /\ Write(t, item)
           /\ running' = [running EXCEPT ![t] = attempt]
           /\ exec' = exec \cup {[id |-> t, attempt |-> attempt]}
           /\ pass' = [pass EXCEPT !.ready = @ \ {t}, !.started = TRUE]
           /\ UNCHANGED <<pc, later, cur, stop>>
        \/ /\ Refused(t, item)
           /\ Abort("store_error")
           /\ UNCHANGED <<fresh, storeVars, running, exec>>
     /\ UNCHANGED <<chan, orphans, endVars>>

EndPass ==
  /\ pc = "start"
  /\ pass.ready = {} \/ ~Room
  /\ pc' = IF pass.started THEN "check" ELSE IF Running = {} THEN "decide" ELSE "await"
  /\ pass' = NoPass
  /\ UNCHANGED <<storeVars, fresh, runVars, cur, stop, endVars>>

\* Mutant: a dependency that the scheduler does not execute counts as coming.
SatisfiableByOthers(list, t) ==
  \E S \in SUBSET Listed(list) :
    /\ t \in S
    /\ \A u \in S : \/ list[u].status = "completed"
                    \/ list[u].status \in Open /\ list[u].deps \subseteq S

\* Can t still be brought to completion by scheduling alone?
Satisfiable(list, t) ==
  \E S \in SUBSET Listed(list) :
    /\ t \in S
    /\ \A u \in S : \/ list[u].status = "completed"
                    \/ /\ list[u].subagent
                       /\ list[u].status \in Open
                       /\ list[u].deps \subseteq S

SchedulablePotential(list) ==
  \E t \in Listed(list) :
    list[t].status \in Open /\ list[t].subagent /\ Satisfiable(list, t)

\* Nothing was started and nothing runs: stop, or sleep until the next pass.
Decide ==
  /\ pc = "decide"
  /\ IF DispatchOnce \/ ~SchedulablePotential(todos)
       THEN Finish("finished")
       ELSE /\ pc' = "sleep"
            /\ UNCHANGED <<pass, fresh, runVars, cur, stop, ctxDone, ended>>
  /\ UNCHANGED <<storeVars, runs, edits>>

\* The poll delay passes.
Poll ==
  /\ pc \in {"sleep", "await"}
  /\ pc' = "check"
  /\ UNCHANGED <<storeVars, pass, fresh, runVars, cur, stop, endVars>>

-------------------------------------------------------------------------------
(* Executors and their outcomes. *)

\* Mutant: room for one outcome, however many executors there are.
SendOneSlot(o) == IF chan = {} THEN {o} ELSE chan

\* The send does not block: an outcome that finds the buffer full is dropped.
Send(o) == IF Cardinality(chan) < MaxConcurrency THEN chan \cup {o} ELSE chan

ExecutorEnds(e) ==
  /\ e \in exec
  /\ exec' = exec \ {e}
  /\ \E ok \in BOOLEAN : chan' = Send([id |-> e.id, attempt |-> e.attempt, ok |-> ok])
  /\ UNCHANGED <<storeVars, pc, pass, fresh, running, orphans, cur, stop, endVars>>

OrphanEnds(t) ==
  /\ t \in orphans
  /\ orphans' = orphans \ {t}
  /\ UNCHANGED <<storeVars, pc, pass, fresh, running, exec, chan, cur, stop, endVars>>

\* An outcome of an attempt that is not running is ignored, and so is one of a
\* todo that is gone or already closed.
ReceiveOutcome(o) ==
  /\ pc = "await"
  /\ o \in chan
  /\ chan' = chan \ {o}
  /\ running' = IF running[o.id] = o.attempt THEN [running EXCEPT ![o.id] = 0] ELSE running
  /\ IF running[o.id] = o.attempt /\ todos[o.id] # NoTodo /\ todos[o.id].status \in Open
       THEN /\ pc' = "apply"
            /\ pass' = [NoPass EXCEPT !.snap[o.id] = todos[o.id]]
            /\ fresh' = {o.id}
            /\ cur' = [kind |-> IF o.ok THEN "success" ELSE "failure", id |-> o.id]
       ELSE /\ pc' = "check"
            /\ UNCHANGED <<pass, fresh, cur>>
  /\ UNCHANGED <<storeVars, exec, orphans, stop, endVars>>

Applied == pc' = "check" /\ pass' = NoPass /\ cur' = NoCur /\ UNCHANGED stop

ApplySuccess ==
  LET t == cur.id
      item == [pass.snap[t] EXCEPT !.status = "completed", !.retries = 0, !.wait = FALSE]
  IN /\ pc = "apply"
     /\ cur.kind = "success"
     /\ \/ /\ Accepted(t, item)
           /\ Write(t, item)
           /\ Applied
           /\ UNCHANGED later
        \/ /\ Conflict(t)
           /\ Applied
           /\ UNCHANGED <<storeVars, fresh>>
        \/ /\ Refused(t, item)
           /\ Abort("store_error")
           /\ UNCHANGED <<storeVars, fresh>>
     /\ UNCHANGED <<runVars, endVars>>

RetryLeft(item) == item.retries + 1 <= Limit(item)

FailFast == runs \in FailFastRuns

\* A failed attempt is retried later while retries are left, else the todo
\* fails, which ends a fail-fast run.
ApplyFailure ==
  LET t == cur.id
      retry == RetryLeft(pass.snap[t])
      item == [pass.snap[t] EXCEPT !.status = IF retry THEN "blocked" ELSE "failed",
                                   !.retries = @ + 1, !.limit = Limit(pass.snap[t]),
                                   !.wait = retry]
  IN /\ pc = "apply"
     /\ cur.kind = "failure"
     /\ \/ /\ Accepted(t, item)
           /\ Write(t, item)
           /\ later' = IF retry THEN later \cup {t} ELSE later \ {t}
           /\ IF FailFast /\ ~retry THEN Abort("fail_fast") ELSE Applied
        \/ /\ Conflict(t)
           /\ Applied
           /\ UNCHANGED <<storeVars, fresh>>
        \/ /\ Refused(t, item)
           /\ Abort("store_error")
           /\ UNCHANGED <<storeVars, fresh>>
     /\ UNCHANGED <<runVars, endVars>>

-------------------------------------------------------------------------------
(* The end of a run that is canceled or failed: its todos are canceled. *)

\* The next todo to cancel is read; one that is gone or closed is passed over.
CancelNext(t) ==
  /\ pc = "cancel"
  /\ t \in stop.left
  /\ IF todos[t] # NoTodo /\ todos[t].status \in Open
       THEN /\ pc' = "cancelwrite"
            /\ pass' = [NoPass EXCEPT !.snap[t] = todos[t]]
            /\ fresh' = {t}
            /\ cur' = [kind |-> "cancel", id |-> t]
            /\ UNCHANGED stop
       ELSE /\ stop' = [stop EXCEPT !.left = @ \ {t}]
            /\ UNCHANGED <<pc, pass, fresh, cur>>
  /\ UNCHANGED <<storeVars, runVars, endVars>>

Canceled ==
  /\ pc' = "cancel"
  /\ stop' = [stop EXCEPT !.left = @ \ {cur.id}]
  /\ pass' = NoPass
  /\ cur' = NoCur

\* The cancel is refused for a required todo nothing supersedes, and conflicts
\* when someone edited the todo meanwhile; both fall back to failing the todo,
\* the latter with the copy read again.
CancelWrite ==
  LET t == cur.id
      item == [pass.snap[t] EXCEPT !.status = "canceled"]
  IN /\ pc = "cancelwrite"
     /\ \/ /\ Accepted(t, item)
           /\ Write(t, item)
           /\ Canceled
        \/ /\ ~Accepted(t, item)
           /\ pc' = "cancelfail"
           /\ IF Conflict(t)
                THEN /\ pass' = [NoPass EXCEPT !.snap[t] = todos[t]]
                     /\ fresh' = {t}
                ELSE UNCHANGED <<pass, fresh>>
           /\ UNCHANGED <<todos, cur, stop>>
     /\ UNCHANGED <<later, runVars, endVars>>

\* Mutant: a todo that may not be canceled is left as it is.
CancelFailSkipped ==
  /\ pc = "cancelfail"
  /\ Canceled
  /\ UNCHANGED <<storeVars, fresh, runVars, endVars>>

\* A failure that is not accepted either leaves the todo as it is.
CancelFail ==
  LET t == cur.id
      item == [pass.snap[t] EXCEPT !.status = "failed", !.wait = FALSE]
  IN /\ pc = "cancelfail"
     /\ IF Accepted(t, item) THEN Write(t, item) ELSE UNCHANGED <<todos, fresh>>
     /\ Canceled
     /\ UNCHANGED <<later, runVars, endVars>>

Stopped ==
  /\ pc = "cancel"
  /\ stop.left = {}
  /\ Finish(stop.why)
  /\ UNCHANGED <<storeVars, runs, edits>>

-------------------------------------------------------------------------------
(* The environment. *)

\* The caller cancels the run's context.
CancelRun ==
  /\ pc # "off"
  /\ ~ctxDone
  /\ ctxDone' = TRUE
  /\ UNCHANGED <<storeVars, pc, pass, fresh, runVars, cur, stop, ended, runs, edits>>

TimePasses(t) ==
  /\ t \in later
  /\ later' = later \ {t}
  /\ UNCHANGED <<todos, pc, pass, fresh, runVars, cur, stop, endVars>>

\* The process stops; only the store is left.
Crash ==
  /\ pc # "off"
  /\ pc' = "off"
  /\ ended' = "crashed"
  /\ running' = NotRunning
  /\ exec' = {}
  /\ chan' = {}
  /\ orphans' = {}
  /\ ctxDone' = FALSE
  /\ pass' = NoPass
  /\ fresh' = {}
  /\ cur' = NoCur
  /\ stop' = NoStop
  /\ UNCHANGED <<storeVars, runs, edits>>

Editing ==
  /\ edits < MaxEdits
  /\ edits' = edits + 1
  /\ UNCHANGED <<later, pc, pass, runVars, cur, stop, ctxDone, ended, runs>>

\* Someone else sets a todo's status, or claims it, or deletes it.
EditStatus(t, status) ==
  LET item == [todos[t] EXCEPT !.status = status]
  IN /\ Editing
     /\ todos[t] # NoTodo
     /\ UpdateAllowed(todos, t, Stored(item))
     /\ Write(t, item)

EditDelete(t) ==
  /\ Editing
  /\ DeleteAllowed(todos, t)
  /\ todos' = [todos EXCEPT ![t] = NoTodo]
  /\ fresh' = fresh \ {t}

-------------------------------------------------------------------------------
RunStep ==
  \/ Recover \/ Recovered \/ BeginPass \/ SeeCancel
  \/ Skip \/ Reread \/ Collected \/ EndPass \/ Decide \/ Poll
  \/ \E t \in TodoIds : FailDependent(t) \/ Block(t) \/ MakeReady(t) \/ Unlock(t)
  \/ \E t \in TodoIds : StartTask(t)
  \/ \E o \in chan : ReceiveOutcome(o)
  \/ ApplySuccess \/ ApplyFailure
  \/ \E t \in TodoIds : CancelNext(t)
  \/ CancelWrite \/ CancelFail \/ Stopped

Next ==
  \/ StartRun
  \/ StartCanceled
  \/ RunStep
  \/ \E e \in exec : ExecutorEnds(e)
  \/ \E t \in TodoIds : OrphanEnds(t)
  \/ CancelRun
  \/ \E t \in TodoIds : TimePasses(t)
  \/ Crash
  \/ \E t \in TodoIds, status \in Status : EditStatus(t, status)
  \/ \E t \in TodoIds : EditDelete(t)

Spec == Init /\ [][Next]_vars

\* The scheduler's goroutine is scheduled, executors end (their budget has a
\* timeout), time passes, and a select that finds an outcome waiting takes it
\* rather than its timer, which starts with the select.
Fairness ==
  /\ WF_vars(RunStep)
  /\ SF_vars(\E o \in chan : ReceiveOutcome(o))
  /\ WF_vars(\E e \in exec : ExecutorEnds(e))
  /\ WF_vars(\E t \in TodoIds : TimePasses(t))

FairSpec == Spec /\ Fairness
-------------------------------------------------------------------------------
(* Properties. *)

PcValues == {"off", "recover", "check", "collect", "reread", "start", "decide", "sleep",
             "await", "apply", "cancel", "cancelwrite", "cancelfail"}

Endings == {"none", "finished", "canceled", "fail_fast", "store_error", "crashed",
            "unstarted"}

StoreTypeOK ==
  /\ todos \in TodoList
  /\ RetryTimesInOrder(todos)
  /\ later \subseteq TodoIds

Pass == [snap : TodoList, pos : Nat \ {0}, ready : SUBSET TodoIds, started : BOOLEAN]

StepTypeOK ==
  /\ pc \in PcValues
  /\ pass \in Pass
  /\ fresh \subseteq TodoIds
  /\ cur \in {NoCur} \cup [kind : {"success", "failure", "cancel"}, id : TodoIds]
  /\ stop \in [why : Endings, left : SUBSET TodoIds]

ExecutorTypeOK ==
  /\ running \in [TodoIds -> Nat]
  /\ exec \subseteq [id : TodoIds, attempt : Nat \ {0}]
  /\ chan \subseteq [id : TodoIds, attempt : Nat \ {0}, ok : BOOLEAN]
  /\ orphans \subseteq TodoIds

EndTypeOK ==
  /\ ctxDone \in BOOLEAN
  /\ ended \in Endings
  /\ runs \in 0..MaxRuns
  /\ edits \in 0..MaxEdits

\* The shape of the state; a retry time stays only where the store keeps it.
TypeOK == StoreTypeOK /\ StepTypeOK /\ ExecutorTypeOK /\ EndTypeOK

\* Every todo the run counts as running has exactly one executor at work or one
\* outcome waiting, of the attempt it is counted for: no outcome is dropped at
\* the full buffer, ignored as stale or delivered twice.
OutcomesAccounted ==
  /\ \A e \in exec : running[e.id] = e.attempt
  /\ \A o \in chan : running[o.id] = o.attempt
  /\ \A t \in Running :
       (\E e \in exec : e.id = t) <=> ~(\E o \in chan : o.id = t)
  /\ \A o1, o2 \in chan : o1.id = o2.id => o1 = o2

\* The limit on concurrency holds, counting the todos whose executor has ended
\* and whose outcome is still to be received.
WithinConcurrency == Cardinality(Running) <= MaxConcurrency

\* While nobody else edits the list, no todo has two executors at work, not
\* even when a fail-fast run left executors behind and the next run began.
OneExecutorEach ==
  edits = 0 => \A e \in exec : e.id \notin orphans

\* While nobody else edits the list, a run that got past the check of its context
\* and returned, in whatever way, left no todo in progress, not even one that it
\* found so after a crash.
NothingLeftInProgress ==
  (edits = 0 /\ ended \notin {"none", "crashed", "unstarted"}) =>
    \A t \in Listed(todos) : ~Interrupted(todos[t])

\* The scheduler never asks the store for something it refuses: a run ends
\* with a store error only after someone else edited the list.
OwnWritesAccepted == edits = 0 => ended # "store_error" /\ stop.why # "store_error"

\* A run ends.
RunEnds == pc # "off" ~> pc = "off"
===============================================================================
