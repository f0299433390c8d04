---------------------------- MODULE SessionRuns -----------------------------
(* Runs of the runtime over stored sessions: the registry of active runs, the *)
(* session lock around a run, the loop of turns, the resume record that lets a *)
(* later run continue after a crash, and the management operations (rename,    *)
(* compact, approve, skills, delete, create, restore) that work on the same    *)
(* sessions at the same time.                                                  *)
(*                                                                             *)
(* A run is named by its token, the number startRun gives it. The content of a *)
(* session is not modelled; copy[t] says who has saved the session since run t *)
(* loaded it: "current" when only t itself, "bypassed" when a call that takes  *)
(* no lock, "stale" when another run or an operation under the lock (or a      *)
(* restore), "none" when no session is loaded. It is followed as long as the   *)
(* run saves from it. Whether the fingerprint of a resume record fits a copy   *)
(* is a choice.                                                                *)
EXTENDS SessionLocks

CONSTANTS
  RunIds,       \* run ids clients choose; None among them stands for no id
  Ops,          \* clients of management operations
  MaxRuns,      \* bound: runs ever started
  MaxTurns,     \* runtime.max_turns
  MaxContinues, \* maxAcceptanceContinues
  MaxReactive   \* context.budget.max_reactive_compacts

Tokens == 1 .. MaxRuns

ASSUME UsersAreRunsAndOps == Users = Tokens \cup Ops /\ Tokens \cap Ops = {}

ASSUME BoundsAreNumbers ==
  {MaxRuns, MaxTurns, MaxContinues, MaxReactive} \subseteq Nat

VARIABLES
  started,   \* nextRunToken, counted on over restarts
  run,       \* state of each run
  copy,      \* how its copy of the session compares to the store
  active,    \* keys of activeRunCancels
  byID,      \* activeRunByID, 0 when an id is not registered
  newest,    \* activeRunToken, 0 when no run is active
  exists,    \* stored sessions
  resume,    \* the resume record of each session
  op         \* what each management client is doing

runVars == <<started, run, copy, active, byID, newest, exists, resume, op>>
vars == <<lockVars, runVars>>

Loop == {"resume", "begin", "mark", "turn", "attempt", "provider", "tools", "gate", "append"}
Places == {"off", "init", "load", "end", "closing", "finish", "done", "crashed"} \cup Loop

Phases == {"plan", "execute", "verify"}

\* allowedRunStateTransitions, between the phases of the main chain.
Allowed(from, to) ==
  CASE from = "none"    -> to = "plan"
    [] from = "execute" -> to \in {"execute", "verify"}
    [] OTHER            -> TRUE

NotStarted == [pc |-> "off", id |-> None, session |-> None, canceled |-> FALSE,
               phase |-> "none", override |-> "none", then |-> "turn", lost |-> FALSE,
               turn |-> 0, compacted |-> FALSE, reactive |-> 0, continues |-> 0]

RunState ==
  [pc : Places, id : RunIds \cup {None}, session : Sessions \cup {None},
   canceled : BOOLEAN, phase : Phases \cup {"none"}, override : {"none", "plan", "verify"},
   then : {"turn", "tools", "gate"}, lost : BOOLEAN, turn : 0 .. MaxTurns,
   compacted : BOOLEAN,
   reactive : 0 .. MaxReactive, continues : 0 .. MaxContinues]

NoRecord == [phase |-> "none", run |-> 0]

Record == [phase : Phases \cup {"none", "stopped"}, run : 0 .. MaxRuns]

TypeOK ==
  /\ LocksTypeOK
  /\ started \in 0 .. MaxRuns
  /\ run \in [Tokens -> RunState]
  /\ copy \in [Tokens -> {"none", "current", "bypassed", "stale"}]
  /\ active \subseteq Tokens
  /\ byID \in [RunIds \ {None} -> 0 .. MaxRuns]
  /\ newest \in 0 .. MaxRuns
  /\ exists \in [Sessions -> BOOLEAN]
  /\ resume \in [Sessions -> Record]
  /\ op \in [Ops -> {"none", "asked", "done"}]

Init ==
  /\ LocksInit
  /\ started = 0
  /\ run = [t \in Tokens |-> NotStarted]
  /\ copy = [t \in Tokens |-> "none"]
  /\ active = {}
  /\ byID = [i \in RunIds \ {None} |-> 0]
  /\ newest = 0
  /\ exists = [s \in Sessions |-> TRUE]
  /\ resume = [s \in Sessions |-> NoRecord]
  /\ op = [o \in Ops |-> "none"]

-----------------------------------------------------------------------------
(* The store. *)

\* The copies of session s that runs other than t save from become stale.
Stale(s, t) ==
  [u \in Tokens |->
     IF u # t /\ run[u].session = s /\ run[u].pc \in Loop THEN "stale" ELSE copy[u]]

\* The copies of session s that runs save from are no longer all there is.
Bypassed(s) ==
  [u \in Tokens |->
     IF copy[u] = "current" /\ run[u].session = s /\ run[u].pc \in Loop
     THEN "bypassed" ELSE copy[u]]

\* Run t saves session s.
Saved(s, t) == copy' = Stale(s, t) /\ UNCHANGED resume

Kept == <<copy, resume>>
Stored == <<copy, exists, resume>>
Registry == <<started, active, byID, newest>>
Others == <<exists, op>>

-----------------------------------------------------------------------------
(* The registry of active runs. *)

StartRun(id, s) ==
  LET t == started + 1
  IN /\ t \in Tokens
     /\ started' = t
     /\ newest' = t
     /\ active' = active \cup {t}
     /\ byID' = IF id = None THEN byID ELSE [byID EXCEPT ![id] = t]
     /\ run' = [run EXCEPT ![t] = [@ EXCEPT !.pc = "init", !.id = id, !.session = s]]
     /\ UNCHANGED <<lockVars, Stored, op>>

\* The most recent of a set of runs, 0 when there is none.
Newest(ts) == IF ts = {} THEN 0 ELSE CHOOSE t \in ts : \A u \in ts : u <= t

\* A mutant: the id of the run is always unregistered.
UnregisteredAlways(t) ==
  [i \in RunIds \ {None} |-> IF i = run[t].id THEN 0 ELSE byID[i]]

\* An id stays registered when a newer run has taken it over.
Unregistered(t) ==
  [i \in RunIds \ {None} |-> IF i = run[t].id /\ byID[i] = t THEN 0 ELSE byID[i]]

FinishRun(t) ==
  /\ run[t].pc = "finish"
  /\ active' = active \ {t}
  /\ byID' = Unregistered(t)
  /\ newest' = IF newest = t THEN Newest(active \ {t}) ELSE newest
  /\ run' = [run EXCEPT ![t].pc = "done"]
  /\ copy' = [copy EXCEPT ![t] = "none"]
  /\ UNCHANGED <<lockVars, started, exists, resume, op>>

Canceled(t) ==
  /\ t \in active
  /\ run' = [run EXCEPT ![t].canceled = TRUE]
  /\ UNCHANGED <<lockVars, Registry, Stored, op>>

CancelRun(id) == byID[id] # 0 /\ Canceled(byID[id])

CancelActiveRun == newest # 0 /\ Canceled(newest)

\* The context of the request behind run t ends: its client is gone or its time is up.
RequestEnds(t) == run[t].pc \notin {"finish", "done"} /\ Canceled(t)

-----------------------------------------------------------------------------
(* A run, up to its loop. *)

Step(t, next) ==
  /\ run' = [run EXCEPT ![t] = next]
  /\ UNCHANGED <<Registry, Others>>

At(t, pc) == run[t].pc = pc

To(t, pc) == [run[t] EXCEPT !.pc = pc]

\* The loop is left: what it kept in local variables is gone.
Left(t, pc) ==
  [NotStarted EXCEPT !.pc = pc, !.id = run[t].id, !.session = run[t].session,
                     !.canceled = run[t].canceled]

\* Every call on the store or the provider is refused once the run is canceled.
Works(t, pc) == At(t, pc) /\ ~run[t].canceled

WaitForSession(t) ==
  /\ run[t].pc = "init"
  /\ Acquire(t, run[t].session)
  /\ UNCHANGED runVars

EnterSession(t) ==
  /\ run[t].pc = "init"
  /\ Lock(t)
  /\ Step(t, To(t, "load"))
  /\ UNCHANGED Kept

\* Loading may save the session: calls without results are cut off the transcript,
\* and the profile, the work directory, the mode or the alignment of the plan may
\* change.
Load(t) ==
  /\ Works(t, "load")
  /\ exists[run[t].session]
  /\ copy' = [copy EXCEPT ![t] = "current"]
  /\ Step(t, To(t, "resume"))
  /\ UNCHANGED <<lockVars, resume>>

Override(record) ==
  IF record.phase = "verify" THEN "verify"
  ELSE IF record.phase \in {"plan", "execute"} THEN "plan" ELSE "none"

\* applyResumeCheckpoint: the run starts from the record when its fingerprint and
\* its work directory fit the copy.
Resume(t) ==
  /\ At(t, "resume")
  /\ \E override \in {"none", Override(resume[run[t].session])} :
       /\ run[t].canceled => override = "none"
       /\ Step(t, [To(t, "begin") EXCEPT !.override = override])
  /\ UNCHANGED <<lockVars, Kept>>

\* The todos are pruned and the user message is appended.
Begin(t) ==
  /\ Works(t, "begin")
  /\ Saved(run[t].session, t)
  /\ Step(t, To(t, "mark"))
  /\ UNCHANGED lockVars

\* A mutant: the record of a run that begins is not written.
MarkedFromExecute(t, phase) ==
  IF phase = "plan" THEN UNCHANGED resume
  ELSE resume' = [resume EXCEPT ![run[t].session] = [phase |-> phase, run |-> t]]

\* updateResumeCheckpoint replaces the record of the session.
Marked(t, phase) ==
  resume' = [resume EXCEPT ![run[t].session] = [phase |-> phase, run |-> t]]

\* A canceled context and a session that is gone make the write fail.
Markable(t) == ~run[t].canceled /\ exists[run[t].session]

\* So does any error of the database, which is only logged: the record that was
\* there stays. Lost says that the last write of a record of t has failed.
Mark(t) ==
  /\ At(t, "mark")
  /\ LET next == [run[t] EXCEPT !.pc = run[t].then, !.then = "turn"]
     IN \/ /\ Markable(t)
           /\ Marked(t, IF run[t].phase = "none" THEN "plan" ELSE run[t].phase)
           /\ Step(t, [next EXCEPT !.lost = FALSE])
        \/ /\ UNCHANGED resume
           /\ Step(t, [next EXCEPT !.lost = TRUE])
  /\ UNCHANGED <<lockVars, copy>>

-----------------------------------------------------------------------------
(* The loop of turns. *)

\* setBaseRunState: a transition the table does not allow ends the run.
Enter(t, state, phase, next) ==
  IF Allowed(state.phase, phase)
  THEN [state EXCEPT !.phase = phase, !.pc = next]
  ELSE Left(t, "end")

\* A mutant: the phase is entered directly.
NotBootstrapped(state, phase) == state

\* A run that resumes into verification passes through plan first.
Bootstrapped(state, phase) ==
  IF state.phase = "none" /\ phase = "verify" THEN [state EXCEPT !.phase = "plan"] ELSE state

TurnPhase(state) == IF state.override = "none" THEN "plan" ELSE state.override

\* A mutant: one turn more than the limit.
TurnOffByOne(t) ==
  /\ At(t, "turn")
  /\ Step(t, IF run[t].turn > MaxTurns
             THEN Left(t, "end")
             ELSE LET state == [run[t] EXCEPT !.override = "none"]
                      phase == TurnPhase(run[t])
                  IN Enter(t, Bootstrapped(state, phase), phase, "attempt"))
  /\ UNCHANGED <<lockVars, Kept>>

Turn(t) ==
  /\ At(t, "turn")
  /\ Step(t, IF run[t].turn >= MaxTurns
             THEN Left(t, "end")
             ELSE LET state == [run[t] EXCEPT !.override = "none"]
                      phase == TurnPhase(run[t])
                  IN Enter(t, Bootstrapped(state, phase), phase, "attempt"))
  /\ UNCHANGED <<lockVars, Kept>>

\* The request fits the budget, or the estimate is advisory or could not be made.
Allow(t) ==
  /\ Works(t, "attempt")
  /\ Step(t, To(t, "provider"))
  /\ UNCHANGED <<lockVars, Kept>>

\* Over the budget the first time: compact; the attempt is made again, whether
\* or not the transcript was replaced.
CompactFirst(t) ==
  /\ Works(t, "attempt")
  /\ ~run[t].compacted
  /\ Step(t, [run[t] EXCEPT !.compacted = TRUE])
  /\ Saved(run[t].session, t) \/ UNCHANGED Kept
  /\ UNCHANGED lockVars

\* Still over the budget: the run ends without an error.
OverBudget(t) ==
  /\ Works(t, "attempt")
  /\ run[t].compacted
  /\ Step(t, Left(t, "end"))
  /\ UNCHANGED <<lockVars, Kept>>

\* A mutant: the attempt is not counted.
CompactReactiveUncounted(t) ==
  /\ Works(t, "provider")
  /\ run[t].reactive < MaxReactive
  /\ LET next == To(t, "attempt")
     IN \/ Step(t, [next EXCEPT !.compacted = TRUE]) /\ Saved(run[t].session, t)
        \/ Step(t, next) /\ UNCHANGED Kept
  /\ UNCHANGED lockVars

\* The provider finds the context too long.
CompactReactive(t) ==
  /\ Works(t, "provider")
  /\ run[t].reactive < MaxReactive
  /\ LET next == [To(t, "attempt") EXCEPT !.reactive = @ + 1]
     IN \/ Step(t, [next EXCEPT !.compacted = TRUE]) /\ Saved(run[t].session, t)
        \/ Step(t, next) /\ UNCHANGED Kept
  /\ UNCHANGED lockVars

\* The attempts of the turn are over, and with them what the next turn resets.
Attempted(t, then) == [run[t] EXCEPT !.then = then, !.compacted = FALSE]

\* The model calls tools: its message is saved before the phase changes.
CallTools(t) ==
  /\ Works(t, "provider")
  /\ Saved(run[t].session, t)
  /\ Step(t, Enter(t, Attempted(t, "tools"), "execute", "mark"))
  /\ UNCHANGED lockVars

\* A plan, or an answer in plan mode, ends the run.
PlanAnswer(t) ==
  /\ Works(t, "provider")
  /\ Saved(run[t].session, t)
  /\ Step(t, Left(t, "end"))
  /\ UNCHANGED lockVars

\* A final answer is kept back until the accept gate has seen it.
Answer(t) ==
  /\ Works(t, "provider")
  /\ Step(t, Enter(t, Attempted(t, "gate"), "verify", "mark"))
  /\ UNCHANGED <<lockVars, Kept>>

\* A tool call saves the todos while the others go on, or its result is saved.
ToolSaves(t) ==
  /\ Works(t, "tools")
  /\ Saved(run[t].session, t)
  /\ UNCHANGED <<lockVars, run, Registry, Others>>

\* The results are saved; the run goes on with the next turn or is stopped
\* because it makes no progress.
ToolsDone(t) ==
  /\ Works(t, "tools")
  /\ Saved(run[t].session, t)
  /\ \/ Step(t, Enter(t, [run[t] EXCEPT !.turn = @ + 1], "verify", "mark"))
     \/ Step(t, Left(t, "end"))
  /\ UNCHANGED lockVars

\* The gate accepts, fails, or sends the run back as long as it may.
Accept(t) ==
  /\ At(t, "gate")
  /\ Step(t, To(t, "append"))
  /\ UNCHANGED <<lockVars, Kept>>

Continue(t) ==
  /\ At(t, "gate")
  /\ run[t].continues < MaxContinues
  /\ Step(t, [To(t, "turn") EXCEPT !.continues = @ + 1, !.turn = @ + 1])
  /\ UNCHANGED <<lockVars, Kept>>

\* The answer is saved last.
AppendAnswer(t) ==
  /\ Works(t, "append")
  /\ Saved(run[t].session, t)
  /\ Step(t, Left(t, "end"))
  /\ UNCHANGED lockVars

\* Any call may fail, and does when the run is canceled; so does loading a
\* session that is gone.
Failing == {"load", "begin", "attempt", "provider", "tools", "gate", "append"}

Fail(t) ==
  /\ run[t].pc \in Failing
  /\ Step(t, Left(t, "end"))
  /\ UNCHANGED <<lockVars, Kept>>

FailEarly(t) ==
  /\ run[t].pc = "init" /\ place[t] = Idle
  /\ Step(t, To(t, "finish"))
  /\ UNCHANGED <<lockVars, Kept>>

-----------------------------------------------------------------------------
(* The deferred calls of Run, last one first: release the session, write the *)
(* record, leave the registry. *)

LeaveSession(t) ==
  /\ run[t].pc = "end"
  /\ Unlock(t)
  /\ UNCHANGED runVars

DropLock(t) ==
  /\ run[t].pc = "end"
  /\ Release(t)
  /\ Step(t, To(t, "closing"))
  /\ UNCHANGED Kept

\* A mutant: the record of the last phase stays.
MarkStoppedNever(t) ==
  /\ run[t].pc = "closing"
  /\ Step(t, To(t, "finish"))
  /\ UNCHANGED <<lockVars, Kept>>

MarkStopped(t) ==
  /\ run[t].pc = "closing"
  /\ \/ /\ copy[t] # "none" /\ Markable(t) /\ Marked(t, "stopped")
        /\ Step(t, To(t, "finish"))
     \/ /\ UNCHANGED resume
        /\ Step(t, [To(t, "finish") EXCEPT !.lost = copy[t] # "none"])
  /\ UNCHANGED <<lockVars, copy>>

-----------------------------------------------------------------------------
(* Management operations and the end of the process. *)

Request(o, s) ==
  /\ op[o] = "none"
  /\ Acquire(o, s)
  /\ op' = [op EXCEPT ![o] = "asked"]
  /\ UNCHANGED <<Registry, run, Stored>>

GetSession(o) == o \in Ops /\ Lock(o) /\ UNCHANGED runVars

Edit(s) == copy' = Stale(s, 0) /\ UNCHANGED <<exists, resume>>

Delete(s) ==
  /\ exists' = [exists EXCEPT ![s] = FALSE]
  /\ copy' = Stale(s, 0)
  /\ resume' = [resume EXCEPT ![s] = NoRecord]

\* The operation changes the session, or finds nothing to change.
Effect(s) == UNCHANGED Stored \/ (exists[s] /\ (Edit(s) \/ Delete(s)))

\* A mutant: the operation does not wait for its turn.
ApplyUnlocked(o) ==
  /\ place[o] # Idle /\ op[o] = "asked"
  /\ Effect(place[o].session)
  /\ op' = [op EXCEPT ![o] = "done"]
  /\ UNCHANGED <<lockVars, Registry, run>>

Apply(o) ==
  /\ place[o].at = "holding" /\ op[o] = "asked"
  /\ Effect(place[o].session)
  /\ op' = [op EXCEPT ![o] = "done"]
  /\ UNCHANGED <<lockVars, Registry, run>>

ReturnSession(o) == op[o] = "done" /\ Unlock(o) /\ UNCHANGED runVars

EndRequest(o) ==
  /\ op[o] = "done"
  /\ Release(o)
  /\ op' = [op EXCEPT ![o] = "none"]
  /\ UNCHANGED <<Registry, run, Stored>>

\* CreateSession takes no lock. It adds a session that is not there; when there
\* is one it only loads it, which may be a WriteUnlocked.
CreateSession(s) ==
  /\ ~exists[s]
  /\ exists' = [exists EXCEPT ![s] = TRUE]
  /\ UNCHANGED <<lockVars, Registry, run, Kept, op>>

\* What else is written without the lock: LoadSession, for a client that only reads
\* (todos, skills, a snapshot), cuts calls without results off the stored
\* transcript, also those a run is executing; ListSessions and PrepareUserInput set
\* the title or the work directory; and ExecuteSystemTool gives the lock back once
\* it has loaded the session, whose todos its todo_write saves any time later.
WriteUnlocked(s) ==
  /\ exists[s]
  /\ copy' = Bypassed(s)
  /\ UNCHANGED <<lockVars, Registry, run, exists, resume, op>>

\* RestoreCheckpoint takes no lock either, and replaces the content.
RestoreCheckpoint(s) ==
  /\ exists[s]
  /\ copy' = Stale(s, 0)
  /\ UNCHANGED <<lockVars, Registry, run, exists, resume, op>>

Crash ==
  /\ LocksLost
  /\ run' = [t \in Tokens |-> IF run[t].pc \in {"off", "done"} THEN run[t]
                            ELSE [Left(t, "crashed") EXCEPT !.canceled = FALSE]]
  /\ copy' = [t \in Tokens |-> "none"]
  /\ active' = {}
  /\ byID' = [i \in RunIds \ {None} |-> 0]
  /\ newest' = 0
  /\ op' = [o \in Ops |-> "none"]
  /\ UNCHANGED <<started, exists, resume>>

-----------------------------------------------------------------------------
LoopStep(t) ==
  \/ Load(t) \/ Resume(t) \/ Begin(t) \/ Mark(t) \/ Turn(t)
  \/ Allow(t) \/ CompactFirst(t) \/ OverBudget(t)
  \/ CompactReactive(t) \/ CallTools(t) \/ PlanAnswer(t) \/ Answer(t)
  \/ ToolsDone(t) \/ Accept(t) \/ Continue(t) \/ AppendAnswer(t) \/ Fail(t)

RunStep(t) ==
  \/ WaitForSession(t) \/ FailEarly(t) \/ LoopStep(t)
  \/ LeaveSession(t) \/ DropLock(t) \/ MarkStopped(t) \/ FinishRun(t)

OpStep(o) == Apply(o) \/ ReturnSession(o) \/ EndRequest(o)

LockedNext ==
  \/ \E id \in RunIds, s \in Sessions : StartRun(id, s)
  \/ \E id \in RunIds \ {None} : CancelRun(id)
  \/ CancelActiveRun
  \/ \E t \in Tokens : RequestEnds(t) \/ RunStep(t) \/ EnterSession(t) \/ ToolSaves(t)
  \/ \E o \in Ops : OpStep(o) \/ GetSession(o)
  \/ \E o \in Ops, s \in Sessions : Request(o, s)
  \/ \E s \in Sessions : CreateSession(s)
  \/ Crash

Next == LockedNext \/ \E s \in Sessions : WriteUnlocked(s)

Spec == Init /\ [][Next]_vars

\* With checkpoint restores as the only writes beside the lock.
RestoreSpec == Init /\ [][LockedNext \/ \E s \in Sessions : RestoreCheckpoint(s)]_vars

\* Every call a run or an operation makes comes back: the runtime gives calls on
\* the store, the provider and tools a deadline. A Go mutex serves every waiter.
Fairness ==
  /\ \A t \in Tokens : WF_vars(RunStep(t)) /\ SF_vars(EnterSession(t))
  /\ \A o \in Ops : WF_vars(OpStep(o)) /\ SF_vars(GetSession(o))

FairSpec == Spec /\ Fairness

-----------------------------------------------------------------------------
\* A session has one run or operation at work at a time (the sessions' locks
\* come and go with the references to them).
MutualExclusion ==
  \A u, v \in Users, s \in Sessions : (Holds(u, s) /\ Holds(v, s)) => u = v

\* While a run works on the copy it has loaded, no other run and no operation that
\* goes through the session's lock saves the session (calls that take no lock may).
NotOvertaken ==
  \A t \in Tokens : run[t].pc \in Loop \ {"resume"} => copy[t] \in {"current", "bypassed"}

\* What a run saves is based on what is stored: nobody else has saved the
\* session since the run loaded it.
CopyIsCurrent == \A t \in Tokens : run[t].pc \in Loop \ {"resume"} => copy[t] = "current"

\* The registry: the newest active run is the one CancelActiveRun finds, an id
\* finds an active run of that id, and the newest run of an id can be found.
RegistryConsistent ==
  /\ active = {t \in Tokens : run[t].pc \notin {"off", "done", "crashed"}}
  /\ newest = Newest(active)
  /\ \A i \in RunIds \ {None} :
       /\ byID[i] # 0 => byID[i] \in active /\ run[byID[i]].id = i
       /\ \A t \in active :
            (run[t].id = i /\ \A u \in Tokens : (u > t => run[u].id # i)) => byID[i] = t

\* While a run goes through its turns, a crash finds its own record, or one that
\* starts nothing (the last record of a run that had just left the session);
\* never the phase another run was in, unless the run could not write its last
\* record.
RecordIsOwn ==
  \A t \in Tokens :
    ( /\ run[t].pc \in {"turn", "attempt", "provider", "tools", "gate"}
      /\ ~run[t].canceled /\ ~run[t].lost )
      => \/ resume[run[t].session].run = t
         \/ resume[run[t].session].phase = "stopped"

\* A run resumes only where an earlier one was cut short: by a crash, by a
\* cancel, or because it has left the session and not yet written its record, or
\* could not write it.
ResumesInterrupted ==
  [][\A t \in Tokens :
       (run[t].override = "none" /\ run'[t].override # "none")
         => LET r == resume[run[t].session].run
            IN run[r].canceled \/ run[r].lost \/ run[r].pc \in {"crashed", "end", "closing"}]_vars

\* No run is ended by its own phase machine.
PhasesAllowed ==
  [][\A t \in Tokens : (run[t].pc = "turn" /\ run'[t].pc = "end") => run[t].turn >= MaxTurns]_vars

\* A run that has started ends, however many others want its session.
RunEnds == \A t \in Tokens : run[t].pc = "init" ~> run[t].pc \in {"done", "crashed"}
=============================================================================
