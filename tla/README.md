# TLA+ models of neo-code

neo-code is a coding agent written in Go: a *runtime* that runs a model over a
session (prompt, tool calls, todos, plans, checkpoints), a *gateway* that exposes the runtime
over JSON-RPC to terminal, web and chat clients, and *runners* that execute tools on
other machines. This directory holds TLA+ models of the parts of it whose
correctness depends on the order of events, the TLC runs that check them, and
proofs that TLAPS checks. `PROJECT.json` maps every definition to the lines it
models, and lists runs, mutants, hazards, findings and theorems.

## 1. Inventory

| Component (path under `src/internal`) | State | Operations | What is hard |
|---|---|---|---|
| session todos (`session/todo.go`, `runtime/todo_*.go`, `tools/todo`) | the todo list: status, deps, required, supersedes, reason, revision, stamps | add, update, set_status, claim, complete, fail, delete, plan; pruning when a run starts | rules that must survive any order of edits; pruning by plan ownership |
| plan, accept gate (`session/plan.go`, `runtime/planning.go`, `plan_approval.go`, `acceptgate*`) | plan revision and status, ids it owns | plan-mode turn, approval by a client, gate at the end of a turn | approval of a stale revision; which todos the gate sees |
| subagent scheduler (`subagent/scheduler.go`) | running map, outcome channel, snapshot of the list | Run: recover, collect, claim, start, receive, retry, propagate, cancel | executors and edits in parallel, store conflicts, left-over executors, crash |
| checkpoints (`checkpoint`, `runtime/checkpoint_*.go`) | file versions, pending captures (shared by all runs), checkpoint records | capture before a write, after a delete; checkpoint at compaction and at run end; restore, undo, baseline | captures of concurrent runs, restore without the session lock, crash in the middle of a restore |
| run loop (`runtime/run.go`, `run_lifecycle.go`, `session_scheduler.go`, `controlplane`) | registry of active runs, counted session locks, phase, resume record | Run, Compact and the other operations on a session, CancelRun, termination | two users of a session, a lock entry that comes and goes, cancel against start and end, the record an earlier run left |
| permission and ask-user brokers (`runtime/approval`, `runtime/askuser`, `runtime/permission.go`) | pending requests, remembered approvals, the lock that orders approvals | open, resolve, deliver, time out, close | an answer racing a timeout or a cancel; approvals of several calls at once |
| session store (`session/sqlite_store.go`) | SQLite database | append, replace transcript, update state, checkpoint records | transactions; repaired on start |
| tool execution (`runtime/toolexec.go`, `tools`) | one lock per tool name, results of a turn, write counters | parallel tool calls of one turn, hooks, errors | order of results, one failing call among several, capture before write |
| hooks (`runtime/hooks`) | registry, once markers | register, run a point, async results | failure policy, async result after end of run |
| gateway relay (`gateway/stream_relay.go`, `network_server.go`) | connections, bindings and their time to live, indexes by session and run, one bounded queue per connection | register, bind, refresh, publish, heartbeat, write, close | slow clients, expiring bindings, a close while an event is queued, order of events |
| the other parts of the gateway (`gateway`) | runner registry, workspaces | RPC dispatch, runner dispatch, switching workspaces | stale bindings, disconnect in the middle of a dispatch |
| runner (`runner`) | one connection | receive request, execute, reply | reconnect with requests in flight |
| memo (`memo`) | memory files, debounce timers | extract, recall, auto-dream | background extraction against edits |
| feishu adapter (`feishuadapter`) | idempotency keys, table of active runs, per run a queue of approvals and one card | inbound message, card action, gateway event | duplicated deliveries, messages and clicks at the same time as events, card updates that are out of date |
| the rest | see `PROJECT.json` | | mostly pure functions, rendering, wiring |

How they interact: a client calls the gateway, which calls the runtime of the
workspace; `runtime.Run` takes the session lock, prunes the todo list, loops
over turns (provider, tool calls, accept gate), and releases the lock; tools change
the todo list and the workspace, and the checkpoint component captures files
before they change; events flow back through the gateway's relay.

Per component, what makes it correct: the list loads again after every save,
nothing but the creation of a todo puts one ahead of its dependencies, and terminal states are final (todos); what is approved
is what was seen, and a plan completes only when its todos have converged (plan);
one executor per todo, a bounded number of them, no lost outcome, and a run that
ends (scheduler); a restore brings back what the checkpoint saw, and can be
undone (checkpoints); one terminal event per run and a cancel that reaches the run it
names (run loop); exactly one of answer, timeout and cancel wins (brokers); a turn's
results are saved in the order of its calls, and all of them (tool execution); a client sees
the events of a run that are matched to it in order, none of them missing, until its connection ends (relay); one run
per message, at most one at work per chat, and the approval it waits for on its card (feishu adapter).

## 2. The models

### TodoRules and SessionTodos

`TodoRules` holds the rules of `session/todo.go` as operators over a *list*: a
function from todo ids to items, `NoTodo` where an id is not listed. `WellFormed`
is `normalizeAndValidateTodos`, `UpdateAllowed` the checks of
`ReplaceTodo`/`UpdateTodo`, `DeleteAllowed` those of `DeleteTodo`. The cycle check
is stated without recursion: a graph has a cycle exactly when some non-empty set
of todos has, for each of its members, a dependency in the set. Items
are records with *at least* the fields the rules read, so the two
components that use the rules add the fields that their own properties need.

`SessionTodos` is a session over any number of runs. `StartRun` is
`resetTodosForUserRun` (prune, save, refuse when the list is not well formed),
`AddTodo`, `ReplaceTodos`, `UpdateTodo`, `DeleteTodo` are the actions of `todo_write`,
`AcceptTurn` is the accept gate, `PlanTurn` a plan-mode turn, `FetchPlan`
and `ApprovePlan` the client. The saved list and the list in memory are one
variable, because an edit is saved before it is installed, under the run's mutex, and
an edit whose save fails leaves both alone. A todo may be created in any status, alone or in a
plan: the schema of `todo_write` offers all six, and neither `AddTodo` nor `ReplaceTodos` looks at
the dependencies for it, so `DependenciesStayDone` speaks of all other steps. Abstractions: content, owner, executor,
artifacts, acceptance texts and priority are left out; `blocked_reason` is
"empty or not"; the creation stamp is its comparison with the plan's
(`age`); the accept gate keeps its todo checks and drops its checks of files and text.

### SubAgentScheduler

`pc` is the place of the scheduler goroutine between two calls on the store; every
such call is a step of its own, so that edits by other parties (`EditStatus`,
`EditDelete`), the ends of executors, cancellation, the passage of time and a crash fall
between any two of them. Optimistic locking is modelled by `fresh`: the todos whose copy
in the scheduler's hands still carries the stored revision. `Accepted`,
`Conflict`, `Refused` are the three answers of the store. `orphans` are the
executors that a run left behind when it returned early. `StartCanceled` is a run whose context is canceled before
it begins: it returns before it recovers anything, so `NothingLeftInProgress` leaves it out (`ended = "unstarted"`).
Over-approximations: ready todos are claimed in any order (the code sorts by
priority with aging), and a deadline stays ahead for an arbitrary time. Not
modelled: todos that others add during a run (the code's graph does not know them and does not
schedule them), and that a fail-fast run fails to notice a failure when
the failed todo is deleted between the write and the reread. `NewScheduler` has no caller in the
production wiring at this commit; the model is of the package as its tests drive it.

### RunCheckpoints, RunCaptureHistory and RestoreHistory

`RunCheckpoints` has the per-edit store (`versions` of each file, which only grow, and
the `pending` captures), the runs, the checkpoint records and the restore in progress.
A tool call captures its file before it runs (`BeginCall`), then writes, deletes or
fails; the calls of a turn run in parallel, those of one tool in turn. A run takes
a checkpoint before a compaction (`Compact`, `RecordCompaction`) and when it is
over (`Finalize`, `RecordRunEnd`, `ResetAfterRun`), *after* it has released the
session's lock, and forgets the captures of everybody when it starts. A restore records a guard,
puts files back one by one and then updates the records in one transaction; it takes no lock,
so everything else may happen between any two of its steps. `UserWrite` stands for
everything that changes the workspace unseen: an editor, or a command whose text does
not look as if it wrote.

The other two modules extend it with history variables that no action
reads: what a file held when a run first touched it, what each run changed and what
befell it (`RunCaptureHistory`); the workspace as it was when each checkpoint was recorded,
and what changed since by other hands (`RestoreHistory`).

Abstractions: a content is one of one or two values, or `Absent`; directories, modes and the
messages of the session are left out. The guard's snapshot and its record are one step, and so
are listing the records and the transaction that ends a restore. Restores do not overlap each
other. All checkpoints of this code record exact versions, so the lookup of a
following version, kept for older checkpoints, is not modelled. Records are
ordered as they are created (the code compares milliseconds). That a restore
leaves alone what only *other* runs touched is the code's stated scope
("只处理目标 run 内 checkpoint 与 guard 涉及的文件") and no property asks for more.

### SessionMutex, SessionLocks and SessionRuns

`SessionLocks` is `session_scheduler.go`'s table of session locks: an entry is made for the
first user of a session, counts its users, and is removed when the last of them releases it, so that
a session may be locked through one entry today and another one tomorrow; which entry is new is of no
consequence (`Allocated`).
`Acquire`, `Lock`, `Unlock` and `Release` are four steps. `SessionMutex` says what the
table promises: each session has at most one owner. The property `ImplementsMutex` is the
refinement, with `OwnerOf` reading the owner off the entry.

`SessionRuns` puts the run loop on top of the locks. A run registers itself under its id and its token
(`startRun`) before it waits for its session; then it loads the session, prunes, and goes through turns: `attempt`
and `provider`, with the proactive and the reactive compaction, the tool phase, the accept gate, and the writing of its
resume record (`Mark`). It ends in the order of Go's deferred calls: the lock is released, then the last record is written and the
terminal events are emitted (`MarkStopped`), then the registry forgets the run (`FinishRun`). The
operations that management calls make on a session (compaction, plan approval, edits of the model) use the
same lock. `CancelRun` goes by id, `CancelActiveRun` by the newest token. `Crash` loses
everything that is in memory and keeps the store. Phases are those of `controlplane`, with
`PhasesAllowed` its table of legal changes. The content of a
session is left out: `copy` says of each run at work who has saved the session since it was loaded, the run itself ("current"),
a call that takes no lock ("bypassed"), or another run or an operation under the lock ("stale"). `WriteUnlocked` stands for
the writers that take no lock: the repair of a transcript by `LoadSession` for a client that only reads (todos, skills, `CreateSession`),
the titles that `ListSessions` derives, the work directory set for an input, and a system tool, which gives the lock back once it has loaded the session. So
`NotOvertaken` claims what the lock gives, and no more: no run and no operation that takes it overtakes a run at work.
`CopyIsCurrent`, that nobody at all does, is the claim of the design, checked of `RestoreSpec`, which has the restore
of a checkpoint as its only write beside the lock. Writing a resume record may fail, which the code only logs: `lost` marks a run whose last
record could not be written, and the two properties of records leave such runs out. Whether the fingerprint of a record fits
the copy is a choice. Left out: progress scoring, the token ledger, reminders,
and a run that names no session and therefore makes one before it locks anything.

### ToolCalls

One turn with several calls, on a bounded number of workers: `TakeTool` takes the lock
of the tool's name, hooks may block, the permission check allows, denies or asks. `LockAsk` to
`CloseAsk` are the steps of an approval: the run has one lock for all approvals, a memory
of approvals for the session and for one call, a request that is opened, answered, taken or timed out and
closed. The same brokers serve questions to the user, without the lock. Answers come from a
client at any time: `Resolve` puts a decision into the buffer of a request that is open, and
whether the waiter takes it or its cancel is a choice. The end of a turn saves the results in the order of the calls; a result that is missing or cannot be saved does not
stop the saving of those after it, and the first error is the turn's. What the tools do, adaptation of time limits, and the facts of a
result are left out, and so are three details on which no property depends: that "always" is not remembered for a remote git command
(`tools/session_memory.go:236`), that a write outside the workspace is resolved a second time (`tools/manager.go:379`), and
that a priority event evicts the oldest queued one (`runtime/event_emitter.go:129`).

### EventFeed and StreamRelay

`StreamRelay` is the relay of the gateway: a connection has a reader, a writer and a bounded queue;
bindings of a connection to a session, or to a run of it, expire and are swept by a
heartbeat; `Publish` takes an event to every connection that the indexes by session and by run name.
Queueing, writing and closing are separate steps, so a connection may fall behind, fail or be
closed in the middle of them. A full queue closes the connection. `EventFeed` is what a client may
rely on: it gets the events of each publisher that are matched to it in
order and none of them missing, until its connection ends; the queue, the writer and the indexes do not show. That every subscriber is
matched is `RoutesComplete`, which does not hold (§4).
`ImplementsFeed` is the refinement. A binding is counted down from `TTL`. The requests
themselves, their parsing and their authentication are left out.

### FeishuAdapter

The adapter turns messages of a chat into runs. The handler of a delivery (`Receive` to `MessageDone`) binds
and starts a run, sends a status card, then interrupts the other runs of the chat, which it reads once
(`Scan`) and cancels one by one (`Interrupt`, `NotCanceled`, `InterruptFails`). The consumer takes events in order: an approval that is asked
for takes the card or is queued (`Request`); one that is decided leaves it to the latest of the queue
(`Resolve`); the end of a run drops all of it (`Untrack`). A click resolves at the gateway first, and then in the table. Card updates are
made without the lock, in order, after a check that nothing has changed since (`StartUpdate`, `EndUpdate`); the code's
generation and version are modelled by `fresh`. The gateway and the runtime are
environment: a run is known to a cancel only once it is registered, an answer counts once, events arrive in the order in which
they are published, except that the end of a run may come early. The history variable `missed` holds
runs whose cancellation did not succeed, `mishap` those of which an update failed or met another.
All messages are of one chat; `BindStream` failing is part of `RunFails`. Left out:
what the status card says, questions to the user, runs whose end is never reported (one stopped by its token budget, `runtime/run.go:295`,
emits no `agent_done`, so the adapter keeps it tracked), a lost connection and binding again, and expiry of the idempotency keys.

## 3. Runs, bounds and fairness

| Run | Instance | Shows |
|---|---|---|
| `SessionTodos` | 2 todos, 3 plan revisions, 2 edits | the list loads, only creation puts a todo ahead of its dependencies, terminal is final, completion means convergence; the approved revision was seen; owned todos survive runs and revisions |
| `RunBoundary` (violation) | 2 todos, 1 revision, 2 edits | a pruned list that is refused blocks every later run |
| `Scheduler` | 3 todos in a chain or 2 in 3 shapes, 2 executors, 2 runs of which the first is fail-fast, 1 edit by others, fair | outcomes are accounted for under edits, cancels and crashes; one executor each, nothing left in progress, no refused write; every run ends |
| `CheckpointRestore` | 2 files, 2 contents, 1 run, 2 calls, 1 write, 2 restores, 1 compaction | checkpoints name versions that exist; a restore returns what the checkpoint recorded; putting a guard back returns what it guarded |
| `CheckpointRuns` | 2 files, 1 content, 2 runs of one session, 2 writes, 1 compaction | baselines are first touches; writes of an undisturbed run are checkpointed |
| `SessionRuns` | 2 runs of one id, 1 operation, 1 session, 3 lock entries, 1 turn, 1 continuation, 1 reactive compaction, fair | the locks implement a mutex, nobody who takes the lock overtakes a run at work, the registry finds the right run, the resume record is the run's own, phases are legal, every run ends |
| `SessionRestores` (violation) | 1 run, 1 operation, 2 turns | a restore takes no lock, and the run at work saves over what it restored |
| `ToolCalls` | 3 calls (two approved under one key, one question), 2 workers, 2 entries, fair | one approval lets one call run, one request at a time, nothing left waiting, no result lost, a turn ends |
| `ToolApprovals` (violation) | 2 calls, 3 entries | an approval for one call is used by another |
| `StreamRelay` | 2 connections, 1 session, 1 run, 1 publisher, `TTL` 1, 2 bindings each, queues of 2, 2 events, fair | indexes name only who is bound, each client gets the feed, every connection that ends is closed down |
| `RelayRoutes` (violation) | 1 connection, `TTL` 2, 1 event | when a binding expires, another binding of the connection is no longer found |
| `FeishuAdapter` | 2 deliveries of 2 messages, 3 approvals of one run, 2 decisions, 1 click | one tracked run per message, one run at work per chat, the open approval on the card |

Every counter that the code does not bound is bounded by a constant in a guard:
`MaxRevision`, `MaxEdits`, `MaxRuns`, `MaxCalls`, `MaxWrites`, `MaxRestores`, `MaxCompactions`,
`MaxContinues`, `MaxReactive`, `MaxEvents`. Others are limits that the code has, at small
values: `MaxConcurrency`, `MaxRetries`, `MaxTurns`, `Parallelism`, `MaxBindings`, `QueueSize`, `TTL`.

Two todos give every relation two todos can have (dependency either way, supersession, none); two
edits are enough: a plan replacement creates both in any relation and any status, and the second edit attacks it; two
creations make what the boundary of `RunBoundary` breaks. Three revisions are one that is approved, one that
is fetched and one newer. Three
todos are needed for chains, and for failure to propagate transitively. Two
runs are needed for left-over executors, which the first, fail-fast, leaves to the second, and for recovery after a crash. Two files
are enough for a restore to stop half-way and for a checkpoint to cover one and not the other; two
restores for an undo and for the undo of an interrupted one; one compaction for two checkpoints
of the same run, the least for which files of a later checkpoint matter. Writes count the
user's as well as the run's; a restore or a baseline restore changes what was written as
well, so one write is enough for `CheckpointRestore`, and `CheckpointRuns`, which has
no restores, has two.

Two runs of one id are the least for which the registry's entry is overwritten, and with the
operation make three users of one session, one at work and two waiting, the least for which an
entry outlives its first user and a waiter locks after another waiter's release; three entries
let each of them get one of its own. One turn, after which the next meets the
limit, goes through every place of the loop and every phase, starting from the plan or, when it resumes, from verification; what only a second turn
adds, a change from verification back to the plan, TLC does not reach, and the theorem `PhaseMachineNeverStops` covers for any
number of turns. Three calls on two workers leave one that starts when another has failed; two of them under
one key are what an approval for one call can be confused between. A queue of two with two events
and a heartbeat fills up, and two connections are one that fails while the other goes on.

`FeishuAdapter` is bounded by a constraint, `MC_Bound`, on what has been begun: two deliveries with
one approval and a click (two handlers against each other and against the consumer), one delivery with three
approvals (one on the card, two queued) or with two and a click (a click against its confirmation and against another
client). It constrains only what starts, so every step of what has started is explored.

Symmetry is used in `SessionTodos`, `FeishuAdapter` and the checkpoint runs, whose instances
treat both todos, both files, or all deliveries, requests and decisions alike and whose
properties are invariants and action properties. The checkpoint runs, the scheduler run, the
relay runs and the adapter's run stop when their bounds are used up (no more writes, runs or events), and switch the deadlock check
off; the others keep it on.

Fairness. `Scheduler`: weak fairness of the scheduler goroutine, of executors
(a budget with a timeout bounds each of them) and of time. Receiving an outcome has strong
fairness: each wait of the scheduler is a `select` over the outcome channel and a timer
that starts with the select, so an outcome that is waiting is taken and the timer
cannot win for ever. Nothing is assumed of the caller, of other editors or of the crash.
`SessionRuns`: weak fairness of each run and operation, since a goroutine that can go on does; strong
fairness of taking a session's lock, because a Go mutex in starvation mode goes to the
one that has waited longest. Cancels and crashes are not fair. `ToolCalls`: weak fairness of the turn; strong fairness of each
call, of taking a tool's lock and of taking the approval lock, for the same reason. Nothing is assumed of the
user, so `TurnEnds` says that a turn ends or waits for the user for ever; questions have a time limit
and do not count as waiting. `StreamRelay`: weak fairness of writers, readers, closing and sending, nothing of the clients.

## 4. Findings

See `PROJECT.json` for the lines.

1. `RunBoundary`: a run boundary can leave a list that the store refuses; every later run
   of the session then ends at once.
2. `SessionRestores`: the restore of a checkpoint takes no session lock; a run at work saves over it.
3. `ToolApprovals`: an approval for one call is used up by another call under the same key.
4. `RelayRoutes`: when one binding of a connection expires, the indexes forget the connection though
   another binding of it to the same session is live.

Observations made while modelling, which no run of this directory checks (paths under `src/internal`):

- The retry time of a todo is lost: a failed attempt is written back as blocked with
  `next_retry_at`, which the store clears for todos that are neither pending nor failed
  (`subagent/scheduler.go:666`, `session/todo.go:526`). Failure propagation depends on the order of the list.
- Every run forgets the pending captures of the whole workspace when it starts (`runtime/run.go:230`), also
  those of a run of another session, or of one that has released its lock and not yet taken
  its checkpoint. `RunWritesCheckpointed` therefore speaks of runs that no other overlapped.
- Restoring a compaction checkpoint removes files that the run touched only later
  (`checkpoint/per_edit_snapshot.go:1536`). When a baseline restore fails half-way its guard is given up. A
  run canceled in the turn in which it first wrote takes no checkpoint
  (`runtime/run.go:492-502`); the `fate` "cut" leaves such runs out of `RunWritesCheckpointed`.
- A run releases its session before it leaves the registry and emits its terminal events, the
  opposite of `docs/architecture/architecture-v1.md:814`. The "stopped" record of a
  canceled run is never written, so the next run resumes its plan. After two runs under one id, the
  older cannot be canceled by id once the newer has ended.
- The session is also written without its lock where a client only reads: `LoadSession` cuts calls without results off the stored
  transcript (`runtime/runtime.go:431`), which, while a run executes such calls, cuts off the message it is at work on; `ListSessions` derives titles
  (`runtime/runtime.go:418`); a system tool saves todos after it has released the lock (`runtime/system_tool.go:77`). `WriteUnlocked` has them in the model.
- A resume record that cannot be written is only logged (`runtime/checkpoint_resume.go:46`), so the next run may resume one that
  ended (`lost` leaves such runs out). A todo may be created completed or in progress ahead of its dependencies
  (`session/todo.go:211`). A scheduler run whose context is already canceled leaves interrupted todos in progress (`subagent/scheduler.go:60`).
- A reminder taken from the queue is lost when a compaction follows (`runtime/run.go:706`).
- `Resolve` of either broker reports success although the waiter may take its cancel or timeout, and
  `approval` also for a second, different decision. `permission_resolved` is
  emitted after the lock that orders approvals is released, so the next request may precede it
  (`runtime/permission.go:310`). The ask-user tool announces its question before it opens it, so an
  immediate answer is refused.
- `enterTemporaryRunState` counts before it validates, so a refused entry is never taken back.
- A priority event evicts the oldest queued one, which may be another run's.
- An automatic binding replaces an explicit one of the same key, role and channel included
  (`docs/reference/gateway-rpc-api.md:265` promises more); the acknowledgement of `bindStream` may follow an event.

- The adapter forgets a run whose start failed because the answer was lost (`feishuadapter/adapter.go:532`): its requests
  and its end do not reach the chat, and the next delivery of the message starts a second run under the same id.
  `docs/architecture/architecture-v1.md:1294` says the gateway deduplicates a repeated submission; no code does,
  and the RPC client itself repeats `gateway.run` after a transport error. `OneTrackedRun` leaves such messages out (`lost`).
- Two messages handled at the same time may cancel each other's runs, leaving none; a run that is not yet registered is not
  canceled by an interrupt (`missed`), and the older run may then go on beside the newer.
- The check of the version is not atomic with the update of the card (`feishuadapter/adapter.go:1209`), so an
  update on its way may overtake a newer one and leave a decided request on the card. When a request in the queue is resolved, the request on
  the card loses its place although nobody has decided it (`feishuadapter/adapter.go:1582`), and can no longer be answered from
  Feishu, where `docs/architecture/architecture-v4.md:205` says it can. `mishap` leaves both out of `RequestShown`.
- A run that ends while its status card is being sent leaves a blank binding that is never removed
  (`feishuadapter/adapter.go:948`, against the comment at line 642).

## 5. Proofs

`SessionTodosProofs` proves, for any finite or infinite set of todos and any inputs the
assumptions allow: `TypeCorrect`, `ListAlwaysLoads`, `ApprovalNamesItsRevision`, and
`DependenciesStay`, whatever status todos are created in. The last needs typing and `ListLoads` before the step: an edit keeps
`DepsAllow` because a completed dependency is terminal
and may not be deleted while it has dependents, a new todo because it was no
dependency of a listed one, and pruning because the result is
well formed, so what a kept todo depends on is kept. Three action properties are proved with typing
alone: `TerminalStays` (every edit passes the table of transitions; pruning and redating change no
status), `CompletedConverged` (only the accept gate completes a plan, and it looks at every todo the
property names) and `OwnedSurvive` (pruning keeps what the plan owns, and a new revision only adds).

`SubAgentSchedulerProofs` proves `TypeCorrect` and `NoOutcomeLost`
(`OutcomesAccounted /\ WithinConcurrency`, the second being the limit on concurrency). Its inductive invariant adds where a
ready todo can come from (a todo in `pass.ready`, or about to be reread, is not
running), that what is being applied is not counted as running, and that `chan` and
`exec` together are one entry per running todo; from the latter the buffer, whose
size is the concurrency limit, has room whenever an executor sends.

It also proves `OneExecutor`, `NothingInProgress` and `WritesAccepted`, three properties
of a list that nobody else edits, from one invariant, `Owned`, which holds until the first edit. Its parts
need each other. Executors left by earlier runs are of closed todos only, and what this run works on is in
progress, open, and has its dependencies completed (`ExecutorsHeld`); so a ready todo has no executor. A todo in progress is
one the run works on, or has still to recover, or has still to cancel (`InProgressHeld`); so nothing is in progress
when it returns, unless its context was canceled before it began. The snapshot of a pass is the stored list as far as the pass has still to look at it,
the ready todos may all be started, and the todo in hand is as it was read (`PassHeld`, `CurHeld`); so the store
finds the revision and the transition it expects and refuses nothing. The last is what the first two rest
on, since a refused write would leave a todo as it was.

`RunCheckpointsProofs` proves `TypeCorrect`, for any files, contents, runs and bounds. Much
of it is about references: pending captures and snapshots, recorded or in
hand, name versions that exist, and the version at first touch is not later than the exact
one. It rests on `Grown` (versions are only added, so what exists goes on existing) and on
`BaselineCovers` (a baseline restore puts back only files its target covers).

About restores it proves `UndoReturnsThere` and `RestoreBringsBack`, with the history variables of
`RestoreHistory`. Their invariant, `RestoreInv`, has three parts. Every guard on record says what the workspace was when its
restore began (`GuardHolds`: in the versions it covers, and for all other files by their being as they were unless they strayed).
What a restore has still to put back is as its guard says (`OpHolds`), and what an exact restore has put back is as
its target says (`ExactHolds`). They need each other: an exact restore keeps a file on the word of its guard, and a guard that
is itself restored says something of files it does not cover. Versions are only added (`Grown`), so what a guard says is never changed.

`RunCaptureProofs` proves `BaselineCorrect`, that `BaselineIsFirstTouch` holds always. Its
inductive invariant `CaptureInv` says what the property, which speaks only of snapshots,
presupposes: while a run gathers captures, the pending ones are its first touches
(`Touched`), nothing is pending while a compaction records its snapshot, a run that has
not started touched nothing, and an active run that was never overlapped is the only active
one (`Alone`), so that nobody else captures or resets. The guard that the calls of one tool
do not overlap is needed: it makes a call's record new.

`WritesReachCheckpoint`, that `RunWritesCheckpointed` holds always, adds `Accounted` to it: each file an unharmed run has
changed that no checkpoint of it covers is pending, and the run knows that it wrote; while it records a snapshot the snapshot
covers these files, and when it resets none is left. The harm a run can come to is what `fate` lists. It uses that records are only added and keep their snapshots (`RecordsGrown`).

`SessionRunsProofs` proves nine theorems for any number of runs, ids, sessions, entries and operations and any
limits: `Typed`, `ConsistentLocks`, `Exclusive`, `ConsistentRegistry`, `NeverOvertaken`, `PhaseMachineNeverStops`,
`OwnRecords`, `OnlyInterruptedResume` and `LocksAreMutexes`, the refinement of `SessionMutex`. The base is `LocksInv`, `LocksTypeOK` with
`LocksConsistent`: every user of a session holds the table's entry for it, whose count is the number
of its users. It is inductive over the four lock steps and the crash, and a lemma
shows that each action of `Next` takes one of these steps or leaves the locks alone. `Typed` rests on
`RunOK`, which says what the loop's places say of the counters (a turn is below the
limit where a turn is at work, the phase to come after a mark is a turn
only in between). The registry needs that tokens are handed out in
order, so that the newest active run is the one with the greatest. `NeverOvertaken` needs `Seated`: a run
in its loop holds its session, so nobody else who takes the lock saves it; writers without the lock only make a copy "bypassed". The refinement mapping is
`OwnerOf`, and each step maps to a lock, an unlock, a crash or a stutter of `SessionMutex`.
The phases a run moves between depend on where its loop is (`PhaseAt`); with it each step of the loop is an allowed change.
`OwnRecords` and `OnlyInterruptedResume` have `RecordInv`: the session of a run in its loop is stored (`StoredWhileHeld`), a deleted
session has no resume record (`GoneWithRecord`), and a record that starts something belongs to a run that is still at work on the
session, was cut short, is about to replace it, or could not write its last record (`RecordsHeld`). A run that starts from a record holds the session, so the run of
the record is not at work; and while a run goes through its turns, the lock keeps every record but its own away.

`ToolCallsProofs` proves the five invariants of `ToolCalls`, for any number of calls, workers, tools and keys: `TypeCorrect`,
`OnceUsedOnce`, `OneAtATime`, `NobodyWaits` and `CompleteTurns`. `Standing` says what holds of a call by
the place it stands at: whether its request is open (`RequestOK`), where it is at the ask lock (`LockOK`), whether it has
an answer, a right or a result (`PlaceOK`). One approval at a time follows because an open request is of a call that holds the
lock, and `AskLock` gives the lock one holder: everybody at it refers to the entry of the table, whose count is their number.
Nothing is left waiting because the counts are the numbers of the calls in waiting places (`Counting`), the phase is as the counts
say or a call is about to derive it (`Showing`), and all calls are back when the results are saved (`Feeding`). The use of approvals for one call
is a count of sets: `OnceMoves` says that a call with such a right uses up what is left over, and only an approval leaves one.

`FeishuAdapterProofs` proves `Typed`, `RunsAreTracked`, `OneRunIsLeft` and `RequestsAreShown`, for any messages, deliveries,
approvals and clicks; TLC's run of the module has two deliveries. Typing rests on `FreshTracked`: an update
of a card that is not out of date is for a run that is tracked, since `Untrack` makes the updates of its run
stale; without it a card could come back for a run that is gone. `RunsAreTracked` has the inductive
invariant `TrackInv`: a message has one handler at work (`HandledOnce`), which is the only one that starts
its run (`ToStart`), and whoever drops an entry, the consumer or the handler of another message, has seen
the run ended or canceled (`EndReported`, `Dropped`). `OneRunIsLeft` adds `RivalInv`: while the runs of two
messages that have both looked at the table go on, one of the two handlers still has the other's run in
`left`. A handler sees every run that goes on because `TrackInv` keeps it tracked, and takes one out of
`left` only when it is canceled or over, or puts it into `missed`.

`RequestsAreShown`, that the approval a run waits for is on its card once everything said about the run has been taken in,
is about one state and needs all that leads to it. Its inductive invariant `ShownInv` has six parts. `AskInv`: a run waits for
one approval at a time. `FeedInv`: a request is announced once, before its end is reported, and the open one last of its run.
`HeardInv`: of a run followed from its start (`Kept`), the adapter has heard of every request, or the event is on its way.
`KnownInv`: what it knows comes from the gateway, so no open request counts as decided. `OneRunEach`: the
updates a process has to make are of one run. `CardsInv`, of a run without a mishap: one request has the card and the undecided
others wait for it (`Lined`); while there is no card the consumer is about to send it (`BeingSent`); and the open
request that has the card is either the last of the updates that are not out of date, or is on the card with no such update left
(`BeingShown`, `Settled`). That at most one process has updates that are not out of date (`OneFresh`), because whoever changes the
approvals makes the updates of all others stale, is what keeps a late update from covering a newer one. Every kind of step is shown
to do what `Follows` says, from which `FollowsKeeps` concludes the invariant once. `FeedInv` settles the case a reader asks about
first: when a request is announced while another has the card, that other is no longer open, as it would be announced later.

`StreamRelayProofs` proves `TypeCorrect`, `IndexesAlwaysSound` and `RelayImplementsFeed`, for any connections, runs, publishers and
limits. Soundness is split into what each index says, and every action that binds, sweeps or drops is shown to move all indexes
together (`MovesTogether`). The refinement maps the live bindings of a connection to the topics it listens to in `EventFeed`, and to its stream the events
of its queue (`Picked`) and the one a publisher is about to enqueue. A step maps to a publication, a subscription, an
end, a reading or a stutter. It needs `NothingWaits` (no event waits for a connection that has not begun or has ended) and
that a publisher serves only connections it found bound. `Picked` is a recursive function over the queue; what it does to a queue that grows
at its end or loses its first message is proved by induction over numbers, in the form of the least exception (`LeastNumber`).

The assumptions are the named ones of the modules: `Absent` is no content, `Unknown` is
no state of a file, `None` is no member of the sets it stands beside (entries of a lock, calls, users), a decision is none of the
other states of a request (`allow_once` or `reject` are no `queued`), and the bounds are natural numbers.

Every safety invariant and every action property of the passing runs is proved. Only model-checked are

- the liveness properties `RunEnds` (of the scheduler and of the runs), `TurnEnds` and `RelayDrains`, with the fairness they
  assume: liveness under fairness and `ENABLED` are beyond the prover;
- the four claims that a run of their own refutes (§4); `CopyIsCurrent` is one of them, and what the lock does give is proved as `NotOvertaken`;
- what a recursive definition computes, where a property would need induction over data: the library's induction
  theorems take an operator as a parameter, which the provers cannot instantiate. Induction over numbers is available in the
  form of the least exception.

## 6. Plan

1. `FileHistory`, an abstract specification of captures and restores that `RunCheckpoints`
   refines; the messages of the session in a restore.
2. The RPC client of the gateway: retries, a connection that is reset under several calls; the
   adapter's binding again on top of it.
3. `Workspaces` — lazy construction and teardown of runtimes; hooks; memo scheduler.
4. Pure algorithms against reference definitions: stream accumulation, stop-reason
   decision, permission rule matching.
5. Theorems: that `RunCheckpoints` refines `FileHistory`.

## 7. Not modelled

`PROJECT.json` lists every component with its reason. User interfaces, provider
wire formats, text rendering, the terminal proxy, updates and flag parsing
keep no state whose order of change matters to the properties above.
