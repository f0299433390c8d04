---------------------------- MODULE RunCheckpoints ----------------------------
(***************************************************************************)
(* Code checkpoints: the per-edit store that keeps versions of files, the  *)
(* runs that capture a file before their tools change it and take a        *)
(* checkpoint before compaction and when they end, and the restore, undo   *)
(* and baseline operations a client asks for at any time.                  *)
(*                                                                         *)
(* The store and its pending captures are shared by all runs of the        *)
(* workspace.  A session's lock is released before its run takes the       *)
(* checkpoint that ends it, and no restore takes that lock.  All           *)
(* checkpoints of the production path record exact versions, so the lookup *)
(* of a following version is not needed; directories and modes are left    *)
(* out, and a file's content is one of a few values or Absent.             *)
(***************************************************************************)
EXTENDS Naturals, Sequences, FiniteSets

CONSTANTS Files,
          Contents,        \* contents a file may have
          Absent,          \* the content of a file that does not exist
          Tools,           \* the tools that name the file they touch
          Delete,          \* the one of them that deletes it
          Runs,
          Session,         \* the session of each run
          MaxCalls,        \* bound: captured tool calls
          MaxWrites,       \* bound: changes of the workspace other than by a restore
          MaxRestores,     \* bound: restore operations
          MaxCompactions   \* bound: compactions

State == Contents \cup {Absent}

ASSUME AbsentAssumption == Absent \notin Contents

ASSUME SessionAssumption == DOMAIN Session = Runs

ASSUME BoundsAssumption ==
  /\ MaxCalls \in Nat /\ MaxWrites \in Nat
  /\ MaxRestores \in Nat /\ MaxCompactions \in Nat

VARIABLES work,      \* the workspace
          versions,  \* the versions of each file; a later one never changes an earlier
          pending,   \* the version captured of each file since the last Reset, or 0
          run,       \* each run: where it is, what it has in hand
          cps,       \* the checkpoint records, oldest first
          op,        \* the restore operation in progress
          used       \* calls, writes, restores and compactions so far, for the bounds

vars == <<work, versions, pending, run, cps, op, used>>

Unversioned == [f \in Files |-> 0]

\* A snapshot: for each file it covers the version it had at first touch, and
\* the version taken with the snapshot; 0 for the others.
NoSnapshot == [base |-> Unversioned, exact |-> Unversioned]

Covered(s) == {f \in Files : s.exact[f] # 0}

NewRun == [pc |-> "idle", calls |-> {}, turnWrote |-> FALSE, wrote |-> FALSE,
           snap |-> NoSnapshot]

NoOp == [kind |-> "none", target |-> 0, guard |-> 0, left |-> {}]

Init ==
  /\ work \in [Files -> State]
  /\ versions = [f \in Files |-> <<>>]
  /\ pending = Unversioned
  /\ run = [r \in Runs |-> NewRun]
  /\ cps = <<>>
  /\ op = NoOp
  /\ used = [calls |-> 0, writes |-> 0, restores |-> 0, compactions |-> 0]

-------------------------------------------------------------------------------
(* The per-edit store. *)

Latest(f) == Len(versions[f])

\* Mutant: no version is added for a file that is as its last version says.
VersionedUnlessSame(files) ==
  [f \in Files |->
     IF f \in files /\ (versions[f] = <<>> \/ versions[f][Latest(f)] # work[f])
       THEN Append(versions[f], work[f])
       ELSE versions[f]]

\* One more version for each of the files, of its content now.
Versioned(files) ==
  [f \in Files |-> IF f \in files THEN Append(versions[f], work[f]) ELSE versions[f]]

\* The version numbers Versioned gives those files.
NewVersions(files) == [f \in Files |-> IF f \in files THEN Latest(f) + 1 ELSE 0]

Pending == {f \in Files : pending[f] # 0}

\* Mutant: a file is captured again although its first touch is pending.
CapturePreWriteAlways(f) ==
  /\ versions' = Versioned({f})
  /\ pending' = [pending EXCEPT ![f] = Latest(f) + 1]

\* Only the first touch since the last Reset makes a version.
CapturePreWrite(f) ==
  IF pending[f] # 0
    THEN UNCHANGED <<versions, pending>>
    ELSE /\ versions' = Versioned({f})
         /\ pending' = [pending EXCEPT ![f] = Latest(f) + 1]

Reset == pending' = Unversioned

\* The snapshot FinalizeWithExactState takes, with the versions it adds.
Snapshot == [base |-> pending, exact |-> NewVersions(Pending)]

ContentAt(f, version) == versions[f][version]

-------------------------------------------------------------------------------
(* Checkpoint records. *)

CpRecord(kind, r, snap) ==
  [kind |-> kind, run |-> r, snap |-> snap, status |-> "available"]

HasCode(i) == Covered(cps[i].snap) # {}

SessionOf(i) == Session[cps[i].run]

\* Later available code checkpoints of the same run, restores aside.
Related(i) ==
  {j \in DOMAIN cps : /\ j > i
                      /\ cps[j].run = cps[i].run
                      /\ cps[j].status = "available"
                      /\ cps[j].kind # "guard"
                      /\ HasCode(j)}

-------------------------------------------------------------------------------
(* Runs. *)

Holding(r) == run[r].pc \in {"open", "compacting"}

Writing ==
  /\ used.writes < MaxWrites
  /\ used' = [used EXCEPT !.writes = @ + 1]

\* A run takes the session's lock and forgets all pending captures.
StartRun(r) ==
  /\ run[r].pc = "idle"
  /\ \A o \in Runs : Holding(o) => Session[o] # Session[r]
  /\ run' = [run EXCEPT ![r].pc = "open"]
  /\ Reset
  /\ UNCHANGED <<work, versions, cps, op, used>>

\* A tool call that will touch f: the call notes what f holds, and f is
\* captured.  The calls of a turn run in parallel, those of one tool in turn.
BeginCall(r, tool, f) ==
  /\ run[r].pc = "open"
  /\ \A c \in run[r].calls : c.tool # tool
  /\ used.calls < MaxCalls
  /\ used' = [used EXCEPT !.calls = @ + 1]
  /\ CapturePreWrite(f)
  /\ run' = [run EXCEPT ![r].calls = @ \cup {[tool |-> tool, file |-> f, found |-> work[f]]}]
  /\ UNCHANGED <<work, cps, op>>

\* The call has made its file hold content; that counts as a write when it is
\* not what the call had found.
Returned(r, c, content) ==
  run' = [run EXCEPT ![r].calls = @ \ {c},
                     ![r].turnWrote = @ \/ content # c.found]

WriteFile(r, c, content) ==
  /\ c.tool # Delete
  /\ Writing
  /\ work' = [work EXCEPT ![c.file] = content]
  /\ Returned(r, c, content)
  /\ UNCHANGED <<versions, pending, cps, op>>

\* A successful delete adds a version that says so.
DeleteFile(r, c) ==
  /\ c.tool = Delete
  /\ work[c.file] # Absent
  /\ Writing
  /\ work' = [work EXCEPT ![c.file] = Absent]
  /\ versions' = [versions EXCEPT ![c.file] = Append(@, Absent)]
  /\ Returned(r, c, Absent)
  /\ UNCHANGED <<pending, cps, op>>

FailCall(r, c) ==
  /\ run' = [run EXCEPT ![r].calls = @ \ {c}]
  /\ UNCHANGED <<work, versions, pending, cps, op, used>>

\* A command that changes a file the capture heuristics did not foresee.
BashWrite(r, f, content) ==
  /\ run[r].pc = "open"
  /\ content # work[f]
  /\ Writing
  /\ work' = [work EXCEPT ![f] = content]
  /\ run' = [run EXCEPT ![r].turnWrote = TRUE]
  /\ UNCHANGED <<versions, pending, cps, op>>

TurnOver(r) == run[r].pc = "open" /\ run[r].calls = {} /\ ~run[r].turnWrote

\* Mutant: a turn's writes replace those of the turns before.
EndTurnForgetful(r) ==
  /\ run[r].pc = "open"
  /\ run[r].calls = {}
  /\ run' = [run EXCEPT ![r].wrote = run[r].turnWrote, ![r].turnWrote = FALSE]
  /\ UNCHANGED <<work, versions, pending, cps, op, used>>

\* All calls of a turn have returned and none was canceled.
EndTurn(r) ==
  /\ run[r].pc = "open"
  /\ run[r].calls = {}
  /\ run[r].turnWrote
  /\ run' = [run EXCEPT ![r].wrote = TRUE, ![r].turnWrote = FALSE]
  /\ UNCHANGED <<work, versions, pending, cps, op, used>>

\* Between turns, before the messages are compacted.
Compact(r) ==
  /\ TurnOver(r)
  /\ used.compactions < MaxCompactions
  /\ used' = [used EXCEPT !.compactions = @ + 1]
  /\ run' = [run EXCEPT ![r].pc = "compacting", ![r].snap = Snapshot]
  /\ versions' = Versioned(Pending)
  /\ Reset
  /\ UNCHANGED <<work, cps, op>>

\* The record is written, or the database refuses it.
RecordCompaction(r) ==
  /\ run[r].pc = "compacting"
  /\ run' = [run EXCEPT ![r].pc = "open", ![r].snap = NoSnapshot]
  /\ \/ cps' = Append(cps, CpRecord("compact", r, run[r].snap))
     \/ UNCHANGED cps
  /\ UNCHANGED <<work, versions, pending, op, used>>

\* The run is over, at the end of a turn or canceled in the middle of one; the
\* session's lock is released.
EndRun(r) ==
  /\ run[r].pc = "open"
  /\ run[r].calls = {}
  /\ run' = [run EXCEPT ![r].pc = "closing"]
  /\ UNCHANGED <<work, versions, pending, cps, op, used>>

\* The deferred createRunEndCheckpoint: nothing is done for a run without a
\* recorded write, or without pending captures.
Finalize(r) ==
  /\ run[r].pc = "closing"
  /\ IF run[r].wrote /\ Pending # {}
       THEN /\ run' = [run EXCEPT ![r].pc = "recording", ![r].snap = Snapshot]
            /\ versions' = Versioned(Pending)
       ELSE /\ run' = [run EXCEPT ![r].pc = "done"]
            /\ UNCHANGED versions
  /\ UNCHANGED <<work, pending, cps, op, used>>

\* When the database refuses the record the captures stay pending.
RecordRunEnd(r) ==
  /\ run[r].pc = "recording"
  /\ \/ /\ cps' = Append(cps, CpRecord("run", r, run[r].snap))
        /\ run' = [run EXCEPT ![r].pc = "resetting", ![r].snap = NoSnapshot]
     \/ /\ run' = [run EXCEPT ![r].pc = "done", ![r].snap = NoSnapshot]
        /\ UNCHANGED cps
  /\ UNCHANGED <<work, versions, pending, op, used>>

ResetAfterRun(r) ==
  /\ run[r].pc = "resetting"
  /\ run' = [run EXCEPT ![r].pc = "done"]
  /\ Reset
  /\ UNCHANGED <<work, versions, cps, op, used>>

-------------------------------------------------------------------------------
(* Restores. *)

Restorable(i) == cps[i].status = "available"

\* The files an exact restore looks at.
Affected(i) ==
  IF cps[i].kind = "guard"
    THEN Covered(cps[i].snap)
    ELSE Covered(cps[i].snap) \cup UNION {Covered(cps[j].snap) : j \in Related(i)}

\* Mutant: the guard names the latest versions there are and adds none.
GuardOfLatest(files) ==
  LET latest == [f \in Files |-> IF f \in files THEN Latest(f) ELSE 0]
  IN [base |-> latest, exact |-> latest]

\* The guard's snapshot: the present content of the files.
Guard(files) == [base |-> NewVersions(files), exact |-> NewVersions(files)]

\* A guard of the files is recorded, then those in todo are put back one after
\* another.
BeginRestore(kind, i, files, todo) ==
  /\ op.kind = "none"
  /\ Restorable(i)
  /\ used.restores < MaxRestores
  /\ used' = [used EXCEPT !.restores = @ + 1]
  /\ versions' = Versioned(files)
  /\ cps' = Append(cps, CpRecord("guard", cps[i].run, Guard(files)))
  /\ op' = [kind |-> kind, target |-> i, guard |-> Len(cps) + 1, left |-> todo]
  /\ UNCHANGED <<work, pending, run>>

\* A checkpoint without code restores no file.
Restore(i) == BeginRestore("exact", i, Affected(i), IF HasCode(i) THEN Affected(i) ELSE {})

\* The newest available guard of the session is restored.
Undo(i) ==
  /\ cps[i].kind = "guard"
  /\ \A j \in DOMAIN cps :
       (cps[j].kind = "guard" /\ Restorable(j) /\ SessionOf(j) = SessionOf(i)) => j <= i
  /\ Restore(i)

\* Some files of a checkpoint are put back to their content at first touch.
RestoreBaseline(i, files) ==
  /\ files # {}
  /\ files \subseteq Covered(cps[i].snap)
  /\ BeginRestore("baseline", i, files, files)

\* Mutant: an exact restore goes back to the first touch.
GoalAtFirstTouch(f) ==
  LET snap == cps[op.target].snap
  IN IF snap.base[f] # 0 THEN ContentAt(f, snap.base[f]) ELSE Absent

\* What the operation makes of f: the exact version of the target, the version
\* at first touch, or no file when the target does not cover f.
Goal(f) ==
  LET snap == cps[op.target].snap
  IN IF op.kind = "baseline" THEN ContentAt(f, snap.base[f])
     ELSE IF snap.exact[f] # 0 THEN ContentAt(f, snap.exact[f])
     ELSE Absent

\* An exact restore to a checkpoint that is no guard leaves a file alone when
\* the guard says it has the wanted content already.
Kept(f) ==
  /\ op.kind = "exact"
  /\ cps[op.target].kind # "guard"
  /\ Goal(f) = ContentAt(f, cps[op.guard].snap.exact[f])

PutBack(f) ==
  /\ f \in op.left
  /\ op' = [op EXCEPT !.left = @ \ {f}]
  /\ work' = IF Kept(f) THEN work ELSE [work EXCEPT ![f] = Goal(f)]
  /\ UNCHANGED <<versions, pending, run, cps, used>>

\* One transaction restores the session and retires the checkpoints of the
\* session that are newer than the target; a baseline restore does neither.
FinishRestore ==
  /\ op.kind # "none"
  /\ op.left = {}
  /\ op' = NoOp
  /\ cps' = [j \in DOMAIN cps |->
               IF /\ op.kind = "exact"
                  /\ j > op.target
                  /\ SessionOf(j) = SessionOf(op.target)
                  /\ cps[j].kind # "guard"
                  /\ cps[j].status = "available"
                 THEN [cps[j] EXCEPT !.status = "restored"]
                 ELSE cps[j]]
  /\ UNCHANGED <<work, versions, pending, run, used>>

\* A file cannot be written, the request is canceled, or, at the end of an
\* exact restore, the database fails.  A baseline restore gives up its guard.
FailRestore ==
  /\ op.kind = "exact" \/ op.left # {}
  /\ op' = NoOp
  /\ cps' = IF op.kind = "baseline" THEN [cps EXCEPT ![op.guard].status = "broken"] ELSE cps
  /\ UNCHANGED <<work, versions, pending, run, used>>

-------------------------------------------------------------------------------
(* The environment. *)

UserWrite(f, content) ==
  /\ content # work[f]
  /\ Writing
  /\ work' = [work EXCEPT ![f] = content]
  /\ UNCHANGED <<versions, pending, run, cps, op>>

\* The process stops: versions and records are on disk, the rest is lost.
Crash ==
  /\ op.kind # "none" \/ \E r \in Runs : run[r].pc \notin {"idle", "done"}
  /\ run' = [r \in Runs |->
               IF run[r].pc = "idle" THEN run[r] ELSE [NewRun EXCEPT !.pc = "done"]]
  /\ Reset
  /\ op' = NoOp
  /\ UNCHANGED <<work, versions, cps, used>>

-------------------------------------------------------------------------------
CallStep(r) ==
  \/ \E tool \in Tools, f \in Files : BeginCall(r, tool, f)
  \/ \E c \in run[r].calls : DeleteFile(r, c) \/ FailCall(r, c)
  \/ \E c \in run[r].calls, content \in Contents : WriteFile(r, c, content)
  \/ \E f \in Files, content \in State : BashWrite(r, f, content)

RunStep(r) ==
  \/ StartRun(r)
  \/ CallStep(r)
  \/ EndTurn(r) \/ Compact(r) \/ RecordCompaction(r)
  \/ EndRun(r) \/ Finalize(r) \/ RecordRunEnd(r) \/ ResetAfterRun(r)

RestoreStep ==
  \/ \E i \in DOMAIN cps : Restore(i) \/ Undo(i)
  \/ \E i \in DOMAIN cps, files \in SUBSET Files : RestoreBaseline(i, files)
  \/ \E f \in Files : PutBack(f)
  \/ FinishRestore
  \/ FailRestore

Next ==
  \/ \E r \in Runs : RunStep(r)
  \/ RestoreStep
  \/ \E f \in Files, content \in State : UserWrite(f, content)
  \/ Crash

Spec == Init /\ [][Next]_vars
-------------------------------------------------------------------------------
(* Properties. *)

Snapshots == [base : [Files -> Nat], exact : [Files -> Nat]]

Calls == [tool : Tools, file : Files, found : State]

RunStates ==
  [pc : {"idle", "open", "compacting", "closing", "recording", "resetting", "done"},
   calls : SUBSET Calls, turnWrote : BOOLEAN, wrote : BOOLEAN, snap : Snapshots]

CpRecords ==
  [kind : {"run", "compact", "guard"}, run : Runs, snap : Snapshots,
   status : {"available", "restored", "broken"}]

Operations ==
  [kind : {"none", "exact", "baseline"}, target : Nat, guard : Nat, left : SUBSET Files]

\* A snapshot names versions that exist, and the version at first touch is no
\* later than the exact one.
VersionsExist(snap) ==
  \A f \in Files : /\ (snap.base[f] = 0) <=> (snap.exact[f] = 0)
                   /\ snap.base[f] <= snap.exact[f]
                   /\ snap.exact[f] <= Latest(f)

StoreTypeOK ==
  /\ versions \in [Files -> Seq(State)]
  /\ pending \in [Files -> Nat]
  /\ \A f \in Files : pending[f] <= Latest(f)

RunsTypeOK ==
  /\ run \in [Runs -> RunStates]
  /\ \A r \in Runs : VersionsExist(run[r].snap)

RecordsTypeOK ==
  /\ cps \in Seq(CpRecords)
  /\ \A i \in DOMAIN cps : VersionsExist(cps[i].snap)

OpTypeOK ==
  /\ op \in Operations
  /\ op.kind # "none" => op.target \in DOMAIN cps /\ op.guard \in DOMAIN cps

UsedTypeOK == used \in [calls : Nat, writes : Nat, restores : Nat, compactions : Nat]

\* The shape of the state; in particular the pending captures and all snapshots,
\* recorded or in hand, name versions that exist.
TypeOK ==
  /\ work \in [Files -> State]
  /\ StoreTypeOK /\ RunsTypeOK /\ RecordsTypeOK /\ OpTypeOK /\ UsedTypeOK
===============================================================================
