--------------------------- MODULE RunCaptureProofs ---------------------------
(* The baseline a run captures, and that what it writes reaches a checkpoint,   *)
(* proved for any files, contents, runs and bounds.                            *)
EXTENDS RunCaptureHistory, RunCheckpointsProofs

-------------------------------------------------------------------------------
(* The inductive invariant. *)

\* The version v[f] of each file holds what the file held when run r first
\* touched it, and 0 stands for a file r has not touched.
Matches(r, v) ==
  \A f \in Files :
    IF v[f] = 0 THEN first[r][f] = Unknown ELSE first[r][f] = ContentAt(f, v[f])

\* What r touched is pending until a snapshot takes it over; nothing is pending
\* while a compaction records its snapshot.
Touched(r) ==
  /\ run[r].pc \in {"open", "closing"} => Matches(r, pending)
  /\ run[r].pc \in {"compacting", "recording"} => Matches(r, run[r].snap.base)
  /\ run[r].pc = "compacting" => pending = Unversioned

FirstTypeOK == first \in [Runs -> [Files -> State \cup {Unknown}]]

UntouchedYet ==
  \A r \in Runs : run[r].pc = "idle" => \A f \in Files : first[r][f] = Unknown

\* An active run that was never overlapped is the only one.
Alone ==
  \A r \in Runs : (r \in Active /\ "overlapped" \notin fate[r]) => Active = {r}

CaptureInv ==
  /\ IndTypeOK
  /\ FirstTypeOK
  /\ fate \in [Runs -> SUBSET Fates]
  /\ UntouchedYet
  /\ Alone
  /\ \A r \in Runs : "overlapped" \notin fate[r] => Touched(r)

-------------------------------------------------------------------------------
(* Steps that leave a run's captures alone. *)

\* The first touches of the next state, as those of Matches.
MatchNext(r, v) ==
  \A f \in Files :
    IF v[f] = 0 THEN first'[r][f] = Unknown ELSE first'[r][f] = versions'[f][v[f]]

LEMMA MatchStill ==
  ASSUME IndTypeOK, Grown, NEW r \in Runs, first'[r] = first[r],
         NEW v \in [Files -> Nat], \A f \in Files : v[f] <= Latest(f), Matches(r, v)
  PROVE  MatchNext(r, v)
<1> SUFFICES ASSUME NEW f \in Files
             PROVE  IF v[f] = 0 THEN first'[r][f] = Unknown
                    ELSE first'[r][f] = versions'[f][v[f]]
  BY DEF MatchNext
<1>1. Latest(f) \in Nat /\ v[f] \in Nat /\ v[f] <= Latest(f)
  BY DEF IndTypeOK, TypeOK, StoreTypeOK, Latest
<1>2. v[f] # 0 => versions'[f][v[f]] = versions[f][v[f]]
  <2>1. v[f] # 0 => v[f] \in 1..Latest(f)
    BY <1>1
  <2> QED
    BY <2>1 DEF Grown
<1> QED
  BY <1>2 DEF Matches, ContentAt

\* A run that begins no call and loses no snapshot touches nothing anew.
LEMMA FirstStill ==
  ASSUME FirstTypeOK, NEW r \in Runs, FirstNext, run'[r].calls \subseteq run[r].calls,
         ~SnapshotLeft(r)
  PROVE  first'[r] = first[r]
<1>1. \A f \in Files : ~Begun(r, f)
  BY DEF Begun
<1>2. first'[r] = [f \in Files |-> first[r][f]]
  BY <1>1 DEF FirstNext
<1>3. first[r] \in [Files -> State \cup {Unknown}]
  BY DEF FirstTypeOK
<1> QED
  BY <1>2, <1>3

\* What is captured names versions that exist.
LEMMA CapturesExist ==
  ASSUME IndTypeOK, NEW r \in Runs
  PROVE  /\ pending \in [Files -> Nat] /\ \A f \in Files : pending[f] <= Latest(f)
         /\ run[r].snap.base \in [Files -> Nat]
         /\ \A f \in Files : run[r].snap.base[f] <= Latest(f)
<1>1. run[r].snap \in Snapshots /\ VersionsExist(run[r].snap)
  BY DEF IndTypeOK, TypeOK, RunsTypeOK, RunStates
<1>2. \A f \in Files : /\ run[r].snap.base[f] \in Nat /\ run[r].snap.exact[f] \in Nat
                       /\ Latest(f) \in Nat
  BY <1>1 DEF Snapshots, IndTypeOK, TypeOK, StoreTypeOK, Latest
<1>3. \A f \in Files : run[r].snap.base[f] <= Latest(f)
  BY <1>1, <1>2 DEF VersionsExist
<1> QED
  BY <1>1, <1>3 DEF Snapshots, IndTypeOK, TypeOK, StoreTypeOK

\* What the captures of a run amount to when nothing is done about them.
LEMMA Undisturbed ==
  ASSUME IndTypeOK, Grown, FirstTypeOK, FirstNext, NEW r \in Runs, Touched(r),
         run'[r].pc = run[r].pc, run'[r].snap = run[r].snap,
         run'[r].calls \subseteq run[r].calls, UNCHANGED pending
  PROVE  Touched(r)'
<1>1. first'[r] = first[r]
  BY FirstStill DEF SnapshotLeft
<1>2. /\ Matches(r, pending) => MatchNext(r, pending)
      /\ Matches(r, run[r].snap.base) => MatchNext(r, run[r].snap.base)
  BY <1>1, CapturesExist, MatchStill
<1> QED
  BY <1>2 DEF Touched, MatchNext, Matches, ContentAt

-------------------------------------------------------------------------------
(* The steps of the run itself. *)

\* A call captures its file before it changes anything, at the first touch only.
LEMMA BeginCallTouch ==
  ASSUME IndTypeOK, Grown, FirstTypeOK, FirstNext, NEW r \in Runs, Touched(r),
         NEW tool \in Tools, NEW f \in Files, BeginCall(r, tool, f)
  PROVE  Touched(r)'
<1> DEFINE c == [tool |-> tool, file |-> f, found |-> work[f]]
<1>1. run[r] \in RunStates /\ run[r].pc = "open" /\ Matches(r, pending)
  BY DEF BeginCall, Touched, IndTypeOK, TypeOK, RunsTypeOK
<1>2. run'[r] = [run[r] EXCEPT !.calls = @ \cup {c}]
  BY DEF BeginCall, IndTypeOK, TypeOK, RunsTypeOK
<1>3. run'[r].pc = "open" /\ run'[r].calls = run[r].calls \cup {c}
  BY <1>1, <1>2 DEF RunStates
<1>4. c \notin run[r].calls /\ c.file = f
  BY DEF BeginCall
<1>5. \A g \in Files : Begun(r, g) <=> g = f
  <2>1. run'[r].calls \ run[r].calls = {c}
    BY <1>3, <1>4
  <2> QED
    BY <1>4, <2>1 DEF Begun
<1>6. \A g \in Files : first'[r][g] = IF g = f /\ first[r][g] = Unknown
                                        THEN work[g] ELSE first[r][g]
  BY <1>1, <1>5 DEF FirstNext, SnapshotLeft
<1>7. /\ work \in [Files -> State] /\ StoreTypeOK /\ pending \in [Files -> Nat]
      /\ \A g \in Files : Latest(g) \in Nat /\ pending[g] <= Latest(g)
      /\ \A g \in Files : pending[g] # 0 => pending[g] \in 1..Latest(g)
  <2>1. /\ work \in [Files -> State] /\ StoreTypeOK /\ pending \in [Files -> Nat]
        /\ \A g \in Files : Latest(g) \in Nat /\ pending[g] <= Latest(g)
    BY DEF IndTypeOK, TypeOK, StoreTypeOK, Latest
  <2> QED
    BY <2>1
<1>8. \A g \in Files : pending[g] # 0 => /\ ContentAt(g, pending[g]) \in State
                                         /\ versions'[g][pending[g]] = ContentAt(g, pending[g])
  <2>1. ASSUME NEW g \in Files, NEW n \in 1..Latest(g)
        PROVE  versions[g][n] \in State /\ versions'[g][n] = versions[g][n]
    BY <1>7, <2>1 DEF StoreTypeOK, Latest, Grown
  <2> QED
    BY <1>7, <2>1 DEF ContentAt
<1>9. MatchNext(r, pending')
  <2>1. CASE pending[f] # 0
    <3>1. UNCHANGED <<versions, pending>>
      BY <2>1 DEF BeginCall, CapturePreWrite
    <3>2. first[r][f] # Unknown
      BY <1>1, <1>8, <2>1, UnknownAssumption DEF Matches
    <3> QED
      BY <1>1, <1>6, <3>1, <3>2 DEF Matches, MatchNext, ContentAt
  <2>2. CASE pending[f] = 0
    <3>1. versions' = Versioned({f}) /\ pending' = [pending EXCEPT ![f] = Latest(f) + 1]
      BY <2>2 DEF BeginCall, CapturePreWrite
    <3>2. versions'[f][Latest(f) + 1] = work[f]
      BY <1>7, <3>1, VersionedGrows
    <3>3. first[r][f] = Unknown
      BY <1>1, <2>2 DEF Matches
    <3>4. \A g \in Files : pending'[g] = IF g = f THEN Latest(f) + 1 ELSE pending[g]
      BY <1>7, <3>1
    <3>5. Latest(f) + 1 # 0
      BY <1>7
    <3>6. ASSUME NEW g \in Files, g # f
          PROVE  IF pending'[g] = 0 THEN first'[r][g] = Unknown
                 ELSE first'[r][g] = versions'[g][pending'[g]]
      BY <1>1, <1>6, <1>8, <3>4, <3>6 DEF Matches
    <3>7. IF pending'[f] = 0 THEN first'[r][f] = Unknown
          ELSE first'[r][f] = versions'[f][pending'[f]]
      BY <1>6, <3>2, <3>3, <3>4, <3>5
    <3> QED
      BY <3>6, <3>7 DEF MatchNext
  <2> QED
    BY <2>1, <2>2
<1> QED
  BY <1>3, <1>9 DEF Touched, MatchNext, Matches, ContentAt

\* The steps of a run that leave its captures alone.
LEMMA QuietTouch ==
  ASSUME IndTypeOK, Grown, FirstTypeOK, FirstNext, NEW r \in Runs, Touched(r),
         \/ \E c \in run[r].calls : DeleteFile(r, c) \/ FailCall(r, c)
         \/ \E c \in run[r].calls, content \in Contents : WriteFile(r, c, content)
         \/ \E f \in Files, content \in State : BashWrite(r, f, content)
         \/ EndTurn(r)
  PROVE  Touched(r)'
<1>1. run \in [Runs -> RunStates] /\ run[r] \in RunStates
  BY DEF IndTypeOK, TypeOK, RunsTypeOK
<1>2. ASSUME NEW c \in run[r].calls, NEW content, Returned(r, c, content)
      PROVE  /\ run'[r].pc = run[r].pc /\ run'[r].snap = run[r].snap
             /\ run'[r].calls \subseteq run[r].calls
  <2>1. run'[r] = [run[r] EXCEPT !.calls = @ \ {c}, !.turnWrote = @ \/ content # c.found]
    BY <1>1, <1>2 DEF Returned
  <2> QED
    BY <1>1, <2>1 DEF RunStates
<1>3. ASSUME NEW c \in run[r].calls, FailCall(r, c)
      PROVE  /\ run'[r].pc = run[r].pc /\ run'[r].snap = run[r].snap
             /\ run'[r].calls \subseteq run[r].calls
  <2>1. run'[r] = [run[r] EXCEPT !.calls = @ \ {c}]
    BY <1>1, <1>3 DEF FailCall
  <2> QED
    BY <1>1, <2>1 DEF RunStates
<1>4. ASSUME NEW f \in Files, NEW content \in State, BashWrite(r, f, content)
      PROVE  /\ run'[r].pc = run[r].pc /\ run'[r].snap = run[r].snap
             /\ run'[r].calls \subseteq run[r].calls
  <2>1. run'[r] = [run[r] EXCEPT !.turnWrote = TRUE]
    BY <1>1, <1>4 DEF BashWrite
  <2> QED
    BY <1>1, <2>1 DEF RunStates
<1>5. ASSUME EndTurn(r)
      PROVE  /\ run'[r].pc = run[r].pc /\ run'[r].snap = run[r].snap
             /\ run'[r].calls \subseteq run[r].calls
  <2>1. run'[r] = [run[r] EXCEPT !.wrote = TRUE, !.turnWrote = FALSE]
    BY <1>1, <1>5 DEF EndTurn
  <2> QED
    BY <1>1, <2>1 DEF RunStates
<1>6. /\ run'[r].pc = run[r].pc /\ run'[r].snap = run[r].snap
      /\ run'[r].calls \subseteq run[r].calls
  BY <1>2, <1>3, <1>4, <1>5 DEF DeleteFile, WriteFile
<1>7. UNCHANGED pending
  BY DEF DeleteFile, FailCall, WriteFile, BashWrite, EndTurn
<1> QED
  BY <1>6, <1>7, Undisturbed

\* The steps that end the gathering of captures: what was pending goes on to be
\* pending, or is the baseline of the snapshot.
LEMMA SnapshotTouch ==
  ASSUME IndTypeOK, Grown, FirstTypeOK, FirstNext, NEW r \in Runs, Touched(r),
         EndRun(r) \/ Compact(r) \/ Finalize(r)
  PROVE  Touched(r)'
<1>1. /\ run \in [Runs -> RunStates] /\ run[r] \in RunStates
      /\ run[r].pc \in {"open", "closing"}
  BY DEF IndTypeOK, TypeOK, RunsTypeOK, EndRun, Compact, TurnOver, Finalize
<1>2. Matches(r, pending)
  BY <1>1 DEF Touched
<1>3. CASE EndRun(r)
  <2>1. run'[r] = [run[r] EXCEPT !.pc = "closing"] /\ UNCHANGED pending
    BY <1>1, <1>3 DEF EndRun
  <2>2. run'[r].pc = "closing" /\ run'[r].calls = run[r].calls
    BY <1>1, <2>1 DEF RunStates
  <2>3. MatchNext(r, pending)
    BY <1>1, <1>2, <2>2, FirstStill, CapturesExist, MatchStill DEF SnapshotLeft
  <2> QED
    BY <2>1, <2>2, <2>3 DEF Touched, MatchNext, Matches, ContentAt
<1>4. ASSUME NEW where \in {"compacting", "recording"},
             run' = [run EXCEPT ![r].pc = where, ![r].snap = Snapshot],
             where = "compacting" => pending' = Unversioned
      PROVE  Touched(r)'
  <2>1. run'[r] = [run[r] EXCEPT !.pc = where, !.snap = Snapshot]
    BY <1>1, <1>4
  <2>2. /\ run'[r].pc = where /\ run'[r].calls = run[r].calls
        /\ run'[r].snap.base = pending
    BY <1>1, <2>1 DEF RunStates, Snapshot
  <2>3. MatchNext(r, pending)
    BY <1>1, <1>2, <2>2, FirstStill, CapturesExist, MatchStill DEF SnapshotLeft
  <2> QED
    BY <1>4, <2>2, <2>3 DEF Touched, MatchNext, Matches, ContentAt
<1>5. CASE Compact(r)
  BY <1>4, <1>5 DEF Compact, Reset
<1>6. CASE Finalize(r)
  <2>1. CASE run[r].wrote /\ Pending # {}
    BY <1>4, <1>6, <2>1 DEF Finalize
  <2>2. CASE ~(run[r].wrote /\ Pending # {})
    <3>1. run' = [run EXCEPT ![r].pc = "done"]
      BY <1>6, <2>2 DEF Finalize
    <3>2. run'[r].pc = "done"
      BY <1>1, <3>1 DEF RunStates
    <3> QED
      BY <3>2 DEF Touched
  <2> QED
    BY <2>1, <2>2
<1> QED
  BY <1>3, <1>5, <1>6

\* The steps that leave a snapshot behind.
LEMMA RecordTouch ==
  ASSUME IndTypeOK, FirstTypeOK, FirstNext, NEW r \in Runs, Touched(r),
         RecordCompaction(r) \/ RecordRunEnd(r) \/ ResetAfterRun(r)
  PROVE  Touched(r)'
<1>1. run \in [Runs -> RunStates] /\ run[r] \in RunStates
  BY DEF IndTypeOK, TypeOK, RunsTypeOK
<1>2. CASE RecordCompaction(r)
  <2>1. /\ run'[r] = [run[r] EXCEPT !.pc = "open", !.snap = NoSnapshot]
        /\ run[r].pc = "compacting" /\ UNCHANGED pending
    BY <1>1, <1>2 DEF RecordCompaction
  <2>2. run'[r].pc = "open" /\ pending' = Unversioned
    BY <1>1, <2>1 DEF RunStates, Touched
  <2>3. \A f \in Files : first'[r][f] = Unknown
    BY <2>1, <2>2 DEF FirstNext, SnapshotLeft
  <2> QED
    BY <2>2, <2>3 DEF Touched, Matches, Unversioned
<1>3. CASE RecordRunEnd(r) \/ ResetAfterRun(r)
  <2>1. run'[r].pc \in {"resetting", "done"}
    BY <1>1, <1>3 DEF RecordRunEnd, ResetAfterRun, RunStates
  <2> QED
    BY <2>1 DEF Touched
<1> QED
  BY <1>2, <1>3

\* A run starts with nothing captured and nothing touched.
LEMMA StartRunTouch ==
  ASSUME IndTypeOK, FirstTypeOK, FirstNext, UntouchedYet, NEW r \in Runs, StartRun(r)
  PROVE  Touched(r)'
<1>1. run'[r] = [run[r] EXCEPT !.pc = "open"] /\ pending' = Unversioned
  BY DEF StartRun, Reset, IndTypeOK, TypeOK, RunsTypeOK
<1>2. run[r].pc = "idle" /\ run'[r].pc = "open" /\ run'[r].calls = run[r].calls
  BY <1>1 DEF StartRun, IndTypeOK, TypeOK, RunsTypeOK, RunStates
<1>3. first'[r] = first[r]
  BY <1>2, FirstStill DEF SnapshotLeft
<1> QED
  BY <1>1, <1>2, <1>3 DEF UntouchedYet, Touched, Matches, Unversioned

LEMMA OwnStepTouch ==
  ASSUME IndTypeOK, Grown, FirstTypeOK, FirstNext, UntouchedYet, NEW r \in Runs, Touched(r),
         RunStep(r)
  PROVE  Touched(r)'
  BY BeginCallTouch, QuietTouch, SnapshotTouch, RecordTouch, StartRunTouch
  DEF RunStep, CallStep

-------------------------------------------------------------------------------
(* The steps of others. *)

\* A step that leaves the record of a run as it is and every capture pending.
LEMMA AsideTouch ==
  ASSUME IndTypeOK, Grown, FirstTypeOK, FirstNext, NEW r \in Runs, Touched(r),
         run'[r] = run[r], UNCHANGED pending
  PROVE  Touched(r)'
  BY Undisturbed

\* Where a step of run o can begin, and what it changes of the runs.
LEMMA OnlyOwnRun ==
  ASSUME IndTypeOK, NEW o \in Runs, RunStep(o), NEW r \in Runs, r # o
  PROVE  run'[r] = run[r]
<1>1. run \in [Runs -> RunStates]
  BY DEF IndTypeOK, TypeOK, RunsTypeOK
<1>2. CASE CallStep(o)
  BY <1>1, <1>2 DEF CallStep, BeginCall, DeleteFile, FailCall, WriteFile, BashWrite, Returned
<1>3. CASE ~CallStep(o)
  BY <1>1, <1>3 DEF RunStep, StartRun, EndTurn, Compact, RecordCompaction, EndRun, Finalize,
                    RecordRunEnd, ResetAfterRun
<1> QED
  BY <1>2, <1>3

\* A step of a run that changes the pending captures is the step of an active
\* run, or makes it one.
LEMMA PendingChanger ==
  ASSUME IndTypeOK, NEW o \in Runs, RunStep(o), pending' # pending
  PROVE  o \in Active \/ o \in Active'
<1>1. run \in [Runs -> RunStates]
  BY DEF IndTypeOK, TypeOK, RunsTypeOK
<1>2. CASE StartRun(o)
  <2>1. run'[o] = [run[o] EXCEPT !.pc = "open"]
    BY <1>1, <1>2 DEF StartRun
  <2>2. run'[o].pc = "open"
    BY <1>1, <2>1 DEF RunStates
  <2> QED
    BY <2>2 DEF Active
<1>3. CASE CallStep(o)
  BY <1>3 DEF CallStep, BeginCall, DeleteFile, FailCall, WriteFile, BashWrite, Active
<1>4. CASE Compact(o) \/ ResetAfterRun(o)
  BY <1>4 DEF Compact, TurnOver, ResetAfterRun, Active
<1> QED
  BY <1>2, <1>3, <1>4 DEF RunStep, EndTurn, RecordCompaction, EndRun, Finalize, RecordRunEnd

\* While a run is the only active one, and stays it, no other touches the
\* pending captures.
LEMMA OtherStepTouch ==
  ASSUME IndTypeOK, Grown, FirstTypeOK, FirstNext, NEW r \in Runs, Touched(r),
         NEW o \in Runs, o # r, RunStep(o), Active \subseteq {r}, Active' \subseteq {r}
  PROVE  Touched(r)'
<1>1. UNCHANGED pending
  BY PendingChanger
<1> QED
  BY <1>1, OnlyOwnRun, AsideTouch

\* A crash leaves no run anything in hand.
LEMMA CrashTouch ==
  ASSUME Crash, NEW r \in Runs
  PROVE  Touched(r)'
<1>1. run'[r].pc \in {"idle", "done"}
  BY DEF Crash, NewRun
<1> QED
  BY <1>1 DEF Touched

\* The steps of no run.
LEMMA RestoreTouch ==
  ASSUME IndTypeOK, Grown, FirstTypeOK, FirstNext, NEW r \in Runs, Touched(r),
         \/ RestoreStep
         \/ \E f \in Files, content \in State : UserWrite(f, content)
  PROVE  Touched(r)'
<1>1. UNCHANGED <<pending, run>>
  BY DEF RestoreStep, Restore, Undo, RestoreBaseline, BeginRestore, PutBack, FinishRestore,
         FailRestore, UserWrite
<1> QED
  BY <1>1, AsideTouch

-------------------------------------------------------------------------------
(* The theorem. *)

\* Of two runs active at once both are marked.
LEMMA AloneNext ==
  ASSUME FateNext, NEW r \in Runs, r \in Active', "overlapped" \notin fate'[r]
  PROVE  Active' = {r}
  BY DEF FateNext

LEMMA FateGrows ==
  ASSUME FateNext, NEW r \in Runs
  PROVE  fate[r] \subseteq fate'[r]
  BY DEF FateNext

LEMMA HistoryType ==
  ASSUME IndTypeOK, FirstTypeOK, fate \in [Runs -> SUBSET Fates], FirstNext, FateNext
  PROVE  FirstTypeOK' /\ fate' \in [Runs -> SUBSET Fates]
<1>1. work \in [Files -> State]
  BY DEF IndTypeOK, TypeOK
<1>2. FirstTypeOK'
  BY <1>1 DEF FirstTypeOK, FirstNext
<1>3. fate' \in [Runs -> SUBSET Fates]
  <2>1. \A r \in Runs : fate[r] \subseteq Fates
    OBVIOUS
  <2>2. \A r \in Runs : fate'[r] \subseteq Fates
    BY <2>1 DEF FateNext, Fates
  <2> QED
    BY <2>2 DEF FateNext
<1> QED
  BY <1>2, <1>3

\* A run that is still idle was left alone.
LEMMA UntouchedNext ==
  ASSUME IndTypeOK, FirstTypeOK, FirstNext, UntouchedYet, Next
  PROVE  UntouchedYet'
<1> SUFFICES ASSUME NEW r \in Runs, run'[r].pc = "idle"
             PROVE  run[r].pc = "idle" /\ first'[r] = first[r]
  BY DEF UntouchedYet
<1>1. run \in [Runs -> RunStates]
  BY DEF IndTypeOK, TypeOK, RunsTypeOK
<1>2. run'[r].pc = run[r].pc /\ run'[r].calls \subseteq run[r].calls
  <2>1. ASSUME CallStep(r)
        PROVE  run'[r].pc = run[r].pc /\ run'[r].calls \subseteq run[r].calls
    <3>1. CASE \E tool \in Tools, f \in Files : BeginCall(r, tool, f)
      <4>1. run[r].pc = "open" /\ run'[r].pc = run[r].pc
        BY <1>1, <3>1 DEF BeginCall, RunStates
      <4> QED
        BY <4>1
    <3>2. ASSUME NEW c \in run[r].calls, NEW content, Returned(r, c, content)
          PROVE  run'[r].pc = run[r].pc /\ run'[r].calls \subseteq run[r].calls
      <4>1. run'[r] = [run[r] EXCEPT !.calls = @ \ {c}, !.turnWrote = @ \/ content # c.found]
        BY <1>1, <3>2 DEF Returned
      <4> QED
        BY <1>1, <4>1 DEF RunStates
    <3>3. CASE \/ \E c \in run[r].calls : FailCall(r, c)
               \/ \E f \in Files, content \in State : BashWrite(r, f, content)
      BY <1>1, <3>3 DEF FailCall, BashWrite, RunStates
    <3> QED
      BY <2>1, <3>1, <3>2, <3>3 DEF CallStep, DeleteFile, WriteFile
  <2>2. CASE RunStep(r)
    <3>1. CASE EndTurn(r)
      BY <1>1, <3>1 DEF EndTurn, RunStates
    <3>2. CASE ~CallStep(r) /\ ~EndTurn(r)
      BY <1>1, <2>2, <3>2 DEF RunStep, StartRun, Compact, RecordCompaction, EndRun, Finalize,
                              RecordRunEnd, ResetAfterRun, RunStates
    <3> QED
      BY <2>1, <3>1, <3>2
  <2>3. ASSUME NEW o \in Runs, o # r, RunStep(o)
        PROVE  run'[r] = run[r]
    BY <2>3, OnlyOwnRun
  <2>4. CASE RestoreStep \/ \E f \in Files, content \in State : UserWrite(f, content)
    BY <2>4 DEF RestoreStep, Restore, Undo, RestoreBaseline, BeginRestore, PutBack,
                FinishRestore, FailRestore, UserWrite
  <2>5. CASE Crash
    BY <2>5 DEF Crash, NewRun
  <2> QED
    BY <2>2, <2>3, <2>4, <2>5 DEF Next
<1>3. first'[r] = first[r]
  BY <1>2, FirstStill DEF SnapshotLeft
<1> QED
  BY <1>2, <1>3

\* Every step keeps what the captures amount to.
LEMMA TouchedNext ==
  ASSUME CaptureInv, Next, FirstNext, FateNext, NEW r \in Runs, "overlapped" \notin fate'[r]
  PROVE  Touched(r)'
<1>1. /\ IndTypeOK /\ FirstTypeOK /\ UntouchedYet /\ "overlapped" \notin fate[r] /\ Touched(r)
      /\ Grown
  BY FateGrows, StepGrows DEF CaptureInv
<1>2. CASE r \notin Active'
  BY <1>2 DEF Touched, Active
<1>3. CASE r \in Active'
  <2>1. Active' = {r}
    BY <1>3, AloneNext
  <2>2. CASE RunStep(r)
    BY <1>1, <2>2, OwnStepTouch
  <2>3. ASSUME NEW o \in Runs, o # r, RunStep(o)
        PROVE  Touched(r)'
    <3>1. run'[r] = run[r]
      BY <1>1, <2>3, OnlyOwnRun
    <3>2. r \in Active
      BY <1>3, <3>1 DEF Active
    <3>3. Active = {r}
      BY <1>1, <3>2 DEF CaptureInv, Alone
    <3> QED
      BY <1>1, <2>1, <2>3, <3>3, OtherStepTouch
  <2>4. CASE RestoreStep \/ \E f \in Files, content \in State : UserWrite(f, content)
    BY <1>1, <2>4, RestoreTouch
  <2>5. CASE Crash
    BY <2>5, CrashTouch
  <2> QED
    BY <2>2, <2>3, <2>4, <2>5 DEF Next
<1> QED
  BY <1>2, <1>3

LEMMA CaptureNext ==
  ASSUME CaptureInv, [Next /\ FirstNext /\ WrittenNext /\ FateNext]_varsH
  PROVE  CaptureInv'
<1>1. CASE Next /\ FirstNext /\ FateNext
  <2>1. IndTypeOK'
    BY <1>1, NextType DEF CaptureInv
  <2>2. FirstTypeOK' /\ fate' \in [Runs -> SUBSET Fates]
    BY <1>1, HistoryType DEF CaptureInv
  <2>3. UntouchedYet'
    BY <1>1, UntouchedNext DEF CaptureInv
  <2>4. Alone'
    BY <1>1, AloneNext DEF Alone
  <2>5. \A r \in Runs : "overlapped" \notin fate'[r] => Touched(r)'
    BY <1>1, TouchedNext
  <2> QED
    BY <2>1, <2>2, <2>3, <2>4, <2>5 DEF CaptureInv
<1>2. CASE UNCHANGED varsH
  <2>1. IndTypeOK'
    BY <1>2, StutterType DEF varsH, CaptureInv
  <2> QED
    BY <1>2, <2>1 DEF CaptureInv, varsH, vars, FirstTypeOK, UntouchedYet, Alone, Active,
                      Touched, Matches, ContentAt
<1> QED
  BY <1>1, <1>2

LEMMA CaptureInit ==
  ASSUME InitH
  PROVE  CaptureInv
<1>1. IndTypeOK
  BY InitType DEF InitH
<1>2. \A r \in Runs : run[r].pc = "idle"
  BY DEF InitH, Init, NewRun
<1>3. FirstTypeOK /\ UntouchedYet /\ fate \in [Runs -> SUBSET Fates]
  BY DEF InitH, FirstTypeOK, UntouchedYet
<1>4. Alone /\ \A r \in Runs : Touched(r)
  BY <1>2 DEF Alone, Active, Touched
<1> QED
  BY <1>1, <1>3, <1>4 DEF CaptureInv

\* The snapshot of a run that no other run overlapped covers exactly the files
\* the run touched since its last snapshot, and its baseline is what each of
\* them held when the run first touched it, whatever wrote the file since and
\* whatever a restore did to it.
THEOREM BaselineCorrect == SpecH => []BaselineIsFirstTouch
<1>1. CaptureInv => BaselineIsFirstTouch
  BY DEF CaptureInv, Touched, Matches, BaselineIsFirstTouch
<1> QED
  BY <1>1, CaptureInit, CaptureNext, PTL DEF SpecH

-------------------------------------------------------------------------------
(* What a run changed is accounted for. *)

\* The files a run changed that no checkpoint of it covers yet.
Left(r) == written[r] \ CoveredByRun(r)

\* They are pending, and a call's file is before the call changes it; the run
\* knows that it wrote; a snapshot takes over all of them.
Accounted(r) ==
  /\ run[r].pc = "idle" => written[r] = {}
  /\ run[r].pc # "open" => run[r].calls = {}
  /\ run[r].pc \in {"open", "closing"} => Left(r) \subseteq Pending
  /\ run[r].pc = "open" => /\ \A c \in run[r].calls : c.file \in Pending
                           /\ Left(r) # {} => run[r].wrote \/ run[r].turnWrote
  /\ run[r].pc = "closing" /\ Left(r) # {} => run[r].wrote
  /\ run[r].pc \in {"compacting", "recording"} => Left(r) \subseteq Covered(run[r].snap)
  /\ run[r].pc \in {"resetting", "done"} => Left(r) = {}

WritesInv ==
  /\ CaptureInv
  /\ written \in [Runs -> SUBSET Files]
  /\ \A r \in Runs : fate[r] = {} => Accounted(r)

OwnRecords(r) == {j \in DOMAIN cps : cps[j].run = r /\ cps[j].kind # "guard"}

LEMMA CoverOf ==
  ASSUME NEW r, NEW f
  PROVE  /\ f \in CoveredByRun(r) <=> \E i \in OwnRecords(r) : f \in Covered(cps[i].snap)
         /\ f \in CoveredByRun(r)' <=> \E i \in OwnRecords(r)' : f \in Covered(cps'[i].snap)
BY DEF CoveredByRun, OwnRecords

LEMMA CoverGrows ==
  ASSUME RecordsGrown, NEW r
  PROVE  CoveredByRun(r) \subseteq CoveredByRun(r)'
<1> SUFFICES ASSUME NEW f \in CoveredByRun(r) PROVE f \in CoveredByRun(r)'
  OBVIOUS
<1>1. PICK i \in OwnRecords(r) : f \in Covered(cps[i].snap)
  BY CoverOf
<1>2. i \in OwnRecords(r)' /\ cps'[i].snap = cps[i].snap
  BY DEF RecordsGrown, OwnRecords
<1> QED
  BY <1>1, <1>2, CoverOf

LEMMA NewlyCovered ==
  ASSUME RecordsTypeOK, NEW r, NEW kind, kind # "guard", NEW snap,
         cps' = Append(cps, CpRecord(kind, r, snap))
  PROVE  Covered(snap) \subseteq CoveredByRun(r)'
<1> DEFINE i == Len(cps) + 1
<1>1. i \in DOMAIN cps' /\ cps'[i] = CpRecord(kind, r, snap)
  BY AppendedRecord
<1>2. cps'[i].run = r /\ cps'[i].kind = kind /\ cps'[i].snap = snap
  BY <1>1 DEF CpRecord
<1> HIDE DEF i
<1>3. i \in OwnRecords(r)'
  BY <1>1, <1>2 DEF OwnRecords
<1> QED
  BY <1>2, <1>3, CoverOf

WrittenTypeOK == written \in [Runs -> SUBSET Files]

LEMMA WrittenGrows ==
  ASSUME WrittenTypeOK, WrittenNext, NEW r \in Runs
  PROVE  written'[r] = written[r] \cup ChangedBy(r)
BY DEF WrittenTypeOK, WrittenNext

\* A step that ends no call of a run, or changes no file, changes none for it.
LEMMA NothingChanged ==
  ASSUME IndTypeOK, WrittenTypeOK, WrittenNext, NEW r \in Runs,
         run'[r].calls = run[r].calls \/ work' = work \/ run[r].calls = {}
  PROVE  written'[r] = written[r]
<1>1. ChangedBy(r) = {}
  BY DEF ChangedBy
<1> QED
  BY <1>1, WrittenGrows

LEMMA LeftShrinks ==
  ASSUME RecordsGrown, NEW r \in Runs, written'[r] = written[r]
  PROVE  Left(r)' \subseteq Left(r)
BY CoverGrows DEF Left

\* A run nobody touches, and whose captures stay, is as well off as before.
LEMMA AsideAccounted ==
  ASSUME IndTypeOK, WrittenTypeOK, WrittenNext, RecordsGrown, NEW r \in Runs, Accounted(r),
         run'[r] = run[r], pending' = pending \/ r \notin Active
  PROVE  Accounted(r)'
<1>1. written'[r] = written[r]
  BY NothingChanged
<1>2. Left(r)' \subseteq Left(r)
  BY <1>1, LeftShrinks
<1>3. pending' = pending => Pending' = Pending
  BY DEF Pending
<1> QED
  BY <1>1, <1>2, <1>3 DEF Accounted, Active

-------------------------------------------------------------------------------
(* The steps of the run, and what it has written. *)

Unharmed(r) == ~Cut(r) /\ ~Failed(r)

LEMMA StartRunAccounted ==
  ASSUME IndTypeOK, WrittenTypeOK, WrittenNext, RecordsGrown, NEW r \in Runs, Accounted(r),
         StartRun(r)
  PROVE  Accounted(r)'
<1>1. run'[r] = [run[r] EXCEPT !.pc = "open"] /\ run[r].pc = "idle" /\ work' = work
  BY DEF StartRun, IndTypeOK, TypeOK, RunsTypeOK
<1>2. run'[r].pc = "open" /\ run'[r].calls = {}
  BY <1>1 DEF Accounted, IndTypeOK, TypeOK, RunsTypeOK, RunStates
<1>3. written'[r] = {}
  BY <1>1, NothingChanged DEF Accounted
<1>4. Left(r)' = {}
  BY <1>3 DEF Left
<1> QED
  BY <1>2, <1>4 DEF Accounted

LEMMA BeginCallAccounted ==
  ASSUME IndTypeOK, WrittenTypeOK, WrittenNext, RecordsGrown, NEW r \in Runs, Accounted(r),
         NEW tool \in Tools, NEW f \in Files, BeginCall(r, tool, f)
  PROVE  Accounted(r)'
<1> DEFINE c == [tool |-> tool, file |-> f, found |-> work[f]]
<1>1. run[r] \in RunStates /\ run[r].pc = "open" /\ work' = work
  BY DEF BeginCall, IndTypeOK, TypeOK, RunsTypeOK
<1>2. run'[r] = [run[r] EXCEPT !.calls = @ \cup {c}]
  BY DEF BeginCall, IndTypeOK, TypeOK, RunsTypeOK
<1>3. /\ run'[r].pc = "open" /\ run'[r].calls = run[r].calls \cup {c}
      /\ run'[r].wrote = run[r].wrote /\ run'[r].turnWrote = run[r].turnWrote
  BY <1>1, <1>2 DEF RunStates
<1>4. c.file = f
  OBVIOUS
<1> HIDE DEF c
<1>5. Pending \subseteq Pending' /\ f \in Pending'
  <2>1. Latest(f) + 1 # 0 /\ pending \in [Files -> Nat]
    BY DEF IndTypeOK, TypeOK, StoreTypeOK, Latest
  <2>2. CapturePreWrite(f)
    BY DEF BeginCall
  <2>3. CASE pending[f] # 0
    BY <2>2, <2>3 DEF CapturePreWrite, Pending
  <2>4. CASE pending[f] = 0
    <3>1. pending' = [pending EXCEPT ![f] = Latest(f) + 1]
      BY <2>2, <2>4 DEF CapturePreWrite
    <3>2. \A g \in Files : pending'[g] = IF g = f THEN Latest(f) + 1 ELSE pending[g]
      BY <2>1, <3>1
    <3> QED
      BY <2>1, <3>2 DEF Pending
  <2> QED
    BY <2>3, <2>4
<1>6. written'[r] = written[r]
  BY <1>1, NothingChanged
<1>7. Left(r)' \subseteq Left(r)
  BY <1>6, LeftShrinks
<1> QED
  BY <1>1, <1>3, <1>4, <1>5, <1>7 DEF Accounted

\* A call that returns has changed at most its file, which is pending, and then
\* the run knows that it wrote.
LEMMA ReturnedAccounted ==
  ASSUME IndTypeOK, WrittenTypeOK, WrittenNext, RecordsGrown, NEW r \in Runs, Accounted(r),
         NEW c \in run[r].calls, NEW content \in State, Returned(r, c, content),
         work' = [work EXCEPT ![c.file] = content], run[r].pc = "open", pending' = pending
  PROVE  Accounted(r)'
<1>1. run \in [Runs -> RunStates] /\ run[r] \in RunStates /\ c \in Calls /\ work \in [Files -> State]
  BY DEF IndTypeOK, TypeOK, RunsTypeOK, RunStates
<1>2. run'[r] = [run[r] EXCEPT !.calls = @ \ {c}, !.turnWrote = @ \/ content # c.found]
  BY <1>1 DEF Returned
<1>3. /\ run'[r].pc = "open" /\ run'[r].calls = run[r].calls \ {c}
      /\ run'[r].wrote = run[r].wrote
      /\ run'[r].turnWrote = (run[r].turnWrote \/ content # c.found)
  BY <1>1, <1>2 DEF RunStates
<1>4. c.file \in Files /\ work'[c.file] = content
  BY <1>1 DEF Calls
<1>5. run[r].calls \ run'[r].calls = {c}
  BY <1>3
<1>6. ChangedBy(r) \subseteq {c.file} /\ (ChangedBy(r) # {} => content # c.found)
  BY <1>4, <1>5 DEF ChangedBy
<1>7. written'[r] = written[r] \cup ChangedBy(r)
  BY WrittenGrows
<1>8. Left(r)' \subseteq Left(r) \cup ChangedBy(r)
  BY <1>7, CoverGrows DEF Left
<1>9. Pending' = Pending /\ c.file \in Pending
  BY DEF Accounted, Pending
<1>10. Left(r)' \subseteq Pending'
  BY <1>6, <1>8, <1>9 DEF Accounted
<1>11. Left(r)' # {} => run'[r].wrote \/ run'[r].turnWrote
  BY <1>3, <1>6, <1>8 DEF Accounted
<1>12. \A d \in run'[r].calls : d.file \in Pending'
  BY <1>3, <1>9 DEF Accounted
<1> QED
  BY <1>3, <1>10, <1>11, <1>12 DEF Accounted

LEMMA CallReturnsAccounted ==
  ASSUME IndTypeOK, WrittenTypeOK, WrittenNext, RecordsGrown, NEW r \in Runs, Accounted(r),
         run[r].pc = "open", NEW c \in run[r].calls,
         DeleteFile(r, c) \/ \E content \in Contents : WriteFile(r, c, content)
  PROVE  Accounted(r)'
<1>1. CASE DeleteFile(r, c)
  <2>1. Absent \in State
    BY DEF State
  <2> QED
    BY <1>1, <2>1, ReturnedAccounted DEF DeleteFile
<1>2. ASSUME NEW content \in Contents, WriteFile(r, c, content) PROVE Accounted(r)'
  <2>1. content \in State
    BY DEF State
  <2> QED
    BY <1>2, <2>1, ReturnedAccounted DEF WriteFile
<1> QED
  BY <1>1, <1>2

LEMMA TurnAccounted ==
  ASSUME IndTypeOK, WrittenTypeOK, WrittenNext, RecordsGrown, NEW r \in Runs, Accounted(r),
         run[r].pc = "open",
         \/ \E c \in run[r].calls : FailCall(r, c)
         \/ \E f \in Files, content \in State : BashWrite(r, f, content)
         \/ EndTurn(r)
  PROVE  Accounted(r)'
<1>1. run \in [Runs -> RunStates] /\ run[r] \in RunStates
  BY DEF IndTypeOK, TypeOK, RunsTypeOK
<1>2. pending' = pending
  BY DEF FailCall, BashWrite, EndTurn
<1>3. /\ run'[r].pc = "open" /\ run'[r].calls \subseteq run[r].calls
      /\ run[r].wrote \/ run[r].turnWrote => run'[r].wrote \/ run'[r].turnWrote
  <2>1. ASSUME NEW c \in run[r].calls, FailCall(r, c)
        PROVE  /\ run'[r].pc = "open" /\ run'[r].calls \subseteq run[r].calls
               /\ run'[r].wrote = run[r].wrote /\ run'[r].turnWrote = run[r].turnWrote
    <3>1. run'[r] = [run[r] EXCEPT !.calls = @ \ {c}]
      BY <1>1, <2>1 DEF FailCall
    <3> QED
      BY <1>1, <3>1 DEF RunStates
  <2>2. ASSUME NEW f \in Files, NEW content \in State, BashWrite(r, f, content)
        PROVE  run'[r].pc = "open" /\ run'[r].calls = run[r].calls /\ run'[r].turnWrote
    <3>1. run'[r] = [run[r] EXCEPT !.turnWrote = TRUE]
      BY <1>1, <2>2 DEF BashWrite
    <3> QED
      BY <1>1, <3>1 DEF RunStates
  <2>3. ASSUME EndTurn(r)
        PROVE  run'[r].pc = "open" /\ run'[r].calls = run[r].calls /\ run'[r].wrote
    <3>1. run'[r] = [run[r] EXCEPT !.wrote = TRUE, !.turnWrote = FALSE]
      BY <1>1, <2>3 DEF EndTurn
    <3> QED
      BY <1>1, <3>1 DEF RunStates
  <2> QED
    BY <2>1, <2>2, <2>3
<1>4. written'[r] = written[r]
  <2>1. ASSUME NEW f \in Files, NEW content \in State, BashWrite(r, f, content)
        PROVE  run'[r].calls = run[r].calls
    <3>1. run'[r] = [run[r] EXCEPT !.turnWrote = TRUE]
      BY <1>1, <2>1 DEF BashWrite
    <3> QED
      BY <1>1, <3>1 DEF RunStates
  <2> QED
    BY <2>1, NothingChanged DEF FailCall, EndTurn
<1>5. Left(r)' \subseteq Left(r) /\ Pending' = Pending
  BY <1>2, <1>4, LeftShrinks DEF Pending
<1> QED
  BY <1>3, <1>5 DEF Accounted

LEMMA SnapshotCovers ==
  ASSUME IndTypeOK
  PROVE  Covered(Snapshot) = Pending
<1>1. Pending \subseteq Files /\ \A f \in Files : Latest(f) + 1 # 0
  BY DEF Pending, IndTypeOK, TypeOK, StoreTypeOK, Latest
<1>2. Snapshot.exact = [f \in Files |-> IF f \in Pending THEN Latest(f) + 1 ELSE 0]
  BY DEF Snapshot, NewVersions
<1> QED
  BY <1>1, <1>2 DEF Covered

\* The steps that take a snapshot.
LEMMA SnapshotAccounted ==
  ASSUME IndTypeOK, WrittenTypeOK, WrittenNext, RecordsGrown, NEW r \in Runs, Accounted(r),
         run[r].pc \in {"open", "closing"}, work' = work,
         run[r].calls = {}, NEW where \in {"compacting", "recording"},
         run' = [run EXCEPT ![r].pc = where, ![r].snap = Snapshot]
  PROVE  Accounted(r)'
<1>1. run \in [Runs -> RunStates] /\ run[r] \in RunStates
  BY DEF IndTypeOK, TypeOK, RunsTypeOK
<1>2. run'[r] = [run[r] EXCEPT !.pc = where, !.snap = Snapshot]
  BY <1>1
<1>3. run'[r].pc = where /\ run'[r].calls = run[r].calls /\ run'[r].snap = Snapshot
  BY <1>1, <1>2 DEF RunStates
<1>4. written'[r] = written[r]
  BY NothingChanged
<1>5. Left(r)' \subseteq Left(r)
  BY <1>4, LeftShrinks
<1>6. Left(r) \subseteq Covered(Snapshot)
  BY SnapshotCovers DEF Accounted
<1>7. Covered(Snapshot) = Covered(run'[r].snap)
  BY <1>3
<1>8. Left(r)' \subseteq Covered(run'[r].snap)
  BY <1>5, <1>6, <1>7
<1> QED
  BY <1>3, <1>8 DEF Accounted

LEMMA CompactAccounted ==
  ASSUME IndTypeOK, WrittenTypeOK, WrittenNext, RecordsGrown, NEW r \in Runs, Accounted(r),
         Compact(r)
  PROVE  Accounted(r)'
BY SnapshotAccounted DEF Compact, TurnOver

LEMMA FinalizeAccounted ==
  ASSUME IndTypeOK, WrittenTypeOK, WrittenNext, RecordsGrown, NEW r \in Runs, Accounted(r),
         Finalize(r)
  PROVE  Accounted(r)'
<1>1. run[r].pc = "closing" /\ run[r].calls = {} /\ work' = work
  BY DEF Finalize, Accounted
<1>2. CASE run[r].wrote /\ Pending # {}
  <2>1. run' = [run EXCEPT ![r].pc = "recording", ![r].snap = Snapshot]
    BY <1>2 DEF Finalize
  <2> QED
    BY <1>1, <2>1, SnapshotAccounted
<1>3. CASE ~(run[r].wrote /\ Pending # {})
  <2>1. Left(r) = {}
    BY <1>1, <1>3 DEF Accounted
  <2>2. run'[r].pc = "done" /\ run'[r].calls = {}
    BY <1>1, <1>3 DEF Finalize, IndTypeOK, TypeOK, RunsTypeOK, RunStates, Accounted
  <2>3. written'[r] = written[r]
    BY <1>1, NothingChanged
  <2>4. Left(r)' = {}
    BY <2>1, <2>3, LeftShrinks
  <2> QED
    BY <2>2, <2>4 DEF Accounted
<1> QED
  BY <1>2, <1>3

\* A turn that is cut short by the end of the run has marked it.
LEMMA EndRunAccounted ==
  ASSUME IndTypeOK, WrittenTypeOK, WrittenNext, RecordsGrown, NEW r \in Runs, Accounted(r),
         Unharmed(r), EndRun(r)
  PROVE  Accounted(r)'
<1>1. run \in [Runs -> RunStates] /\ run[r] \in RunStates /\ work' = work /\ pending' = pending
  BY DEF EndRun, IndTypeOK, TypeOK, RunsTypeOK
<1>2. run'[r] = [run[r] EXCEPT !.pc = "closing"] /\ run[r].pc = "open"
  BY <1>1 DEF EndRun
<1>3. run'[r].pc = "closing" /\ run'[r].wrote = run[r].wrote /\ run'[r].calls = {}
  BY <1>1, <1>2 DEF RunStates, EndRun
<1>4. ~run[r].turnWrote
  BY <1>2, <1>3 DEF Unharmed, Cut
<1>5. written'[r] = written[r]
  BY <1>1, NothingChanged
<1>6. Left(r)' \subseteq Left(r) /\ Pending' = Pending
  BY <1>1, <1>5, LeftShrinks DEF Pending
<1> QED
  BY <1>2, <1>3, <1>4, <1>6 DEF Accounted

\* What a record covers is left to no one.
LEMMA RecordAccounted ==
  ASSUME IndTypeOK, WrittenTypeOK, WrittenNext, RecordsGrown, NEW r \in Runs, Accounted(r),
         Unharmed(r), RecordCompaction(r) \/ RecordRunEnd(r) \/ ResetAfterRun(r)
  PROVE  Accounted(r)'
<1>1. run \in [Runs -> RunStates] /\ run[r] \in RunStates /\ work' = work /\ RecordsTypeOK
  BY DEF IndTypeOK, TypeOK, RunsTypeOK, RecordCompaction, RecordRunEnd, ResetAfterRun
<1>2. written'[r] = written[r] /\ Left(r)' \subseteq Left(r)
  BY <1>1, NothingChanged, LeftShrinks
<1>3. ASSUME NEW kind \in {"run", "compact"}, cps' = Append(cps, CpRecord(kind, r, run[r].snap)),
             Left(r) \subseteq Covered(run[r].snap)
      PROVE  Left(r)' = {}
  <2>1. Covered(run[r].snap) \subseteq CoveredByRun(r)'
    BY <1>1, <1>3, NewlyCovered
  <2> QED
    BY <1>2, <1>3, <2>1 DEF Left
<1>4. CASE RecordCompaction(r)
  <2>1. /\ run'[r] = [run[r] EXCEPT !.pc = "open", !.snap = NoSnapshot]
        /\ run[r].pc = "compacting"
    BY <1>1, <1>4 DEF RecordCompaction
  <2>2. run'[r].pc = "open" /\ run'[r].calls = {}
    BY <1>1, <2>1 DEF RunStates, Accounted
  <2>3. cps' # cps
    BY <2>1, <2>2 DEF Unharmed, Failed, SnapshotLeft
  <2>4. Left(r)' = {}
    BY <1>3, <1>4, <2>1, <2>3 DEF RecordCompaction, Accounted
  <2> QED
    BY <2>2, <2>4 DEF Accounted
<1>5. CASE RecordRunEnd(r)
  <2>1. run[r].pc = "recording" /\ run'[r].pc \in {"resetting", "done"} /\ run'[r].calls = {}
    <3>0. run[r].pc = "recording" /\ run[r].calls = {}
      BY <1>5 DEF RecordRunEnd, Accounted
    <3>1. \/ run'[r] = [run[r] EXCEPT !.pc = "resetting", !.snap = NoSnapshot]
          \/ run'[r] = [run[r] EXCEPT !.pc = "done", !.snap = NoSnapshot]
      BY <1>1, <1>5 DEF RecordRunEnd
    <3> QED
      BY <1>1, <3>0, <3>1 DEF RunStates
  <2>2. run'[r].pc # "done"
    BY <2>1 DEF Unharmed, Failed
  <2>3. cps' = Append(cps, CpRecord("run", r, run[r].snap))
    <3>1. CASE run' = [run EXCEPT ![r].pc = "done", ![r].snap = NoSnapshot]
      <4>1. run'[r] = [run[r] EXCEPT !.pc = "done", !.snap = NoSnapshot]
        BY <1>1, <3>1
      <4>2. run'[r].pc = "done"
        BY <1>1, <4>1 DEF RunStates
      <4> QED
        BY <2>2, <4>2
    <3> QED
      BY <1>5, <3>1 DEF RecordRunEnd
  <2>4. Left(r)' = {}
    BY <1>3, <2>1, <2>3 DEF Accounted
  <2> QED
    BY <2>1, <2>4 DEF Accounted
<1>6. CASE ResetAfterRun(r)
  <2>1. run[r].pc = "resetting" /\ run'[r].pc = "done" /\ run'[r].calls = {}
    BY <1>1, <1>6 DEF ResetAfterRun, RunStates, Accounted
  <2>2. Left(r)' = {}
    BY <1>2, <2>1 DEF Accounted
  <2> QED
    BY <2>1, <2>2 DEF Accounted
<1> QED
  BY <1>4, <1>5, <1>6

LEMMA OwnStepAccounted ==
  ASSUME IndTypeOK, WrittenTypeOK, WrittenNext, RecordsGrown, NEW r \in Runs, Accounted(r),
         Unharmed(r), RunStep(r)
  PROVE  Accounted(r)'
<1>1. CASE CallStep(r)
  <2>1. ASSUME NEW c \in run[r].calls PROVE run[r].pc = "open"
    BY <2>1 DEF Accounted
  <2>2. ASSUME NEW tool \in Tools, NEW f \in Files, BeginCall(r, tool, f) PROVE Accounted(r)'
    BY <2>2, BeginCallAccounted
  <2>3. ASSUME NEW c \in run[r].calls,
               DeleteFile(r, c) \/ \E content \in Contents : WriteFile(r, c, content)
        PROVE  Accounted(r)'
    BY <2>1, <2>3, CallReturnsAccounted
  <2>4. ASSUME NEW c \in run[r].calls, FailCall(r, c) PROVE Accounted(r)'
    BY <2>1, <2>4, TurnAccounted
  <2>5. ASSUME NEW f \in Files, NEW content \in State, BashWrite(r, f, content)
        PROVE  Accounted(r)'
    <3>1. run[r].pc = "open"
      BY <2>5 DEF BashWrite
    <3> QED
      BY <2>5, <3>1, TurnAccounted
  <2> QED
    BY <1>1, <2>2, <2>3, <2>4, <2>5 DEF CallStep
<1>2. CASE EndTurn(r)
  <2>1. run[r].pc = "open"
    BY <1>2 DEF EndTurn
  <2> QED
    BY <1>2, <2>1, TurnAccounted
<1> QED
  BY <1>1, <1>2, StartRunAccounted, CompactAccounted, EndRunAccounted, FinalizeAccounted,
     RecordAccounted DEF RunStep

-------------------------------------------------------------------------------
(* The steps of others, and what they leave the run. *)

\* A crash that harms no run found it with nothing left to record.
LEMMA CrashAccounted ==
  ASSUME IndTypeOK, WrittenTypeOK, WrittenNext, RecordsGrown, NEW r \in Runs, Accounted(r),
         Unharmed(r), Crash
  PROVE  Accounted(r)'
<1>1. run[r] \in RunStates /\ work' = work
  BY DEF Crash, IndTypeOK, TypeOK, RunsTypeOK
<1>2. written'[r] = written[r] /\ Left(r)' \subseteq Left(r)
  BY <1>1, NothingChanged, LeftShrinks
<1>3. CASE run[r].pc = "idle"
  <2>1. run'[r] = run[r]
    BY <1>3 DEF Crash
  <2> QED
    BY <1>2, <1>3, <2>1 DEF Accounted
<1>4. CASE run[r].pc # "idle"
  <2>1. run'[r].pc = "done" /\ run'[r].calls = {}
    BY <1>4 DEF Crash, NewRun
  <2>2. run[r].pc \in {"closing", "resetting", "done"}
    BY <1>1, <1>4, <2>1 DEF Unharmed, Failed, RunStates
  <2>3. CASE run[r].pc = "closing"
    <3>1. ~(run[r].wrote /\ Pending # {})
      BY <2>1, <2>3 DEF Unharmed, Failed
    <3>2. Left(r) \subseteq Pending /\ (Left(r) # {} => run[r].wrote)
      BY <2>3 DEF Accounted
    <3>3. Left(r)' = {}
      BY <1>2, <3>1, <3>2
    <3> QED
      BY <2>1, <3>3 DEF Accounted
  <2>4. CASE run[r].pc \in {"resetting", "done"}
    <3>1. Left(r)' = {}
      BY <1>2, <2>4 DEF Accounted
    <3> QED
      BY <2>1, <3>1 DEF Accounted
  <2> QED
    BY <2>2, <2>3, <2>4
<1> QED
  BY <1>3, <1>4

\* While a run is the only active one the others leave its captures pending.
LEMMA OtherStepAccounted ==
  ASSUME IndTypeOK, WrittenTypeOK, WrittenNext, RecordsGrown, NEW r \in Runs, Accounted(r),
         Alone, FateNext, fate'[r] = {}, NEW o \in Runs, o # r, RunStep(o)
  PROVE  Accounted(r)'
<1>1. run'[r] = run[r] /\ fate[r] = {}
  BY OnlyOwnRun, FateGrows
<1>2. r \in Active => pending' = pending
  <2> SUFFICES ASSUME r \in Active PROVE pending' = pending
    OBVIOUS
  <2>1. r \in Active'
    BY <1>1 DEF Active
  <2>2. Active = {r} /\ Active' = {r}
    BY <1>1, <2>1, AloneNext DEF Alone
  <2> QED
    BY <2>2, PendingChanger
<1> QED
  BY <1>1, <1>2, AsideAccounted

-------------------------------------------------------------------------------
(* The theorem. *)

LEMMA AccountedNext ==
  ASSUME WritesInv, Next, WrittenNext, FateNext, NEW r \in Runs, fate'[r] = {}
  PROVE  Accounted(r)'
<1>1. IndTypeOK /\ Alone /\ WrittenTypeOK /\ RecordsGrown
  BY RecordsGrow DEF WritesInv, CaptureInv, WrittenTypeOK
<1>2. fate[r] = {} /\ Accounted(r)
  BY FateGrows DEF WritesInv
<1>3. Unharmed(r)
  BY DEF FateNext, Unharmed
<1>4. CASE RunStep(r)
  BY <1>1, <1>2, <1>3, <1>4, OwnStepAccounted
<1>5. ASSUME NEW o \in Runs, o # r, RunStep(o) PROVE Accounted(r)'
  BY <1>1, <1>2, <1>5, OtherStepAccounted
<1>6. CASE RestoreStep \/ \E f \in Files, content \in State : UserWrite(f, content)
  <2>1. run' = run /\ pending' = pending
    BY <1>6 DEF RestoreStep, Restore, Undo, RestoreBaseline, BeginRestore, PutBack,
                FinishRestore, FailRestore, UserWrite
  <2> QED
    BY <1>1, <1>2, <2>1, AsideAccounted
<1>7. CASE Crash
  BY <1>1, <1>2, <1>3, <1>7, CrashAccounted
<1> QED
  BY <1>4, <1>5, <1>6, <1>7 DEF Next

LEMMA WrittenTypeNext ==
  ASSUME IndTypeOK, WrittenTypeOK, WrittenNext
  PROVE  WrittenTypeOK'
<1>1. \A r \in Runs : \A c \in run[r].calls : c.file \in Files
  BY DEF IndTypeOK, TypeOK, RunsTypeOK, RunStates, Calls
<1>2. \A r \in Runs : ChangedBy(r) \subseteq Files
  BY <1>1 DEF ChangedBy
<1> QED
  BY <1>2 DEF WrittenNext, WrittenTypeOK

LEMMA WritesNext ==
  ASSUME WritesInv, [Next /\ FirstNext /\ WrittenNext /\ FateNext]_varsH
  PROVE  WritesInv'
<1>1. CaptureInv' /\ IndTypeOK
  BY CaptureNext DEF WritesInv, CaptureInv
<1>2. CASE Next /\ WrittenNext /\ FateNext
  <2>1. WrittenTypeOK'
    BY <1>1, <1>2, WrittenTypeNext DEF WritesInv, WrittenTypeOK
  <2>2. \A r \in Runs : fate'[r] = {} => Accounted(r)'
    BY <1>2, AccountedNext
  <2> QED
    BY <1>1, <2>1, <2>2 DEF WritesInv, WrittenTypeOK
<1>3. CASE UNCHANGED varsH
  BY <1>1, <1>3 DEF WritesInv, Accounted, Left, CoveredByRun, Pending, varsH, vars
<1> QED
  BY <1>2, <1>3

LEMMA WritesInit ==
  ASSUME InitH
  PROVE  WritesInv
<1>1. written = [r \in Runs |-> {}] /\ run = [r \in Runs |-> NewRun]
  BY DEF InitH, Init
<1>2. \A r \in Runs : Accounted(r)
  BY <1>1 DEF Accounted, NewRun
<1> QED
  BY <1>1, <1>2, CaptureInit DEF WritesInv

\* Every file that a run changed by a captured call is covered by a checkpoint
\* of the run when it is over, unless another run overlapped it, it was canceled
\* in a turn that had written, or a crash or the database interfered.
THEOREM WritesReachCheckpoint == SpecH => []RunWritesCheckpointed
<1>1. WritesInv => RunWritesCheckpointed
  BY DEF WritesInv, Accounted, Left, RunWritesCheckpointed, WritesCheckpointed
<1> QED
  BY <1>1, WritesInit, WritesNext, PTL DEF SpecH
===============================================================================
