------------------------- MODULE RunCheckpointsProofs -------------------------
(* Proofs about RunCheckpoints and what its restores bring back, for any files, *)
(* contents, runs and bounds.                                                  *)
EXTENDS RestoreHistory, TLAPS

-------------------------------------------------------------------------------
(* The store. *)

\* Versions are only added.
Grown ==
  \A f \in Files : /\ Latest(f) <= Latest(f)'
                   /\ \A n \in 1..Latest(f) : versions'[f][n] = versions[f][n]

LEMMA AppendToSeq ==
  ASSUME NEW T, NEW s \in Seq(T), NEW e \in T
  PROVE  /\ Len(s) \in Nat
         /\ Append(s, e) \in Seq(T)
         /\ Len(Append(s, e)) = Len(s) + 1
         /\ \A n \in 1..Len(s) : Append(s, e)[n] = s[n]
         /\ Append(s, e)[Len(s) + 1] = e
  OBVIOUS

LEMMA VersionedGrows ==
  ASSUME work \in [Files -> State], StoreTypeOK, NEW S, versions' = Versioned(S)
  PROVE  /\ versions' \in [Files -> Seq(State)]
         /\ \A f \in Files : Latest(f)' = IF f \in S THEN Latest(f) + 1 ELSE Latest(f)
         /\ \A f \in S \cap Files : versions'[f][Latest(f) + 1] = work[f]
         /\ Grown
<1>1. ASSUME NEW f \in Files
      PROVE  /\ versions[f] \in Seq(State) /\ work[f] \in State
             /\ versions'[f] = IF f \in S THEN Append(versions[f], work[f]) ELSE versions[f]
  BY <1>1 DEF StoreTypeOK, Versioned
<1>2. versions' \in [Files -> Seq(State)]
  BY <1>1 DEF Versioned
<1>3. ASSUME NEW f \in Files
      PROVE  /\ Latest(f)' = IF f \in S THEN Latest(f) + 1 ELSE Latest(f)
             /\ Latest(f) \in Nat
             /\ \A n \in 1..Latest(f) : versions'[f][n] = versions[f][n]
             /\ f \in S => versions'[f][Latest(f) + 1] = work[f]
  <2>1. CASE f \in S
    <3>1. /\ versions'[f] = Append(versions[f], work[f])
          /\ versions[f] \in Seq(State) /\ work[f] \in State
      BY <1>1, <1>3, <2>1
    <3>2. /\ Len(versions[f]) \in Nat
          /\ Len(versions'[f]) = Len(versions[f]) + 1
          /\ \A n \in 1..Len(versions[f]) : versions'[f][n] = versions[f][n]
          /\ versions'[f][Len(versions[f]) + 1] = work[f]
      BY <3>1, AppendToSeq
    <3> QED
      BY <2>1, <3>2 DEF Latest
  <2>2. CASE f \notin S
    BY <1>1, <1>3, <2>2 DEF Latest
  <2> QED
    BY <2>1, <2>2
<1> QED
  BY <1>2, <1>3 DEF Grown

LEMMA AppendGrows ==
  ASSUME StoreTypeOK, NEW g \in Files, NEW content \in State,
         versions' = [versions EXCEPT ![g] = Append(@, content)]
  PROVE  versions' \in [Files -> Seq(State)] /\ Grown
<1>1. ASSUME NEW f \in Files
      PROVE  /\ versions[f] \in Seq(State)
             /\ versions'[f] = IF f = g THEN Append(versions[f], content) ELSE versions[f]
  BY <1>1 DEF StoreTypeOK
<1>2. ASSUME NEW f \in Files
      PROVE  /\ Latest(f) <= Latest(f)'
             /\ \A n \in 1..Latest(f) : versions'[f][n] = versions[f][n]
  BY <1>1, <1>2, AppendToSeq DEF Latest
<1>3. versions' \in [Files -> Seq(State)]
  BY <1>1 DEF StoreTypeOK
<1> QED
  BY <1>2, <1>3 DEF Grown

LEMMA UnchangedGrows ==
  ASSUME StoreTypeOK, UNCHANGED versions
  PROVE  versions' \in [Files -> Seq(State)] /\ Grown
<1>1. \A f \in Files : Latest(f) \in Nat /\ Latest(f)' = Latest(f)
  BY DEF StoreTypeOK, Latest
<1> QED
  BY <1>1 DEF Grown, StoreTypeOK

\* VersionsExist of the next state.
ExistNext(snap) ==
  \A f \in Files : /\ (snap.base[f] = 0) <=> (snap.exact[f] = 0)
                   /\ snap.base[f] <= snap.exact[f]
                   /\ snap.exact[f] <= Latest(f)'

\* What exists goes on existing.
LEMMA StillExist ==
  ASSUME StoreTypeOK, Grown, versions' \in [Files -> Seq(State)],
         NEW snap \in Snapshots, VersionsExist(snap)
  PROVE  ExistNext(snap)
<1>1. \A f \in Files : Latest(f) \in Nat /\ Latest(f)' \in Nat /\ Latest(f) <= Latest(f)'
  BY DEF StoreTypeOK, Latest, Grown
<1>2. \A f \in Files : snap.exact[f] \in Nat
  BY DEF Snapshots
<1> QED
  BY <1>1, <1>2 DEF VersionsExist, ExistNext

LEMMA NoSnapshotExists ==
  ASSUME versions' \in [Files -> Seq(State)] 
  PROVE  NoSnapshot \in Snapshots /\ ExistNext(NoSnapshot)
<1>1. \A f \in Files : Latest(f)' \in Nat
  BY DEF Latest
<1> QED
  BY <1>1 DEF NoSnapshot, Snapshots, Unversioned, ExistNext

\* The snapshot of the pending captures, and a guard, with the versions they add.
LEMMA SnapshotTaken ==
  ASSUME work \in [Files -> State], StoreTypeOK, versions' = Versioned(Pending),
         NEW snap, snap = Snapshot
  PROVE  snap \in Snapshots /\ ExistNext(snap)
<1>1. \A f \in Files : /\ pending[f] \in Nat /\ pending[f] <= Latest(f) /\ Latest(f) \in Nat
                       /\ Latest(f)' = IF f \in Pending THEN Latest(f) + 1 ELSE Latest(f)
  BY VersionedGrows DEF StoreTypeOK, Latest
<1>2. /\ snap.base = pending
      /\ snap.exact = [f \in Files |-> IF f \in Pending THEN Latest(f) + 1 ELSE 0]
      /\ snap = [base |-> snap.base, exact |-> snap.exact]
  BY DEF Snapshot, NewVersions
<1>3. snap \in Snapshots
  <2>1. snap.base \in [Files -> Nat]
    BY <1>2 DEF StoreTypeOK
  <2>2. snap.exact \in [Files -> Nat]
    BY <1>1, <1>2
  <2> QED
    BY <1>2, <2>1, <2>2 DEF Snapshots
<1>4. ExistNext(snap)
  BY <1>1, <1>2 DEF ExistNext, Pending
<1> QED
  BY <1>3, <1>4

LEMMA GuardTaken ==
  ASSUME work \in [Files -> State], StoreTypeOK, NEW S \in SUBSET Files,
         versions' = Versioned(S), NEW snap, snap = Guard(S)
  PROVE  snap \in Snapshots /\ ExistNext(snap)
<1>1. \A f \in Files : /\ Latest(f) \in Nat
                       /\ Latest(f)' = IF f \in S THEN Latest(f) + 1 ELSE Latest(f)
  BY VersionedGrows DEF StoreTypeOK, Latest
<1>2. /\ snap.base = [f \in Files |-> IF f \in S THEN Latest(f) + 1 ELSE 0]
      /\ snap.exact = snap.base
      /\ snap = [base |-> snap.base, exact |-> snap.exact]
  BY DEF Guard, NewVersions
<1>3. snap \in Snapshots
  BY <1>1, <1>2 DEF Snapshots
<1>4. ExistNext(snap)
  BY <1>1, <1>2 DEF VersionsExist, ExistNext
<1> QED
  BY <1>3, <1>4

\* A store whose versions only grew, and whose pending captures stayed or went.
LEMMA StoreKept ==
  ASSUME StoreTypeOK, Grown, versions' \in [Files -> Seq(State)],
         pending' \in {pending, Unversioned}
  PROVE  StoreTypeOK'
<1>1. \A f \in Files : Latest(f) \in Nat /\ Latest(f)' \in Nat /\ Latest(f) <= Latest(f)'
  BY DEF StoreTypeOK, Latest, Grown
<1> QED
  BY <1>1 DEF StoreTypeOK, Unversioned

-------------------------------------------------------------------------------
(* Runs and records. *)

LEMMA RunsKept ==
  ASSUME StoreTypeOK, RunsTypeOK, Grown, versions' \in [Files -> Seq(State)], UNCHANGED run
  PROVE  RunsTypeOK'
<1>1. \A r \in Runs : run[r].snap \in Snapshots
  BY DEF RunsTypeOK, RunStates
<1> QED
  BY <1>1, StillExist DEF RunsTypeOK, ExistNext, VersionsExist

LEMMA RunChanged ==
  ASSUME StoreTypeOK, RunsTypeOK, Grown, versions' \in [Files -> Seq(State)],
         NEW r \in Runs, NEW new \in RunStates, ExistNext(new.snap),
         run' = [run EXCEPT ![r] = new]
  PROVE  RunsTypeOK'
<1>1. \A o \in Runs : run[o].snap \in Snapshots /\ VersionsExist(run[o].snap)
  BY DEF RunsTypeOK, RunStates
<1>2. ASSUME NEW o \in Runs PROVE ExistNext(run'[o].snap)
  <2>1. CASE o = r
    BY <2>1 DEF RunsTypeOK
  <2>2. CASE o # r
    BY <1>1, <2>2, StillExist DEF RunsTypeOK
  <2> QED
    BY <2>1, <2>2
<1> QED
  BY <1>2 DEF RunsTypeOK, ExistNext, VersionsExist

LEMMA RecordSnapshots ==
  ASSUME RecordsTypeOK, NEW i \in DOMAIN cps
  PROVE  /\ cps[i] \in CpRecords
         /\ cps[i].snap \in Snapshots /\ VersionsExist(cps[i].snap)
<1>1. cps \in Seq(CpRecords)
  BY DEF RecordsTypeOK
<1>2. cps[i] \in CpRecords
  BY <1>1
<1> QED
  BY <1>2 DEF RecordsTypeOK, CpRecords

LEMMA RecordsKept ==
  ASSUME StoreTypeOK, RecordsTypeOK, Grown, versions' \in [Files -> Seq(State)], UNCHANGED cps
  PROVE  RecordsTypeOK'
<1>1. ASSUME NEW i \in DOMAIN cps
      PROVE  cps[i].snap \in Snapshots /\ VersionsExist(cps[i].snap)
  BY RecordSnapshots
<1>2. \A i \in DOMAIN cps : ExistNext(cps[i].snap)
  BY <1>1, StillExist
<1> QED
  BY <1>2 DEF RecordsTypeOK, ExistNext, VersionsExist

LEMMA RecordAdded ==
  ASSUME StoreTypeOK, RecordsTypeOK, Grown, versions' \in [Files -> Seq(State)],
         NEW kind \in {"run", "compact", "guard"}, NEW r \in Runs, NEW snap \in Snapshots,
         ExistNext(snap), cps' = Append(cps, CpRecord(kind, r, snap))
  PROVE  /\ RecordsTypeOK'
         /\ Len(cps) + 1 \in DOMAIN cps'
         /\ \A i \in DOMAIN cps : i \in DOMAIN cps' /\ cps'[i] = cps[i]
<1>1. CpRecord(kind, r, snap) \in CpRecords /\ CpRecord(kind, r, snap).snap = snap
  BY DEF CpRecord, CpRecords
<1>2. cps \in Seq(CpRecords)
  BY DEF RecordsTypeOK
<1>3. /\ Len(cps) \in Nat /\ DOMAIN cps = 1..Len(cps)
      /\ cps' \in Seq(CpRecords) /\ Len(cps') = Len(cps) + 1
      /\ DOMAIN cps' = 1..(Len(cps) + 1)
      /\ \A i \in 1..Len(cps) : cps'[i] = cps[i]
      /\ cps'[Len(cps) + 1] = CpRecord(kind, r, snap)
  BY <1>1, <1>2, AppendToSeq
<1>4. ASSUME NEW i \in DOMAIN cps' PROVE ExistNext(cps'[i].snap)
  <2>1. CASE i = Len(cps) + 1
    BY <1>1, <1>3, <2>1
  <2>2. CASE i \in DOMAIN cps
    <3>1. cps[i].snap \in Snapshots /\ VersionsExist(cps[i].snap) /\ cps'[i] = cps[i]
      BY <1>3, <2>2, RecordSnapshots
    <3> QED
      BY <3>1, StillExist
  <2> QED
    BY <1>3, <2>1, <2>2
<1> QED
  BY <1>3, <1>4 DEF RecordsTypeOK, ExistNext, VersionsExist

-------------------------------------------------------------------------------
(* The type invariant. *)

\* Without an operation nothing is left to put back, and a baseline restore puts
\* back only files its target covers, so that there is a version to go back to.
BaselineCovers ==
  /\ op.kind = "none" => op.left = {}
  /\ op.kind = "baseline" => op.left \subseteq Covered(cps[op.target].snap)

IndTypeOK == TypeOK /\ BaselineCovers

\* An operation in progress is not disturbed by what others do to the records.
LEMMA OpKept ==
  ASSUME OpTypeOK, BaselineCovers, UNCHANGED op,
         \A i \in DOMAIN cps : i \in DOMAIN cps' /\ cps'[i].snap = cps[i].snap
  PROVE  OpTypeOK' /\ BaselineCovers'
  BY DEF OpTypeOK, BaselineCovers, Operations, Covered

\* A step of one run, or of none, that records no checkpoint.
LEMMA RunStepType ==
  ASSUME IndTypeOK, work' \in [Files -> State], StoreTypeOK', Grown, UsedTypeOK',
         UNCHANGED <<cps, op>>, NEW r \in Runs, NEW new \in RunStates, ExistNext(new.snap),
         run' = [run EXCEPT ![r] = new]
  PROVE  IndTypeOK'
<1>1. versions' \in [Files -> Seq(State)]
  BY DEF StoreTypeOK
<1>2. RunsTypeOK'
  BY <1>1, RunChanged DEF IndTypeOK, TypeOK
<1>3. RecordsTypeOK'
  BY <1>1, RecordsKept DEF IndTypeOK, TypeOK
<1>4. OpTypeOK' /\ BaselineCovers'
  BY OpKept DEF IndTypeOK, TypeOK
<1> QED
  BY <1>2, <1>3, <1>4 DEF IndTypeOK, TypeOK

\* A step that leaves the store alone keeps the snapshot a run has in hand.
LEMMA StoreStill ==
  ASSUME IndTypeOK, UNCHANGED versions, pending' \in {pending, Unversioned}
  PROVE  /\ StoreTypeOK' /\ Grown /\ versions' \in [Files -> Seq(State)]
         /\ \A r \in Runs : run[r] \in RunStates /\ ExistNext(run[r].snap)
         /\ NoSnapshot \in Snapshots /\ ExistNext(NoSnapshot)
<1>1. /\ StoreTypeOK /\ versions' \in [Files -> Seq(State)] /\ Grown
  BY UnchangedGrows DEF IndTypeOK, TypeOK
<1>2. \A r \in Runs : /\ run[r] \in RunStates /\ run[r].snap \in Snapshots
                      /\ VersionsExist(run[r].snap)
  BY DEF IndTypeOK, TypeOK, RunsTypeOK, RunStates
<1> QED
  BY <1>1, <1>2, StoreKept, StillExist, NoSnapshotExists

LEMMA StartRunType ==
  ASSUME IndTypeOK, NEW r \in Runs, StartRun(r)
  PROVE  IndTypeOK'
<1> DEFINE new == [run[r] EXCEPT !.pc = "open"]
<1>1. new \in RunStates /\ new.snap = run[r].snap
  BY StoreStill DEF StartRun, Reset, RunStates
<1>2. /\ run' = [run EXCEPT ![r] = new]
      /\ work' \in [Files -> State] /\ UsedTypeOK' /\ UNCHANGED <<cps, op>>
  BY DEF StartRun, IndTypeOK, TypeOK, UsedTypeOK
<1> QED
  BY <1>1, <1>2, StoreStill, RunStepType DEF StartRun, Reset

\* Snapshots in hand go on existing while versions are added.
LEMMA InHand ==
  ASSUME IndTypeOK, Grown, versions' \in [Files -> Seq(State)]
  PROVE  /\ \A r \in Runs : run[r] \in RunStates /\ ExistNext(run[r].snap)
         /\ NoSnapshot \in Snapshots /\ ExistNext(NoSnapshot)
<1>1. \A r \in Runs : /\ run[r] \in RunStates /\ run[r].snap \in Snapshots
                      /\ VersionsExist(run[r].snap)
  BY DEF IndTypeOK, TypeOK, RunsTypeOK, RunStates
<1> QED
  BY <1>1, StillExist, NoSnapshotExists DEF IndTypeOK, TypeOK

LEMMA CaptureType ==
  ASSUME IndTypeOK, NEW f \in Files, CapturePreWrite(f)
  PROVE  StoreTypeOK' /\ Grown /\ versions' \in [Files -> Seq(State)]
<1>1. CASE pending[f] # 0
  BY <1>1, StoreStill DEF CapturePreWrite
<1>2. CASE pending[f] = 0
  <2>1. /\ versions' = Versioned({f})
        /\ pending' = [pending EXCEPT ![f] = Latest(f) + 1]
    BY <1>2 DEF CapturePreWrite
  <2>2. /\ versions' \in [Files -> Seq(State)] /\ Grown
        /\ \A g \in Files : Latest(g)' = IF g \in {f} THEN Latest(g) + 1 ELSE Latest(g)
    BY <2>1, VersionedGrows DEF IndTypeOK, TypeOK
  <2>3. \A g \in Files : Latest(g) \in Nat /\ pending[g] \in Nat /\ pending[g] <= Latest(g)
    BY DEF IndTypeOK, TypeOK, StoreTypeOK, Latest
  <2>4. \A g \in Files : pending'[g] = IF g = f THEN Latest(g) + 1 ELSE pending[g]
    BY <2>1 DEF IndTypeOK, TypeOK, StoreTypeOK
  <2>5. pending' \in [Files -> Nat]
    BY <2>1, <2>3 DEF IndTypeOK, TypeOK, StoreTypeOK
  <2> QED
    BY <2>2, <2>3, <2>4, <2>5 DEF StoreTypeOK
<1> QED
  BY <1>1, <1>2

LEMMA BeginCallType ==
  ASSUME IndTypeOK, NEW r \in Runs, NEW tool \in Tools, NEW f \in Files, BeginCall(r, tool, f)
  PROVE  IndTypeOK'
<1> DEFINE c == [tool |-> tool, file |-> f, found |-> work[f]]
           new == [run[r] EXCEPT !.calls = @ \cup {c}]
<1>1. StoreTypeOK' /\ Grown /\ versions' \in [Files -> Seq(State)]
  BY CaptureType DEF BeginCall
<1>2. c \in Calls
  BY DEF Calls, IndTypeOK, TypeOK
<1>3. new \in RunStates /\ ExistNext(new.snap)
  BY <1>1, <1>2, InHand DEF RunStates
<1>4. /\ run' = [run EXCEPT ![r] = new]
      /\ work' \in [Files -> State] /\ UsedTypeOK' /\ UNCHANGED <<cps, op>>
  BY DEF BeginCall, IndTypeOK, TypeOK, UsedTypeOK
<1> QED
  BY <1>1, <1>3, <1>4, RunStepType

\* The run of a call that has returned.
LEMMA ReturnedType ==
  ASSUME IndTypeOK, NEW r \in Runs, NEW c \in run[r].calls, NEW content,
         Returned(r, c, content)
  PROVE  \E new \in RunStates : /\ run' = [run EXCEPT ![r] = new]
                                /\ new.snap = run[r].snap
<1> DEFINE new == [run[r] EXCEPT !.calls = @ \ {c}, !.turnWrote = @ \/ content # c.found]
<1>1. run[r] \in RunStates
  BY DEF IndTypeOK, TypeOK, RunsTypeOK
<1>2. (run[r].turnWrote \/ content # c.found) \in BOOLEAN
  OBVIOUS
<1>3. new \in RunStates /\ new.snap = run[r].snap
  BY <1>1, <1>2 DEF RunStates
<1>4. run' = [run EXCEPT ![r] = new]
  BY DEF Returned
<1> QED
  BY <1>3, <1>4

LEMMA WriteFileType ==
  ASSUME IndTypeOK, NEW r \in Runs, NEW c \in run[r].calls, NEW content \in Contents,
         WriteFile(r, c, content)
  PROVE  IndTypeOK'
<1>1. PICK new \in RunStates : run' = [run EXCEPT ![r] = new] /\ new.snap = run[r].snap
  BY ReturnedType DEF WriteFile
<1>2. c.file \in Files
  BY DEF IndTypeOK, TypeOK, RunsTypeOK, RunStates, Calls
<1>3. work' \in [Files -> State] /\ UsedTypeOK' /\ UNCHANGED <<versions, pending, cps, op>>
  BY <1>2 DEF WriteFile, Writing, State, IndTypeOK, TypeOK, UsedTypeOK
<1> QED
  BY <1>1, <1>3, StoreStill, RunStepType

LEMMA DeleteFileType ==
  ASSUME IndTypeOK, NEW r \in Runs, NEW c \in run[r].calls, DeleteFile(r, c)
  PROVE  IndTypeOK'
<1>1. PICK new \in RunStates : run' = [run EXCEPT ![r] = new] /\ new.snap = run[r].snap
  BY ReturnedType DEF DeleteFile
<1>2. c.file \in Files
  BY DEF IndTypeOK, TypeOK, RunsTypeOK, RunStates, Calls
<1>3. Absent \in State
  BY DEF State
<1>4. /\ work' = [work EXCEPT ![c.file] = Absent]
      /\ versions' = [versions EXCEPT ![c.file] = Append(@, Absent)]
      /\ UNCHANGED <<pending, cps, op>>
      /\ UsedTypeOK'
  BY DEF DeleteFile, Writing, IndTypeOK, TypeOK, UsedTypeOK
<1>5. versions' \in [Files -> Seq(State)] /\ Grown
  BY <1>2, <1>3, <1>4, AppendGrows DEF IndTypeOK, TypeOK
<1>6. StoreTypeOK'
  BY <1>4, <1>5, StoreKept DEF IndTypeOK, TypeOK
<1>7. work' \in [Files -> State]
  BY <1>2, <1>3, <1>4 DEF IndTypeOK, TypeOK
<1> QED
  BY <1>1, <1>4, <1>5, <1>6, <1>7, InHand, RunStepType

LEMMA FailCallType ==
  ASSUME IndTypeOK, NEW r \in Runs, NEW c \in run[r].calls, FailCall(r, c)
  PROVE  IndTypeOK'
<1> DEFINE new == [run[r] EXCEPT !.calls = @ \ {c}]
<1>1. new \in RunStates /\ new.snap = run[r].snap
  BY StoreStill DEF FailCall, RunStates
<1>2. /\ run' = [run EXCEPT ![r] = new]
      /\ work' \in [Files -> State] /\ UsedTypeOK'
      /\ UNCHANGED <<versions, pending, cps, op>>
  BY DEF FailCall, IndTypeOK, TypeOK, UsedTypeOK
<1> QED
  BY <1>1, <1>2, StoreStill, RunStepType

LEMMA BashWriteType ==
  ASSUME IndTypeOK, NEW r \in Runs, NEW f \in Files, NEW content \in State,
         BashWrite(r, f, content)
  PROVE  IndTypeOK'
<1> DEFINE new == [run[r] EXCEPT !.turnWrote = TRUE]
<1>1. new \in RunStates /\ new.snap = run[r].snap
  BY StoreStill DEF BashWrite, RunStates
<1>2. /\ run' = [run EXCEPT ![r] = new]
      /\ work' \in [Files -> State] /\ UsedTypeOK'
      /\ UNCHANGED <<versions, pending, cps, op>>
  BY DEF BashWrite, Writing, IndTypeOK, TypeOK, UsedTypeOK
<1> QED
  BY <1>1, <1>2, StoreStill, RunStepType

\* The steps of a run that change nothing but where it is.
LEMMA MoveType ==
  ASSUME IndTypeOK, NEW r \in Runs, EndTurn(r) \/ EndRun(r) \/ ResetAfterRun(r)
  PROVE  IndTypeOK'
<1> USE DEF RunStates
<1>1. \E new \in RunStates : /\ run' = [run EXCEPT ![r] = new]
                             /\ new.snap = run[r].snap
  <2>1. run[r] \in RunStates
    BY DEF IndTypeOK, TypeOK, RunsTypeOK
  <2>2. CASE EndTurn(r)
    <3> DEFINE new == [run[r] EXCEPT !.wrote = TRUE, !.turnWrote = FALSE]
    <3>1. new \in RunStates /\ new.snap = run[r].snap /\ run' = [run EXCEPT ![r] = new]
      BY <2>1, <2>2 DEF EndTurn
    <3> QED
      BY <3>1
  <2>3. CASE EndRun(r)
    <3> DEFINE new == [run[r] EXCEPT !.pc = "closing"]
    <3>1. new \in RunStates /\ new.snap = run[r].snap /\ run' = [run EXCEPT ![r] = new]
      BY <2>1, <2>3 DEF EndRun
    <3> QED
      BY <3>1
  <2>4. CASE ResetAfterRun(r)
    <3> DEFINE new == [run[r] EXCEPT !.pc = "done"]
    <3>1. new \in RunStates /\ new.snap = run[r].snap /\ run' = [run EXCEPT ![r] = new]
      BY <2>1, <2>4 DEF ResetAfterRun
    <3> QED
      BY <3>1
  <2> QED
    BY <2>2, <2>3, <2>4
<1>2. /\ UNCHANGED <<work, versions, cps, op, used>>
      /\ pending' \in {pending, Unversioned}
  BY DEF EndTurn, EndRun, ResetAfterRun, Reset
<1>3. work' \in [Files -> State] /\ UsedTypeOK'
  BY <1>2 DEF IndTypeOK, TypeOK, UsedTypeOK
<1> QED
  BY <1>1, <1>2, <1>3, StoreStill, RunStepType

\* The steps of a run that take a snapshot.
LEMMA SnapshotType ==
  ASSUME IndTypeOK, NEW r \in Runs, versions' = Versioned(Pending),
         pending' \in {pending, Unversioned}, UNCHANGED <<work, cps, op>>, UsedTypeOK',
         NEW where \in {"compacting", "recording"},
         run' = [run EXCEPT ![r].pc = where, ![r].snap = Snapshot]
  PROVE  IndTypeOK'
<1> DEFINE new == [run[r] EXCEPT !.pc = where, !.snap = Snapshot]
<1>1. /\ versions' \in [Files -> Seq(State)] /\ Grown
      /\ work' \in [Files -> State]
  BY VersionedGrows DEF IndTypeOK, TypeOK
<1>2. Snapshot \in Snapshots /\ ExistNext(Snapshot)
  BY SnapshotTaken DEF IndTypeOK, TypeOK
<1>3. run[r] \in RunStates
  BY DEF IndTypeOK, TypeOK, RunsTypeOK
<1>4. new \in RunStates /\ new.snap = Snapshot
  BY <1>2, <1>3 DEF RunStates
<1>5. StoreTypeOK'
  BY <1>1, StoreKept DEF IndTypeOK, TypeOK
<1> QED
  BY <1>1, <1>2, <1>4, <1>5, RunStepType

LEMMA CompactType ==
  ASSUME IndTypeOK, NEW r \in Runs, Compact(r)
  PROVE  IndTypeOK'
<1>1. UsedTypeOK'
  BY DEF Compact, IndTypeOK, TypeOK, UsedTypeOK
<1> QED
  BY <1>1, SnapshotType DEF Compact, Reset

LEMMA FinalizeType ==
  ASSUME IndTypeOK, NEW r \in Runs, Finalize(r)
  PROVE  IndTypeOK'
<1>1. UsedTypeOK' /\ UNCHANGED <<work, cps, op, pending>> /\ work' \in [Files -> State]
  BY DEF Finalize, IndTypeOK, TypeOK, UsedTypeOK
<1>2. CASE run[r].wrote /\ Pending # {}
  BY <1>1, <1>2, SnapshotType DEF Finalize
<1>3. CASE ~(run[r].wrote /\ Pending # {})
  <2> DEFINE new == [run[r] EXCEPT !.pc = "done"]
  <2>1. run' = [run EXCEPT ![r] = new] /\ UNCHANGED versions
    BY <1>3 DEF Finalize
  <2>2. new \in RunStates /\ new.snap = run[r].snap
    BY <1>1, <2>1, StoreStill DEF RunStates
  <2> QED
    BY <1>1, <2>1, <2>2, StoreStill, RunStepType
<1> QED
  BY <1>2, <1>3

\* The record of the snapshot in hand is written, or refused.
LEMMA RecordType ==
  ASSUME IndTypeOK, NEW r \in Runs, NEW where \in {"open", "resetting", "done"},
         NEW kind \in {"run", "compact"},
         UNCHANGED <<work, versions, pending, op, used>>,
         run' = [run EXCEPT ![r].pc = where, ![r].snap = NoSnapshot],
         \/ cps' = Append(cps, CpRecord(kind, r, run[r].snap))
         \/ UNCHANGED cps
  PROVE  IndTypeOK'
<1> DEFINE new == [run[r] EXCEPT !.pc = where, !.snap = NoSnapshot]
<1>1. /\ StoreTypeOK' /\ Grown /\ versions' \in [Files -> Seq(State)]
      /\ run[r] \in RunStates /\ ExistNext(run[r].snap)
      /\ NoSnapshot \in Snapshots /\ ExistNext(NoSnapshot)
  BY StoreStill
<1>2. new \in RunStates /\ new.snap = NoSnapshot
  BY <1>1 DEF RunStates
<1>3. work' \in [Files -> State] /\ UsedTypeOK'
  BY DEF IndTypeOK, TypeOK, UsedTypeOK
<1>4. CASE UNCHANGED cps
  BY <1>1, <1>2, <1>3, <1>4, RunStepType
<1>5. CASE cps' = Append(cps, CpRecord(kind, r, run[r].snap))
  <2>1. run[r].snap \in Snapshots
    BY <1>1 DEF RunStates
  <2>2. /\ RecordsTypeOK'
        /\ \A i \in DOMAIN cps : i \in DOMAIN cps' /\ cps'[i] = cps[i]
    BY <1>1, <1>5, <2>1, RecordAdded DEF IndTypeOK, TypeOK
  <2>3. OpTypeOK' /\ BaselineCovers'
    BY <2>2, OpKept DEF IndTypeOK, TypeOK
  <2>4. RunsTypeOK'
    BY <1>1, <1>2, RunChanged DEF IndTypeOK, TypeOK
  <2> QED
    BY <1>1, <1>3, <2>2, <2>3, <2>4 DEF IndTypeOK, TypeOK
<1> QED
  BY <1>4, <1>5

LEMMA RecordCompactionType ==
  ASSUME IndTypeOK, NEW r \in Runs, RecordCompaction(r)
  PROVE  IndTypeOK'
  BY RecordType DEF RecordCompaction

LEMMA RecordRunEndType ==
  ASSUME IndTypeOK, NEW r \in Runs, RecordRunEnd(r)
  PROVE  IndTypeOK'
<1>1. CASE run' = [run EXCEPT ![r].pc = "resetting", ![r].snap = NoSnapshot]
  BY <1>1, RecordType DEF RecordRunEnd
<1>2. CASE run' = [run EXCEPT ![r].pc = "done", ![r].snap = NoSnapshot]
  BY <1>2, RecordType DEF RecordRunEnd
<1> QED
  BY <1>1, <1>2 DEF RecordRunEnd

-------------------------------------------------------------------------------
(* Restores keep the type. *)

LEMMA AffectedFiles ==
  ASSUME IndTypeOK, NEW i \in DOMAIN cps
  PROVE  Affected(i) \subseteq Files
  BY DEF Affected, Covered

LEMMA BeginRestoreType ==
  ASSUME IndTypeOK, NEW kind \in {"exact", "baseline"}, NEW i \in DOMAIN cps,
         NEW files \in SUBSET Files, NEW todo \in SUBSET files,
         BeginRestore(kind, i, files, todo),
         kind = "baseline" => todo \subseteq Covered(cps[i].snap)
  PROVE  IndTypeOK'
<1>1. /\ versions' = Versioned(files)
      /\ cps' = Append(cps, CpRecord("guard", cps[i].run, Guard(files)))
      /\ op' = [kind |-> kind, target |-> i, guard |-> Len(cps) + 1, left |-> todo]
      /\ UNCHANGED <<work, pending, run>>
      /\ UsedTypeOK'
  BY DEF BeginRestore, IndTypeOK, TypeOK, UsedTypeOK
<1>2. versions' \in [Files -> Seq(State)] /\ Grown
  BY <1>1, VersionedGrows DEF IndTypeOK, TypeOK
<1>3. StoreTypeOK' /\ RunsTypeOK' /\ work' \in [Files -> State]
  BY <1>1, <1>2, StoreKept, RunsKept DEF IndTypeOK, TypeOK
<1>4. Guard(files) \in Snapshots /\ ExistNext(Guard(files))
  BY <1>1, GuardTaken DEF IndTypeOK, TypeOK
<1>5. cps[i].run \in Runs
  BY RecordSnapshots DEF IndTypeOK, TypeOK, CpRecords
<1>6. /\ RecordsTypeOK' /\ Len(cps) + 1 \in DOMAIN cps'
      /\ \A j \in DOMAIN cps : j \in DOMAIN cps' /\ cps'[j] = cps[j]
  BY <1>1, <1>2, <1>4, <1>5, RecordAdded DEF IndTypeOK, TypeOK
<1>7. i \in Nat /\ Len(cps) + 1 \in Nat
  BY DEF IndTypeOK, TypeOK, RecordsTypeOK
<1>8. OpTypeOK' /\ BaselineCovers'
  BY <1>1, <1>6, <1>7 DEF OpTypeOK, Operations, BaselineCovers, Covered
<1> QED
  BY <1>1, <1>3, <1>6, <1>8 DEF IndTypeOK, TypeOK

LEMMA RestoreType ==
  ASSUME IndTypeOK, NEW i \in DOMAIN cps, Restore(i)
  PROVE  IndTypeOK'
<1> DEFINE todo == IF HasCode(i) THEN Affected(i) ELSE {}
<1>1. Affected(i) \subseteq Files /\ todo \subseteq Affected(i)
  BY AffectedFiles
<1>2. BeginRestore("exact", i, Affected(i), todo)
  BY DEF Restore
<1> HIDE DEF todo
<1> QED
  BY <1>1, <1>2, BeginRestoreType

LEMMA RestoreBaselineType ==
  ASSUME IndTypeOK, NEW i \in DOMAIN cps, NEW files \in SUBSET Files, RestoreBaseline(i, files)
  PROVE  IndTypeOK'
  BY BeginRestoreType DEF RestoreBaseline

\* An undo is a restore.
LEMMA UndoType ==
  ASSUME IndTypeOK, NEW i \in DOMAIN cps, Undo(i)
  PROVE  IndTypeOK'
  BY RestoreType DEF Undo

\* There is a content to put back.
LEMMA GoalType ==
  ASSUME IndTypeOK, NEW f \in Files, f \in op.left
  PROVE  Goal(f) \in State
<1> DEFINE snap == cps[op.target].snap
<1>1. op.kind # "none" /\ op.target \in DOMAIN cps
  BY DEF IndTypeOK, BaselineCovers, TypeOK, OpTypeOK
<1>2. snap \in Snapshots /\ VersionsExist(snap)
  BY <1>1, RecordSnapshots DEF IndTypeOK, TypeOK
<1>3. /\ snap.base[f] \in Nat /\ snap.exact[f] \in Nat
      /\ (snap.base[f] = 0) <=> (snap.exact[f] = 0)
      /\ snap.base[f] <= snap.exact[f] /\ snap.exact[f] <= Latest(f)
  BY <1>2 DEF Snapshots, VersionsExist
<1>4. versions[f] \in Seq(State)
  BY DEF IndTypeOK, TypeOK, StoreTypeOK
<1>5. \A n \in Nat \ {0} : n <= Latest(f) => versions[f][n] \in State
  <2>1. \A n \in 1..Len(versions[f]) : versions[f][n] \in State
    BY <1>4
  <2> QED
    BY <1>4, <2>1 DEF Latest
<1>6. Latest(f) \in Nat
  BY <1>4 DEF Latest
<1>7. op.kind = "baseline" => snap.exact[f] # 0
  BY DEF IndTypeOK, BaselineCovers, Covered
<1>8. snap.exact[f] # 0 => /\ ContentAt(f, snap.base[f]) \in State
                           /\ ContentAt(f, snap.exact[f]) \in State
  <2>1. ASSUME snap.exact[f] # 0
        PROVE  /\ snap.base[f] \in Nat \ {0} /\ snap.base[f] <= Latest(f)
               /\ snap.exact[f] \in Nat \ {0} /\ snap.exact[f] <= Latest(f)
    BY <1>3, <1>6, <2>1
  <2> QED
    BY <1>5, <2>1 DEF ContentAt
<1>9. Absent \in State
  BY DEF State
<1> QED
  BY <1>7, <1>8, <1>9 DEF Goal

LEMMA PutBackType ==
  ASSUME IndTypeOK, NEW f \in Files, PutBack(f)
  PROVE  IndTypeOK'
<1>1. /\ op' = [op EXCEPT !.left = @ \ {f}] /\ f \in op.left
      /\ UNCHANGED <<versions, pending, run, cps, used>>
  BY DEF PutBack
<1>2. work' \in [Files -> State]
  BY GoalType DEF PutBack, IndTypeOK, TypeOK
<1>3. StoreTypeOK' /\ Grown /\ versions' \in [Files -> Seq(State)]
  BY <1>1, StoreStill
<1>4. RunsTypeOK' /\ RecordsTypeOK'
  BY <1>1, <1>3, RunsKept, RecordsKept DEF IndTypeOK, TypeOK
<1>5. /\ op \in Operations
      /\ op' \in Operations /\ op'.kind = op.kind /\ op'.target = op.target
      /\ op'.guard = op.guard /\ op'.left \subseteq op.left
  BY <1>1 DEF IndTypeOK, TypeOK, OpTypeOK, Operations
<1>6. OpTypeOK' /\ BaselineCovers'
  BY <1>1, <1>5 DEF IndTypeOK, TypeOK, OpTypeOK, BaselineCovers, Covered
<1>7. UsedTypeOK'
  BY <1>1 DEF IndTypeOK, TypeOK, UsedTypeOK
<1> QED
  BY <1>2, <1>3, <1>4, <1>6, <1>7 DEF IndTypeOK, TypeOK

\* Records that at most change their status.
LEMMA RecordsMarked ==
  ASSUME StoreTypeOK, RecordsTypeOK, Grown, versions' \in [Files -> Seq(State)],
         cps' \in Seq(CpRecords), DOMAIN cps' = DOMAIN cps,
         \A i \in DOMAIN cps : cps'[i].snap = cps[i].snap
  PROVE  RecordsTypeOK'
<1>1. \A i \in DOMAIN cps : ExistNext(cps[i].snap)
  BY RecordSnapshots, StillExist
<1> QED
  BY <1>1 DEF RecordsTypeOK, ExistNext, VersionsExist

LEMMA NoOpType ==
  ASSUME op' = NoOp
  PROVE  OpTypeOK' /\ BaselineCovers'
  BY DEF NoOp, OpTypeOK, BaselineCovers, Operations

\* The end of a restore, whatever it makes of the status of the records.
LEMMA OverType ==
  ASSUME IndTypeOK, op' = NoOp, UNCHANGED <<work, versions, pending, run, used>>,
         cps' \in Seq(CpRecords), DOMAIN cps' = DOMAIN cps,
         \A i \in DOMAIN cps : cps'[i].snap = cps[i].snap
  PROVE  IndTypeOK'
<1>1. StoreTypeOK' /\ Grown /\ versions' \in [Files -> Seq(State)]
  BY StoreStill
<1>2. RunsTypeOK' /\ RecordsTypeOK'
  BY <1>1, RunsKept, RecordsMarked DEF IndTypeOK, TypeOK
<1>3. work' \in [Files -> State] /\ UsedTypeOK'
  BY DEF IndTypeOK, TypeOK, UsedTypeOK
<1> QED
  BY <1>1, <1>2, <1>3, NoOpType DEF IndTypeOK, TypeOK

LEMMA FinishRestoreType ==
  ASSUME IndTypeOK, FinishRestore
  PROVE  IndTypeOK'
<1>1. cps \in Seq(CpRecords) /\ DOMAIN cps = 1..Len(cps) /\ Len(cps) \in Nat
  BY DEF IndTypeOK, TypeOK, RecordsTypeOK
<1>2. \A i \in DOMAIN cps : /\ cps[i] \in CpRecords
                            /\ [cps[i] EXCEPT !.status = "restored"] \in CpRecords
                            /\ [cps[i] EXCEPT !.status = "restored"].snap = cps[i].snap
  <2>1. \A i \in DOMAIN cps : cps[i] \in CpRecords
    BY <1>1
  <2> QED
    BY <2>1 DEF CpRecords
<1>3. /\ DOMAIN cps' = DOMAIN cps
      /\ \A i \in DOMAIN cps : cps'[i] \in {cps[i], [cps[i] EXCEPT !.status = "restored"]}
  BY DEF FinishRestore
<1>4. cps' = [i \in 1..Len(cps) |-> cps'[i]]
  BY <1>1 DEF FinishRestore
<1>5. \A i \in 1..Len(cps) : cps'[i] \in CpRecords
  BY <1>1, <1>2, <1>3
<1>6. cps' \in [1..Len(cps) -> CpRecords]
  BY <1>4, <1>5
<1>7. cps' \in Seq(CpRecords)
  BY <1>1, <1>6
<1>8. \A i \in DOMAIN cps : cps'[i].snap = cps[i].snap
  BY <1>2, <1>3
<1> QED
  BY <1>3, <1>7, <1>8, OverType DEF FinishRestore

LEMMA FailRestoreType ==
  ASSUME IndTypeOK, FailRestore
  PROVE  IndTypeOK'
<1>1. cps \in Seq(CpRecords)
  BY DEF IndTypeOK, TypeOK, RecordsTypeOK
<1>2. CASE op.kind = "baseline"
  <2>1. op.guard \in DOMAIN cps
    BY <1>2 DEF IndTypeOK, TypeOK, OpTypeOK
  <2>2. cps' = [cps EXCEPT ![op.guard] = [cps[op.guard] EXCEPT !.status = "broken"]]
    BY <1>2 DEF FailRestore
  <2>3. cps[op.guard] \in CpRecords
    BY <1>1, <2>1
  <2>4. /\ [cps[op.guard] EXCEPT !.status = "broken"] \in CpRecords
        /\ [cps[op.guard] EXCEPT !.status = "broken"].snap = cps[op.guard].snap
    BY <2>3 DEF CpRecords
  <2>5. cps' \in Seq(CpRecords) /\ DOMAIN cps' = DOMAIN cps
    BY <1>1, <2>1, <2>2, <2>4
  <2>6. \A i \in DOMAIN cps : cps'[i].snap = cps[i].snap
    BY <2>1, <2>2, <2>4
  <2> QED
    BY <2>5, <2>6, OverType DEF FailRestore
<1>3. CASE op.kind # "baseline"
  BY <1>1, <1>3, OverType DEF FailRestore
<1> QED
  BY <1>2, <1>3

-------------------------------------------------------------------------------
(* The environment keeps the type. *)

LEMMA UserWriteType ==
  ASSUME IndTypeOK, NEW f \in Files, NEW content \in State, UserWrite(f, content)
  PROVE  IndTypeOK'
<1>1. StoreTypeOK' /\ Grown /\ versions' \in [Files -> Seq(State)]
  BY StoreStill DEF UserWrite
<1>2. RunsTypeOK' /\ RecordsTypeOK'
  BY <1>1, RunsKept, RecordsKept DEF UserWrite, IndTypeOK, TypeOK
<1>3. OpTypeOK' /\ BaselineCovers'
  BY OpKept DEF UserWrite, IndTypeOK, TypeOK
<1>4. work' \in [Files -> State] /\ UsedTypeOK'
  BY DEF UserWrite, Writing, IndTypeOK, TypeOK, UsedTypeOK
<1> QED
  BY <1>1, <1>2, <1>3, <1>4 DEF IndTypeOK, TypeOK

LEMMA CrashType ==
  ASSUME IndTypeOK, Crash
  PROVE  IndTypeOK'
<1>1. /\ StoreTypeOK' /\ Grown /\ versions' \in [Files -> Seq(State)]
      /\ \A r \in Runs : run[r] \in RunStates /\ ExistNext(run[r].snap)
      /\ NoSnapshot \in Snapshots /\ ExistNext(NoSnapshot)
  BY StoreStill DEF Crash, Reset
<1> DEFINE over == [NewRun EXCEPT !.pc = "done"]
<1>3. over \in RunStates /\ over.snap = NoSnapshot
  BY <1>1 DEF NewRun, RunStates
<1>4. run' = [r \in Runs |-> IF run[r].pc = "idle" THEN run[r] ELSE over]
  BY DEF Crash
<1> HIDE DEF over
<1>5. \A r \in Runs : run'[r] \in RunStates /\ ExistNext(run'[r].snap)
  BY <1>1, <1>3, <1>4
<1>6. RunsTypeOK'
  BY <1>4, <1>5 DEF RunsTypeOK, ExistNext, VersionsExist
<1>7. RecordsTypeOK'
  BY <1>1, RecordsKept DEF Crash, IndTypeOK, TypeOK
<1>8. work' \in [Files -> State] /\ UsedTypeOK' /\ op' = NoOp
  BY DEF Crash, IndTypeOK, TypeOK, UsedTypeOK
<1> QED
  BY <1>1, <1>6, <1>7, <1>8, NoOpType DEF IndTypeOK, TypeOK

LEMMA StutterType ==
  ASSUME IndTypeOK, UNCHANGED vars
  PROVE  IndTypeOK'
<1>1. StoreTypeOK' /\ Grown /\ versions' \in [Files -> Seq(State)]
  BY StoreStill DEF vars
<1>2. RunsTypeOK' /\ RecordsTypeOK' /\ OpTypeOK' /\ BaselineCovers'
  BY <1>1, RunsKept, RecordsKept, OpKept DEF vars, IndTypeOK, TypeOK
<1> QED
  BY <1>1, <1>2 DEF vars, IndTypeOK, TypeOK, UsedTypeOK

-------------------------------------------------------------------------------
(* The type theorem. *)

LEMMA InitType ==
  ASSUME Init
  PROVE  IndTypeOK
<1>1. NoSnapshot \in Snapshots
  BY DEF NoSnapshot, Snapshots, Unversioned
<1>2. versions \in [Files -> Seq(State)] /\ \A f \in Files : Latest(f) = 0
  BY DEF Init, Latest
<1>3. StoreTypeOK /\ VersionsExist(NoSnapshot)
  BY <1>2 DEF Init, StoreTypeOK, Unversioned, VersionsExist, NoSnapshot
<1>4. NewRun \in RunStates /\ NewRun.snap = NoSnapshot
  BY <1>1 DEF NewRun, RunStates
<1>5. RunsTypeOK
  BY <1>3, <1>4 DEF Init, RunsTypeOK
<1>6. RecordsTypeOK
  BY DEF Init, RecordsTypeOK
<1>7. OpTypeOK /\ BaselineCovers
  BY DEF Init, NoOp, OpTypeOK, BaselineCovers, Operations
<1> QED
  BY <1>3, <1>5, <1>6, <1>7 DEF Init, IndTypeOK, TypeOK, UsedTypeOK

LEMMA CallStepType ==
  ASSUME IndTypeOK, NEW r \in Runs, CallStep(r)
  PROVE  IndTypeOK'
  BY BeginCallType, WriteFileType, DeleteFileType, FailCallType, BashWriteType DEF CallStep

LEMMA RunType ==
  ASSUME IndTypeOK, NEW r \in Runs, RunStep(r)
  PROVE  IndTypeOK'
  BY StartRunType, CallStepType, MoveType, CompactType, RecordCompactionType,
     FinalizeType, RecordRunEndType DEF RunStep

LEMMA RestoreStepType ==
  ASSUME IndTypeOK, RestoreStep
  PROVE  IndTypeOK'
  BY RestoreType, UndoType, RestoreBaselineType, PutBackType, FinishRestoreType,
     FailRestoreType DEF RestoreStep

LEMMA NextType ==
  ASSUME IndTypeOK, [Next]_vars
  PROVE  IndTypeOK'
  BY RunType, RestoreStepType, UserWriteType, CrashType, StutterType DEF Next

\* In every state the pending captures and all snapshots, those of the records
\* and those a run has in hand, name versions that exist, so that a restore
\* always finds the content it goes back to.
THEOREM TypeCorrect == Spec => []TypeOK
<1>1. Init => IndTypeOK
  BY InitType
<1>2. IndTypeOK /\ [Next]_vars => IndTypeOK'
  BY NextType
<1>3. IndTypeOK => TypeOK
  BY DEF IndTypeOK
<1> QED
  BY <1>1, <1>2, <1>3, PTL DEF Spec

-------------------------------------------------------------------------------
(* What no step takes back. *)

\* Versions are only added, by every step.
LEMMA StepGrows ==
  ASSUME IndTypeOK, [Next]_vars
  PROVE  Grown
<1>1. work \in [Files -> State] /\ StoreTypeOK
  BY DEF IndTypeOK, TypeOK
<1>2. CASE UNCHANGED versions
  BY <1>1, <1>2, UnchangedGrows
<1>3. CASE \E S \in SUBSET Files : versions' = Versioned(S)
  BY <1>1, <1>3, VersionedGrows
<1>4. CASE \E r \in Runs : \E c \in run[r].calls : DeleteFile(r, c)
  <2>0. PICK r \in Runs : \E c \in run[r].calls : DeleteFile(r, c)
    BY <1>4
  <2>1. PICK c \in run[r].calls : DeleteFile(r, c)
    BY <2>0
  <2>2. c.file \in Files
    BY DEF IndTypeOK, TypeOK, RunsTypeOK, RunStates, Calls
  <2>3. Absent \in State
    BY DEF State
  <2> QED
    BY <1>1, <2>1, <2>2, <2>3, AppendGrows DEF DeleteFile
<1>5. CASE \E r \in Runs : RunStep(r)
  <2>1. PICK r \in Runs : RunStep(r)
    BY <1>5
  <2>2. Pending \in SUBSET Files
    BY DEF Pending
  <2>3. CASE CallStep(r)
    <3>1. ASSUME NEW tool \in Tools, NEW f \in Files, BeginCall(r, tool, f)
          PROVE  UNCHANGED versions \/ versions' = Versioned({f})
      BY <3>1 DEF BeginCall, CapturePreWrite
    <3>2. ASSUME NEW tool \in Tools, NEW f \in Files, BeginCall(r, tool, f)
          PROVE  Grown
      BY <1>2, <1>3, <3>1, <3>2
    <3> QED
      BY <1>2, <1>4, <2>3, <3>2 DEF CallStep, FailCall, WriteFile, BashWrite
  <2>4. CASE StartRun(r) \/ EndTurn(r) \/ RecordCompaction(r) \/ EndRun(r)
             \/ RecordRunEnd(r) \/ ResetAfterRun(r)
    BY <1>2, <2>4 DEF StartRun, EndTurn, RecordCompaction, EndRun, RecordRunEnd, ResetAfterRun
  <2>5. CASE Compact(r) \/ Finalize(r)
    <3>1. UNCHANGED versions \/ versions' = Versioned(Pending)
      BY <2>5 DEF Compact, Finalize
    <3> QED
      BY <1>2, <1>3, <2>2, <3>1
  <2> QED
    BY <2>1, <2>3, <2>4, <2>5 DEF RunStep
<1>6. CASE RestoreStep
  <2>1. ASSUME NEW i \in DOMAIN cps, Restore(i) PROVE Grown
    <3>1. Affected(i) \in SUBSET Files /\ versions' = Versioned(Affected(i))
      BY <2>1, AffectedFiles DEF Restore, BeginRestore
    <3> QED
      BY <1>3, <3>1
  <2>2. ASSUME NEW i \in DOMAIN cps, NEW files \in SUBSET Files, RestoreBaseline(i, files)
        PROVE  Grown
    BY <1>3, <2>2 DEF RestoreBaseline, BeginRestore
  <2> QED
    BY <1>2, <1>6, <2>1, <2>2 DEF RestoreStep, Undo, PutBack, FinishRestore, FailRestore
<1> QED
  BY <1>2, <1>5, <1>6 DEF Next, UserWrite, Crash, vars

\* Records are only added, and keep whose they are and what they cover.
RecordsGrown ==
  \A i \in DOMAIN cps : /\ i \in DOMAIN cps' /\ cps'[i].run = cps[i].run
                        /\ cps'[i].kind = cps[i].kind /\ cps'[i].snap = cps[i].snap

LEMMA AppendedRecord ==
  ASSUME RecordsTypeOK, NEW rec, cps' = Append(cps, rec)
  PROVE  RecordsGrown /\ Len(cps) + 1 \in DOMAIN cps' /\ cps'[Len(cps) + 1] = rec
<1> DEFINE T == CpRecords \cup {rec}
<1>1. cps \in Seq(T) /\ rec \in T
  BY DEF RecordsTypeOK
<1> HIDE DEF T
<1>2. /\ Len(cps) \in Nat /\ DOMAIN cps = 1..Len(cps)
      /\ cps' \in Seq(T) /\ Len(cps') = Len(cps) + 1 /\ DOMAIN cps' = 1..Len(cps')
      /\ \A i \in 1..Len(cps) : cps'[i] = cps[i]
      /\ cps'[Len(cps) + 1] = rec
  BY <1>1, AppendToSeq
<1> QED
  BY <1>2 DEF RecordsGrown

LEMMA RecordsGrow ==
  ASSUME IndTypeOK, Next
  PROVE  RecordsGrown
<1>1. RecordsTypeOK
  BY DEF IndTypeOK, TypeOK
<1>2. CASE UNCHANGED cps
  BY <1>2 DEF RecordsGrown
<1>3. ASSUME NEW rec, cps' = Append(cps, rec) PROVE RecordsGrown
  BY <1>1, <1>3, AppendedRecord
<1>4. CASE FinishRestore
  <2>1. /\ DOMAIN cps' = DOMAIN cps
        /\ \A i \in DOMAIN cps : cps'[i] \in {cps[i], [cps[i] EXCEPT !.status = "restored"]}
    BY <1>4 DEF FinishRestore
  <2>2. \A i \in DOMAIN cps : cps[i] \in CpRecords
    BY <1>1, RecordSnapshots
  <2> QED
    BY <2>1, <2>2 DEF CpRecords, RecordsGrown
<1>5. CASE FailRestore /\ op.kind = "baseline"
  <2>1. op.guard \in DOMAIN cps /\ cps[op.guard] \in CpRecords
    BY <1>1, <1>5, RecordSnapshots DEF IndTypeOK, TypeOK, OpTypeOK
  <2> DEFINE new == [cps[op.guard] EXCEPT !.status = "broken"]
  <2>2. new.run = cps[op.guard].run /\ new.kind = cps[op.guard].kind /\ new.snap = cps[op.guard].snap
    BY <2>1 DEF CpRecords
  <2>3. cps' = [cps EXCEPT ![op.guard] = new]
    BY <1>5 DEF FailRestore
  <2> HIDE DEF new
  <2> QED
    BY <2>1, <2>2, <2>3 DEF RecordsGrown
<1>6. CASE \E r \in Runs : RunStep(r)
  BY <1>2, <1>3, <1>6 DEF RunStep, StartRun, CallStep, BeginCall, DeleteFile, FailCall, WriteFile,
        BashWrite, EndTurn, Compact, RecordCompaction, EndRun, Finalize, RecordRunEnd, ResetAfterRun
<1>7. CASE RestoreStep
  BY <1>2, <1>3, <1>4, <1>5, <1>7 DEF RestoreStep, Restore, Undo, RestoreBaseline, BeginRestore,
                                      PutBack, FailRestore
<1> QED
  BY <1>2, <1>6, <1>7 DEF Next, UserWrite, Crash

-------------------------------------------------------------------------------
(* What restores put back: the inductive invariant. *)

\* A guard names what the workspace was when it was recorded, in the versions of
\* the files it covers; the others are still as they were then, unless they
\* strayed.
GuardHolds(i) ==
  cps[i].kind = "guard" =>
    \A f \in Files :
      IF f \in Covered(cps[i].snap)
        THEN ContentAt(f, cps[i].snap.exact[f]) = seen[i][f]
        ELSE f \notin strays[i] => work[f] = seen[i][f]

\* What is left to put back is still as the guard says, so that a file kept on
\* its word has the content it is to have.
OpHolds ==
  op.kind # "none" =>
    /\ cps[op.guard].kind = "guard"
    /\ op.left \subseteq Covered(cps[op.guard].snap)
    /\ \A f \in op.left \ aside : work[f] = ContentAt(f, cps[op.guard].snap.exact[f])

ExactHolds ==
  op.kind = "exact" =>
    /\ \A f \in Covered(cps[op.target].snap) \ (op.left \cup aside) :
         work[f] = ContentAt(f, cps[op.target].snap.exact[f])
    /\ cps[op.target].kind = "guard" =>
         /\ op.left \subseteq Covered(cps[op.target].snap)
         /\ \A f \in Files \ (Covered(cps[op.target].snap) \cup aside) :
              work[f] = seen[op.target][f]

RestoreInv ==
  /\ IndTypeOK
  /\ \A i \in DOMAIN cps : GuardHolds(i)
  /\ OpHolds
  /\ ExactHolds

-------------------------------------------------------------------------------
(* What a step is to a restore. *)

BeginStep(kind, i, files, todo) ==
  /\ BeginRestore(kind, i, files, todo)
  /\ kind = "exact" => /\ files = Affected(i)
                       /\ todo = IF HasCode(i) THEN Affected(i) ELSE {}

\* The steps that begin no restore and put nothing back.
AsideStep ==
  /\ op' = op \/ op'.kind = "none"
  /\ \A i \in DOMAIN cps' \ DOMAIN cps : cps'[i].kind # "guard"

RestoreBegun ==
  \E kind \in {"exact", "baseline"}, i \in DOMAIN cps, files \in SUBSET Files :
    \E todo \in SUBSET files : BeginStep(kind, i, files, todo)

LEMMA AppendedKind ==
  ASSUME RecordsTypeOK, NEW rec, rec.kind # "guard", cps' = Append(cps, rec)
  PROVE  \A i \in DOMAIN cps' \ DOMAIN cps : cps'[i].kind # "guard"
<1> DEFINE T == CpRecords \cup {rec}
<1>1. cps \in Seq(T) /\ rec \in T
  BY DEF RecordsTypeOK
<1> HIDE DEF T
<1>2. /\ Len(cps) \in Nat /\ DOMAIN cps = 1..Len(cps)
      /\ cps' \in Seq(T) /\ Len(cps') = Len(cps) + 1 /\ DOMAIN cps' = 1..Len(cps')
      /\ cps'[Len(cps) + 1] = rec
  BY <1>1, AppendToSeq
<1> QED
  BY <1>2

LEMMA RestoreKinds ==
  ASSUME IndTypeOK, Next
  PROVE  RestoreBegun \/ (\E f \in Files : PutBack(f)) \/ AsideStep
<1>1. RecordsTypeOK
  BY DEF IndTypeOK, TypeOK
<1>2. CASE \E r \in Runs : RunStep(r)
  <2>1. PICK r \in Runs : RunStep(r)
    BY <1>2
  <2>2. CASE RecordCompaction(r) \/ RecordRunEnd(r)
    <3>1. CpRecord("compact", r, run[r].snap).kind # "guard"
          /\ CpRecord("run", r, run[r].snap).kind # "guard"
      BY DEF CpRecord
    <3>2. /\ UNCHANGED op
          /\ \/ cps' = Append(cps, CpRecord("compact", r, run[r].snap))
             \/ cps' = Append(cps, CpRecord("run", r, run[r].snap))
             \/ cps' = cps
      BY <2>2 DEF RecordCompaction, RecordRunEnd
    <3> QED
      BY <1>1, <3>1, <3>2, AppendedKind DEF AsideStep
  <2>3. CASE ~(RecordCompaction(r) \/ RecordRunEnd(r))
    <3>1. UNCHANGED <<op, cps>>
      BY <2>1, <2>3 DEF RunStep, StartRun, CallStep, BeginCall, DeleteFile, FailCall, WriteFile,
           BashWrite, EndTurn, Compact, EndRun, Finalize, ResetAfterRun
    <3> QED
      BY <3>1 DEF AsideStep
  <2> QED
    BY <2>2, <2>3
<1>3. CASE RestoreStep
  <2>1. ASSUME NEW i \in DOMAIN cps, Restore(i) PROVE RestoreBegun
    <3> DEFINE todo == IF HasCode(i) THEN Affected(i) ELSE {}
    <3>1. Affected(i) \in SUBSET Files /\ todo \in SUBSET Affected(i)
      BY AffectedFiles
    <3>2. BeginStep("exact", i, Affected(i), todo)
      BY <2>1 DEF Restore, BeginStep
    <3> HIDE DEF todo
    <3> QED
      BY <3>1, <3>2 DEF RestoreBegun
  <2>2. ASSUME NEW i \in DOMAIN cps, NEW files \in SUBSET Files, RestoreBaseline(i, files)
        PROVE  RestoreBegun
    <3>1. BeginStep("baseline", i, files, files)
      BY <2>2 DEF RestoreBaseline, BeginStep
    <3> QED
      BY <3>1 DEF RestoreBegun
  <2>3. ASSUME FinishRestore \/ FailRestore PROVE AsideStep
    <3>1. op'.kind = "none"
      BY <2>3 DEF FinishRestore, FailRestore, NoOp
    <3>2. DOMAIN cps' = DOMAIN cps
      BY <2>3 DEF FinishRestore, FailRestore
    <3> QED
      BY <3>1, <3>2 DEF AsideStep
  <2> QED
    BY <1>3, <2>1, <2>2, <2>3 DEF RestoreStep, Undo
<1>4. CASE Crash \/ \E f \in Files, content \in State : UserWrite(f, content)
  BY <1>4 DEF Crash, UserWrite, NoOp, AsideStep
<1> QED
  BY <1>2, <1>3, <1>4 DEF Next

\* Only putting a file back counts as such, and it changes only that file.
LEMMA PutBackChanges ==
  ASSUME IndTypeOK, Next, PuttingBack
  PROVE  \E g \in op.left \cap Files : PutBack(g) /\ Changed \subseteq {g}
<1>1. ~RestoreBegun
  BY DEF RestoreBegun, BeginStep, BeginRestore, PuttingBack
<1>2. ~AsideStep
  BY DEF AsideStep, PuttingBack
<1>3. PICK g \in Files : PutBack(g)
  BY <1>1, <1>2, RestoreKinds
<1>4. work \in [Files -> State] /\ g \in op.left
  BY <1>3 DEF IndTypeOK, TypeOK, PutBack
<1>5. \A f \in Files : f # g => work'[f] = work[f]
  BY <1>3, <1>4 DEF PutBack
<1> QED
  BY <1>3, <1>4, <1>5 DEF Changed

LEMMA PutBackOp ==
  ASSUME IndTypeOK, NEW g \in Files, PutBack(g)
  PROVE  /\ op.kind # "none" /\ g \in op.left
         /\ op'.kind = op.kind /\ op'.target = op.target /\ op'.guard = op.guard
         /\ op'.left = op.left \ {g} /\ PuttingBack
<1>1. op \in Operations /\ g \in op.left /\ op' = [op EXCEPT !.left = @ \ {g}]
  BY DEF PutBack, IndTypeOK, TypeOK, OpTypeOK
<1>2. /\ op'.kind = op.kind /\ op'.target = op.target /\ op'.guard = op.guard
      /\ op'.left = op.left \ {g}
  BY <1>1 DEF Operations
<1>3. op.kind # "none"
  BY <1>1 DEF IndTypeOK, BaselineCovers
<1> QED
  BY <1>1, <1>2, <1>3 DEF PuttingBack

\* What a record covers goes on holding what it held.
LEMMA ContentStays ==
  ASSUME IndTypeOK, Grown, NEW i \in DOMAIN cps, NEW f \in Covered(cps[i].snap)
  PROVE  versions'[f][cps[i].snap.exact[f]] = ContentAt(f, cps[i].snap.exact[f])
<1>1. cps[i].snap \in Snapshots /\ VersionsExist(cps[i].snap) /\ f \in Files
  BY RecordSnapshots DEF IndTypeOK, TypeOK, Covered
<1>2. cps[i].snap.exact[f] \in 1..Latest(f)
  <2>1. /\ cps[i].snap.exact[f] \in Nat /\ cps[i].snap.exact[f] # 0
        /\ cps[i].snap.exact[f] <= Latest(f) /\ Latest(f) \in Nat
    BY <1>1 DEF Snapshots, VersionsExist, Covered, IndTypeOK, TypeOK, StoreTypeOK, Latest
  <2> QED
    BY <2>1
<1> QED
  BY <1>1, <1>2 DEF Grown, ContentAt

\* The same of the record as the step leaves it.
LEMMA RecordStays ==
  ASSUME IndTypeOK, Grown, RecordsGrown, NEW i \in DOMAIN cps
  PROVE  /\ i \in DOMAIN cps' /\ cps'[i].kind = cps[i].kind
         /\ cps'[i].snap = cps[i].snap
         /\ \A f \in Covered(cps[i].snap) :
              ContentAt(f, cps[i].snap.exact[f])' = ContentAt(f, cps[i].snap.exact[f])
<1>1. cps'[i].kind = cps[i].kind /\ cps'[i].snap = cps[i].snap /\ i \in DOMAIN cps'
  BY DEF RecordsGrown
<1>2. ASSUME NEW f \in Covered(cps[i].snap)
      PROVE  ContentAt(f, cps[i].snap.exact[f])' = ContentAt(f, cps[i].snap.exact[f])
  <2>1. versions'[f][cps[i].snap.exact[f]] = ContentAt(f, cps[i].snap.exact[f])
    BY ContentStays
  <2> QED
    BY <1>1, <2>1 DEF ContentAt
<1> QED
  BY <1>1, <1>2

-------------------------------------------------------------------------------
(* The guards. *)

\* Record n is added, a guard that says what the files it covers hold.
FreshGuard(n, files) ==
  /\ DOMAIN cps' = DOMAIN cps \cup {n} /\ n \notin DOMAIN cps
  /\ op'.guard = n /\ cps'[n].kind = "guard" /\ Covered(cps'[n].snap) = files
  /\ seen'[n] = work
  /\ \A f \in files : versions'[f][cps'[n].snap.exact[f]] = work[f]

\* The guard a restore begins with is one.
LEMMA GuardTakesWork ==
  ASSUME IndTypeOK, NEW kind, NEW i \in DOMAIN cps, NEW files \in SUBSET Files, NEW todo,
         BeginRestore(kind, i, files, todo), SeenNext
  PROVE  \E n : FreshGuard(n, files)
<1> DEFINE n == Len(cps) + 1
           rec == CpRecord("guard", cps[i].run, Guard(files))
           T == CpRecords \cup {rec}
<1>1. cps \in Seq(T) /\ rec \in T /\ cps' = Append(cps, rec)
  BY DEF BeginRestore, IndTypeOK, TypeOK, RecordsTypeOK
<1>2. rec.kind = "guard" /\ rec.snap = Guard(files)
  BY DEF CpRecord
<1>3. op'.guard = n
  BY DEF BeginRestore
<1> HIDE DEF T, rec
<1>4. /\ Len(cps) \in Nat /\ DOMAIN cps = 1..Len(cps)
      /\ cps' \in Seq(T) /\ Len(cps') = Len(cps) + 1 /\ DOMAIN cps' = 1..Len(cps')
      /\ cps'[Len(cps) + 1] = rec
  BY <1>1, AppendToSeq
<1>5. DOMAIN cps' = DOMAIN cps \cup {n} /\ n \notin DOMAIN cps /\ cps'[n] = rec
  BY <1>4
<1>6. /\ \A f \in Files : Latest(f) \in Nat /\ Latest(f) + 1 # 0
      /\ \A f \in files : versions'[f][Latest(f) + 1] = work[f]
  <2>1. work \in [Files -> State] /\ StoreTypeOK /\ versions' = Versioned(files)
    BY DEF BeginRestore, IndTypeOK, TypeOK
  <2> QED
    BY <2>1, VersionedGrows DEF StoreTypeOK, Latest
<1>7. Guard(files).exact = [f \in Files |-> IF f \in files THEN Latest(f) + 1 ELSE 0]
  BY DEF Guard, NewVersions
<1>8. Covered(Guard(files)) = files /\ \A f \in files : Guard(files).exact[f] = Latest(f) + 1
  BY <1>6, <1>7 DEF Covered
<1>9. seen'[n] = work
  BY <1>5 DEF SeenNext
<1> HIDE DEF n
<1>10. cps'[n].kind = "guard" /\ cps'[n].snap = Guard(files)
  BY <1>2, <1>5
<1> QED
  BY <1>3, <1>5, <1>6, <1>8, <1>9, <1>10 DEF FreshGuard

LEMMA OldGuards ==
  ASSUME IndTypeOK, Next, SeenNext, StraysNext, Grown, RecordsGrown, OpHolds,
         NEW i \in DOMAIN cps, GuardHolds(i)
  PROVE  GuardHolds(i)'
<1> SUFFICES ASSUME cps'[i].kind = "guard" PROVE GuardHolds(i)'
  BY DEF GuardHolds
<1>1. /\ cps[i].kind = "guard" /\ i \in DOMAIN cps' /\ cps'[i].snap = cps[i].snap
      /\ seen'[i] = seen[i]
  BY RecordStays DEF SeenNext
<1>2. ASSUME NEW f \in Covered(cps[i].snap)
      PROVE  ContentAt(f, cps[i].snap.exact[f])' = seen'[i][f]
  <2>1. f \in Files
    BY DEF Covered
  <2> QED
    BY <1>1, <2>1, RecordStays DEF GuardHolds
<1>3. ASSUME NEW f \in Files, f \notin Covered(cps[i].snap), f \notin strays'[i]
      PROVE  work'[f] = seen'[i][f]
  <2>1. f \notin strays[i]
    BY <1>1, <1>3 DEF StraysNext
  <2>2. work[f] = seen[i][f]
    BY <1>1, <1>3, <2>1 DEF GuardHolds
  <2>3. work'[f] = work[f]
    <3>1. CASE PuttingBack /\ i = op.guard
      <4>1. PICK g \in op.left \cap Files : Changed \subseteq {g}
        BY <3>1, PutBackChanges
      <4>2. g \in Covered(cps[i].snap)
        BY <3>1, <4>1 DEF OpHolds, PuttingBack
      <4> QED
        BY <1>3, <4>1, <4>2 DEF Changed
    <3>2. CASE ~(PuttingBack /\ i = op.guard)
      <4>1. f \notin Changed
        BY <1>1, <1>3, <3>2 DEF StraysNext
      <4> QED
        BY <4>1 DEF Changed
    <3> QED
      BY <3>1, <3>2
  <2> QED
    BY <1>1, <2>2, <2>3
<1>4. ASSUME NEW f \in Files
      PROVE  IF f \in Covered(cps[i].snap)
               THEN ContentAt(f, cps[i].snap.exact[f])' = seen'[i][f]
               ELSE f \notin strays'[i] => work'[f] = seen'[i][f]
  BY <1>2, <1>3
<1> QED
  BY <1>1, <1>4 DEF GuardHolds, Covered, ContentAt

LEMMA GuardsNext ==
  ASSUME RestoreInv, Next, SeenNext, StraysNext, Grown, RecordsGrown
  PROVE  \A i \in DOMAIN cps' : GuardHolds(i)'
<1> SUFFICES ASSUME NEW i \in DOMAIN cps' PROVE GuardHolds(i)'
  OBVIOUS
<1>1. CASE i \in DOMAIN cps
  BY <1>1, OldGuards DEF RestoreInv
<1>2. CASE i \notin DOMAIN cps
  <2>1. CASE RestoreBegun
    <3>1. PICK kind \in {"exact", "baseline"}, j \in DOMAIN cps, files \in SUBSET Files :
            \E todo \in SUBSET files : BeginStep(kind, j, files, todo)
      BY <2>1 DEF RestoreBegun
    <3>2. PICK todo \in SUBSET files : BeginStep(kind, j, files, todo)
      BY <3>1
    <3>3. BeginRestore(kind, j, files, todo)
      BY <3>2 DEF BeginStep
    <3>4. IndTypeOK
      BY DEF RestoreInv
    <3>5. PICK n : FreshGuard(n, files)
      BY <3>3, <3>4, GuardTakesWork
    <3>6. work' = work /\ i = n
      BY <1>2, <3>3, <3>5 DEF BeginRestore, FreshGuard
    <3>7. ASSUME NEW f \in Files
          PROVE  IF f \in files
                   THEN versions'[f][cps'[i].snap.exact[f]] = seen'[i][f]
                   ELSE f \notin strays'[i] => work'[f] = seen'[i][f]
      BY <3>5, <3>6 DEF FreshGuard
    <3> QED
      BY <3>5, <3>6, <3>7 DEF FreshGuard, GuardHolds, Covered, ContentAt
  <2>2. CASE \E f \in Files : PutBack(f)
    BY <1>2, <2>2 DEF PutBack
  <2>3. CASE AsideStep
    BY <1>2, <2>3 DEF AsideStep, GuardHolds
  <2> QED
    BY <2>1, <2>2, <2>3, RestoreKinds DEF RestoreInv
<1> QED
  BY <1>1, <1>2

-------------------------------------------------------------------------------
(* The restore in progress. *)

\* When an operation begins, nothing is put back and the guard is fresh.
LEMMA BeginHolds ==
  ASSUME RestoreInv, Next, SeenNext, AsideNext, Grown, RecordsGrown,
         NEW kind \in {"exact", "baseline"}, NEW i \in DOMAIN cps, NEW files \in SUBSET Files,
         NEW todo \in SUBSET files, BeginStep(kind, i, files, todo)
  PROVE  OpHolds' /\ ExactHolds'
<1>1. BeginRestore(kind, i, files, todo) /\ IndTypeOK
  BY DEF BeginStep, RestoreInv
<1>2. PICK n : FreshGuard(n, files)
  BY <1>1, GuardTakesWork
<1>3. /\ op.kind = "none" /\ work' = work
      /\ op'.kind = kind /\ op'.target = i /\ op'.left = todo
  BY <1>1 DEF BeginRestore
<1>4. aside' = strays[i]
  BY <1>3 DEF AsideNext
<1>5. OpHolds'
  <2>1. \A f \in todo : versions'[f][cps'[n].snap.exact[f]] = work'[f]
    BY <1>2, <1>3 DEF FreshGuard
  <2> QED
    BY <1>2, <1>3, <2>1 DEF FreshGuard, OpHolds, Covered, ContentAt
<1>6. ASSUME kind = "exact" PROVE ExactHolds'
  <2>1. Covered(cps[i].snap) \subseteq todo
    BY <1>6 DEF BeginStep, HasCode, Affected
  <2>2. cps'[i].snap = cps[i].snap /\ cps'[i].kind = cps[i].kind /\ seen'[i] = seen[i]
    BY RecordStays DEF RestoreInv, SeenNext
  <2>3. ASSUME cps[i].kind = "guard"
        PROVE  /\ todo \subseteq Covered(cps[i].snap)
               /\ \A f \in Files \ (Covered(cps[i].snap) \cup strays[i]) : work'[f] = seen'[i][f]
    <3>1. todo \subseteq Covered(cps[i].snap)
      BY <1>6, <2>3 DEF BeginStep, Affected
    <3>2. ASSUME NEW f \in Files \ (Covered(cps[i].snap) \cup strays[i])
          PROVE  work'[f] = seen'[i][f]
      BY <1>3, <2>2, <2>3 DEF RestoreInv, GuardHolds
    <3> QED
      BY <3>1, <3>2
  <2>4. Covered(cps'[i].snap) = Covered(cps[i].snap) /\ Covered(cps[i].snap)' = Covered(cps[i].snap)
    BY <2>2 DEF Covered
  <2> QED
    BY <1>3, <1>4, <2>1, <2>2, <2>3, <2>4 DEF ExactHolds
<1> QED
  BY <1>3, <1>5, <1>6 DEF ExactHolds

\* A file that is put back has its content then, or had it on the guard's word.
LEMMA PutBackGoal ==
  ASSUME RestoreInv, NEW g \in Files, PutBack(g), op.kind = "exact",
         g \in Covered(cps[op.target].snap) \ aside
  PROVE  work'[g] = ContentAt(g, cps[op.target].snap.exact[g])
<1>1. Goal(g) = ContentAt(g, cps[op.target].snap.exact[g])
  BY DEF Goal, Covered
<1>2. work \in [Files -> State] /\ g \in op.left
  BY DEF RestoreInv, IndTypeOK, TypeOK, PutBack
<1>3. CASE Kept(g)
  <2>1. work[g] = ContentAt(g, cps[op.guard].snap.exact[g])
    BY <1>2 DEF RestoreInv, OpHolds
  <2> QED
    BY <1>1, <1>3, <2>1 DEF Kept, PutBack
<1>4. CASE ~Kept(g)
  BY <1>1, <1>2, <1>4 DEF PutBack
<1> QED
  BY <1>3, <1>4

LEMMA PutBackHolds ==
  ASSUME RestoreInv, Next, SeenNext, AsideNext, NEW g \in Files, PutBack(g)
  PROVE  OpHolds' /\ ExactHolds'
<1>1. /\ op.kind # "none" /\ g \in op.left
      /\ op'.kind = op.kind /\ op'.target = op.target /\ op'.guard = op.guard
      /\ op'.left = op.left \ {g} /\ PuttingBack
  BY PutBackOp DEF RestoreInv
<1>2. aside' = aside /\ cps' = cps /\ versions' = versions
  BY <1>1 DEF AsideNext, PutBack
<1>3. \A f \in Files : f # g => work'[f] = work[f]
  BY DEF PutBack, RestoreInv, IndTypeOK, TypeOK
<1>4. op.left \subseteq Files /\ op.target \in DOMAIN cps
  BY <1>1 DEF RestoreInv, IndTypeOK, TypeOK, OpTypeOK, Operations
<1>5. seen'[op.target] = seen[op.target]
  BY <1>2, <1>4 DEF SeenNext
<1>6. OpHolds'
  BY <1>1, <1>2, <1>3, <1>4 DEF RestoreInv, OpHolds, Covered, ContentAt
<1>7. ASSUME op.kind = "exact" PROVE ExactHolds'
  <2> DEFINE target == cps[op.target]
  <2>1. ASSUME NEW f \in Covered(target.snap) \ ((op.left \ {g}) \cup aside)
        PROVE  work'[f] = ContentAt(f, target.snap.exact[f])
    <3>1. CASE f = g
      BY <1>7, <2>1, <3>1, PutBackGoal
    <3>2. CASE f # g
      <4>1. f \in Files /\ f \in Covered(target.snap) \ (op.left \cup aside)
        BY <2>1, <3>2 DEF Covered
      <4> QED
        BY <1>3, <1>7, <3>2, <4>1 DEF RestoreInv, ExactHolds
    <3> QED
      BY <3>1, <3>2
  <2>2. ASSUME target.kind = "guard"
        PROVE  /\ op.left \ {g} \subseteq Covered(target.snap)
               /\ \A f \in Files \ (Covered(target.snap) \cup aside) :
                    work'[f] = seen'[op.target][f]
    BY <1>1, <1>3, <1>5, <1>7, <2>2 DEF RestoreInv, ExactHolds
  <2> QED
    BY <1>1, <1>2, <2>1, <2>2 DEF ExactHolds, Covered, ContentAt
<1> QED
  BY <1>1, <1>6, <1>7 DEF ExactHolds

\* Whatever others change meanwhile has strayed.
LEMMA AsideHolds ==
  ASSUME RestoreInv, Next, SeenNext, AsideNext, Grown, RecordsGrown, AsideStep
  PROVE  OpHolds' /\ ExactHolds'
<1>1. CASE op'.kind = "none"
  BY <1>1 DEF OpHolds, ExactHolds
<1>2. CASE op' = op /\ op.kind # "none"
  <2>1. aside' = aside \cup Changed
    BY <1>2 DEF AsideNext, PuttingBack
  <2>2. \A f \in Files \ aside' : work'[f] = work[f]
    BY <2>1 DEF Changed
  <2>3. op.target \in DOMAIN cps /\ op.guard \in DOMAIN cps /\ op.left \subseteq Files
    BY <1>2 DEF RestoreInv, IndTypeOK, TypeOK, OpTypeOK, Operations
  <2>4. seen'[op.target] = seen[op.target]
    BY <2>3 DEF SeenNext, RecordsGrown
  <2>5. \A i \in {op.target, op.guard} :
          /\ cps'[i].kind = cps[i].kind /\ cps'[i].snap = cps[i].snap
          /\ \A f \in Covered(cps[i].snap) :
               versions'[f][cps[i].snap.exact[f]] = ContentAt(f, cps[i].snap.exact[f])
    BY <2>3, ContentStays DEF RestoreInv, RecordsGrown
  <2>6. OpHolds'
    <3>1. cps[op.guard].kind = "guard" /\ op.left \subseteq Covered(cps[op.guard].snap)
      BY <1>2 DEF RestoreInv, OpHolds
    <3>2. ASSUME NEW f \in op.left \ aside'
          PROVE  work'[f] = versions'[f][cps[op.guard].snap.exact[f]]
      BY <1>2, <2>1, <2>2, <2>3, <2>5, <3>1 DEF RestoreInv, OpHolds
    <3> QED
      BY <1>2, <2>5, <3>1, <3>2 DEF OpHolds, Covered, ContentAt
  <2>7. ASSUME op.kind = "exact" PROVE ExactHolds'
    <3>1. ASSUME NEW f \in Covered(cps[op.target].snap) \ (op.left \cup aside')
          PROVE  work'[f] = versions'[f][cps[op.target].snap.exact[f]]
      <4>1. f \in Files
        BY DEF Covered
      <4> QED
        BY <2>1, <2>2, <2>5, <2>7, <4>1 DEF RestoreInv, ExactHolds
    <3>2. ASSUME cps[op.target].kind = "guard"
          PROVE  /\ op.left \subseteq Covered(cps[op.target].snap)
                 /\ \A f \in Files \ (Covered(cps[op.target].snap) \cup aside') :
                      work'[f] = seen'[op.target][f]
      BY <2>1, <2>2, <2>4, <2>7, <3>2 DEF RestoreInv, ExactHolds
    <3> QED
      BY <1>2, <2>5, <3>1, <3>2 DEF ExactHolds, Covered, ContentAt
  <2> QED
    BY <1>2, <2>6, <2>7 DEF ExactHolds
<1> QED
  BY <1>1, <1>2 DEF AsideStep

-------------------------------------------------------------------------------
(* The theorems about restores. *)

LEMMA RestoreNext ==
  ASSUME RestoreInv, [Next /\ SeenNext /\ StraysNext /\ AsideNext]_varsR
  PROVE  RestoreInv'
<1>1. CASE Next /\ SeenNext /\ StraysNext /\ AsideNext
  <2>1. IndTypeOK' /\ Grown /\ RecordsGrown
    BY <1>1, NextType, StepGrows, RecordsGrow DEF RestoreInv
  <2>2. \A i \in DOMAIN cps' : GuardHolds(i)'
    BY <1>1, <2>1, GuardsNext
  <2>3. OpHolds' /\ ExactHolds'
    <3>1. ASSUME RestoreBegun PROVE OpHolds' /\ ExactHolds'
      BY <1>1, <2>1, <3>1, BeginHolds DEF RestoreBegun
    <3>2. ASSUME NEW g \in Files, PutBack(g) PROVE OpHolds' /\ ExactHolds'
      BY <1>1, <3>2, PutBackHolds
    <3>3. ASSUME AsideStep PROVE OpHolds' /\ ExactHolds'
      BY <1>1, <2>1, <3>3, AsideHolds
    <3> QED
      BY <1>1, <3>1, <3>2, <3>3, RestoreKinds DEF RestoreInv
  <2> QED
    BY <2>1, <2>2, <2>3 DEF RestoreInv
<1>2. CASE UNCHANGED varsR
  <2>1. IndTypeOK'
    BY <1>2, StutterType DEF varsR, RestoreInv
  <2> QED
    BY <1>2, <2>1 DEF RestoreInv, varsR, vars, GuardHolds, OpHolds, ExactHolds, Covered, ContentAt
<1> QED
  BY <1>1, <1>2

LEMMA RestoreInit ==
  ASSUME InitR
  PROVE  RestoreInv
<1>1. IndTypeOK /\ op.kind = "none" /\ cps = <<>>
  BY InitType DEF InitR, Init, NoOp
<1> QED
  BY <1>1 DEF RestoreInv, OpHolds, ExactHolds

\* When a guard has been put back, by an undo or by name, every file is as it
\* was when the guarded restore began, also when that restore stopped half-way
\* or was itself an undo; excepted are files that changed by other hands since.
THEOREM UndoReturnsThere == SpecR => []UndoReturns
<1>1. RestoreInv => UndoReturns
  <2> SUFFICES ASSUME RestoreInv, op.kind = "exact", op.left = {},
                      cps[op.target].kind = "guard", NEW f \in Files \ aside
               PROVE  work[f] = seen[op.target][f]
    BY DEF UndoReturns
  <2>1. op.target \in DOMAIN cps
    BY DEF RestoreInv, IndTypeOK, TypeOK, OpTypeOK
  <2>2. CASE f \in Covered(cps[op.target].snap)
    BY <2>1, <2>2 DEF RestoreInv, ExactHolds, GuardHolds
  <2>3. CASE f \notin Covered(cps[op.target].snap)
    BY <2>3 DEF RestoreInv, ExactHolds
  <2> QED
    BY <2>2, <2>3
<1> QED
  BY <1>1, RestoreInit, RestoreNext, PTL DEF SpecR

\* When a restore to another checkpoint has put all files back, the files the
\* checkpoint covers have the content recorded with it, unless somebody wrote
\* them during the restore.
THEOREM RestoreBringsBack == SpecR => []RestoredFilesMatch
<1>1. RestoreInv => RestoredFilesMatch
  BY DEF RestoreInv, ExactHolds, RestoredFilesMatch
<1> QED
  BY <1>1, RestoreInit, RestoreNext, PTL DEF SpecR
===============================================================================
