-------------------------- MODULE RunCaptureHistory --------------------------
(***************************************************************************)
(* RunCheckpoints with history variables, which no action reads: what the  *)
(* contents were when a run first touched a file, what each run changed    *)
(* and what befell it; and the properties of captures that need them.      *)
(***************************************************************************)
EXTENDS RunCheckpoints

CONSTANT Unknown        \* the content of a file not touched yet

ASSUME UnknownAssumption == Unknown \notin State

VARIABLES first,        \* content of each file at its first touch by each run
                        \* since the run's last snapshot
          written,      \* the files each run changed by a captured call
          fate          \* what befell each run

varsH == <<vars, first, written, fate>>

Fates == {"overlapped",   \* another run was active at the same time
          "cut",          \* canceled in a turn that had written
          "failed"}       \* a crash, or a record the database refused

InitH ==
  /\ Init
  /\ first = [r \in Runs |-> [f \in Files |-> Unknown]]
  /\ written = [r \in Runs |-> {}]
  /\ fate = [r \in Runs |-> {}]

-------------------------------------------------------------------------------
(* What a step adds to the history, told from the step itself. *)

Active == {r \in Runs : run[r].pc \notin {"idle", "done"}}

Begun(r, f) == f \in {c.file : c \in run'[r].calls \ run[r].calls}

\* The files for which a call of r made a change.
ChangedBy(r) ==
  {c.file : c \in {d \in run[r].calls \ run'[r].calls :
                          work'[d.file] \notin {work[d.file], d.found}}}

SnapshotLeft(r) == run[r].pc = "compacting" /\ run'[r].pc = "open"

FirstNext ==
  first' = [r \in Runs |-> [f \in Files |->
              IF SnapshotLeft(r) THEN Unknown
              ELSE IF Begun(r, f) /\ first[r][f] = Unknown THEN work[f]
              ELSE first[r][f]]]

WrittenNext ==
  written' = [r \in Runs |-> written[r] \cup ChangedBy(r)]

Cut(r) == run[r].pc = "open" /\ run'[r].pc = "closing" /\ run[r].turnWrote

Failed(r) ==
  \/ SnapshotLeft(r) /\ cps' = cps
  \/ run'[r].pc = "done" /\ run[r].pc \in {"open", "compacting", "recording"}
  \/ run'[r].pc = "done" /\ run[r].pc = "closing" /\ run[r].wrote /\ Pending # {}

FateNext ==
  fate' = [r \in Runs |->
             fate[r] \cup (IF r \in Active' /\ Active' # {r} THEN {"overlapped"} ELSE {})
                     \cup (IF Cut(r) THEN {"cut"} ELSE {})
                     \cup (IF Failed(r) THEN {"failed"} ELSE {})]

SpecH == InitH /\ [][Next /\ FirstNext /\ WrittenNext /\ FateNext]_varsH
-------------------------------------------------------------------------------
(* Properties. *)

\* The snapshot of a run that no other run overlapped covers exactly the files
\* the run touched since its last snapshot, and its baseline is what each of
\* them held when the run first touched it, whoever wrote it since.
BaselineIsFirstTouch ==
  \A r \in Runs :
    (run[r].pc \in {"compacting", "recording"} /\ "overlapped" \notin fate[r]) =>
      \A f \in Files :
        LET base == run[r].snap.base[f]
        IN IF base = 0 THEN first[r][f] = Unknown ELSE first[r][f] = ContentAt(f, base)

CoveredByRun(r) ==
  UNION {Covered(cps[i].snap) : i \in {j \in DOMAIN cps : cps[j].run = r /\ cps[j].kind # "guard"}}

WritesCheckpointed(r) == run[r].pc = "done" => written[r] \subseteq CoveredByRun(r)

\* Every file that a run changed by a captured call is covered by a checkpoint
\* of the run when it is over, unless another run overlapped it, it was
\* canceled in a turn that had written, or a crash or the database interfered.
RunWritesCheckpointed == \A r \in Runs : fate[r] = {} => WritesCheckpointed(r)
===============================================================================
