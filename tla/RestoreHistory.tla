---------------------------- MODULE RestoreHistory ----------------------------
(***************************************************************************)
(* RunCheckpoints with history variables, which no action reads: the       *)
(* workspace when each checkpoint was recorded, and what changed since by  *)
(* other hands; and the properties of restores that need them.             *)
(***************************************************************************)
EXTENDS RunCheckpoints

VARIABLES seen,         \* the workspace when each checkpoint was recorded
          strays,       \* for each guard, the files changed since it was recorded
                        \* other than by the restore it guards
          aside         \* for the restore in progress: what strayed before it
                        \* from the guard it goes back to, or changed under it

varsR == <<vars, seen, strays, aside>>

InitR == Init /\ seen = <<>> /\ strays = <<>> /\ aside = {}

-------------------------------------------------------------------------------
(* What a step adds to the history, told from the step itself. *)

Changed == {f \in Files : work'[f] # work[f]}

PuttingBack == op.kind # "none" /\ op'.kind = op.kind /\ op'.left # op.left

SeenNext ==
  seen' = [i \in DOMAIN cps' |-> IF i \in DOMAIN cps THEN seen[i] ELSE work]

StraysNext ==
  strays' = [i \in DOMAIN cps' |->
               IF i \notin DOMAIN cps \/ cps[i].kind # "guard" THEN {}
               ELSE IF PuttingBack /\ i = op.guard THEN strays[i]
               ELSE strays[i] \cup Changed]

AsideNext ==
  aside' = IF op'.kind = "none" THEN {}
           ELSE IF op.kind = "none" THEN strays[op'.target]
           ELSE IF PuttingBack THEN aside
           ELSE aside \cup Changed

SpecR == InitR /\ [][Next /\ SeenNext /\ StraysNext /\ AsideNext]_varsR
-------------------------------------------------------------------------------
(* Properties. *)

\* When a guard has been put back, by an undo or by name, every file is as it
\* was when the guarded restore began, also when that restore stopped half-way
\* or was itself an undo; excepted are files that changed by other hands since.
UndoReturns ==
  (op.kind = "exact" /\ op.left = {} /\ cps[op.target].kind = "guard") =>
    \A f \in Files \ aside : work[f] = seen[op.target][f]

\* When a restore to another checkpoint has put all files back, the files the
\* checkpoint covers have the content recorded with it, unless somebody wrote
\* them during the restore.
RestoredFilesMatch ==
  (op.kind = "exact" /\ op.left = {} /\ cps[op.target].kind # "guard") =>
    \A f \in Covered(cps[op.target].snap) \ aside :
      work[f] = ContentAt(f, cps[op.target].snap.exact[f])
===============================================================================
