------------------------------ MODULE ToolCalls ------------------------------
(* The tool calls of one turn: workers that take them in order, one call per  *)
(* tool at a time, approval of calls by the user, questions to the user, the  *)
(* memory of approvals and the phase clients are shown while somebody waits.  *)
(*                                                                            *)
(* Requests to the user are identified with the call that makes them: a call  *)
(* makes at most one. The entries of the lock that orders the approvals of a  *)
(* run are counted like those of the session locks, in a table of their own.  *)
EXTENDS Naturals, FiniteSets

CONSTANTS
  NumCalls,     \* calls of the turn, in the order the model made them
  Parallelism,  \* workers
  ToolOf,       \* the tool of each call
  AskUser,      \* the tool that asks the user a question
  KeyOf,        \* what an approval of the call is remembered under
  Policy,       \* what the rules say of each call: "allow" or "ask"
  Keys, Entries, AskKey, None

Calls == 1 .. NumCalls

ASSUME CallsAssumption ==
  /\ NumCalls \in Nat /\ Parallelism \in Nat \ {0}
  /\ KeyOf \in [Calls -> Keys]
  /\ Policy \in [Calls -> {"allow", "ask"}]
  /\ None \notin Calls /\ None \notin Entries

VARIABLES
  feed,      \* the loop that hands calls to workers, then saves the results
  call,      \* each call
  ctx,       \* which contexts live: "live", without the turn's, without the run's
  failed,    \* firstErr is set
  memory,    \* session permission memory
  request,   \* requests to the user in the brokers
  shown,     \* requests clients have been shown
  phase,     \* lifecycle
  waiting,   \* waitingPermissionCount and waitingUserQuestionCount
  question,  \* pendingUserQuestion
  saved,     \* calls whose result is in the transcript
  lockOf, refs, holder, place  \* permissionAskLocks

Lock == INSTANCE SessionLocks WITH Users <- Calls, Sessions <- {AskKey}

lockVars == <<lockOf, refs, holder, place>>
userVars == <<request, shown>>
phaseVars == <<phase, waiting, question>>
turnVars == <<feed, saved>>
vars == <<turnVars, call, ctx, failed, memory, userVars, phaseVars, lockVars>>

Scopes == {"once", "always", "reject"}
Answers == Scopes \cup {"answer"}

NoRequest == [state |-> "none", submitted |-> FALSE, sending |-> None, channel |-> None]

Places ==
  {"queued", "start", "tool", "before", "check", "running", "ask", "entered",
   "acquire", "open", "show", "wait", "close", "unlock", "release", "decide",
   "remembered", "ended", "leave", "left", "returned"}

TypeOK ==
  /\ feed \in [at : {"feeding", "joining", "saving", "over"}, next : 1 .. NumCalls + 1,
               checked : BOOLEAN]
  /\ saved \subseteq Calls
  /\ call \in [Calls -> [at : Places, right : {"none", "rule", "once", "always"},
                         answer : Answers \cup {None}, result : {"none", "ok", "error", "canceled"}]]
  /\ ctx \in {"live", "turn", "run"}
  /\ failed \in BOOLEAN
  /\ memory \in [Keys -> Scopes \cup {"none"}]
  /\ request \in [Calls -> [state : {"none", "open", "closed"}, submitted : BOOLEAN,
                            sending : Answers \cup {None}, channel : Answers \cup {None}]]
  /\ shown \subseteq Calls
  /\ phase \in {"execute", "permission", "question"}
  /\ waiting \in [{"permission", "question"} -> 0 .. NumCalls]
  /\ question \in Calls \cup {None}
  /\ Lock!LocksTypeOK

Init ==
  /\ feed = [at |-> "feeding", next |-> 1, checked |-> FALSE]
  /\ saved = {}
  /\ call = [c \in Calls |-> [at |-> "queued", right |-> "none", answer |-> None, result |-> "none"]]
  /\ ctx = "live"
  /\ failed = FALSE
  /\ memory = [k \in Keys |-> "none"]
  /\ request = [c \in Calls |-> NoRequest]
  /\ shown = {}
  /\ phase = "execute"
  /\ waiting = [k \in {"permission", "question"} |-> 0]
  /\ question = None
  /\ Lock!LocksInit

-----------------------------------------------------------------------------
(* The loop that hands out the calls and the one that saves their results. *)

Asks(c) == ToolOf[c] = AskUser
Kind(c) == IF Asks(c) THEN "question" ELSE "permission"

Stopped == failed \/ ctx # "live"

Working == {c \in Calls : call[c].at \notin {"queued", "returned"}}

\* A mutant: the loop ends without an error when the context has ended.
CheckForgetsError ==
  /\ feed.at = "feeding" /\ feed.next <= NumCalls /\ ~feed.checked
  /\ feed' = IF Stopped THEN [feed EXCEPT !.at = "joining"] ELSE [feed EXCEPT !.checked = TRUE]
  /\ UNCHANGED <<failed, saved, call, ctx, memory, userVars, phaseVars, lockVars>>

Check ==
  /\ feed.at = "feeding" /\ feed.next <= NumCalls /\ ~feed.checked
  /\ feed' = IF Stopped THEN [feed EXCEPT !.at = "joining"] ELSE [feed EXCEPT !.checked = TRUE]
  /\ failed' = (failed \/ Stopped)
  /\ UNCHANGED <<saved, call, ctx, memory, userVars, phaseVars, lockVars>>

\* A worker is free to take the next call.
Send ==
  /\ feed.checked
  /\ Cardinality(Working) < Parallelism
  /\ feed' = [feed EXCEPT !.next = @ + 1, !.checked = FALSE]
  /\ call' = [call EXCEPT ![feed.next].at = "start"]
  /\ UNCHANGED <<saved, ctx, failed, memory, userVars, phaseVars, lockVars>>

Join ==
  /\ \/ feed.at = "feeding" /\ feed.next > NumCalls
     \/ feed.at = "joining"
  /\ Working = {}
  /\ feed' = [feed EXCEPT !.at = "saving", !.next = 1]
  /\ UNCHANGED <<saved, call, ctx, failed, memory, userVars, phaseVars, lockVars>>

\* Results are saved in the order of the calls, whatever the order they ended
\* in; a call that was canceled has none.
Save ==
  /\ feed.at = "saving" /\ feed.next <= NumCalls
  /\ feed' = [feed EXCEPT !.next = @ + 1]
  /\ IF call[feed.next].result \in {"ok", "error"}
     THEN \/ ctx # "run" /\ saved' = saved \cup {feed.next} /\ failed' = (failed \/ ctx # "live")
          \/ failed' = TRUE /\ UNCHANGED saved
     ELSE UNCHANGED <<saved, failed>>
  /\ ctx' = IF failed' /\ ctx = "live" THEN "turn" ELSE ctx
  /\ UNCHANGED <<call, memory, userVars, phaseVars, lockVars>>

EndTurn ==
  /\ feed.at = "saving" /\ feed.next > NumCalls
  /\ feed' = [feed EXCEPT !.at = "over"]
  /\ UNCHANGED <<saved, call, ctx, failed, memory, userVars, phaseVars, lockVars>>

\* The run is canceled, or its client is gone.
Cancel ==
  /\ ctx # "run"
  /\ ctx' = "run"
  /\ UNCHANGED <<turnVars, call, failed, memory, userVars, phaseVars, lockVars>>

-----------------------------------------------------------------------------
(* One call in the hands of a worker. *)

Go(c, from, to) == call[c].at = from /\ call' = [call EXCEPT ![c].at = to]

Rest == <<turnVars, ctx, failed>>

\* The call returns to its worker; an error other than the end of a context
\* is a result like any other.
Ends(c, result) ==
  /\ call' = [call EXCEPT ![c].at = "returned", ![c].result = result]
  /\ failed' = (failed \/ result = "canceled")
  /\ ctx' = IF result = "canceled" /\ ctx = "live" THEN "turn" ELSE ctx
  /\ UNCHANGED <<turnVars, memory, userVars, phaseVars, lockVars>>

Start(c) ==
  /\ call[c].at = "start"
  /\ IF Stopped
     THEN Ends(c, "canceled")
     ELSE Go(c, "start", "tool") /\ UNCHANGED <<Rest, memory, userVars, phaseVars, lockVars>>

\* Calls of the same tool run one after another.
Using(t) == {c \in Working : ToolOf[c] = t /\ call[c].at \notin {"start", "tool"}}

TakeTool(c) ==
  /\ Go(c, "tool", "before")
  /\ Using(ToolOf[c]) = {}
  /\ UNCHANGED <<Rest, memory, userVars, phaseVars, lockVars>>

\* The hook before the call blocks it. (A runner on another machine would take
\* the call here; no session is ever bound to one, so none does.)
Blocked(c) ==
  /\ call[c].at = "before"
  /\ Ends(c, "error")

Attempt(c) ==
  /\ Go(c, "before", IF Asks(c) THEN "ask" ELSE "check")
  /\ UNCHANGED <<Rest, memory, userVars, phaseVars, lockVars>>

\* What lets the call run: the rules, or what the memory holds for its key.
Right(c) == IF Policy[c] = "allow" THEN "rule" ELSE memory[KeyOf[c]]

\* A mutant: an approval for one call stays.
ConsumedNever(c, right) == memory

\* An approval for one call is used up by the first call of its key.
Consumed(c, right) == IF right = "once" THEN [memory EXCEPT ![KeyOf[c]] = "none"] ELSE memory

CheckPermission(c) ==
  /\ call[c].at \in {"check", "remembered"}
  /\ \/ /\ Right(c) \in {"rule", "once", "always"}
        /\ call' = [call EXCEPT ![c].at = "running", ![c].right = Right(c)]
        /\ memory' = Consumed(c, Right(c))
     \/ /\ Right(c) = "none" /\ call[c].at = "check"
        /\ call' = [call EXCEPT ![c].at = "ask"]
        /\ UNCHANGED memory
     \/ /\ Right(c) = "reject" \/ (Right(c) = "none" /\ call[c].at = "remembered")
        /\ call' = [call EXCEPT ![c].at = IF @ = "check" THEN "ended" ELSE "leave",
                                ![c].result = "error"]
        /\ UNCHANGED memory
  /\ UNCHANGED <<Rest, userVars, phaseVars, lockVars>>

\* The tool ends: a call that was approved leaves the waiting phase only now.
RunTool(c) ==
  /\ call[c].at = "running"
  /\ \E result \in {"ok", "error", "canceled"} :
       call' = [call EXCEPT ![c].at = IF call[c].answer = None THEN "ended" ELSE "leave",
                            ![c].result = result]
  /\ UNCHANGED <<Rest, memory, userVars, phaseVars, lockVars>>

-----------------------------------------------------------------------------
(* Waiting for the user. *)

\* deriveEffectiveRunState
Effective(w) == CASE w["question"] > 0   -> "question"
                  [] w["permission"] > 0 -> "permission"
                  [] OTHER               -> "execute"

BlockAsk(c) ==
  /\ call[c].at = "ask" /\ ~Asks(c)
  /\ Ends(c, "error")

Enter(c) ==
  /\ Go(c, "ask", "entered")
  /\ waiting' = [waiting EXCEPT ![Kind(c)] = @ + 1]
  /\ UNCHANGED <<Rest, memory, userVars, phase, question, lockVars>>

\* The phase is derived from the counts as they are now. A question is shown
\* before its request is open, an approval after.
Entered(c) ==
  /\ Go(c, "entered", IF Asks(c) THEN "show" ELSE "acquire")
  /\ phase' = Effective(waiting)
  /\ question' = IF Asks(c) THEN c ELSE question
  /\ UNCHANGED <<Rest, memory, userVars, waiting, lockVars>>

AcquireAsk(c) ==
  /\ call[c].at = "acquire"
  /\ Lock!Acquire(c, AskKey)
  /\ UNCHANGED <<Rest, call, memory, userVars, phaseVars>>

LockAsk(c) ==
  /\ Go(c, "acquire", "open")
  /\ Lock!Lock(c)
  /\ UNCHANGED <<Rest, memory, userVars, phaseVars>>

Open(c) ==
  /\ Go(c, "open", IF Asks(c) THEN "wait" ELSE "show")
  /\ request' = [request EXCEPT ![c].state = "open"]
  /\ UNCHANGED <<Rest, memory, shown, phaseVars, lockVars>>

\* The event is delivered, or given up when the context ends or the queue is full.
Show(c) ==
  /\ Go(c, "show", IF Asks(c) THEN "open" ELSE "wait")
  /\ shown' = shown \cup {c} \/ ((ctx # "live" \/ Asks(c)) /\ UNCHANGED shown)
  /\ UNCHANGED <<Rest, memory, request, phaseVars, lockVars>>

\* A mutant: only an answer ends the wait for an approval.
StopsOnTimeoutOnly(c) == Asks(c)

\* A wait stops with the context; a question also has a time limit.
Stops(c) == ctx # "live" \/ Asks(c)

Wait(c) ==
  /\ call[c].at = "wait"
  /\ \/ /\ request[c].channel # None
        /\ call' = [call EXCEPT ![c].at = "close", ![c].answer = request[c].channel]
     \/ Stops(c) /\ call' = [call EXCEPT ![c].at = "close"]
  /\ UNCHANGED <<Rest, memory, userVars, phaseVars, lockVars>>

Close(c) ==
  /\ Go(c, "close", IF Asks(c) THEN "leave" ELSE "unlock")
  /\ request' = [request EXCEPT ![c].state = "closed"]
  /\ UNCHANGED <<Rest, memory, shown, phaseVars, lockVars>>

UnlockAsk(c) ==
  /\ Go(c, "unlock", "release")
  /\ Lock!Unlock(c)
  /\ UNCHANGED <<Rest, memory, userVars, phaseVars>>

ReleaseAsk(c) ==
  /\ Go(c, "release", "decide")
  /\ Lock!Release(c)
  /\ UNCHANGED <<Rest, memory, userVars, phaseVars>>

\* A mutant: what comes back is remembered although the wait was stopped.
DecideAlways(c) ==
  /\ call[c].at = "decide"
  /\ call' = IF call[c].answer \in {"reject", None}
             THEN [call EXCEPT ![c].at = "leave", ![c].result = "error"]
             ELSE [call EXCEPT ![c].at = "remembered"]
  /\ memory' = [memory EXCEPT ![KeyOf[c]] = call[c].answer]
  /\ UNCHANGED <<Rest, userVars, phaseVars, lockVars>>

\* The answer is remembered; an approved call is then tried again.
Decide(c) ==
  /\ call[c].at = "decide"
  /\ IF call[c].answer = None
     THEN /\ call' = [call EXCEPT ![c].at = "leave", ![c].result = "canceled"]
          /\ UNCHANGED memory
     ELSE /\ call' = IF call[c].answer = "reject"
                     THEN [call EXCEPT ![c].at = "leave", ![c].result = "error"]
                     ELSE [call EXCEPT ![c].at = "remembered"]
          /\ memory' = [memory EXCEPT ![KeyOf[c]] = call[c].answer]
  /\ UNCHANGED <<Rest, userVars, phaseVars, lockVars>>

\* A mutant: a call that was canceled stays counted.
LeaveAnswered(c) ==
  /\ Go(c, "leave", "left")
  /\ waiting' = [waiting EXCEPT ![Kind(c)] = IF call[c].answer # None /\ @ > 0 THEN @ - 1 ELSE @]
  /\ UNCHANGED <<Rest, memory, userVars, phase, question, lockVars>>

Leave(c) ==
  /\ Go(c, "leave", "left")
  /\ waiting' = [waiting EXCEPT ![Kind(c)] = IF @ > 0 THEN @ - 1 ELSE @]
  /\ UNCHANGED <<Rest, memory, userVars, phase, question, lockVars>>

\* A call that never waited for the user.
End(c) == call[c].at = "ended" /\ Ends(c, call[c].result)

\* How a question that got no answer ends depends on what stopped the wait.
Outcomes(c) ==
  IF ~Asks(c) THEN {call[c].result}
  ELSE IF call[c].answer # None THEN {"ok"}
  ELSE {"error"} \cup (IF ctx # "live" THEN {"canceled"} ELSE {})

Return(c) ==
  /\ call[c].at = "left"
  /\ \E result \in Outcomes(c) :
       /\ call' = [call EXCEPT ![c].at = "returned", ![c].result = result]
       /\ failed' = (failed \/ result = "canceled")
       /\ ctx' = IF result = "canceled" /\ ctx = "live" THEN "turn" ELSE ctx
  /\ phase' = Effective(waiting)
  /\ question' = IF Asks(c) /\ question = c THEN None ELSE question
  /\ UNCHANGED <<turnVars, memory, userVars, waiting, lockVars>>

-----------------------------------------------------------------------------
(* Clients. *)

\* Resolve: the first answer to an open request is taken, any other has no effect.
Submit(c, answer) ==
  /\ c \in shown /\ request[c].state = "open" /\ ~request[c].submitted
  /\ request' = [request EXCEPT ![c].submitted = TRUE, ![c].sending = answer]
  /\ UNCHANGED <<Rest, call, memory, shown, phaseVars, lockVars>>

Deliver(c) ==
  /\ request[c].sending # None
  /\ request' = [request EXCEPT ![c].sending = None,
                                ![c].channel = IF @ = None THEN request[c].sending ELSE @]
  /\ UNCHANGED <<Rest, call, memory, shown, phaseVars, lockVars>>

AnswersTo(c) == IF Asks(c) THEN {"answer"} ELSE Scopes

-----------------------------------------------------------------------------
CallStep(c) ==
  \/ Start(c) \/ Blocked(c) \/ Attempt(c) \/ CheckPermission(c) \/ RunTool(c)
  \/ BlockAsk(c) \/ Enter(c) \/ Entered(c) \/ AcquireAsk(c) \/ Open(c) \/ Show(c)
  \/ Wait(c) \/ Close(c) \/ UnlockAsk(c) \/ ReleaseAsk(c) \/ Decide(c)
  \/ Leave(c) \/ End(c) \/ Return(c) \/ Deliver(c)

TurnStep == Check \/ Send \/ Join \/ Save \/ EndTurn

Over == feed.at = "over" /\ UNCHANGED vars

Next ==
  \/ TurnStep
  \/ \E c \in Calls : CallStep(c) \/ TakeTool(c) \/ LockAsk(c)
  \/ \E c \in Calls : \E answer \in AnswersTo(c) : Submit(c, answer)
  \/ Cancel
  \/ Over

Spec == Init /\ [][Next]_vars

\* Tools come back: they have a time limit. A Go mutex serves every waiter, so a
\* worker that can go on again and again does. Nothing is assumed of the user.
Fairness ==
  /\ WF_vars(TurnStep)
  /\ \A c \in Calls : SF_vars(CallStep(c) \/ TakeTool(c) \/ LockAsk(c))

FairSpec == Spec /\ Fairness

-----------------------------------------------------------------------------
Remembered(c) == call[c].answer # None /\ call[c].at \notin {"close", "unlock", "release", "decide"}

\* Every approval for one call (SessionPermissionScopeOnce) lets at most one call
\* of its key run, and none is left over when it did.
OnceIsOnce ==
  \A k \in Keys :
    LET ran == {c \in Calls : KeyOf[c] = k /\ call[c].right = "once"}
        approved == {c \in Calls : KeyOf[c] = k /\ call[c].answer = "once" /\ Remembered(c)}
    IN Cardinality(ran) + (IF memory[k] = "once" THEN 1 ELSE 0) <= Cardinality(approved)

\* "仅当前一次请求放行" (internal/tools/session_memory.go:18): an approval for one
\* call lets the call run that the user was asked about.
OnceIsForItsCall == \A c \in Calls : call[c].right = "once" => call[c].answer = "once"

\* A run has one approval in front of the user at a time, however many calls
\* of the turn need one (permissionAskLocks).
OneRequestAtATime ==
  Cardinality({c \in Calls : ~Asks(c) /\ request[c].state = "open"}) <= 1

\* When the calls are over nobody waits any more: clients are shown the phase
\* of the main chain, no question is pending, no request can be answered and
\* the ask locks are gone.
NothingLeftWaiting ==
  feed.at \in {"saving", "over"} =>
    /\ phase = "execute" /\ question = None
    /\ \A k \in {"permission", "question"} : waiting[k] = 0
    /\ \A c \in Calls : request[c].state # "open"
    /\ lockOf[AskKey] = None

\* A turn that ends without an error has the result of every call in the
\* transcript: the next request to the model answers all its calls.
TurnComplete == (feed.at = "over" /\ ~failed) => saved = Calls

\* A turn waits for nobody but the user: it comes to its end, or to a request
\* for an approval the user was shown and has not answered while the run lives.
Unanswered ==
  ctx = "live" /\ \E c \in Calls : ~Asks(c) /\ call[c].at = "wait" /\ ~request[c].submitted

TurnEnds == []<>(feed.at = "over" \/ Unanswered)
=============================================================================
