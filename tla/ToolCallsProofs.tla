---------------------------- MODULE ToolCallsProofs ----------------------------
(* The calls of a turn, proved for any number of calls, workers, tools, keys   *)
(* and lock entries and any answers of the user, at any time or never.         *)
EXTENDS ToolCalls, FiniteSetTheorems, TLAPS

-----------------------------------------------------------------------------
(* What holds of a call by the place it stands at. *)

\* A call is one of those that wait for the user from Enter to Leave, also
\* while the tool runs that the user allowed.
Counted(c) ==
  \/ call[c].at \in {"entered", "acquire", "open", "show", "wait", "close",
                     "unlock", "release", "decide", "remembered", "leave"}
  \/ call[c].at = "running" /\ call[c].answer # None

CountedOf(k) == {c \in Calls : Kind(c) = k /\ Counted(c)}

\* A question has no part in the approvals, an answer is there once the wait
\* is over, a right once the call may run, and a call that ends has a result.
PlaceOK(c) ==
  /\ Asks(c) => call[c].at \notin {"check", "acquire", "unlock", "release", "decide", "remembered"}
  /\ call[c].answer # None =>
       call[c].at \in {"close", "unlock", "release", "decide", "remembered", "running",
                       "leave", "left", "returned"}
  /\ call[c].at = "remembered" => call[c].answer # None
  /\ call[c].right # "none" => call[c].at \in {"running", "ended", "leave", "left", "returned"}
  /\ call[c].at \in {"ended", "returned"} \/ (~Asks(c) /\ call[c].at \in {"leave", "left"})
       => call[c].result # "none"

\* A request is open while its call shows it or waits for it. A question is
\* shown before it is open.
RequestOK(c) ==
  request[c].state = "open" <=>
    (call[c].at \in {"wait", "close"} \/ (~Asks(c) /\ call[c].at = "show"))

\* A call that asks for an approval holds the ask lock as long as its request
\* may be open.
LockOK(c) ==
  place[c].at \in
    CASE call[c].at = "acquire" -> {"idle", "queued"}
      [] ~Asks(c) /\ call[c].at \in {"open", "show", "wait", "close", "unlock"} -> {"holding"}
      [] call[c].at = "release" -> {"unlocked"}
      [] OTHER -> {"idle"}

\* The answer of a request is one its call can have.
AnswerOK(c) ==
  {call[c].answer, request[c].sending, request[c].channel} \subseteq AnswersTo(c) \cup {None}

Standing == \A c \in Calls : PlaceOK(c) /\ RequestOK(c) /\ LockOK(c) /\ AnswerOK(c)

-----------------------------------------------------------------------------
(* What holds of the loop. *)

Feeding ==
  /\ feed.checked => feed.at = "feeding" /\ feed.next <= NumCalls
  /\ feed.at = "feeding" => \A c \in Calls : call[c].at = "queued" <=> c >= feed.next
  /\ feed.at = "joining" => failed
  /\ feed.at \in {"saving", "over"} => Working = {}

\* Unless the turn has failed, every call that has returned has a result to be
\* saved, and at the end every call has returned.
Saving ==
  ~failed =>
    /\ \A c \in Calls : call[c].at = "returned" => call[c].result # "canceled"
    /\ feed.at \in {"saving", "over"} =>
         /\ \A c \in Calls : call[c].at = "returned" /\ (c < feed.next => c \in saved)
    /\ feed.at = "over" => feed.next > NumCalls

-----------------------------------------------------------------------------
(* What clients are shown. *)

Counting == \A k \in {"permission", "question"} : waiting[k] = Cardinality(CountedOf(k))

\* The phase is as the counts say, or somebody is about to derive it.
Showing ==
  /\ phase = Effective(waiting) \/ \E c \in Calls : call[c].at \in {"entered", "left"}
  /\ question # None =>
       /\ Asks(question)
       /\ call[question].at \in {"open", "show", "wait", "close", "leave", "left"}

-----------------------------------------------------------------------------
(* The ask lock: everybody at it refers to the entry of the table, whose count *)
(* is their number, and whoever believes to hold it holds its mutex.           *)

AtLock == {c \in Calls : place[c] # Lock!Idle}

AskLock ==
  /\ \A c \in AtLock : place[c].entry = lockOf[AskKey]
  /\ lockOf[AskKey] # None => AtLock # {} /\ refs[lockOf[AskKey]] = Cardinality(AtLock)
  /\ \A e \in Entries, c \in Calls :
       holder[e] = c <=> (place[c].at = "holding" /\ place[c].entry = e)

IInv == TypeOK /\ AskLock /\ Standing /\ Feeding /\ Saving /\ Counting /\ Showing /\ OnceIsOnce

-----------------------------------------------------------------------------
(* The steps. *)

CallState ==
  [at : Places, right : {"none", "rule", "once", "always"},
   answer : Answers \cup {None}, result : {"none", "ok", "error", "canceled"}]

RequestState ==
  [state : {"none", "open", "closed"}, submitted : BOOLEAN,
   sending : Answers \cup {None}, channel : Answers \cup {None}]

\* A step of a call that is at work, on itself and its request. A call that is
\* canceled leaves the turn failed.
Moves(c) ==
  /\ UNCHANGED turnVars
  /\ call[c].at \notin {"queued", "returned"} /\ call'[c].at # "queued"
  /\ call' \in [Calls -> CallState] /\ request' \in [Calls -> RequestState]
  /\ \A d \in Calls \ {c} : call'[d] = call[d] /\ request'[d] = request[d]
  /\ failed' \in BOOLEAN /\ (failed => failed')
  /\ (call'[c].at = "returned" /\ call'[c].result = "canceled") => failed'
  /\ ctx' \in {"live", "turn", "run"}
  /\ memory' \in [Keys -> Scopes \cup {"none"}]
  /\ shown' \subseteq Calls

CallAction(c) ==
  \/ Start(c) \/ Blocked(c) \/ Attempt(c) \/ CheckPermission(c) \/ RunTool(c)
  \/ BlockAsk(c) \/ Enter(c) \/ Entered(c) \/ AcquireAsk(c) \/ Open(c) \/ Show(c)
  \/ Wait(c) \/ Close(c) \/ UnlockAsk(c) \/ ReleaseAsk(c) \/ Decide(c)
  \/ Leave(c) \/ End(c) \/ Return(c) \/ TakeTool(c) \/ LockAsk(c)

\* What the prover needs to know of the types.
LEMMA Typed ==
  ASSUME TypeOK
  PROVE  /\ call \in [Calls -> CallState]
         /\ request \in [Calls -> RequestState]
         /\ memory \in [Keys -> Scopes \cup {"none"}]
         /\ feed \in [at : {"feeding", "joining", "saving", "over"}, next : 1 .. NumCalls + 1,
                      checked : BOOLEAN]
         /\ ctx \in {"live", "turn", "run"} /\ failed \in BOOLEAN
         /\ saved \subseteq Calls /\ shown \subseteq Calls
         /\ waiting \in [{"permission", "question"} -> Nat]
BY CallsAssumption DEF TypeOK, CallState, RequestState, Calls

LEMMA CallsFinite ==
  /\ IsFiniteSet(Calls) /\ Cardinality(Calls) = NumCalls
  /\ \A S : S \subseteq Calls =>
       IsFiniteSet(S) /\ Cardinality(S) \in 0 .. NumCalls
<1>1. IsFiniteSet(Calls) /\ Cardinality(Calls) = NumCalls
  <2>1. NumCalls \in Nat
    BY CallsAssumption
  <2> QED
    BY <2>1, FS_Interval DEF Calls
<1>2. ASSUME NEW S, S \subseteq Calls
      PROVE  IsFiniteSet(S) /\ Cardinality(S) \in 0 .. NumCalls
  <2>1. IsFiniteSet(S) /\ Cardinality(S) <= Cardinality(Calls)
    BY <1>1, <1>2, FS_Subset
  <2>2. Cardinality(S) \in Nat
    BY <2>1, FS_CardinalityType
  <2> QED
    BY <2>1, <2>2, <1>1, CallsAssumption
<1> QED
  BY <1>1, <1>2

\* What a call is after each of the ways in which the steps change it.
Becomes(c, at, right, answer, result) ==
  /\ call' \in [Calls -> CallState]
  /\ \A d \in Calls \ {c} : call'[d] = call[d]
  /\ call'[c].at = at /\ call'[c].right = right
  /\ call'[c].answer = answer /\ call'[c].result = result

LEMMA CallAt ==
  ASSUME call \in [Calls -> CallState], NEW c \in Calls, NEW p \in Places,
         call' = [call EXCEPT ![c].at = p]
  PROVE  Becomes(c, p, call[c].right, call[c].answer, call[c].result)
BY DEF Becomes, CallState

LEMMA CallResult ==
  ASSUME call \in [Calls -> CallState], NEW c \in Calls, NEW p \in Places,
         NEW r \in {"none", "ok", "error", "canceled"},
         call' = [call EXCEPT ![c].at = p, ![c].result = r]
  PROVE  Becomes(c, p, call[c].right, call[c].answer, r)
<1> DEFINE mid == [call[c] EXCEPT !.at = p]
<1> DEFINE new == [mid EXCEPT !.result = r]
<1>1. call' = [call EXCEPT ![c] = new]
  OBVIOUS
<1>2. /\ mid \in CallState /\ mid.at = p /\ mid.right = call[c].right
      /\ mid.answer = call[c].answer
  BY DEF CallState
<1>3. /\ new \in CallState /\ new.at = p /\ new.right = call[c].right
      /\ new.answer = call[c].answer /\ new.result = r
  <2> HIDE DEF mid
  <2> QED
    BY <1>2 DEF CallState
<1> HIDE DEF new
<1> QED
  BY <1>1, <1>3 DEF Becomes

LEMMA CallRight ==
  ASSUME call \in [Calls -> CallState], NEW c \in Calls, NEW p \in Places,
         NEW r \in {"none", "rule", "once", "always"},
         call' = [call EXCEPT ![c].at = p, ![c].right = r]
  PROVE  Becomes(c, p, r, call[c].answer, call[c].result)
<1> DEFINE mid == [call[c] EXCEPT !.at = p]
<1> DEFINE new == [mid EXCEPT !.right = r]
<1>1. call' = [call EXCEPT ![c] = new]
  OBVIOUS
<1>2. /\ mid \in CallState /\ mid.at = p /\ mid.result = call[c].result
      /\ mid.answer = call[c].answer
  BY DEF CallState
<1>3. /\ new \in CallState /\ new.at = p /\ new.right = r
      /\ new.answer = call[c].answer /\ new.result = call[c].result
  <2> HIDE DEF mid
  <2> QED
    BY <1>2 DEF CallState
<1> HIDE DEF new
<1> QED
  BY <1>1, <1>3 DEF Becomes

LEMMA CallAnswer ==
  ASSUME call \in [Calls -> CallState], NEW c \in Calls, NEW p \in Places,
         NEW a \in Answers \cup {None},
         call' = [call EXCEPT ![c].at = p, ![c].answer = a]
  PROVE  Becomes(c, p, call[c].right, a, call[c].result)
<1> DEFINE mid == [call[c] EXCEPT !.at = p]
<1> DEFINE new == [mid EXCEPT !.answer = a]
<1>1. call' = [call EXCEPT ![c] = new]
  OBVIOUS
<1>2. /\ mid \in CallState /\ mid.at = p /\ mid.result = call[c].result
      /\ mid.right = call[c].right
  BY DEF CallState
<1>3. /\ new \in CallState /\ new.at = p /\ new.right = call[c].right
      /\ new.answer = a /\ new.result = call[c].result
  <2> HIDE DEF mid
  <2> QED
    BY <1>2 DEF CallState
<1> HIDE DEF new
<1> QED
  BY <1>1, <1>3 DEF Becomes

\* The call goes to p and keeps the rest.
GoesTo(c, p) == Becomes(c, p, call[c].right, call[c].answer, call[c].result)

\* It goes to p with a result.
Results(c, p, r) == Becomes(c, p, call[c].right, call[c].answer, r)

AfterRun(c) == IF call[c].answer = None THEN "ended" ELSE "leave"

\* What becomes of the call in each action, first those that only move it.
LEMMA MovesOn ==
  ASSUME TypeOK, NEW c \in Calls
  PROVE  /\ Start(c) /\ ~Stopped => call[c].at = "start" /\ GoesTo(c, "tool")
         /\ TakeTool(c) => call[c].at = "tool" /\ GoesTo(c, "before")
         /\ Attempt(c) => call[c].at = "before" /\ GoesTo(c, IF Asks(c) THEN "ask" ELSE "check")
         /\ Enter(c) => call[c].at = "ask" /\ GoesTo(c, "entered")
         /\ Entered(c) => call[c].at = "entered" /\ GoesTo(c, IF Asks(c) THEN "show" ELSE "acquire")
         /\ LockAsk(c) => call[c].at = "acquire" /\ GoesTo(c, "open")
         /\ Open(c) => call[c].at = "open" /\ GoesTo(c, IF Asks(c) THEN "wait" ELSE "show")
         /\ Show(c) => call[c].at = "show" /\ GoesTo(c, IF Asks(c) THEN "open" ELSE "wait")
         /\ Close(c) => call[c].at = "close" /\ GoesTo(c, IF Asks(c) THEN "leave" ELSE "unlock")
         /\ UnlockAsk(c) => call[c].at = "unlock" /\ GoesTo(c, "release")
         /\ ReleaseAsk(c) => call[c].at = "release" /\ GoesTo(c, "decide")
         /\ Leave(c) => call[c].at = "leave" /\ GoesTo(c, "left")
<1> call \in [Calls -> CallState]
  BY Typed
<1>1. ASSUME NEW from, NEW to \in Places, Go(c, from, to)
      PROVE  call[c].at = from /\ GoesTo(c, to)
  BY <1>1, CallAt DEF Go, GoesTo
<1>2. \A p \in {"tool", "before", "ask", "check", "entered", "show", "acquire", "open", "wait",
                "leave", "unlock", "release", "decide", "left"} : p \in Places
  BY DEF Places
<1> QED
  BY <1>1, <1>2 DEF Start, TakeTool, Attempt, Enter, Entered, LockAsk, Open, Show, Close,
     UnlockAsk, ReleaseAsk, Leave

LEMMA EndsWith ==
  ASSUME TypeOK, NEW c \in Calls, NEW r \in {"none", "ok", "error", "canceled"}, Ends(c, r)
  PROVE  Results(c, "returned", r)
<1>1. call \in [Calls -> CallState] /\ "returned" \in Places
  BY Typed DEF Places
<1> QED
  BY <1>1, CallResult DEF Ends, Results

\* Those that end it.
LEMMA ReturnsBy ==
  ASSUME TypeOK, NEW c \in Calls
  PROVE  /\ Start(c) /\ Stopped => call[c].at = "start" /\ Results(c, "returned", "canceled")
         /\ Blocked(c) => call[c].at = "before" /\ Results(c, "returned", "error")
         /\ BlockAsk(c) => call[c].at = "ask" /\ Results(c, "returned", "error")
         /\ End(c) => call[c].at = "ended" /\ GoesTo(c, "returned")
         /\ Return(c) => /\ call[c].at = "left"
                         /\ \E r \in Outcomes(c) :
                              /\ Results(c, "returned", r)
                              /\ failed' = (failed \/ r = "canceled")
                              /\ ctx' = IF r = "canceled" /\ ctx = "live" THEN "turn" ELSE ctx
<1>0. call \in [Calls -> CallState] /\ "returned" \in Places
  BY Typed DEF Places
<1>1. call[c].result \in {"none", "ok", "error", "canceled"}
  BY <1>0 DEF CallState
<1>2. \A r \in {"none", "ok", "error", "canceled"} : Ends(c, r) => Results(c, "returned", r)
  BY EndsWith
<1>3. Outcomes(c) \subseteq {"none", "ok", "error", "canceled"}
  BY <1>1 DEF Outcomes
<1>4. ASSUME NEW r \in Outcomes(c), call' = [call EXCEPT ![c].at = "returned", ![c].result = r]
      PROVE  Results(c, "returned", r)
  BY <1>0, <1>3, <1>4, CallResult DEF Results
<1>5. Return(c) => /\ call[c].at = "left"
                   /\ \E r \in Outcomes(c) :
                        /\ Results(c, "returned", r)
                        /\ failed' = (failed \/ r = "canceled")
                        /\ ctx' = IF r = "canceled" /\ ctx = "live" THEN "turn" ELSE ctx
  BY <1>4 DEF Return
<1>6. End(c) => call[c].at = "ended" /\ GoesTo(c, "returned")
  BY <1>1, <1>2 DEF End, Results, GoesTo
<1> QED
  BY <1>2, <1>5, <1>6 DEF Start, Blocked, BlockAsk

\* And those that decide on it.
LEMMA DecidedBy ==
  ASSUME TypeOK, NEW c \in Calls
  PROVE  /\ CheckPermission(c) =>
              /\ call[c].at \in {"check", "remembered"}
              /\ \/ /\ Right(c) \in {"rule", "once", "always"}
                    /\ Becomes(c, "running", Right(c), call[c].answer, call[c].result)
                    /\ memory' = Consumed(c, Right(c))
                 \/ /\ call[c].at = "check" /\ GoesTo(c, "ask") /\ memory' = memory
                 \/ /\ Results(c, IF call[c].at = "check" THEN "ended" ELSE "leave", "error")
                    /\ memory' = memory
         /\ RunTool(c) => call[c].at = "running" /\
              \E r \in {"ok", "error", "canceled"} : Results(c, AfterRun(c), r)
         /\ Wait(c) => call[c].at = "wait" /\
              \E a \in {call[c].answer, request[c].channel} :
                Becomes(c, "close", call[c].right, a, call[c].result)
         /\ Decide(c) =>
              /\ call[c].at = "decide"
              /\ \/ /\ call[c].answer = None
                    /\ Results(c, "leave", "canceled") /\ memory' = memory
                 \/ /\ call[c].answer = "reject" /\ Results(c, "leave", "error")
                    /\ memory' = [memory EXCEPT ![KeyOf[c]] = call[c].answer]
                 \/ /\ call[c].answer \notin {"reject", None} /\ GoesTo(c, "remembered")
                    /\ memory' = [memory EXCEPT ![KeyOf[c]] = call[c].answer]
<1>0. call \in [Calls -> CallState] /\ request \in [Calls -> RequestState]
  BY Typed
<1>1. \A p \in {"running", "ask", "ended", "leave", "close", "remembered"} : p \in Places
  BY DEF Places
<1>2. ASSUME CheckPermission(c)
      PROVE  /\ call[c].at \in {"check", "remembered"}
             /\ \/ /\ Right(c) \in {"rule", "once", "always"}
                   /\ Becomes(c, "running", Right(c), call[c].answer, call[c].result)
                   /\ memory' = Consumed(c, Right(c))
                \/ /\ call[c].at = "check" /\ GoesTo(c, "ask") /\ memory' = memory
                \/ /\ Results(c, IF call[c].at = "check" THEN "ended" ELSE "leave", "error")
                   /\ memory' = memory
  <2>1. CASE /\ Right(c) \in {"rule", "once", "always"}
             /\ call' = [call EXCEPT ![c].at = "running", ![c].right = Right(c)]
             /\ memory' = Consumed(c, Right(c))
    <3>1. Becomes(c, "running", Right(c), call[c].answer, call[c].result)
      BY <2>1, <1>0, <1>1, CallRight
    <3> QED
      BY <3>1, <2>1, <1>2 DEF CheckPermission
  <2>2. CASE call[c].at = "check" /\ call' = [call EXCEPT ![c].at = "ask"] /\ memory' = memory
    BY <2>2, <1>0, <1>1, CallAt DEF GoesTo
  <2>3. CASE /\ call' = [call EXCEPT ![c].at = IF @ = "check" THEN "ended" ELSE "leave",
                                     ![c].result = "error"]
             /\ memory' = memory
    <3> DEFINE p == IF call[c].at = "check" THEN "ended" ELSE "leave"
    <3>1. p \in Places
      BY <1>1
    <3>2. call' = [call EXCEPT ![c].at = p, ![c].result = "error"]
      BY <2>3
    <3> HIDE DEF p
    <3>3. Results(c, p, "error")
      BY <3>1, <3>2, <1>0, CallResult DEF Results
    <3> QED
      BY <3>3, <2>3, <1>2 DEF CheckPermission, p
  <2> QED
    BY <2>1, <2>2, <2>3, <1>2 DEF CheckPermission
<1>3. ASSUME RunTool(c)
      PROVE  call[c].at = "running" /\ \E r \in {"ok", "error", "canceled"} : Results(c, AfterRun(c), r)
  <2>1. PICK r \in {"ok", "error", "canceled"} :
          call' = [call EXCEPT ![c].at = AfterRun(c), ![c].result = r]
    BY <1>3 DEF RunTool, AfterRun
  <2>2. AfterRun(c) \in Places
    BY <1>1 DEF AfterRun
  <2>3. Results(c, AfterRun(c), r)
    BY <2>1, <2>2, <1>0, CallResult DEF Results
  <2> QED
    BY <2>3, <1>3 DEF RunTool
<1>4. ASSUME Wait(c)
      PROVE  call[c].at = "wait" /\
             \E a \in {call[c].answer, request[c].channel} :
               Becomes(c, "close", call[c].right, a, call[c].result)
  <2>1. CASE call' = [call EXCEPT ![c].at = "close", ![c].answer = request[c].channel]
    <3>1. request[c].channel \in Answers \cup {None}
      BY <1>0 DEF RequestState
    <3>2. Becomes(c, "close", call[c].right, request[c].channel, call[c].result)
      BY <2>1, <3>1, <1>0, <1>1, CallAnswer
    <3> QED
      BY <3>1, <3>2, <1>4 DEF Wait
  <2>2. CASE call' = [call EXCEPT ![c].at = "close"]
    <3>1. call[c].answer \in Answers \cup {None}
      BY <1>0 DEF CallState
    <3>2. Becomes(c, "close", call[c].right, call[c].answer, call[c].result)
      BY <2>2, <1>0, <1>1, CallAt
    <3> QED
      BY <3>1, <3>2, <1>4 DEF Wait
  <2> QED
    BY <2>1, <2>2, <1>4 DEF Wait
<1>5. ASSUME Decide(c)
      PROVE  /\ call[c].at = "decide"
             /\ \/ /\ call[c].answer = None
                   /\ Results(c, "leave", "canceled") /\ memory' = memory
                \/ /\ call[c].answer = "reject" /\ Results(c, "leave", "error")
                   /\ memory' = [memory EXCEPT ![KeyOf[c]] = call[c].answer]
                \/ /\ call[c].answer \notin {"reject", None} /\ GoesTo(c, "remembered")
                   /\ memory' = [memory EXCEPT ![KeyOf[c]] = call[c].answer]
  <2>1. ASSUME NEW r \in {"error", "canceled"},
               call' = [call EXCEPT ![c].at = "leave", ![c].result = r]
        PROVE  Results(c, "leave", r)
    BY <2>1, <1>0, <1>1, CallResult DEF Results
  <2>2. call' = [call EXCEPT ![c].at = "remembered"] => GoesTo(c, "remembered")
    BY <1>0, <1>1, CallAt DEF GoesTo
  <2> QED
    BY <2>1, <2>2, <1>5 DEF Decide
<1> QED
  BY <1>2, <1>3, <1>4, <1>5
\* What a step does to the calls.
LEMMA CallsMove ==
  ASSUME TypeOK, Standing, NEW c \in Calls, CallAction(c)
  PROVE  /\ call' \in [Calls -> CallState]
         /\ \A d \in Calls \ {c} : call'[d] = call[d]
         /\ call[c].at \notin {"queued", "returned"} /\ call'[c].at # "queued"
<1>0. call \in [Calls -> CallState]
  BY Typed
<1>1. CASE AcquireAsk(c)
  BY <1>0, <1>1 DEF AcquireAsk
<1>2. CASE ~AcquireAsk(c)
  <2>1. /\ call[c].at \notin {"queued", "returned"}
        /\ \E p, r, a, x : Becomes(c, p, r, a, x) /\ p # "queued"
    BY <1>2, MovesOn, ReturnsBy, DecidedBy DEF CallAction, GoesTo, Results, AfterRun
  <2> QED
    BY <2>1 DEF Becomes
<1> QED
  BY <1>1, <1>2

\* What it does to the requests.
LEMMA RequestsMove ==
  ASSUME TypeOK, NEW c \in Calls, CallAction(c)
  PROVE  /\ request' \in [Calls -> RequestState]
         /\ \A d \in Calls \ {c} : request'[d] = request[d]
         /\ Open(c) => request'[c].state = "open"
         /\ Close(c) => request'[c].state = "closed"
         /\ ~(Open(c) \/ Close(c)) => request'[c].state = request[c].state
         /\ request'[c].sending = request[c].sending /\ request'[c].channel = request[c].channel
<1>0. request \in [Calls -> RequestState]
  BY Typed
<1>1. ASSUME NEW s \in {"open", "closed"}, request' = [request EXCEPT ![c].state = s]
      PROVE  /\ request' \in [Calls -> RequestState]
             /\ \A d \in Calls \ {c} : request'[d] = request[d]
             /\ request'[c].state = s
             /\ request'[c].sending = request[c].sending /\ request'[c].channel = request[c].channel
  BY <1>0, <1>1 DEF RequestState
<1>2. CASE Open(c)
  BY <1>0, <1>1, <1>2 DEF Open, Close, Go
<1>3. CASE Close(c)
  BY <1>0, <1>1, <1>3 DEF Open, Close, Go
<1>4. CASE ~(Open(c) \/ Close(c))
  <2>1. request' = request
    BY <1>4 DEF CallAction, Start, Blocked, Attempt, CheckPermission, RunTool, BlockAsk, Enter,
     Entered, AcquireAsk, Show, Wait, UnlockAsk, ReleaseAsk, Decide, Leave,
     End, Return, TakeTool, LockAsk, Ends, userVars
  <2> QED
    BY <1>0, <1>4, <2>1
<1> QED
  BY <1>2, <1>3, <1>4
\* What it does to the turn.
LEMMA TurnMoves ==
  ASSUME TypeOK, NEW c \in Calls, CallAction(c)
  PROVE  /\ UNCHANGED turnVars
         /\ failed' \in BOOLEAN /\ (failed => failed')
         /\ ctx' \in {"live", "turn", "run"}
         /\ (call'[c].at = "returned" /\ call'[c].result = "canceled") => failed'
<1>0. ctx \in {"live", "turn", "run"} /\ failed \in BOOLEAN
  BY Typed
<1>1. CASE Blocked(c) \/ BlockAsk(c) \/ End(c) \/ (Start(c) /\ Stopped)
  <2>1. PICK r : Ends(c, r) /\ call'[c].result = r
    BY <1>1, ReturnsBy DEF Blocked, BlockAsk, End, Start, Results, GoesTo, Becomes
  <2> QED
    BY <1>0, <2>1 DEF Ends
<1>2. CASE Return(c)
  <2>1. PICK r : /\ failed' = (failed \/ r = "canceled")
                 /\ ctx' = IF r = "canceled" /\ ctx = "live" THEN "turn" ELSE ctx
                 /\ call'[c].result = r
    BY <1>2, ReturnsBy DEF Results, Becomes
  <2> QED
    BY <1>0, <1>2, <2>1 DEF Return
<1>3. CASE ~(Blocked(c) \/ BlockAsk(c) \/ End(c) \/ (Start(c) /\ Stopped) \/ Return(c))
  <2>1. UNCHANGED Rest
    BY <1>3 DEF CallAction, Start, Attempt, CheckPermission, RunTool, Enter,
       Entered, AcquireAsk, Open, Show, Wait, Close, UnlockAsk, ReleaseAsk, Decide, Leave,
       TakeTool, LockAsk
  <2>2. CASE AcquireAsk(c)
    BY <1>0, <2>1, <2>2 DEF AcquireAsk, Rest
  <2>3. CASE ~AcquireAsk(c)
    <3>1. \E p, r, a, x : Becomes(c, p, r, a, x) /\ p # "returned"
      BY <1>3, <2>3, MovesOn, DecidedBy DEF CallAction, GoesTo, Results, AfterRun
    <3> QED
      BY <1>0, <2>1, <3>1 DEF Rest, Becomes
  <2> QED
    BY <2>2, <2>3
<1> QED
  BY <1>1, <1>2, <1>3

\* What it does to the memory and to what clients are shown.
LEMMA MemoryMoves ==
  ASSUME TypeOK, Standing, NEW c \in Calls, CallAction(c)
  PROVE  /\ memory' \in [Keys -> Scopes \cup {"none"}] /\ shown' \subseteq Calls
         /\ ~(CheckPermission(c) \/ Decide(c)) => memory' = memory
<1>0. /\ memory \in [Keys -> Scopes \cup {"none"}] /\ shown \subseteq Calls
      /\ KeyOf[c] \in Keys
  BY Typed, CallsAssumption
<1>1. CASE CheckPermission(c)
  BY <1>0, <1>1 DEF CheckPermission, Consumed, userVars
<1>2. CASE Decide(c)
  <2>1. call[c].answer \in Scopes \cup {None}
    BY <1>2 DEF Decide, Standing, PlaceOK, AnswerOK, AnswersTo
  <2> QED
    BY <1>0, <1>2, <2>1 DEF Decide, userVars
<1>3. CASE ~(CheckPermission(c) \/ Decide(c))
  BY <1>0, <1>3 DEF CallAction, Start, Blocked, Attempt, RunTool, BlockAsk, Enter,
     Entered, AcquireAsk, Open, Show, Wait, Close, UnlockAsk, ReleaseAsk, Leave,
     End, Return, TakeTool, LockAsk, Ends, userVars
<1> QED
  BY <1>1, <1>2, <1>3

LEMMA ActionMoves ==
  ASSUME TypeOK, Standing, NEW c \in Calls, CallAction(c)
  PROVE  Moves(c)
BY CallsMove, RequestsMove, TurnMoves, MemoryMoves DEF Moves

-----------------------------------------------------------------------------
(* The ask lock. *)

\* A call is idle at the lock, or stands there with an entry.
AtLockOK(c) ==
  \/ place[c] = Lock!Idle
  \/ place[c] \in [at : {"queued", "holding", "unlocked"}, session : {AskKey}, entry : Entries]

LEMMA LockTyped ==
  ASSUME Lock!LocksTypeOK
  PROVE  /\ lockOf \in [{AskKey} -> Entries \cup {None}]
         /\ refs \in [Entries -> Nat]
         /\ holder \in [Entries -> Calls \cup {None}]
         /\ DOMAIN place = Calls
         /\ \A c \in Calls : AtLockOK(c)
BY DEF Lock!LocksTypeOK, AtLockOK

LEMMA LockTypedBy ==
  ASSUME lockOf' \in [{AskKey} -> Entries \cup {None}], refs' \in [Entries -> Nat],
         holder' \in [Entries -> Calls \cup {None}],
         Lock!LocksTypeOK, NEW c \in Calls, NEW new,
         place' = [place EXCEPT ![c] = new],
         \/ new = Lock!Idle
         \/ new \in [at : {"queued", "holding", "unlocked"}, session : {AskKey}, entry : Entries]
  PROVE  Lock!LocksTypeOK' /\ place'[c] = new /\ \A d \in Calls \ {c} : place'[d] = place[d]
<1>1. place \in [Calls -> {Lock!Idle} \cup
        [at : {"queued", "holding", "unlocked"}, session : {AskKey}, entry : Entries]]
  BY DEF Lock!LocksTypeOK
<1>2. place' \in [Calls -> {Lock!Idle} \cup
        [at : {"queued", "holding", "unlocked"}, session : {AskKey}, entry : Entries]]
  BY <1>1
<1> QED
  BY <1>1, <1>2 DEF Lock!LocksTypeOK

LEMMA AcquireKeeps ==
  ASSUME Lock!LocksTypeOK, AskLock, NEW c \in Calls, Lock!Acquire(c, AskKey)
  PROVE  /\ Lock!LocksTypeOK' /\ AskLock'
         /\ place[c].at = "idle" /\ place'[c].at = "queued"
         /\ \A d \in Calls \ {c} : place'[d] = place[d]
<1> DEFINE new(e) == [at |-> "queued", session |-> AskKey, entry |-> e]
<1>0. /\ lockOf \in [{AskKey} -> Entries \cup {None}] /\ refs \in [Entries -> Nat]
      /\ holder \in [Entries -> Calls \cup {None}] /\ \A d \in Calls : AtLockOK(d)
  BY LockTyped
<1>1. PICK e \in Entries :
        /\ e = lockOf[AskKey] \/ (lockOf[AskKey] = None /\ Lock!Unreferenced(e))
        /\ lockOf' = [lockOf EXCEPT ![AskKey] = e]
        /\ refs' = [refs EXCEPT ![e] = IF lockOf[AskKey] = None THEN 1 ELSE @ + 1]
        /\ place' = [place EXCEPT ![c] = new(e)]
  BY DEF Lock!Acquire
<1>2. place[c] = Lock!Idle /\ holder' = holder /\ e # None
  BY CallsAssumption DEF Lock!Acquire
<1>3. /\ lockOf' \in [{AskKey} -> Entries \cup {None}] /\ lockOf'[AskKey] = e
      /\ refs' \in [Entries -> Nat]
      /\ refs'[e] = IF lockOf[AskKey] = None THEN 1 ELSE refs[e] + 1
  BY <1>0, <1>1
<1>4. /\ Lock!LocksTypeOK' /\ place'[c] = new(e)
      /\ \A d \in Calls \ {c} : place'[d] = place[d]
  <2>1. new(e) \in [at : {"queued", "holding", "unlocked"}, session : {AskKey}, entry : Entries]
    OBVIOUS
  <2>2. holder' \in [Entries -> Calls \cup {None}]
    BY <1>0, <1>2
  <2> HIDE DEF new
  <2> QED
    BY <2>1, <2>2, <1>1, <1>3, LockTypedBy
<1>5. c \notin AtLock /\ AtLock' = AtLock \cup {c}
  <2>1. new(e) # Lock!Idle
    BY DEF Lock!Idle
  <2> QED
    BY <2>1, <1>2, <1>4 DEF AtLock
<1>6. lockOf[AskKey] = None => AtLock = {}
  <2> SUFFICES ASSUME NEW d \in AtLock, lockOf[AskKey] = None PROVE FALSE
    OBVIOUS
  <2>1. d \in Calls /\ place[d].entry \in Entries /\ place[d].entry = lockOf[AskKey]
    BY <1>0 DEF AskLock, AtLock, AtLockOK
  <2> QED
    BY <2>1, CallsAssumption
<1>7. AtLock' # {} /\ refs'[e] = Cardinality(AtLock')
  <2>1. IsFiniteSet(AtLock) /\ Cardinality(AtLock) \in Nat
    BY CallsFinite, CallsAssumption DEF AtLock
  <2>2. Cardinality(AtLock') = Cardinality(AtLock) + 1
    BY <2>1, <1>5, FS_AddElement
  <2>3. CASE lockOf[AskKey] = None
    BY <2>2, <2>3, <1>3, <1>5, <1>6, FS_EmptySet
  <2>4. CASE lockOf[AskKey] # None
    BY <2>2, <2>4, <1>1, <1>3, <1>5 DEF AskLock
  <2> QED
    BY <2>3, <2>4
<1>8. \A d \in AtLock' : place'[d].entry = lockOf'[AskKey]
  BY <1>1, <1>3, <1>4, <1>5, <1>6 DEF AskLock, AtLock
<1>9. \A f \in Entries, d \in Calls :
        holder'[f] = d <=> (place'[d].at = "holding" /\ place'[d].entry = f)
  <2>1. place[c].at # "holding" /\ place'[c].at # "holding"
    BY <1>2, <1>4 DEF Lock!Idle
  <2> QED
    BY <2>1, <1>2, <1>4 DEF AskLock
<1> QED
  BY <1>2, <1>3, <1>4, <1>7, <1>8, <1>9 DEF AskLock, Lock!Idle

LEMMA MutexKeeps ==
  ASSUME Lock!LocksTypeOK, AskLock, NEW c \in Calls, Lock!Lock(c) \/ Lock!Unlock(c)
  PROVE  /\ Lock!LocksTypeOK' /\ AskLock'
         /\ Lock!Lock(c) => place[c].at = "queued" /\ place'[c].at = "holding"
         /\ Lock!Unlock(c) => place[c].at = "holding" /\ place'[c].at = "unlocked"
         /\ \A d \in Calls \ {c} : place'[d] = place[d]
<1> DEFINE e == place[c].entry
           to == IF place[c].at = "queued" THEN "holding" ELSE "unlocked"
           new == [place[c] EXCEPT !.at = to]
           by == IF place[c].at = "queued" THEN c ELSE None
<1>0. /\ lockOf \in [{AskKey} -> Entries \cup {None}] /\ refs \in [Entries -> Nat]
      /\ holder \in [Entries -> Calls \cup {None}] /\ \A d \in Calls : AtLockOK(d)
  BY LockTyped
<1>1. /\ place[c].at \in {"queued", "holding"}
      /\ place[c].at = "queued" => holder[e] = None
      /\ holder' = [holder EXCEPT ![e] = by]
      /\ place' = [place EXCEPT ![c] = new]
      /\ lockOf' = lockOf /\ refs' = refs
      /\ Lock!Lock(c) => place[c].at = "queued"
      /\ Lock!Unlock(c) => place[c].at = "holding"
  BY DEF Lock!Lock, Lock!Unlock
<1>2. place[c] \in [at : {"queued", "holding", "unlocked"}, session : {AskKey}, entry : Entries]
  BY <1>0, <1>1 DEF AtLockOK, Lock!Idle
<1>3. /\ new \in [at : {"queued", "holding", "unlocked"}, session : {AskKey}, entry : Entries]
      /\ new.at = to /\ new.entry = e /\ e \in Entries
  BY <1>2
<1>4. /\ holder' \in [Entries -> Calls \cup {None}]
      /\ \A f \in Entries : holder'[f] = IF f = e THEN by ELSE holder[f]
  BY <1>0, <1>1, <1>3
<1> HIDE DEF new
<1>5. /\ Lock!LocksTypeOK' /\ place'[c] = new
      /\ \A d \in Calls \ {c} : place'[d] = place[d]
  BY <1>0, <1>1, <1>3, <1>4, LockTypedBy
<1>6. AtLock' = AtLock
  <2>1. place[c] # Lock!Idle /\ new # Lock!Idle
    BY <1>1, <1>3 DEF Lock!Idle
  <2> QED
    BY <2>1, <1>5 DEF AtLock
<1>7. \A f \in Entries, d \in Calls :
        holder'[f] = d <=> (place'[d].at = "holding" /\ place'[d].entry = f)
  <2> SUFFICES ASSUME NEW f \in Entries, NEW d \in Calls
               PROVE  holder'[f] = d <=> (place'[d].at = "holding" /\ place'[d].entry = f)
    OBVIOUS
  <2>1. holder[f] = d <=> (place[d].at = "holding" /\ place[d].entry = f)
    BY DEF AskLock
  <2>2. holder[e] = c <=> place[c].at = "holding"
    BY <1>3 DEF AskLock
  <2>3. d # None
    BY CallsAssumption
  <2>4. CASE d = c
    BY <2>1, <2>3, <2>4, <1>1, <1>3, <1>4, <1>5
  <2>5. CASE d # c
    <3>1. place'[d] = place[d]
      BY <2>5, <1>5
    <3>2. CASE f = e
      BY <3>1, <3>2, <2>1, <2>2, <2>3, <2>5, <1>1, <1>4
    <3>3. CASE f # e
      BY <3>1, <3>3, <2>1, <1>4
    <3> QED
      BY <3>2, <3>3
  <2> QED
    BY <2>4, <2>5
<1>8. \A d \in AtLock' : place'[d].entry = lockOf'[AskKey]
  BY <1>1, <1>3, <1>5, <1>6 DEF AskLock, AtLock
<1> QED
  BY <1>1, <1>3, <1>5, <1>6, <1>7, <1>8 DEF AskLock

LEMMA ReleaseKeeps ==
  ASSUME Lock!LocksTypeOK, AskLock, NEW c \in Calls, Lock!Release(c)
  PROVE  /\ Lock!LocksTypeOK' /\ AskLock'
         /\ place[c].at = "unlocked" /\ place'[c].at = "idle"
         /\ \A d \in Calls \ {c} : place'[d] = place[d]
<1>0. /\ lockOf \in [{AskKey} -> Entries \cup {None}] /\ refs \in [Entries -> Nat]
      /\ holder \in [Entries -> Calls \cup {None}] /\ \A d \in Calls : AtLockOK(d)
  BY LockTyped
<1>1. place[c].at = "unlocked" /\ place[c] # Lock!Idle
  BY DEF Lock!Release, Lock!Idle
<1>2. PICK e \in Entries : place[c].session = AskKey /\ place[c].entry = e /\ lockOf[AskKey] = e
  BY <1>0, <1>1 DEF AtLockOK, AskLock, AtLock
<1>3. /\ lockOf' = [lockOf EXCEPT ![AskKey] = IF Lock!Drops(AskKey, e) THEN None ELSE @]
      /\ refs' = [refs EXCEPT ![e] = @ - 1]
      /\ place' = [place EXCEPT ![c] = Lock!Idle]
      /\ holder' = holder
  BY <1>2 DEF Lock!Release
<1>4. c \in AtLock /\ refs[e] = Cardinality(AtLock)
  BY <1>1, <1>2, CallsAssumption DEF AskLock, AtLock
<1>5. /\ IsFiniteSet(AtLock) /\ IsFiniteSet(AtLock \ {c})
      /\ Cardinality(AtLock \ {c}) = refs[e] - 1 /\ Cardinality(AtLock \ {c}) \in Nat
  <2>1. IsFiniteSet(AtLock)
    BY CallsFinite DEF AtLock
  <2>2. IsFiniteSet(AtLock \ {c}) /\ Cardinality(AtLock \ {c}) = Cardinality(AtLock) - 1
    BY <2>1, <1>4, FS_RemoveElement
  <2> QED
    BY <2>1, <2>2, <1>4, FS_CardinalityType
<1>6. refs' \in [Entries -> Nat] /\ refs'[e] = refs[e] - 1
  BY <1>0, <1>3, <1>5
<1>7. /\ lockOf' \in [{AskKey} -> Entries \cup {None}]
      /\ lockOf'[AskKey] = IF AtLock \ {c} = {} THEN None ELSE e
  <2>1. Lock!Drops(AskKey, e) <=> refs[e] - 1 = 0
    BY <1>0, <1>2, <1>5 DEF Lock!Drops
  <2>2. Cardinality(AtLock \ {c}) = 0 <=> AtLock \ {c} = {}
    BY <1>5, FS_EmptySet
  <2> QED
    BY <2>1, <2>2, <1>0, <1>2, <1>3, <1>5
<1>8. /\ Lock!LocksTypeOK' /\ place'[c] = Lock!Idle
      /\ \A d \in Calls \ {c} : place'[d] = place[d]
  BY <1>0, <1>3, <1>6, <1>7, LockTypedBy
<1>9. AtLock' = AtLock \ {c}
  BY <1>8 DEF AtLock
<1>10. \A f \in Entries, d \in Calls :
         holder'[f] = d <=> (place'[d].at = "holding" /\ place'[d].entry = f)
  <2>1. place[c].at # "holding" /\ place'[c].at # "holding"
    BY <1>1, <1>8 DEF Lock!Idle
  <2> QED
    BY <2>1, <1>3, <1>8 DEF AskLock
<1>11. \A d \in AtLock' : place'[d].entry = lockOf'[AskKey]
  BY <1>2, <1>7, <1>8, <1>9 DEF AskLock, AtLock
<1> QED
  BY <1>1, <1>5, <1>6, <1>7, <1>8, <1>9, <1>10, <1>11 DEF AskLock, Lock!Idle

\* What a step of a call does to the lock and to its place there.
LEMMA LockMoves ==
  ASSUME TypeOK, AskLock, NEW c \in Calls, CallAction(c)
  PROVE  /\ Lock!LocksTypeOK' /\ AskLock'
         /\ \A d \in Calls \ {c} : place'[d] = place[d]
         /\ AcquireAsk(c) => place'[c].at = "queued"
         /\ LockAsk(c) => place'[c].at = "holding"
         /\ UnlockAsk(c) => place'[c].at = "unlocked"
         /\ ReleaseAsk(c) => place'[c].at = "idle"
         /\ ~(AcquireAsk(c) \/ LockAsk(c) \/ UnlockAsk(c) \/ ReleaseAsk(c)) => place' = place
<1>0. Lock!LocksTypeOK
  BY DEF TypeOK
<1>1. CASE AcquireAsk(c)
  <2>1. Lock!Acquire(c, AskKey) /\ call' = call /\ call[c].at = "acquire"
    BY <1>1 DEF AcquireAsk
  <2>2. ~(LockAsk(c) \/ UnlockAsk(c) \/ ReleaseAsk(c))
    BY <2>1, MovesOn DEF GoesTo, Becomes
  <2> QED
    BY <2>1, <2>2, <1>0, <1>1, AcquireKeeps
<1>2. CASE LockAsk(c)
  <2>1. Lock!Lock(c) /\ ~(AcquireAsk(c) \/ UnlockAsk(c) \/ ReleaseAsk(c))
    BY <1>2, MovesOn DEF GoesTo, Becomes, LockAsk, AcquireAsk
  <2> QED
    BY <2>1, <1>0, <1>2, MutexKeeps
<1>3. CASE UnlockAsk(c)
  <2>1. Lock!Unlock(c) /\ ~(AcquireAsk(c) \/ LockAsk(c) \/ ReleaseAsk(c))
    BY <1>3, MovesOn DEF GoesTo, Becomes, UnlockAsk, AcquireAsk
  <2> QED
    BY <2>1, <1>0, <1>3, MutexKeeps
<1>4. CASE ReleaseAsk(c)
  <2>1. Lock!Release(c) /\ ~(AcquireAsk(c) \/ LockAsk(c) \/ UnlockAsk(c))
    BY <1>4, MovesOn DEF GoesTo, Becomes, ReleaseAsk, AcquireAsk
  <2> QED
    BY <2>1, <1>0, <1>4, ReleaseKeeps
<1>5. CASE ~(AcquireAsk(c) \/ LockAsk(c) \/ UnlockAsk(c) \/ ReleaseAsk(c))
  <2>1. UNCHANGED lockVars
    BY <1>5 DEF CallAction, Start, Blocked, Attempt, CheckPermission, RunTool, BlockAsk, Enter,
     Entered, Open, Show, Wait, Close, Decide, Leave, End, Return, TakeTool, Ends
  <2> QED
    BY <2>1, <1>0, <1>5 DEF lockVars, Lock!LocksTypeOK, AskLock, AtLock
<1> QED
  BY <1>1, <1>2, <1>3, <1>4, <1>5

-----------------------------------------------------------------------------
(* A step of a call keeps what holds of it by its place. *)

\* Where a call stands after a step, for the parts of the invariant that look
\* at places only.
LEMMA AcquireStays ==
  ASSUME NEW c \in Calls, AcquireAsk(c)
  PROVE  call' = call /\ call[c].at = "acquire"
BY DEF AcquireAsk

LEMMA PlaceKept ==
  ASSUME TypeOK, Standing, NEW c \in Calls, CallAction(c)
  PROVE  PlaceOK(c)'
<1>0. PlaceOK(c) /\ call[c] \in CallState
  BY Typed DEF Standing
<1>1. CASE AcquireAsk(c)
  BY <1>0, <1>1 DEF AcquireAsk, PlaceOK, Asks
<1>2. CASE Blocked(c) \/ BlockAsk(c) \/ End(c) \/ Return(c) \/ (Start(c) /\ Stopped)
  <2>1. Outcomes(c) = {call[c].result} \/ Asks(c)
    BY DEF Outcomes
  <2>2. "none" \notin Outcomes(c) \/ ~Asks(c)
    BY DEF Outcomes
  <2> QED
    BY <1>0, <1>2, <2>1, <2>2, ReturnsBy DEF Results, GoesTo, Becomes, PlaceOK, Asks
<1>3. CASE CheckPermission(c)
  BY <1>0, <1>3, DecidedBy DEF Results, GoesTo, Becomes, PlaceOK, Asks
<1>4. CASE RunTool(c)
  BY <1>0, <1>4, DecidedBy DEF Results, Becomes, PlaceOK, Asks, AfterRun
<1>5. CASE Wait(c)
  BY <1>0, <1>5, DecidedBy DEF Becomes, PlaceOK, Asks
<1>6. CASE Decide(c)
  BY <1>0, <1>6, DecidedBy DEF Results, GoesTo, Becomes, PlaceOK, Asks
<1>7. CASE (Start(c) /\ ~Stopped) \/ TakeTool(c) \/ Attempt(c) \/ Enter(c) \/ Entered(c)
  BY <1>0, <1>7, MovesOn DEF GoesTo, Becomes, PlaceOK, Asks
<1>8. CASE LockAsk(c) \/ Open(c) \/ Show(c) \/ Close(c) \/ UnlockAsk(c)
  BY <1>0, <1>8, MovesOn DEF GoesTo, Becomes, PlaceOK, Asks
<1>9. CASE ReleaseAsk(c) \/ Leave(c)
  BY <1>0, <1>9, MovesOn DEF GoesTo, Becomes, PlaceOK, Asks
<1> QED
  BY <1>1, <1>2, <1>3, <1>4, <1>5, <1>6, <1>7, <1>8, <1>9 DEF CallAction

LEMMA RequestKept ==
  ASSUME TypeOK, Standing, NEW c \in Calls, CallAction(c)
  PROVE  RequestOK(c)'
<1>0. PlaceOK(c) /\ RequestOK(c)
  BY DEF Standing
<1>1. CASE AcquireAsk(c)
  <2>1. ~(Open(c) \/ Close(c))
    BY <1>1, MovesOn DEF AcquireAsk
  <2> QED
    BY <1>0, <1>1, <2>1, RequestsMove DEF AcquireAsk, RequestOK, Asks
<1>2. CASE Open(c) \/ Close(c)
  <2>1. Open(c) => ~Close(c)
    BY MovesOn
  <2> QED
    BY <1>0, <1>2, <2>1, MovesOn, RequestsMove DEF GoesTo, Becomes, RequestOK, Asks, PlaceOK
<1>3. CASE Wait(c) \/ Show(c)
  <2>1. ~(Open(c) \/ Close(c))
    BY <1>3, MovesOn, DecidedBy
  <2>2. /\ request'[c].state = request[c].state
        /\ call[c].at \in {"wait", "show"}
        /\ call'[c].at = IF call[c].at = "wait" THEN "close" ELSE IF Asks(c) THEN "open" ELSE "wait"
    BY <1>3, <2>1, MovesOn, DecidedBy, RequestsMove DEF GoesTo, Becomes
  <2> QED
    BY <1>0, <2>2 DEF RequestOK, Asks
<1>4. CASE ~(AcquireAsk(c) \/ Open(c) \/ Close(c) \/ Wait(c) \/ Show(c))
  <2>1. call[c].at \notin {"show", "wait", "close"}
    BY <1>4, MovesOn, ReturnsBy, DecidedBy DEF CallAction
  <2>2. \/ call'[c].at \notin {"show", "wait", "close"}
        \/ Asks(c) /\ call'[c].at = "show"
    BY <1>4, MovesOn, ReturnsBy, DecidedBy DEF CallAction, GoesTo, Results, Becomes, AfterRun
  <2> QED
    BY <1>0, <1>4, <2>1, <2>2, RequestsMove DEF RequestOK, Asks
<1> QED
  BY <1>1, <1>2, <1>3, <1>4

LEMMA LockKept ==
  ASSUME TypeOK, Standing, AskLock, NEW c \in Calls, CallAction(c)
  PROVE  LockOK(c)'
<1>0. PlaceOK(c) /\ LockOK(c)
  BY DEF Standing
<1>1. CASE AcquireAsk(c)
  BY <1>1, LockMoves DEF AcquireAsk, LockOK, Asks
<1>2. CASE LockAsk(c) \/ UnlockAsk(c) \/ ReleaseAsk(c)
  <2>1. ~Asks(c)
    BY <1>0, <1>2, MovesOn DEF PlaceOK
  <2> QED
    BY <1>2, <2>1, MovesOn, LockMoves DEF GoesTo, Becomes, LockOK, Asks
<1>3. CASE Open(c) \/ Show(c) \/ Close(c) \/ Wait(c)
  <2>1. ~(AcquireAsk(c) \/ LockAsk(c) \/ UnlockAsk(c) \/ ReleaseAsk(c))
    BY <1>3, MovesOn, DecidedBy, AcquireStays
  <2>2. place' = place
    BY <2>1, LockMoves
  <2>3. /\ call[c].at \in {"open", "show", "close", "wait"}
        /\ IF Asks(c) THEN call'[c].at \in {"open", "close", "wait", "leave"}
           ELSE call'[c].at \in {"show", "close", "wait", "unlock"}
    BY <1>3, MovesOn, DecidedBy DEF GoesTo, Becomes
  <2> QED
    BY <1>0, <2>2, <2>3 DEF LockOK, Asks
<1>4. CASE ~(AcquireAsk(c) \/ LockAsk(c) \/ UnlockAsk(c) \/ ReleaseAsk(c)
             \/ Open(c) \/ Show(c) \/ Close(c) \/ Wait(c))
  <2>1. call[c].at \notin {"acquire", "open", "show", "wait", "close", "unlock", "release"}
    BY <1>4, MovesOn, ReturnsBy, DecidedBy DEF CallAction
  <2>2. \/ call'[c].at \notin {"open", "show", "wait", "close", "unlock", "release"}
        \/ Asks(c) /\ call'[c].at = "show"
    BY <1>4, MovesOn, ReturnsBy, DecidedBy DEF CallAction, GoesTo, Results, Becomes, AfterRun
  <2> QED
    BY <1>0, <1>4, <2>1, <2>2, LockMoves DEF LockOK, Asks
<1> QED
  BY <1>1, <1>2, <1>3, <1>4

LEMMA AnswerKept ==
  ASSUME TypeOK, Standing, NEW c \in Calls, CallAction(c)
  PROVE  AnswerOK(c)'
<1>0. AnswerOK(c)
  BY DEF Standing
<1>1. call'[c].answer \in {call[c].answer, request[c].channel}
  BY MovesOn, ReturnsBy, DecidedBy, AcquireStays DEF CallAction, GoesTo, Results, Becomes
<1> QED
  BY <1>0, <1>1, RequestsMove DEF AnswerOK, AnswersTo, Asks

\* A step of one call keeps what holds of every call.
LEMMA StandingKept ==
  ASSUME TypeOK, Standing, AskLock, NEW c \in Calls, CallAction(c)
  PROVE  Standing'
<1> SUFFICES ASSUME NEW d \in Calls
             PROVE  (PlaceOK(d) /\ RequestOK(d) /\ LockOK(d) /\ AnswerOK(d))'
  BY DEF Standing
<1>1. CASE d = c
  BY <1>1, PlaceKept, RequestKept, LockKept, AnswerKept
<1>2. CASE d # c
  <2>1. call'[d] = call[d] /\ request'[d] = request[d] /\ place'[d] = place[d]
    BY <1>2, CallsMove, RequestsMove, LockMoves
  <2>2. PlaceOK(d) /\ RequestOK(d) /\ LockOK(d) /\ AnswerOK(d)
    BY DEF Standing
  <2> QED
    BY <2>1, <2>2 DEF PlaceOK, RequestOK, LockOK, AnswerOK, AnswersTo, Asks
<1> QED
  BY <1>1, <1>2

-----------------------------------------------------------------------------
(* The counts, the phase and the pending question.                            *)

LEMMA CountedFinite ==
  ASSUME NEW k
  PROVE  IsFiniteSet(CountedOf(k)) /\ Cardinality(CountedOf(k)) \in 0 .. NumCalls
BY CallsFinite DEF CountedOf

\* The counts change with the one call that begins or ends to wait.
LEMMA CountsMove ==
  ASSUME TypeOK, Standing, NEW c \in Calls, CallAction(c)
  PROVE  \/ Counted(c)' = Counted(c) /\ UNCHANGED waiting
         \/ /\ ~Counted(c) /\ Counted(c)'
            /\ waiting' = [waiting EXCEPT ![Kind(c)] = @ + 1]
         \/ /\ Counted(c) /\ ~Counted(c)'
            /\ waiting' = [waiting EXCEPT ![Kind(c)] = IF @ > 0 THEN @ - 1 ELSE @]
<1>0. PlaceOK(c)
  BY DEF Standing
<1>1. CASE Enter(c)
  BY <1>1, MovesOn DEF Enter, GoesTo, Becomes, Counted
<1>2. CASE Leave(c)
  BY <1>2, MovesOn DEF Leave, GoesTo, Becomes, Counted
<1>3. CASE AcquireAsk(c)
  BY <1>3 DEF AcquireAsk, Counted, phaseVars
<1>4. CASE ~(Enter(c) \/ Leave(c) \/ AcquireAsk(c))
  <2>1. UNCHANGED waiting
    BY <1>4 DEF CallAction, Start, Blocked, Attempt, CheckPermission, RunTool, BlockAsk,
     Entered, Open, Show, Wait, Close, UnlockAsk, ReleaseAsk, Decide, LockAsk,
     End, Return, TakeTool, Ends, phaseVars
  <2>2. CASE CheckPermission(c)
    BY <1>0, <2>1, <2>2, DecidedBy DEF Results, GoesTo, Becomes, Counted, PlaceOK
  <2>3. CASE RunTool(c)
    BY <1>0, <2>1, <2>3, DecidedBy DEF Results, Becomes, Counted, AfterRun
  <2>4. CASE Wait(c) \/ Decide(c)
    BY <1>0, <2>1, <2>4, DecidedBy DEF Results, GoesTo, Becomes, Counted
  <2>5. CASE Blocked(c) \/ BlockAsk(c) \/ End(c) \/ Return(c) \/ (Start(c) /\ Stopped)
    BY <1>0, <2>1, <2>5, ReturnsBy DEF Results, GoesTo, Becomes, Counted
  <2>6. CASE ~(CheckPermission(c) \/ RunTool(c) \/ Wait(c) \/ Decide(c) \/ Blocked(c)
               \/ BlockAsk(c) \/ End(c) \/ Return(c) \/ (Start(c) /\ Stopped))
    BY <1>4, <2>1, <2>6, MovesOn DEF CallAction, GoesTo, Becomes, Counted
  <2> QED
    BY <2>2, <2>3, <2>4, <2>5, <2>6
<1> QED
  BY <1>1, <1>2, <1>3, <1>4

LEMMA CountingKept ==
  ASSUME TypeOK, Standing, Counting, NEW c \in Calls, CallAction(c)
  PROVE  Counting' /\ waiting' \in [{"permission", "question"} -> 0 .. NumCalls]
<1>0. waiting \in [{"permission", "question"} -> Nat] /\ Kind(c) \in {"permission", "question"}
  BY Typed DEF Kind
<1>1. \A d \in Calls \ {c} : Counted(d)' = Counted(d)
  BY CallsMove DEF Counted
<1>2. \A d \in Calls : Kind(d)' = Kind(d)
  BY DEF Kind, Asks
<1>3. \A k \in {"permission", "question"} :
        /\ IsFiniteSet(CountedOf(k)) /\ Cardinality(CountedOf(k)) \in Nat
        /\ waiting[k] = Cardinality(CountedOf(k))
  BY CountedFinite, CallsAssumption DEF Counting
<1>4. CASE Counted(c)' = Counted(c) /\ UNCHANGED waiting
  <2>1. \A k : CountedOf(k)' = CountedOf(k)
    BY <1>1, <1>2, <1>4 DEF CountedOf
  <2>2. \A k \in {"permission", "question"} : waiting'[k] = Cardinality(CountedOf(k)')
    BY <1>3, <1>4, <2>1
  <2> QED
    BY <2>2, <1>4 DEF Counting, TypeOK
<1>5. CASE /\ ~Counted(c) /\ Counted(c)'
           /\ waiting' = [waiting EXCEPT ![Kind(c)] = @ + 1]
  <2>1. c \notin CountedOf(Kind(c)) /\ CountedOf(Kind(c))' = CountedOf(Kind(c)) \cup {c}
    BY <1>1, <1>2, <1>5 DEF CountedOf
  <2>2. \A k : k # Kind(c) => CountedOf(k)' = CountedOf(k)
    BY <1>1, <1>2 DEF CountedOf
  <2>3. Cardinality(CountedOf(Kind(c))') = Cardinality(CountedOf(Kind(c))) + 1
    BY <1>0, <1>3, <2>1, FS_AddElement
  <2>4. \A k \in {"permission", "question"} : waiting'[k] = Cardinality(CountedOf(k)')
    BY <1>0, <1>3, <1>5, <2>2, <2>3
  <2>5. \A k \in {"permission", "question"} : Cardinality(CountedOf(k)') \in 0 .. NumCalls
    BY CallsFinite DEF CountedOf
  <2>6. waiting' \in [{"permission", "question"} -> Nat]
    BY <1>0, <1>5
  <2> QED
    BY <2>4, <2>5, <2>6 DEF Counting
<1>6. CASE /\ Counted(c) /\ ~Counted(c)'
           /\ waiting' = [waiting EXCEPT ![Kind(c)] = IF @ > 0 THEN @ - 1 ELSE @]
  <2>1. c \in CountedOf(Kind(c)) /\ CountedOf(Kind(c))' = CountedOf(Kind(c)) \ {c}
    BY <1>1, <1>2, <1>6 DEF CountedOf
  <2>2. \A k : k # Kind(c) => CountedOf(k)' = CountedOf(k)
    BY <1>1, <1>2 DEF CountedOf
  <2>3. Cardinality(CountedOf(Kind(c))') = Cardinality(CountedOf(Kind(c))) - 1
    BY <1>0, <1>3, <2>1, FS_RemoveElement
  <2>4. waiting[Kind(c)] > 0
    <3>1. Cardinality(CountedOf(Kind(c))) # 0
      BY <1>0, <1>3, <2>1, FS_EmptySet
    <3> QED
      BY <1>0, <1>3, <3>1
  <2>5. \A k \in {"permission", "question"} : waiting'[k] = Cardinality(CountedOf(k)')
    BY <1>0, <1>3, <1>6, <2>2, <2>3, <2>4
  <2>6. \A k \in {"permission", "question"} : Cardinality(CountedOf(k)') \in 0 .. NumCalls
    BY CallsFinite DEF CountedOf
  <2>7. waiting' \in [{"permission", "question"} -> Nat]
    BY <1>0, <1>6, <2>4
  <2> QED
    BY <2>5, <2>6, <2>7 DEF Counting
<1> QED
  BY <1>4, <1>5, <1>6, CountsMove

LEMMA ShowingKept ==
  ASSUME TypeOK, Standing, Showing, NEW c \in Calls, CallAction(c)
  PROVE  /\ Showing' /\ phase' \in {"execute", "permission", "question"}
         /\ question' \in Calls \cup {None}
<1>0. /\ phase \in {"execute", "permission", "question"} /\ question \in Calls \cup {None}
      /\ Effective(waiting) \in {"execute", "permission", "question"}
  BY DEF TypeOK, Effective
<1>1. CASE Entered(c)
  <2>1. call'[c].at = IF Asks(c) THEN "show" ELSE "acquire"
    BY <1>1, MovesOn DEF GoesTo, Becomes
  <2>2. phase' = Effective(waiting') /\ question' = IF Asks(c) THEN c ELSE question
    BY <1>1 DEF Entered
  <2>3. ~Asks(c) => question # c
    BY CallsAssumption DEF Showing
  <2>4. \A d \in Calls \ {c} : call'[d] = call[d]
    BY CallsMove
  <2> QED
    BY <1>0, <1>1, <2>1, <2>2, <2>3, <2>4, CallsAssumption DEF Showing, Asks, Entered
<1>2. CASE Return(c)
  <2>1. call'[c].at = "returned"
    BY <1>2, ReturnsBy DEF Results, Becomes
  <2>2. /\ phase' = Effective(waiting') /\ waiting' = waiting
        /\ question' = IF Asks(c) /\ question = c THEN None ELSE question
    BY <1>2 DEF Return
  <2>3. ~Asks(c) => question # c
    BY CallsAssumption DEF Showing
  <2>4. \A d \in Calls \ {c} : call'[d] = call[d]
    BY CallsMove
  <2> QED
    BY <1>0, <2>1, <2>2, <2>3, <2>4 DEF Showing, Asks
<1>3. CASE ~(Entered(c) \/ Return(c))
  <2>1. phase' = phase /\ question' = question
    BY <1>3 DEF CallAction, Start, Blocked, Attempt, CheckPermission, RunTool, BlockAsk, Enter,
     AcquireAsk, Open, Show, Wait, Close, UnlockAsk, ReleaseAsk, Decide, Leave, LockAsk,
     End, TakeTool, Ends, phaseVars
  <2>2. \A d \in Calls \ {c} : call'[d] = call[d]
    BY CallsMove
  <2>3. call[c].at \notin {"entered", "left"}
    BY <1>3, MovesOn, ReturnsBy, DecidedBy, AcquireStays DEF CallAction
  <2>4. waiting' = waiting \/ call'[c].at \in {"entered", "left"}
    <3>1. CASE Enter(c) \/ Leave(c)
      BY <3>1, MovesOn DEF GoesTo, Becomes
    <3>2. CASE ~(Enter(c) \/ Leave(c))
      BY <1>3, <3>2 DEF CallAction, Start, Blocked, Attempt, CheckPermission, RunTool, BlockAsk,
       AcquireAsk, Open, Show, Wait, Close, UnlockAsk, ReleaseAsk, Decide, LockAsk,
       End, TakeTool, Ends, phaseVars
    <3> QED
      BY <3>1, <3>2
  <2>5. (call[c].at \in {"open", "show", "wait", "close", "leave", "left"} /\ Asks(c)) =>
          call'[c].at \in {"open", "show", "wait", "close", "leave", "left"}
    BY <1>3, MovesOn, ReturnsBy, DecidedBy, AcquireStays DEF CallAction, GoesTo, Results, Becomes
  <2>6. phase' = Effective(waiting') \/ \E d \in Calls : call'[d].at \in {"entered", "left"}
    <3>1. CASE call'[c].at \in {"entered", "left"}
      BY <3>1
    <3>2. CASE waiting' = waiting
      BY <3>2, <2>1, <2>2, <2>3 DEF Showing
    <3> QED
      BY <3>1, <3>2, <2>4
  <2>7. question' # None =>
          /\ Asks(question')
          /\ call'[question'].at \in {"open", "show", "wait", "close", "leave", "left"}
    BY <1>0, <2>1, <2>2, <2>5 DEF Showing
  <2> QED
    BY <1>0, <2>1, <2>6, <2>7 DEF Showing, Asks
<1> QED
  BY <1>1, <1>2, <1>3

-----------------------------------------------------------------------------
(* Approvals for one call: those given, and those used. *)

RanOnce(k) == {c \in Calls : KeyOf[c] = k /\ call[c].right = "once"}

ApprovedOnce(k) == {c \in Calls : KeyOf[c] = k /\ call[c].answer = "once" /\ Remembered(c)}

LeftOver(k) == IF memory[k] = "once" THEN 1 ELSE 0

OnceOK(k) == Cardinality(RanOnce(k)) + LeftOver(k) <= Cardinality(ApprovedOnce(k))

LEMMA OnceByKey == OnceIsOnce <=> \A k \in Keys : OnceOK(k)
BY DEF OnceIsOnce, OnceOK, RanOnce, ApprovedOnce, LeftOver

LEMMA OnceByKeyNext == OnceIsOnce' <=> \A k \in Keys : OnceOK(k)'
BY DEF OnceIsOnce, OnceOK, RanOnce, ApprovedOnce, LeftOver, Remembered

LEMMA OnceFinite ==
  ASSUME NEW k
  PROVE  /\ IsFiniteSet(RanOnce(k)) /\ Cardinality(RanOnce(k)) \in Nat
         /\ IsFiniteSet(ApprovedOnce(k)) /\ Cardinality(ApprovedOnce(k)) \in Nat
         /\ IsFiniteSet(RanOnce(k)') /\ Cardinality(RanOnce(k)') \in Nat
         /\ IsFiniteSet(ApprovedOnce(k)') /\ Cardinality(ApprovedOnce(k)') \in Nat
<1>1. /\ RanOnce(k) \subseteq Calls /\ ApprovedOnce(k) \subseteq Calls
      /\ RanOnce(k)' \subseteq Calls /\ ApprovedOnce(k)' \subseteq Calls
  BY DEF RanOnce, ApprovedOnce
<1>2. 0 .. NumCalls \subseteq Nat
  BY CallsAssumption
<1> QED
  BY <1>1, <1>2, CallsFinite

\* An approval that was given stays given.
LEMMA ApprovedGrows ==
  ASSUME TypeOK, Standing, NEW c \in Calls, CallAction(c), NEW k
  PROVE  ApprovedOnce(k) \subseteq ApprovedOnce(k)'
<1> SUFFICES ASSUME NEW d \in ApprovedOnce(k) PROVE d \in ApprovedOnce(k)'
  OBVIOUS
<1>1. CASE d # c
  BY <1>1, CallsMove DEF ApprovedOnce, Remembered
<1>2. CASE d = c
  <2>0. PlaceOK(c) /\ call[c].answer # None /\ call[c].answer = "once" /\ Remembered(c) /\ KeyOf[c] = k
    BY <1>2 DEF Standing, ApprovedOnce, Remembered
  <2>1. call[c].at \in {"remembered", "running", "leave", "left"}
    BY <2>0, CallsMove DEF PlaceOK, Remembered
  <2>2. /\ call'[c].answer = call[c].answer
        /\ call'[c].at \notin {"close", "unlock", "release", "decide"}
    BY <2>1, MovesOn, ReturnsBy, DecidedBy, AcquireStays
       DEF CallAction, GoesTo, Results, Becomes, AfterRun
  <2> QED
    BY <1>2, <2>0, <2>2 DEF ApprovedOnce, Remembered
<1> QED
  BY <1>1, <1>2

\* A call that may run once uses up what is left over, an approval leaves one.
LEMMA OnceMoves ==
  ASSUME TypeOK, Standing, NEW c \in Calls, CallAction(c)
  PROVE  \/ /\ memory[KeyOf[c]] = "once" /\ memory'[KeyOf[c]] # "once"
            /\ call[c].right # "once" /\ call'[c].right = "once"
         \/ /\ call'[c].right = "once" => call[c].right = "once"
            /\ memory'[KeyOf[c]] = "once" => memory[KeyOf[c]] = "once"
         \/ /\ call'[c].right = "once" => call[c].right = "once"
            /\ call[c].answer = "once" /\ ~Remembered(c)
            /\ call'[c].answer = "once" /\ Remembered(c)'
<1>0. /\ PlaceOK(c) /\ memory \in [Keys -> Scopes \cup {"none"}] /\ KeyOf[c] \in Keys
  BY Typed, CallsAssumption DEF Standing
<1>1. CASE CheckPermission(c)
  <2>1. call[c].right = "none"
    BY <1>0, <1>1, DecidedBy DEF PlaceOK
  <2>2. CASE /\ Right(c) \in {"rule", "once", "always"}
             /\ Becomes(c, "running", Right(c), call[c].answer, call[c].result)
             /\ memory' = Consumed(c, Right(c))
    <3>1. Right(c) = "once" => memory[KeyOf[c]] = "once" /\ memory'[KeyOf[c]] = "none"
      BY <1>0, <2>2 DEF Right, Consumed
    <3>2. Right(c) # "once" => memory' = memory
      BY <2>2 DEF Consumed
    <3> QED
      BY <2>1, <2>2, <3>1, <3>2 DEF Becomes
  <2>3. CASE memory' = memory /\ call'[c].right = call[c].right
    BY <2>3
  <2> QED
    BY <1>1, <2>2, <2>3, DecidedBy DEF GoesTo, Results, Becomes
<1>2. CASE Decide(c)
  <2>1. call[c].at = "decide" /\ call'[c].right = call[c].right /\ call'[c].answer = call[c].answer
    BY <1>2, DecidedBy DEF GoesTo, Results, Becomes
  <2>2. CASE memory' = memory
    BY <2>1, <2>2
  <2>3. CASE memory' = [memory EXCEPT ![KeyOf[c]] = call[c].answer]
    <3>1. memory'[KeyOf[c]] = call[c].answer
      BY <1>0, <2>3
    <3>2. CASE call[c].answer # "once"
      BY <2>1, <3>1, <3>2
    <3>3. CASE call[c].answer = "once" /\ call[c].answer # None
      <4>1. call'[c].at = "remembered"
        BY <1>2, <3>3, DecidedBy DEF GoesTo, Results, Becomes
      <4> QED
        BY <2>1, <3>3, <4>1 DEF Remembered
    <3>4. CASE call[c].answer = None
      BY <1>2, <2>1, <3>1, <3>4, DecidedBy
    <3> QED
      BY <3>2, <3>3, <3>4
  <2> QED
    BY <1>2, <2>2, <2>3, DecidedBy
<1>3. CASE ~(CheckPermission(c) \/ Decide(c))
  <2>1. call'[c].right = call[c].right
    BY <1>3, MovesOn, ReturnsBy, DecidedBy, AcquireStays DEF CallAction, GoesTo, Results, Becomes
  <2> QED
    BY <1>3, <2>1, MemoryMoves
<1> QED
  BY <1>1, <1>2, <1>3

LEMMA OnceKept ==
  ASSUME TypeOK, Standing, OnceIsOnce, NEW c \in Calls, CallAction(c)
  PROVE  OnceIsOnce'
<1> SUFFICES ASSUME NEW k \in Keys PROVE OnceOK(k)'
  BY OnceByKeyNext
<1>0. /\ OnceOK(k) /\ memory \in [Keys -> Scopes \cup {"none"}] /\ KeyOf[c] \in Keys
  BY OnceByKey, Typed, CallsAssumption
<1>1. \A d \in Calls \ {c} : call'[d] = call[d]
  BY CallsMove
<1>2. \A j \in Keys : j # KeyOf[c] => memory'[j] = memory[j]
  BY <1>0, MemoryMoves DEF CheckPermission, Consumed, Decide
<1>3. Cardinality(ApprovedOnce(k)) <= Cardinality(ApprovedOnce(k)')
  BY ApprovedGrows, OnceFinite, FS_Subset
<1>4. CASE k # KeyOf[c]
  <2>1. RanOnce(k)' = RanOnce(k)
    BY <1>1, <1>4 DEF RanOnce
  <2> QED
    BY <1>0, <1>2, <1>3, <1>4, <2>1, OnceFinite DEF OnceOK, LeftOver
<1>5. CASE k = KeyOf[c]
  <2>1. CASE /\ memory[k] = "once" /\ memory'[k] # "once"
             /\ call[c].right # "once" /\ call'[c].right = "once"
    <3>1. c \notin RanOnce(k) /\ RanOnce(k)' = RanOnce(k) \cup {c}
      BY <1>1, <1>5, <2>1 DEF RanOnce
    <3>2. Cardinality(RanOnce(k)') = Cardinality(RanOnce(k)) + 1
      BY <3>1, OnceFinite, FS_AddElement
    <3> QED
      BY <1>0, <1>3, <2>1, <3>2, OnceFinite DEF OnceOK, LeftOver
  <2>2. ASSUME call'[c].right = "once" => call[c].right = "once"
        PROVE  Cardinality(RanOnce(k)') <= Cardinality(RanOnce(k))
    <3>1. RanOnce(k)' \subseteq RanOnce(k)
      BY <1>1, <2>2 DEF RanOnce
    <3> QED
      BY <3>1, OnceFinite, FS_Subset
  <2>3. CASE /\ call'[c].right = "once" => call[c].right = "once"
             /\ memory'[k] = "once" => memory[k] = "once"
    BY <1>0, <1>3, <2>2, <2>3, OnceFinite DEF OnceOK, LeftOver
  <2>4. CASE /\ call'[c].right = "once" => call[c].right = "once"
             /\ call[c].answer = "once" /\ ~Remembered(c)
             /\ call'[c].answer = "once" /\ Remembered(c)'
    <3>1. c \notin ApprovedOnce(k) /\ ApprovedOnce(k) \cup {c} \subseteq ApprovedOnce(k)'
      BY <1>5, <2>4, ApprovedGrows DEF ApprovedOnce
    <3>2. /\ IsFiniteSet(ApprovedOnce(k) \cup {c})
          /\ Cardinality(ApprovedOnce(k) \cup {c}) = Cardinality(ApprovedOnce(k)) + 1
      BY <3>1, OnceFinite, FS_AddElement
    <3>3. Cardinality(ApprovedOnce(k) \cup {c}) <= Cardinality(ApprovedOnce(k)')
      BY <3>1, OnceFinite, FS_Subset
    <3> QED
      BY <1>0, <2>2, <2>4, <3>2, <3>3, OnceFinite DEF OnceOK, LeftOver
  <2> QED
    BY <1>5, <2>1, <2>3, <2>4, OnceMoves
<1> QED
  BY <1>4, <1>5

-----------------------------------------------------------------------------
(* The loop that hands out the calls. *)

LEMMA LoopKept ==
  ASSUME TypeOK, Feeding, Saving, Standing, NEW c \in Calls, CallAction(c)
  PROVE  Feeding' /\ Saving'
<1>1. /\ feed' = feed /\ saved' = saved /\ (failed => failed')
      /\ (call'[c].at = "returned" /\ call'[c].result = "canceled") => failed'
  BY TurnMoves DEF turnVars
<1>2. /\ \A d \in Calls \ {c} : call'[d] = call[d]
      /\ call[c].at \notin {"queued", "returned"} /\ call'[c].at # "queued"
  BY CallsMove
<1>3. feed.at \notin {"saving", "over"}
  BY <1>2 DEF Feeding, Working
<1>4. Feeding'
  BY <1>1, <1>2, <1>3 DEF Feeding
<1>5. Saving'
  BY <1>1, <1>2, <1>3 DEF Saving
<1> QED
  BY <1>4, <1>5

LEMMA ActionKeeps ==
  ASSUME IInv, NEW c \in Calls, CallAction(c)
  PROVE  IInv'
<1> USE DEF IInv
<1>1. Standing' /\ Counting' /\ Showing' /\ OnceIsOnce' /\ Feeding' /\ Saving' /\ AskLock'
  BY StandingKept, CountingKept, ShowingKept, OnceKept, LoopKept, LockMoves
<1>2. TypeOK'
  <2>1. Moves(c) /\ Lock!LocksTypeOK'
    BY ActionMoves, LockMoves
  <2>2. /\ waiting' \in [{"permission", "question"} -> 0 .. NumCalls]
        /\ phase' \in {"execute", "permission", "question"} /\ question' \in Calls \cup {None}
    BY CountingKept, ShowingKept
  <2>3. feed' = feed /\ saved' = saved
    BY <2>1 DEF Moves, turnVars
  <2> QED
    BY <2>1, <2>2, <2>3 DEF TypeOK, Moves, CallState, RequestState
<1> QED
  BY <1>1, <1>2

\* A step of the loop leaves the calls as they are, except that it starts one.
LEMMA SendKeeps ==
  ASSUME IInv, Send
  PROVE  IInv'
<1> DEFINE n == feed.next
<1>0. /\ TypeOK /\ AskLock /\ Standing /\ Feeding /\ Saving /\ Counting /\ Showing /\ OnceIsOnce
      /\ call \in [Calls -> CallState] /\ NumCalls \in Nat
      /\ feed \in [at : {"feeding", "joining", "saving", "over"}, next : 1 .. NumCalls + 1,
                   checked : BOOLEAN]
  BY Typed, CallsAssumption DEF IInv
<1>1. /\ feed.checked /\ feed.at = "feeding" /\ n \in Calls /\ call[n].at = "queued"
  BY <1>0 DEF Send, Feeding, Calls
<1>2. /\ feed'.at = feed.at /\ feed'.next = n + 1 /\ feed'.checked = FALSE
      /\ feed' \in [at : {"feeding", "joining", "saving", "over"}, next : 1 .. NumCalls + 1,
                    checked : BOOLEAN]
  <2> DEFINE mid == [feed EXCEPT !.next = n + 1]
  <2>1. feed' = [mid EXCEPT !.checked = FALSE]
    BY DEF Send
  <2>2. /\ mid \in [at : {"feeding", "joining", "saving", "over"}, next : 1 .. NumCalls + 1,
                   checked : BOOLEAN]
        /\ mid.at = feed.at /\ mid.next = n + 1
    BY <1>0, <1>1 DEF Calls
  <2> HIDE DEF mid
  <2> QED
    BY <2>1, <2>2
<1>3. GoesTo(n, "start")
  BY <1>0, <1>1, CallAt DEF Send, GoesTo, Places
<1>4. UNCHANGED <<saved, ctx, failed, memory, userVars, phaseVars, lockVars>>
  BY DEF Send
<1>5. TypeOK'
  BY <1>0, <1>2, <1>3, <1>4
     DEF TypeOK, GoesTo, Becomes, CallState, userVars, phaseVars, lockVars, Lock!LocksTypeOK
<1>6. Standing'
  <2> SUFFICES ASSUME NEW d \in Calls
               PROVE  (PlaceOK(d) /\ RequestOK(d) /\ LockOK(d) /\ AnswerOK(d))'
    BY DEF Standing
  <2>1. PlaceOK(d) /\ RequestOK(d) /\ LockOK(d) /\ AnswerOK(d)
    BY <1>0 DEF Standing
  <2>2. request' = request /\ place' = place
    BY <1>4 DEF userVars, lockVars
  <2>3. CASE d # n
    <3>1. call'[d] = call[d]
      BY <1>3, <2>3 DEF GoesTo, Becomes
    <3> QED
      BY <2>1, <2>2, <3>1 DEF PlaceOK, RequestOK, LockOK, AnswerOK, AnswersTo, Asks
  <2>4. CASE d = n
    <3>1. call[d].at = "queued" /\ call'[d].at = "start" /\ call'[d].answer = call[d].answer
          /\ call'[d].right = call[d].right /\ call'[d].result = call[d].result
      BY <1>1, <1>3, <2>4 DEF GoesTo, Becomes
    <3>2. PlaceOK(d)'
      BY <2>1, <3>1 DEF PlaceOK
    <3>3. RequestOK(d)' /\ LockOK(d)'
      BY <2>1, <2>2, <3>1 DEF RequestOK, LockOK, Asks
    <3> QED
      BY <2>1, <2>2, <3>1, <3>2, <3>3 DEF AnswerOK, AnswersTo, Asks
  <2> QED
    BY <2>3, <2>4
<1>7. Feeding'
  BY <1>0, <1>1, <1>2, <1>3 DEF Feeding, GoesTo, Becomes, Calls
<1>8. Saving'
  BY <1>0, <1>1, <1>2, <1>3, <1>4 DEF Saving, GoesTo, Becomes
<1>9. Counting'
  <2>1. \A d \in Calls : Counted(d)' = Counted(d) /\ Kind(d)' = Kind(d)
    BY <1>1, <1>3 DEF Counted, Kind, Asks, GoesTo, Becomes
  <2>2. \A k : CountedOf(k)' = CountedOf(k)
    BY <2>1 DEF CountedOf
  <2> QED
    BY <1>0, <1>4, <2>2 DEF Counting, phaseVars
<1>10. Showing'
  BY <1>0, <1>1, <1>3, <1>4 DEF Showing, GoesTo, Becomes, phaseVars, Asks, Effective, TypeOK
<1>11. OnceIsOnce'
  <2>1. \A d \in Calls : /\ call'[d].answer = call[d].answer /\ call'[d].right = call[d].right
                         /\ Remembered(d)' = Remembered(d)
    BY <1>1, <1>3 DEF Remembered, GoesTo, Becomes
  <2>2. \A k : RanOnce(k)' = RanOnce(k) /\ ApprovedOnce(k)' = ApprovedOnce(k)
    BY <2>1 DEF RanOnce, ApprovedOnce
  <2>3. \A k \in Keys : OnceOK(k)'
    BY <1>0, <1>4, <2>2, OnceByKey DEF OnceOK, LeftOver
  <2> QED
    BY <2>3, OnceByKeyNext
<1>12. AskLock'
  BY <1>0, <1>4 DEF AskLock, AtLock, lockVars
<1> QED
  BY <1>5, <1>6, <1>7, <1>8, <1>9, <1>10, <1>11, <1>12 DEF IInv

\* Steps that leave the calls as they are keep what is about calls.
CallsStay ==
  /\ UNCHANGED <<call, memory, phaseVars, lockVars>>
  /\ request' \in [Calls -> RequestState]
  /\ \A c \in Calls : request'[c].state = request[c].state /\ AnswerOK(c)'

LEMMA StayKeeps ==
  ASSUME IInv, CallsStay
  PROVE  Standing' /\ Counting' /\ Showing' /\ OnceIsOnce' /\ AskLock' /\ Lock!LocksTypeOK'
<1>0. /\ TypeOK /\ AskLock /\ Standing /\ Counting /\ Showing /\ OnceIsOnce
      /\ call' = call /\ memory' = memory /\ UNCHANGED phaseVars /\ UNCHANGED lockVars
  BY DEF IInv, CallsStay
<1>1. Standing'
  BY <1>0 DEF CallsStay, Standing, PlaceOK, RequestOK, LockOK, Asks, lockVars
<1>2. Counting'
  <2>1. \A k : CountedOf(k)' = CountedOf(k)
    BY <1>0 DEF CountedOf, Counted, Kind, Asks
  <2> QED
    BY <1>0, <2>1 DEF Counting, phaseVars
<1>3. Showing'
  BY <1>0 DEF Showing, phaseVars, Asks, Effective
<1>4. OnceIsOnce'
  <2>1. \A k : RanOnce(k)' = RanOnce(k) /\ ApprovedOnce(k)' = ApprovedOnce(k)
    BY <1>0 DEF RanOnce, ApprovedOnce, Remembered
  <2>2. \A k \in Keys : OnceOK(k)'
    BY <1>0, <2>1, OnceByKey DEF OnceOK, LeftOver
  <2> QED
    BY <2>2, OnceByKeyNext
<1>5. AskLock' /\ Lock!LocksTypeOK'
  BY <1>0 DEF AskLock, AtLock, TypeOK, Lock!LocksTypeOK, lockVars
<1> QED
  BY <1>1, <1>2, <1>3, <1>4, <1>5

\* A step of the loop or of a client.
LEMMA StayTyped ==
  ASSUME IInv, CallsStay,
         feed' \in [at : {"feeding", "joining", "saving", "over"}, next : 1 .. NumCalls + 1,
                    checked : BOOLEAN],
         saved' \subseteq Calls, shown' \subseteq Calls, failed' \in BOOLEAN,
         ctx' \in {"live", "turn", "run"}, Feeding', Saving'
  PROVE  IInv'
<1>1. Standing' /\ Counting' /\ Showing' /\ OnceIsOnce' /\ AskLock' /\ Lock!LocksTypeOK'
  BY StayKeeps
<1>2. TypeOK'
  BY <1>1 DEF IInv, CallsStay, TypeOK, RequestState, phaseVars
<1> QED
  BY <1>1, <1>2 DEF IInv

LEMMA LoopStays ==
  ASSUME IInv, Check \/ Join \/ Save \/ EndTurn \/ Cancel \/ UNCHANGED vars
  PROVE  CallsStay
<1>1. UNCHANGED <<call, memory, userVars, phaseVars, lockVars>>
  BY DEF Check, Join, Save, EndTurn, Cancel, vars
<1>2. request \in [Calls -> RequestState] /\ \A c \in Calls : AnswerOK(c)
  BY Typed DEF IInv, Standing
<1> QED
  BY <1>1, <1>2 DEF CallsStay, userVars, AnswerOK, AnswersTo, Asks

LEMMA CheckKeeps ==
  ASSUME IInv, Check
  PROVE  IInv'
<1> DEFINE FeedType == [at : {"feeding", "joining", "saving", "over"}, next : 1 .. NumCalls + 1,
                        checked : BOOLEAN]
<1>0. /\ Feeding /\ Saving /\ feed \in FeedType /\ CallsStay
      /\ saved \subseteq Calls /\ shown \subseteq Calls
      /\ failed \in BOOLEAN /\ ctx \in {"live", "turn", "run"}
  BY Typed, LoopStays DEF IInv
<1>1. /\ feed' \in FeedType /\ feed'.next = feed.next
      /\ IF Stopped THEN feed'.at = "joining" /\ feed'.checked = feed.checked
         ELSE feed'.at = feed.at /\ feed'.checked = TRUE
      /\ feed.at = "feeding" /\ feed.next <= NumCalls /\ ~feed.checked
      /\ failed' = (failed \/ Stopped) /\ UNCHANGED <<saved, shown, ctx, call>>
  BY <1>0 DEF Check, userVars
<1>2. Feeding'
  BY <1>0, <1>1 DEF Feeding
<1>3. Saving'
  BY <1>0, <1>1 DEF Saving
<1> QED
  BY <1>0, <1>1, <1>2, <1>3, StayTyped

LEMMA JoinKeeps ==
  ASSUME IInv, Join
  PROVE  IInv'
<1> DEFINE FeedType == [at : {"feeding", "joining", "saving", "over"}, next : 1 .. NumCalls + 1,
                        checked : BOOLEAN]
<1>0. /\ Feeding /\ Saving /\ feed \in FeedType /\ CallsStay /\ NumCalls \in Nat
      /\ saved \subseteq Calls /\ shown \subseteq Calls
      /\ failed \in BOOLEAN /\ ctx \in {"live", "turn", "run"}
  BY Typed, LoopStays, CallsAssumption DEF IInv
<1>1. /\ feed' \in FeedType /\ feed'.next = 1 /\ feed'.at = "saving" /\ feed'.checked = feed.checked
      /\ (feed.at = "feeding" /\ feed.next > NumCalls) \/ feed.at = "joining"
      /\ Working = {} /\ UNCHANGED <<saved, shown, failed, ctx, call>>
  <2> DEFINE mid == [feed EXCEPT !.at = "saving"]
  <2>1. feed' = [mid EXCEPT !.next = 1]
    BY DEF Join
  <2>2. mid \in FeedType /\ mid.at = "saving" /\ mid.checked = feed.checked
    BY <1>0
  <2>3. 1 \in 1 .. NumCalls + 1
    BY <1>0
  <2> HIDE DEF mid
  <2>4. feed' \in FeedType /\ feed'.next = 1 /\ feed'.at = "saving" /\ feed'.checked = feed.checked
    BY <2>1, <2>2, <2>3
  <2> QED
    BY <2>4 DEF Join, userVars
<1>2. ~feed.checked
  BY <1>0, <1>1 DEF Feeding
<1>3. Feeding'
  BY <1>0, <1>1, <1>2 DEF Feeding, Working
<1>4. ~failed => \A c \in Calls : call[c].at = "returned"
  <2> SUFFICES ASSUME ~failed, NEW c \in Calls PROVE call[c].at = "returned"
    OBVIOUS
  <2>1. feed.at = "feeding" /\ feed.next > NumCalls
    BY <1>0, <1>1 DEF Feeding
  <2>2. call[c].at # "queued"
    BY <1>0, <2>1 DEF Feeding, Calls
  <2> QED
    BY <1>1, <2>2 DEF Working
<1>5. Saving'
  BY <1>0, <1>1, <1>4 DEF Saving, Calls
<1> QED
  BY <1>0, <1>1, <1>3, <1>5, StayTyped

LEMMA SaveKeeps ==
  ASSUME IInv, Save
  PROVE  IInv'
<1> DEFINE FeedType == [at : {"feeding", "joining", "saving", "over"}, next : 1 .. NumCalls + 1,
                        checked : BOOLEAN]
           n == feed.next
<1>0. /\ Feeding /\ Saving /\ feed \in FeedType /\ CallsStay /\ NumCalls \in Nat /\ Standing
      /\ saved \subseteq Calls /\ shown \subseteq Calls /\ call \in [Calls -> CallState]
      /\ failed \in BOOLEAN /\ ctx \in {"live", "turn", "run"}
  BY Typed, LoopStays, CallsAssumption DEF IInv
<1>1. /\ feed.at = "saving" /\ n \in Calls
      /\ feed' \in FeedType /\ feed'.next = n + 1 /\ feed'.at = "saving"
      /\ feed'.checked = feed.checked
      /\ UNCHANGED <<shown, call>>
  <2>1. feed.at = "saving" /\ n \in Calls /\ n + 1 \in 1 .. NumCalls + 1
    BY <1>0 DEF Save, Calls
  <2>2. feed' = [feed EXCEPT !.next = n + 1]
    BY DEF Save
  <2> QED
    BY <1>0, <2>1, <2>2 DEF Save, userVars
<1>2. /\ saved' \subseteq Calls /\ failed' \in BOOLEAN /\ ctx' \in {"live", "turn", "run"}
      /\ (failed => failed') /\ saved \subseteq saved'
  BY <1>0, <1>1 DEF Save
<1>3. ~failed' => n \in saved'
  <2> SUFFICES ASSUME ~failed' PROVE n \in saved'
    OBVIOUS
  <2>1. call[n].at = "returned" /\ call[n].result \in {"ok", "error"}
    BY <1>0, <1>1, <1>2 DEF Saving, Standing, PlaceOK, CallState
  <2> QED
    BY <2>1 DEF Save
<1>4. Feeding'
  BY <1>0, <1>1, <1>2 DEF Feeding, Working
<1>5. Saving'
  <2>1. ASSUME ~failed', NEW c \in Calls
        PROVE  call[c].at = "returned" /\ call[c].result # "canceled" /\ (c < n + 1 => c \in saved')
    <3>1. c < n + 1 => c < n \/ c = n
      BY <1>1 DEF Calls
    <3>2. ~failed /\ feed.at = "saving" /\ call[c].at = "returned" /\ call[c].result # "canceled"
      BY <2>1, <1>0, <1>1, <1>2 DEF Saving
    <3>3. c < n => c \in saved
      BY <2>1, <3>2, <1>0 DEF Saving
    <3> QED
      BY <2>1, <3>1, <3>2, <3>3, <1>2, <1>3
  <2> QED
    BY <2>1, <1>1 DEF Saving
<1> QED
  BY <1>0, <1>1, <1>2, <1>4, <1>5, StayTyped

LEMMA EndTurnKeeps ==
  ASSUME IInv, EndTurn
  PROVE  IInv'
<1> DEFINE FeedType == [at : {"feeding", "joining", "saving", "over"}, next : 1 .. NumCalls + 1,
                        checked : BOOLEAN]
<1>0. /\ Feeding /\ Saving /\ feed \in FeedType /\ CallsStay
      /\ saved \subseteq Calls /\ shown \subseteq Calls
      /\ failed \in BOOLEAN /\ ctx \in {"live", "turn", "run"}
  BY Typed, LoopStays DEF IInv
<1>1. /\ feed' \in FeedType /\ feed'.next = feed.next /\ feed'.at = "over"
      /\ feed'.checked = feed.checked
      /\ feed.at = "saving" /\ feed.next > NumCalls
      /\ UNCHANGED <<saved, shown, failed, ctx, call>>
  BY <1>0 DEF EndTurn, userVars
<1>2. Feeding'
  BY <1>0, <1>1 DEF Feeding, Working
<1>3. Saving'
  BY <1>0, <1>1 DEF Saving
<1> QED
  BY <1>0, <1>1, <1>2, <1>3, StayTyped

LEMMA CancelKeeps ==
  ASSUME IInv, Cancel \/ UNCHANGED vars
  PROVE  IInv'
<1>0. /\ Feeding /\ Saving /\ CallsStay
      /\ feed \in [at : {"feeding", "joining", "saving", "over"}, next : 1 .. NumCalls + 1,
                   checked : BOOLEAN]
      /\ saved \subseteq Calls /\ shown \subseteq Calls
      /\ failed \in BOOLEAN /\ ctx \in {"live", "turn", "run"}
  BY Typed, LoopStays DEF IInv
<1>1. /\ UNCHANGED <<feed, saved, shown, failed, call>> /\ ctx' \in {"live", "turn", "run"}
  BY <1>0 DEF Cancel, vars, turnVars, userVars
<1>2. Feeding' /\ Saving'
  BY <1>0, <1>1 DEF Feeding, Working, Saving
<1> QED
  BY <1>0, <1>1, <1>2, StayTyped

\* A client answers, or its answer arrives.
LEMMA AnswerKeeps ==
  ASSUME IInv, NEW c \in Calls, Deliver(c) \/ \E answer \in AnswersTo(c) : Submit(c, answer)
  PROVE  IInv'
<1>0. /\ Feeding /\ Saving /\ Standing
      /\ feed \in [at : {"feeding", "joining", "saving", "over"}, next : 1 .. NumCalls + 1,
                   checked : BOOLEAN]
      /\ saved \subseteq Calls /\ shown \subseteq Calls
      /\ failed \in BOOLEAN /\ ctx \in {"live", "turn", "run"}
      /\ request \in [Calls -> RequestState]
  BY Typed DEF IInv
<1>1. UNCHANGED <<feed, saved, shown, failed, ctx, call, memory, phaseVars, lockVars>>
  BY DEF Deliver, Submit, Rest, turnVars
<1>2. /\ request' \in [Calls -> RequestState]
      /\ \A d \in Calls \ {c} : request'[d] = request[d]
      /\ request'[c].state = request[c].state
      /\ {request'[c].sending, request'[c].channel} \subseteq
           {request[c].sending, request[c].channel, None} \cup AnswersTo(c)
  <2>1. CASE Deliver(c)
    <3> DEFINE to == IF request[c].channel = None THEN request[c].sending ELSE request[c].channel
               mid == [request[c] EXCEPT !.sending = None]
               new == [mid EXCEPT !.channel = to]
    <3>1. request[c] \in RequestState /\ to \in Answers \cup {None}
      BY <1>0 DEF RequestState
    <3>2. request' = [request EXCEPT ![c] = new]
      BY <2>1, <1>0 DEF Deliver, RequestState
    <3> HIDE DEF to
    <3>3. /\ mid \in RequestState /\ mid.sending = None /\ mid.state = request[c].state
      BY <3>1 DEF RequestState
    <3> HIDE DEF mid
    <3>4. /\ new \in RequestState /\ new.sending = None /\ new.state = request[c].state
          /\ new.channel = to
      BY <3>1, <3>3 DEF RequestState
    <3> HIDE DEF new
    <3>5. request' \in [Calls -> RequestState] /\ request'[c] = new
          /\ \A d \in Calls \ {c} : request'[d] = request[d]
      BY <1>0, <3>2, <3>4
    <3> QED
      BY <3>4, <3>5 DEF to
  <2>2. CASE \E answer \in AnswersTo(c) : Submit(c, answer)
    <3>1. PICK answer \in AnswersTo(c) : Submit(c, answer)
      BY <2>2
    <3> DEFINE mid == [request[c] EXCEPT !.submitted = TRUE]
               new == [mid EXCEPT !.sending = answer]
    <3>2. request[c] \in RequestState /\ answer \in Answers \cup {None}
      BY <1>0, <3>1 DEF AnswersTo, Answers
    <3>3. request' = [request EXCEPT ![c] = new]
      BY <3>1, <1>0 DEF Submit, RequestState
    <3>4. /\ mid \in RequestState /\ mid.state = request[c].state
          /\ mid.channel = request[c].channel
      BY <3>2 DEF RequestState
    <3> HIDE DEF mid
    <3>5. /\ new \in RequestState /\ new.sending = answer /\ new.state = request[c].state
          /\ new.channel = request[c].channel
      BY <3>2, <3>4 DEF RequestState
    <3> HIDE DEF new
    <3>6. request' \in [Calls -> RequestState] /\ request'[c] = new
          /\ \A d \in Calls \ {c} : request'[d] = request[d]
      BY <1>0, <3>3, <3>5
    <3> QED
      BY <3>5, <3>6
  <2> QED
    BY <2>1, <2>2
<1>3. CallsStay
  <2>1. \A d \in Calls : AnswerOK(d)
    BY <1>0 DEF Standing
  <2>2. \A d \in Calls : AnswerOK(d)'
    BY <1>1, <1>2, <2>1 DEF AnswerOK, AnswersTo, Asks
  <2> QED
    BY <1>1, <1>2, <2>2 DEF CallsStay
<1>4. Feeding' /\ Saving'
  BY <1>0, <1>1 DEF Feeding, Working, Saving
<1> QED
  BY <1>0, <1>1, <1>3, <1>4, StayTyped

-----------------------------------------------------------------------------
(* The invariant, and what it shows. *)

LEMMA InitIInv == Init => IInv
<1> SUFFICES ASSUME Init PROVE IInv
  OBVIOUS
<1>0. NumCalls \in Nat /\ None \notin Calls
  BY CallsAssumption
<1>1. TypeOK
  <2>1. feed \in [at : {"feeding", "joining", "saving", "over"}, next : 1 .. NumCalls + 1,
                 checked : BOOLEAN]
    BY <1>0 DEF Init
  <2>2. call \in [Calls -> CallState]
    BY DEF Init, CallState, Places
  <2>3. request \in [Calls -> RequestState]
    BY DEF Init, RequestState, NoRequest
  <2>4. waiting \in [{"permission", "question"} -> 0 .. NumCalls]
    BY <1>0 DEF Init
  <2>5. Lock!LocksTypeOK
    BY DEF Init, Lock!LocksInit, Lock!LocksTypeOK
  <2> QED
    BY <2>1, <2>2, <2>3, <2>4, <2>5 DEF Init, TypeOK, CallState, RequestState
<1>2. AskLock
  BY <1>0 DEF Init, AskLock, AtLock, Lock!LocksInit, Lock!Idle
<1>3. Standing
  <2> SUFFICES ASSUME NEW c \in Calls
               PROVE  PlaceOK(c) /\ RequestOK(c) /\ LockOK(c) /\ AnswerOK(c)
    BY DEF Standing
  <2>1. /\ call[c] = [at |-> "queued", right |-> "none", answer |-> None, result |-> "none"]
        /\ request[c] = NoRequest /\ place[c] = Lock!Idle
    BY DEF Init, Lock!LocksInit
  <2>2. PlaceOK(c) /\ RequestOK(c)
    BY <2>1 DEF PlaceOK, RequestOK, NoRequest
  <2>3. LockOK(c)
    BY <2>1 DEF LockOK, Lock!Idle
  <2>4. AnswerOK(c)
    BY <2>1 DEF AnswerOK, NoRequest
  <2> QED
    BY <2>2, <2>3, <2>4
<1>4. Feeding /\ Saving
  BY <1>0 DEF Init, Feeding, Saving, Calls
<1>5. Counting
  <2>1. \A k : CountedOf(k) = {}
    BY DEF Init, CountedOf, Counted
  <2> QED
    BY <2>1, FS_EmptySet DEF Init, Counting
<1>6. Showing
  BY DEF Init, Showing, Effective
<1>7. OnceIsOnce
  <2>1. \A k : RanOnce(k) = {} /\ ApprovedOnce(k) = {}
    BY <1>0 DEF Init, RanOnce, ApprovedOnce, Remembered
  <2>2. \A k \in Keys : Cardinality(RanOnce(k)) = 0 /\ Cardinality(ApprovedOnce(k)) = 0
    BY <2>1, FS_EmptySet
  <2>3. \A k \in Keys : LeftOver(k) = 0
    BY DEF Init, LeftOver
  <2>4. \A k \in Keys : OnceOK(k)
    BY <2>2, <2>3 DEF OnceOK
  <2> QED
    BY <2>4, OnceByKey
<1> QED
  BY <1>1, <1>2, <1>3, <1>4, <1>5, <1>6, <1>7 DEF IInv

LEMMA NextIInv == IInv /\ [Next]_vars => IInv'
<1> SUFFICES ASSUME IInv, [Next]_vars PROVE IInv'
  OBVIOUS
<1>1. CASE TurnStep
  BY <1>1, CheckKeeps, SendKeeps, JoinKeeps, SaveKeeps, EndTurnKeeps DEF TurnStep
<1>2. ASSUME NEW c \in Calls, CallStep(c) \/ TakeTool(c) \/ LockAsk(c)
      PROVE  IInv'
  <2>1. CallAction(c) \/ Deliver(c)
    BY <1>2 DEF CallStep, CallAction
  <2> QED
    BY <2>1, ActionKeeps, AnswerKeeps
<1>3. ASSUME NEW c \in Calls, NEW answer \in AnswersTo(c), Submit(c, answer)
      PROVE  IInv'
  BY <1>3, AnswerKeeps
<1>4. CASE Cancel \/ Over \/ UNCHANGED vars
  BY <1>4, CancelKeeps DEF Over
<1> QED
  BY <1>1, <1>2, <1>3, <1>4 DEF Next

LEMMA Invariance == Spec => []IInv
BY InitIInv, NextIInv, PTL DEF Spec

\* Every part of the state is of its type; the counts of waiting calls never
\* exceed the calls (toolexec.go, permission.go, approval/broker.go).
THEOREM TypeCorrect == Spec => []TypeOK
<1>1. IInv => TypeOK
  BY DEF IInv
<1> QED
  BY <1>1, Invariance, PTL

\* An approval for one call lets at most one call of its key run, however many
\* calls and answers come in between (session_memory.go).
THEOREM OnceUsedOnce == Spec => []OnceIsOnce
<1>1. IInv => OnceIsOnce
  BY DEF IInv
<1> QED
  BY <1>1, Invariance, PTL

\* The user has one approval to decide at a time: whose request is open holds
\* the ask lock, and the lock has one holder though its entry comes and goes
\* (permissionAskLocks).
THEOREM OneAtATime == Spec => []OneRequestAtATime
<1>1. ASSUME IInv PROVE OneRequestAtATime
  <2> DEFINE opened == {c \in Calls : ~Asks(c) /\ request[c].state = "open"}
  <2>0. AskLock /\ Standing /\ Lock!LocksTypeOK /\ lockOf[AskKey] \in Entries \cup {None}
    BY <1>1, LockTyped DEF IInv, TypeOK
  <2>1. \A c \in opened : place[c].at = "holding"
    BY <2>0 DEF Standing, RequestOK, LockOK
  <2>2. \A c \in opened : holder[lockOf[AskKey]] = c
    <3> SUFFICES ASSUME NEW c \in opened PROVE holder[lockOf[AskKey]] = c
      OBVIOUS
    <3>1. place[c] # Lock!Idle /\ place[c].at = "holding"
      BY <2>1 DEF Lock!Idle
    <3>2. place[c].entry \in Entries /\ place[c].entry = lockOf[AskKey]
      BY <2>0, <3>1, LockTyped DEF AskLock, AtLock, AtLockOK
    <3> QED
      BY <2>0, <3>1, <3>2 DEF AskLock
  <2>3. CASE opened = {}
    BY <2>3, FS_EmptySet DEF OneRequestAtATime
  <2>4. CASE opened # {}
    <3>1. PICK c \in opened : TRUE
      BY <2>4
    <3>2. opened = {c}
      BY <2>2, <3>1
    <3>3. Cardinality(opened) = 1
      BY <3>2, FS_Singleton
    <3> QED
      BY <3>3 DEF OneRequestAtATime
  <2> QED
    BY <2>3, <2>4
<1> QED
  BY <1>1, Invariance, PTL

\* When the calls are over nothing of their waiting is left: the phase, the
\* question, the counts, the requests and the ask lock.
THEOREM NobodyWaits == Spec => []NothingLeftWaiting
<1>1. ASSUME IInv, feed.at \in {"saving", "over"}
      PROVE  /\ phase = "execute" /\ question = None
             /\ \A k \in {"permission", "question"} : waiting[k] = 0
             /\ \A c \in Calls : request[c].state # "open"
             /\ lockOf[AskKey] = None
  <2>0. /\ TypeOK /\ AskLock /\ Standing /\ Counting /\ Showing /\ Lock!LocksTypeOK
    BY <1>1 DEF IInv, TypeOK
  <2>1. \A c \in Calls : call[c].at \in {"queued", "returned"}
    BY <1>1 DEF IInv, Feeding, Working
  <2>2. \A k \in {"permission", "question"} : waiting[k] = 0
    <3>1. \A k : CountedOf(k) = {}
      BY <2>1 DEF CountedOf, Counted
    <3> QED
      BY <2>0, <3>1, FS_EmptySet DEF Counting
  <2>3. phase = "execute"
    BY <2>0, <2>1, <2>2 DEF Showing, Effective
  <2>4. question = None
    BY <2>0, <2>1 DEF Showing, TypeOK
  <2>5. \A c \in Calls : request[c].state # "open"
    BY <2>0, <2>1 DEF Standing, RequestOK
  <2>6. lockOf[AskKey] = None
    <3>1. \A c \in Calls : place[c].at = "idle"
      BY <2>0, <2>1 DEF Standing, LockOK
    <3>2. AtLock = {}
      BY <2>0, <3>1, LockTyped DEF AtLock, AtLockOK
    <3> QED
      BY <2>0, <3>2 DEF AskLock
  <2> QED
    BY <2>2, <2>3, <2>4, <2>5, <2>6
<1>2. IInv => NothingLeftWaiting
  BY <1>1 DEF NothingLeftWaiting
<1> QED
  BY <1>2, Invariance, PTL

\* A turn that ends without an error has saved the result of every call.
THEOREM CompleteTurns == Spec => []TurnComplete
<1>1. ASSUME IInv, feed.at = "over", ~failed
      PROVE  saved = Calls
  <2>1. feed.next > NumCalls /\ \A c \in Calls : c < feed.next => c \in saved
    BY <1>1 DEF IInv, Saving
  <2>2. feed.next \in Nat /\ saved \subseteq Calls /\ NumCalls \in Nat
    BY <1>1, Typed, CallsAssumption DEF IInv
  <2>3. \A c \in Calls : c < feed.next
    BY <2>1, <2>2 DEF Calls
  <2> QED
    BY <2>1, <2>2, <2>3
<1>2. IInv => TurnComplete
  BY <1>1 DEF TurnComplete
<1> QED
  BY <1>2, Invariance, PTL
=============================================================================
