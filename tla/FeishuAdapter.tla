---------------------------- MODULE FeishuAdapter -----------------------------
(* The Feishu adapter, which turns the messages of a chat into runs of the    *)
(* gateway, and the approvals a run asks for into one card of the chat. The   *)
(* handlers of messages and of clicks and the consumer of gateway events work *)
(* at once on the table of runs it tracks; their calls to the gateway and to  *)
(* Feishu are made without its lock.                                          *)
(*                                                                            *)
(* All messages belong to one chat, hence one session; a message names its    *)
(* run. The generation and version an update of a card was computed for are   *)
(* modelled by `fresh`: nobody has changed the run's approvals since.         *)
EXTENDS Naturals, Sequences, SequencesExt

CONSTANTS
  Messages,
  Deliveries,  \* of messages; Feishu may deliver one more than once
  Requests,    \* approvals the runs ask for
  RunOf,       \* the run that asks for each of them
  Decisions,   \* what they are answered with
  Clicks,      \* answers of users through the adapter
  Loop,        \* the consumer of gateway events
  None

ASSUME ConstantsAssumption ==
  /\ RunOf \in [Requests -> Messages]
  /\ None \notin Messages \cup Requests
  /\ Loop \notin Clicks
  /\ Decisions \cap {"none", "queued", "displaying"} = {}

VARIABLES
  idem,     \* the idempotency store, within its time to live
  work,     \* the handler of each delivery
  tracked,  \* activeRuns: whether and how each run is tracked
  active,   \* approvalFSMByRun: the request its card is for
  stack,    \*   requests that wait for the card
  node,     \*   state of each request
  card,     \*   what the permission card of the run shows
  loop,     \* the run whose end the consumer is reporting
  click,    \* the handler of each click
  box,      \* updates of cards each of them still has to make
  feed,     \* events on their way to the adapter
  run,      \* runs at the gateway
  ask,      \* approvals the runs wait for
  missed,   \* runs an interrupt found before they could be canceled, or failed on
  mishap    \* runs with a failed update of their card, two at the same time, or a
            \* waiting request resolved before the one that has the card

approvals == <<active, stack, node, card, box>>
gateway == <<feed, run, ask>>
vars == <<idem, work, tracked, approvals, loop, click, gateway, missed, mishap>>

Procs == Clicks \cup {Loop}

RequestsOf(m) == {q \in Requests : RunOf[q] = m}
NoCard == [req |-> None, resolved |-> FALSE]
NoOp == [kind |-> "none", req |-> None]
Op(kind, q) == [kind |-> kind, req |-> q]
Ops == [kind : {"send", "pending", "resolved"}, req : Requests]
Empty == [ops |-> <<>>, flight |-> NoOp, fresh |-> FALSE]
Idle(p) == box[p] = Empty

Event(kind, m, q) == [kind |-> kind, run |-> m, req |-> q]
Events ==
  {Event(kind, RunOf[q], q) : kind \in {"requested", "resolved"}, q \in Requests}
    \cup {Event("done", m, None) : m \in Messages}

Live(m) == run[m].at \in {"accepted", "active"} /\ ~run[m].canceled

HandlersTyped ==
  /\ idem \in [Messages -> {"none", "pending", "done"}]
  /\ work \in [Deliveries ->
                [at : {"off", "run", "carding", "scan", "interrupt", "mark",
                       "untrack", "over"},
                 msg : Messages \cup {None}, left : SUBSET Messages, cur : Messages \cup {None}]]
  /\ click \in [Clicks -> [at : {"idle", "call", "update", "over"},
                           req : Requests \cup {None}, decision : Decisions \cup {None}]]
  /\ loop \in Messages \cup {None}

ApprovalsTyped ==
  /\ active \in [Messages -> Requests \cup {None}]
  /\ stack \in [Messages -> Seq(Requests)]
  /\ \A m \in Messages : IsInjective(stack[m]) /\ ToSet(stack[m]) \subseteq RequestsOf(m)
  /\ node \in [Requests -> {"none", "queued", "displaying"} \cup Decisions]
  /\ card \in [Messages -> [req : Requests \cup {None}, resolved : BOOLEAN]]

BoxesTyped ==
  /\ box \in [Procs -> [ops : Seq(Ops), flight : Ops \cup {NoOp}, fresh : BOOLEAN]]
  /\ \A p \in Procs : Len(box[p].ops) <= 2

GatewayTyped ==
  /\ feed \in Seq(Events)
  /\ run \in [Messages -> [at : {"none", "accepted", "active", "ended"}, canceled : BOOLEAN,
                           times : Nat, lost : BOOLEAN]]
  /\ ask \in [Requests -> [at : {"none", "open", "taken", "told", "left"},
                           decision : Decisions \cup {None}]]
  /\ missed \subseteq Messages
  /\ mishap \subseteq Messages

\* A run that is not tracked has no approvals, and neither has a blank entry.
TrackedOnly ==
  /\ tracked \in [Messages -> {"no", "pending", "ended", "blank"}]
  /\ \A m \in Messages : tracked[m] \in {"no", "blank"} =>
       /\ active[m] = None /\ stack[m] = <<>> /\ card[m] = NoCard
       /\ \A q \in RequestsOf(m) : node[q] = "none"

TypeOK == HandlersTyped /\ ApprovalsTyped /\ BoxesTyped /\ GatewayTyped /\ TrackedOnly

Init ==
  /\ idem = [m \in Messages |-> "none"]
  /\ work = [d \in Deliveries |-> [at |-> "off", msg |-> None, left |-> {}, cur |-> None]]
  /\ tracked = [m \in Messages |-> "no"]
  /\ active = [m \in Messages |-> None]
  /\ stack = [m \in Messages |-> <<>>]
  /\ node = [q \in Requests |-> "none"]
  /\ card = [m \in Messages |-> NoCard]
  /\ loop = None
  /\ click = [k \in Clicks |-> [at |-> "idle", req |-> None, decision |-> None]]
  /\ box = [p \in Procs |-> Empty]
  /\ feed = <<>>
  /\ run = [m \in Messages |-> [at |-> "none", canceled |-> FALSE, times |-> 0, lost |-> FALSE]]
  /\ ask = [q \in Requests |-> [at |-> "none", decision |-> None]]
  /\ missed = {}
  /\ mishap = {}

-----------------------------------------------------------------------------
(* The tracking of a run, and the updates of its card that are still to be    *)
(* made. An update is given up when the approvals changed after it was        *)
(* computed; the check is made before the call, not with it.                  *)

Concerns(b, m) == \E o \in ToSet(b.ops) \cup {b.flight} : o.req \in RequestsOf(m)

\* The updates others have computed for run m are out of date.
Stale(m) == [p \in Procs |-> IF Concerns(box[p], m) THEN [box[p] EXCEPT !.fresh = FALSE] ELSE box[p]]

\* Process p has changed the approvals of run m, which calls for updates ops.
Changed(p, m, ops) ==
  box' = [Stale(m) EXCEPT ![p] = IF ops = <<>> THEN Empty
                                 ELSE [ops |-> ops, flight |-> NoOp, fresh |-> TRUE]]

\* A mutant: the requests of the run are kept.
UntrackKeepsRequests(m) ==
  /\ tracked' = [tracked EXCEPT ![m] = "no"]
  /\ active' = [active EXCEPT ![m] = None]
  /\ stack' = [stack EXCEPT ![m] = <<>>]
  /\ node' = node
  /\ card' = [card EXCEPT ![m] = NoCard]
  /\ box' = Stale(m)

Untrack(m) ==
  /\ tracked' = [tracked EXCEPT ![m] = "no"]
  /\ active' = [active EXCEPT ![m] = None]
  /\ stack' = [stack EXCEPT ![m] = <<>>]
  /\ node' = [q \in Requests |-> IF RunOf[q] = m THEN "none" ELSE node[q]]
  /\ card' = [card EXCEPT ![m] = NoCard]
  /\ box' = Stale(m)

StartUpdate(p) ==
  /\ box[p].ops # <<>> /\ box[p].flight = NoOp
  /\ LET m == RunOf[Head(box[p].ops).req]
         rival == \E r \in Procs \ {p} : /\ box[r].flight.kind \in {"pending", "resolved"}
                                         /\ RunOf[box[r].flight.req] = m
     IN IF box[p].fresh
        THEN /\ box' = [box EXCEPT ![p].flight = Head(box[p].ops), ![p].ops = Tail(@)]
             /\ mishap' = IF rival THEN mishap \cup {m} ELSE mishap
        ELSE box' = [box EXCEPT ![p] = Empty] /\ UNCHANGED mishap
  /\ UNCHANGED <<idem, work, tracked, active, stack, node, card, loop, click, gateway, missed>>

\* A new card is kept only when the approvals are still those it was made for;
\* otherwise it is deleted at once.
EndUpdate(p) ==
  /\ box[p].flight # NoOp
  /\ box' = [box EXCEPT ![p] = IF box[p].ops = <<>> THEN Empty ELSE [@ EXCEPT !.flight = NoOp]]
  /\ LET op == box[p].flight
         m == RunOf[op.req]
         reached == IF op.kind = "send" THEN box[p].fresh ELSE card[m] # NoCard
     IN \/ /\ card' = IF reached
                      THEN [card EXCEPT ![m] = [req |-> op.req, resolved |-> op.kind = "resolved"]]
                      ELSE card
           /\ UNCHANGED mishap
        \/ mishap' = mishap \cup {m} /\ UNCHANGED card
  /\ UNCHANGED <<idem, work, tracked, active, stack, node, loop, click, gateway, missed>>

-----------------------------------------------------------------------------
(* A message of the chat: HandleMessage. *)

Step(d, at) == work' = [work EXCEPT ![d].at = at]

Receive(d) ==
  /\ work[d].at = "off"
  /\ \E m \in Messages :
       IF idem[m] = "none"
       THEN /\ idem' = [idem EXCEPT ![m] = "pending"]
            /\ tracked' = [tracked EXCEPT ![m] = "pending"]
            /\ work' = [work EXCEPT ![d].at = "run", ![d].msg = m]
       ELSE /\ work' = [work EXCEPT ![d].at = "over", ![d].msg = m]
            /\ UNCHANGED <<idem, tracked>>
  /\ UNCHANGED <<approvals, loop, click, gateway, missed, mishap>>

\* Runs of one message after a lost answer are not told apart.
Accepted(m, lost) ==
  run' = [run EXCEPT ![m] = [at |-> "accepted", canceled |-> FALSE, times |-> @.times + 1,
                             lost |-> @.lost \/ lost]]

Submit(d) ==
  /\ work[d].at = "run"
  /\ Accepted(work[d].msg, FALSE)
  /\ Step(d, "carding")
  /\ UNCHANGED <<idem, tracked, approvals, loop, click, feed, ask, missed, mishap>>

\* Binding the stream or starting the run fails, or the gateway starts it and the
\* answer is lost; the message may be delivered again.
RunFails(d) ==
  /\ work[d].at = "run"
  /\ Accepted(work[d].msg, TRUE) \/ UNCHANGED run
  /\ Untrack(work[d].msg)
  /\ idem' = [idem EXCEPT ![work[d].msg] = "none"]
  /\ Step(d, "over")
  /\ UNCHANGED <<loop, click, feed, ask, missed, mishap>>

\* The id of the card is stored in the table of runs even when the run has
\* ended meanwhile: what is stored then names neither run nor chat.
StatusCardSent(d) ==
  /\ work[d].at = "carding"
  /\ LET m == work[d].msg
     IN \/ tracked' = IF tracked[m] = "no" THEN [tracked EXCEPT ![m] = "blank"] ELSE tracked
        \/ UNCHANGED tracked
  /\ Step(d, "scan")
  /\ UNCHANGED <<idem, approvals, loop, click, gateway, missed, mishap>>

\* A mutant: only the runs that wait for no approval are interrupted.
ScanSpares(d) ==
  /\ work[d].at = "scan"
  /\ work' = [work EXCEPT ![d].at = "interrupt",
                          ![d].left = {m \in Messages \ {work[d].msg} :
                                         tracked[m] = "pending" /\ active[m] = None}]
  /\ UNCHANGED <<idem, tracked, approvals, loop, click, gateway, missed, mishap>>

Scan(d) ==
  /\ work[d].at = "scan"
  /\ work' = [work EXCEPT ![d].at = "interrupt",
                          ![d].left = {m \in Messages \ {work[d].msg} : tracked[m] = "pending"}]
  /\ UNCHANGED <<idem, tracked, approvals, loop, click, gateway, missed, mishap>>

\* A mutant: the answer of the gateway is not looked at.
NotCanceledUntracks(d) ==
  /\ work[d].at = "interrupt"
  /\ \E m \in work[d].left :
       /\ run[m].at # "active"
       /\ work' = [work EXCEPT ![d].at = "mark", ![d].cur = m]
       /\ missed' = missed
  /\ UNCHANGED <<idem, tracked, approvals, loop, click, gateway, mishap>>

\* The gateway knows a run from the moment its goroutine has registered it.
Interrupt(d) ==
  /\ work[d].at = "interrupt"
  /\ \E m \in work[d].left :
       /\ run[m].at = "active"
       /\ run' = [run EXCEPT ![m].canceled = TRUE]
       /\ work' = [work EXCEPT ![d].at = "mark", ![d].cur = m]
  /\ UNCHANGED <<idem, tracked, approvals, loop, click, feed, ask, missed, mishap>>

NotCanceled(d) ==
  /\ work[d].at = "interrupt"
  /\ \E m \in work[d].left :
       /\ run[m].at # "active"
       /\ work' = [work EXCEPT ![d].left = @ \ {m}]
       /\ missed' = IF run[m].at = "accepted" THEN missed \cup {m} ELSE missed
  /\ UNCHANGED <<idem, tracked, approvals, loop, click, gateway, mishap>>

\* The call fails, before or after it had its effect; the run stays tracked.
InterruptFails(d) ==
  /\ work[d].at = "interrupt"
  /\ \E m \in work[d].left :
       /\ \/ run' = [run EXCEPT ![m].canceled = @ \/ run[m].at = "active"]
          \/ UNCHANGED run
       /\ work' = [work EXCEPT ![d].left = @ \ {m}]
       /\ missed' = missed \cup {m}
  /\ UNCHANGED <<idem, tracked, approvals, loop, click, feed, ask, mishap>>

MarkInterrupted(d) ==
  /\ work[d].at = "mark"
  /\ LET m == work[d].cur
     IN tracked' = IF tracked[m] = "no" THEN tracked ELSE [tracked EXCEPT ![m] = "ended"]
  /\ Step(d, "untrack")
  /\ UNCHANGED <<idem, approvals, loop, click, gateway, missed, mishap>>

UntrackInterrupted(d) ==
  /\ work[d].at = "untrack"
  /\ Untrack(work[d].cur)
  /\ work' = [work EXCEPT ![d].at = "interrupt", ![d].left = @ \ {work[d].cur}, ![d].cur = None]
  /\ UNCHANGED <<idem, loop, click, gateway, missed, mishap>>

MessageDone(d) ==
  /\ work[d].at = "interrupt" /\ work[d].left = {}
  /\ idem' = [idem EXCEPT ![work[d].msg] = "done"]
  /\ Step(d, "over")
  /\ UNCHANGED <<tracked, approvals, loop, click, gateway, missed, mishap>>

-----------------------------------------------------------------------------
(* The approvals of a run: transitionPermissionRequested and                  *)
(* updateApprovalStatus.                                                      *)

\* A new request takes the card when it is free and waits otherwise.
Request(p, q) ==
  LET m == RunOf[q]
      shows == active[m] \in {None, q}
  IN IF node[q] \in Decisions
     THEN Changed(p, m, <<>>) /\ UNCHANGED <<active, stack, node>>
     ELSE /\ active' = [active EXCEPT ![m] = IF shows THEN q ELSE @]
          /\ node' = [node EXCEPT ![q] = IF shows THEN "displaying" ELSE "queued"]
          /\ stack' = IF shows \/ q \in ToSet(stack[m]) THEN stack
                      ELSE [stack EXCEPT ![m] = Append(@, q)]
          /\ Changed(p, m, IF ~shows THEN <<>>
                           ELSE <<Op(IF card[m] = NoCard THEN "send" ELSE "pending", q)>>)

\* The latest of the requests that wait takes the card next; 0 when none does.
Waiting(m, q) == {i \in DOMAIN stack[m] : stack[m][i] # q /\ node[stack[m][i]] = "queued"}
Promoted(m, q) == {i \in {0} \cup Waiting(m, q) : \A j \in Waiting(m, q) : j <= i}

\* A mutant: the request that takes the card is not put on it.
ResolvePromotesNone(p, q, decision) ==
  LET m == RunOf[q]
  IN IF tracked[m] = "no" \/ node[q] \in {"none"} \cup Decisions
     THEN UNCHANGED <<active, stack, node, box, mishap>>
     ELSE \E i \in Promoted(m, q) :
            LET heir == IF i = 0 THEN None ELSE stack[m][i]
            IN /\ node' = [r \in Requests |-> IF r = q THEN decision
                                              ELSE IF r = heir THEN "displaying" ELSE node[r]]
               /\ active' = [active EXCEPT ![m] = heir]
               /\ stack' = [stack EXCEPT ![m] = SubSeq(@, 1, i - 1)]
               /\ mishap' = IF active[m] \in {q, None} THEN mishap ELSE mishap \cup {m}
               /\ Changed(p, m, IF card[m] = NoCard THEN <<>>
                                ELSE <<Op("resolved", q)>>)

Resolve(p, q, decision) ==
  LET m == RunOf[q]
  IN IF tracked[m] = "no" \/ node[q] \in {"none"} \cup Decisions
     THEN UNCHANGED <<active, stack, node, box, mishap>>
     ELSE \E i \in Promoted(m, q) :
            LET heir == IF i = 0 THEN None ELSE stack[m][i]
            IN /\ node' = [r \in Requests |-> IF r = q THEN decision
                                              ELSE IF r = heir THEN "displaying" ELSE node[r]]
               /\ active' = [active EXCEPT ![m] = heir]
               /\ stack' = [stack EXCEPT ![m] = SubSeq(@, 1, i - 1)]
               /\ mishap' = IF active[m] \in {q, None} THEN mishap ELSE mishap \cup {m}
               /\ Changed(p, m, IF card[m] = NoCard THEN <<>>
                                ELSE IF heir = None THEN <<Op("resolved", q)>>
                                ELSE <<Op("resolved", q), Op("pending", heir)>>)

-----------------------------------------------------------------------------
(* The consumer of gateway events: handleGatewayEvent. *)

Ready == loop = None /\ Idle(Loop) /\ feed # <<>>

\* Events of a run that is not tracked change nothing; one whose entry was left
\* blank has no chat.
Ignored == tracked[Head(feed).run] \in {"no", "blank"}

IgnoreEvent ==
  /\ Ready /\ Ignored
  /\ feed' = Tail(feed)
  /\ UNCHANGED <<idem, work, tracked, approvals, loop, click, run, ask, missed, mishap>>

PermissionRequested ==
  /\ Ready /\ ~Ignored /\ Head(feed).kind = "requested"
  /\ Request(Loop, Head(feed).req)
  /\ feed' = Tail(feed)
  /\ UNCHANGED <<idem, work, tracked, card, loop, click, run, ask, missed, mishap>>

PermissionResolved ==
  /\ Ready /\ ~Ignored /\ Head(feed).kind = "resolved"
  /\ Resolve(Loop, Head(feed).req, ask[Head(feed).req].decision)
  /\ feed' = Tail(feed)
  /\ UNCHANGED <<idem, work, tracked, card, loop, click, run, ask, missed>>

\* The run is marked, then its cards are brought to an end, then it is dropped.
RunTerminal ==
  /\ Ready /\ ~Ignored /\ Head(feed).kind = "done"
  /\ tracked' = [tracked EXCEPT ![Head(feed).run] = "ended"]
  /\ loop' = Head(feed).run
  /\ feed' = Tail(feed)
  /\ UNCHANGED <<idem, work, approvals, click, run, ask, missed, mishap>>

UntrackTerminal ==
  /\ loop # None
  /\ Untrack(loop)
  /\ loop' = None
  /\ UNCHANGED <<idem, work, click, gateway, missed, mishap>>

-----------------------------------------------------------------------------
(* A user clicks on a card or answers in words: applyPermissionDecisionStrict. *)

Strict(q) == active[RunOf[q]] = q /\ node[q] = "displaying"

Click(k) ==
  /\ click[k].at = "idle"
  /\ \E q \in Requests, d \in Decisions :
       /\ Strict(q)
       /\ click' = [click EXCEPT ![k] = [at |-> "call", req |-> q, decision |-> d]]
  /\ UNCHANGED <<idem, work, tracked, approvals, loop, gateway, missed, mishap>>

\* The broker takes the first answer and says nothing of a second one.
Answer(q, d) == ask' = IF ask[q].at = "open" THEN [ask EXCEPT ![q] = [at |-> "taken", decision |-> d]]
                       ELSE ask

ResolvePermission(k) ==
  /\ click[k].at = "call" /\ ask[click[k].req].at \in {"open", "taken"}
  /\ Answer(click[k].req, click[k].decision)
  /\ click' = [click EXCEPT ![k].at = "update"]
  /\ UNCHANGED <<idem, work, tracked, approvals, loop, feed, run, missed, mishap>>

\* The request is closed, or the call fails before or after it had its effect.
ResolvePermissionFails(k) ==
  /\ click[k].at = "call"
  /\ click' = [click EXCEPT ![k].at = "over"]
  /\ \/ UNCHANGED ask
     \/ Answer(click[k].req, click[k].decision)
  /\ UNCHANGED <<idem, work, tracked, approvals, loop, feed, run, missed, mishap>>

UpdateApproval(k) ==
  /\ click[k].at = "update"
  /\ Resolve(k, click[k].req, click[k].decision)
  /\ click' = [click EXCEPT ![k].at = "over"]
  /\ UNCHANGED <<idem, work, tracked, card, loop, gateway, missed>>

-----------------------------------------------------------------------------
(* The gateway and the runtime behind it. *)

Register(m) ==
  /\ run[m].at = "accepted"
  /\ run' = [run EXCEPT ![m].at = "active"]
  /\ UNCHANGED <<idem, work, tracked, approvals, loop, click, feed, ask, missed, mishap>>

\* A run that ends leaves its requests. The event of a failure is published by
\* the gateway too, and may overtake events of the runtime.
RunEnds(m) ==
  /\ run[m].at \in {"accepted", "active"}
  /\ run' = [run EXCEPT ![m].at = "ended"]
  /\ ask' = [q \in Requests |-> IF RunOf[q] = m /\ ask[q].at \in {"open", "taken"}
                                THEN [ask[q] EXCEPT !.at = "left"] ELSE ask[q]]
  /\ \E i \in 1 .. Len(feed) + 1 : feed' = InsertAt(feed, i, Event("done", m, None))
  /\ UNCHANGED <<idem, work, tracked, approvals, loop, click, missed, mishap>>

\* A run waits for one approval at a time.
Ask(q) ==
  /\ Live(RunOf[q]) /\ run[RunOf[q]].at = "active"
  /\ ask[q].at = "none"
  /\ \A r \in RequestsOf(RunOf[q]) : ask[r].at # "open"
  /\ ask' = [ask EXCEPT ![q].at = "open"]
  /\ feed' = Append(feed, Event("requested", RunOf[q], q))
  /\ UNCHANGED <<idem, work, tracked, approvals, loop, click, run, missed, mishap>>

\* Another client of the session decides.
OtherAnswers(q) ==
  /\ ask[q].at = "open"
  /\ \E d \in Decisions : Answer(q, d)
  /\ UNCHANGED <<idem, work, tracked, approvals, loop, click, feed, run, missed, mishap>>

\* The next approval may be asked for before this one is reported.
Report(q) ==
  /\ ask[q].at = "taken"
  /\ ask' = [ask EXCEPT ![q].at = "told"]
  /\ feed' = Append(feed, Event("resolved", RunOf[q], q))
  /\ UNCHANGED <<idem, work, tracked, approvals, loop, click, run, missed, mishap>>

-----------------------------------------------------------------------------
Handling(d) ==
  \/ Receive(d) \/ Submit(d) \/ RunFails(d) \/ StatusCardSent(d) \/ Scan(d) \/ Interrupt(d)
  \/ NotCanceled(d) \/ InterruptFails(d)
  \/ MarkInterrupted(d) \/ UntrackInterrupted(d) \/ MessageDone(d)

Consuming ==
  IgnoreEvent \/ PermissionRequested \/ PermissionResolved \/ RunTerminal \/ UntrackTerminal

Clicking(k) ==
  Click(k) \/ ResolvePermission(k) \/ ResolvePermissionFails(k) \/ UpdateApproval(k)

Next ==
  \/ \E d \in Deliveries : Handling(d)
  \/ Consuming
  \/ \E k \in Clicks : Clicking(k)
  \/ \E p \in Procs : StartUpdate(p) \/ EndUpdate(p)
  \/ \E m \in Messages : Register(m) \/ RunEnds(m)
  \/ \E q \in Requests : Ask(q) \/ OtherAnswers(q) \/ Report(q)

Spec == Init /\ [][Next]_vars

-----------------------------------------------------------------------------
(* Properties *)

\* When the handlers of two messages of a chat are through, at most one of their
\* runs is still wanted: whichever of two messages at the same time looks at the
\* table later cancels the run of the other, unless that had not been
\* registered yet or the call failed, or the answer to the start of one of them
\* was lost (interruptSessionRuns).
OneRunLeft ==
  \A m, n \in Messages :
    m # n /\ idem[m] = "done" /\ idem[n] = "done" /\ Live(m) /\ Live(n)
      => {m, n} \cap missed # {} \/ run[m].lost \/ run[n].lost

\* Unless the answer to its start was lost, a message has one run, however often
\* it is delivered and whatever the handlers of its deliveries do at the same
\* time, and while the run goes on the adapter tracks it, so that its requests and
\* its end reach the chat: neither a refused or failed cancellation nor the
\* handler of another message, nor a card that arrives late, makes it forget the
\* run (TryStart, MarkFailed, trackSession, untrackRun).
OneTrackedRun ==
  \A m \in Messages :
    ~run[m].lost => run[m].times <= 1 /\ (Live(m) => tracked[m] = "pending")

\* Everything said about run m has been taken in and put on its card.
Quiet(m) ==
  /\ loop # m
  /\ \A p \in Procs : ~Concerns(box[p], m)
  /\ \A e \in ToSet(feed) : e.run # m
  /\ \A k \in Clicks : click[k].at = "update" => RunOf[click[k].req] # m
  /\ \A q \in RequestsOf(m) : ask[q].at # "taken"

\* Once things are quiet the request a run waits for is the one that can be
\* answered and the one its card shows, whatever the order in which requests,
\* answers of users and answers of other clients have come in and the updates
\* of the card have been given up; except for a run one of whose updates failed
\* or met another on its way, or one of whose waiting requests was resolved
\* before the one that had the card (updateApprovalStatus, executeApprovalOutbox).
RequestShown ==
  \A q \in Requests :
    LET m == RunOf[q]
        due == /\ ask[q].at = "open" /\ tracked[m] = "pending" /\ Quiet(m)
               /\ m \notin mishap /\ ~run[m].lost
    IN due => Strict(q) /\ card[m] = [req |-> q, resolved |-> FALSE]

=============================================================================
