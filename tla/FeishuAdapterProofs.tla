-------------------------- MODULE FeishuAdapterProofs --------------------------
(* Proofs about FeishuAdapter, for any messages, deliveries, approvals and    *)
(* clicks: type correctness, one tracked run per message, one run left to a   *)
(* chat, and the request a run waits for on its card.                         *)
EXTENDS FeishuAdapter, TLAPS, SequenceTheorems

-----------------------------------------------------------------------------
(* What the handlers, the events and the updates under way presuppose.        *)

Handlers ==
  /\ HandlersTyped
  /\ \A d \in Deliveries :
       /\ work[d].at # "off" => work[d].msg \in Messages
       /\ work[d].at \in {"mark", "untrack"} => work[d].cur \in Messages
  /\ \A k \in Clicks : click[k].at \in {"call", "update"} =>
       click[k].req \in Requests /\ click[k].decision \in Decisions

Gateway ==
  /\ GatewayTyped
  /\ \A q \in Requests : ask[q].at \in {"taken", "told"} => ask[q].decision \in Decisions
  /\ \A i \in DOMAIN feed :
       feed[i].kind = "resolved" => ask[feed[i].req].decision \in Decisions

\* An update that is not out of date is for a run that is tracked.
FreshTracked ==
  \A p \in Procs, m \in Messages :
    box[p].fresh /\ Concerns(box[p], m) => tracked[m] \notin {"no", "blank"}

TypeInv ==
  Handlers /\ ApprovalsTyped /\ BoxesTyped /\ Gateway /\ TrackedOnly /\ FreshTracked

-----------------------------------------------------------------------------
(* What an action leaves alone. *)

LEMMA HandlersKept ==
  ASSUME Handlers, UNCHANGED <<idem, work, click, loop>>
  PROVE  Handlers'
BY DEF Handlers, HandlersTyped

LEMMA ApprovalsKept ==
  ASSUME ApprovalsTyped, UNCHANGED <<active, stack, node, card>>
  PROVE  ApprovalsTyped'
BY DEF ApprovalsTyped

LEMMA BoxesKept ==
  ASSUME BoxesTyped, UNCHANGED box
  PROVE  BoxesTyped'
BY DEF BoxesTyped

LEMMA GatewayKept ==
  ASSUME Gateway, UNCHANGED <<feed, run, ask, missed, mishap>>
  PROVE  Gateway'
BY DEF Gateway, GatewayTyped

LEMMA TrackedKept ==
  ASSUME TrackedOnly, UNCHANGED <<tracked, active, stack, node, card>>
  PROVE  TrackedOnly'
BY DEF TrackedOnly

LEMMA FreshKept ==
  ASSUME FreshTracked, UNCHANGED <<tracked, box>>
  PROVE  FreshTracked'
BY DEF FreshTracked, Concerns

-----------------------------------------------------------------------------
(* Events and the requests they name. *)

LEMMA EventFacts ==
  ASSUME NEW e \in Events
  PROVE  /\ e.run \in Messages
         /\ e.kind \in {"requested", "resolved", "done"}
         /\ e.kind # "done" => e.req \in Requests /\ RunOf[e.req] = e.run
BY ConstantsAssumption DEF Events, Event

LEMMA HeadFacts ==
  ASSUME Gateway, feed # <<>>
  PROVE  /\ Head(feed) \in Events
         /\ Tail(feed) \in Seq(Events)
         /\ Head(feed).kind = "resolved" => ask[Head(feed).req].decision \in Decisions
<1>1. feed \in Seq(Events)
  BY DEF Gateway, GatewayTyped
<1>2. Head(feed) = feed[1] /\ 1 \in DOMAIN feed
  BY <1>1
<1> QED
  BY <1>1, <1>2 DEF Gateway

\* Taking an event off the feed keeps what is known of the others.
LEMMA FeedTaken ==
  ASSUME Gateway, feed # <<>>, feed' = Tail(feed),
         UNCHANGED <<run, ask, missed>>, mishap' \subseteq Messages
  PROVE  Gateway'
<1>1. feed \in Seq(Events)
  BY DEF Gateway, GatewayTyped
<1>2. feed' \in Seq(Events)
  BY <1>1
<1>3. \A i \in DOMAIN feed' : i + 1 \in DOMAIN feed /\ feed'[i] = feed[i + 1]
  BY <1>1
<1>4. GatewayTyped'
  BY <1>2 DEF Gateway, GatewayTyped
<1> QED
  BY <1>3, <1>4 DEF Gateway

\* Adding an event keeps the others.
LEMMA FeedInserted ==
  ASSUME NEW e \in Events, feed \in Seq(Events), NEW i \in 1 .. Len(feed) + 1
  PROVE  /\ InsertAt(feed, i, e) \in Seq(Events)
         /\ \A j \in DOMAIN InsertAt(feed, i, e) :
              InsertAt(feed, i, e)[j] = e \/ \E k \in DOMAIN feed : InsertAt(feed, i, e)[j] = feed[k]
<1> DEFINE before == SubSeq(feed, 1, i - 1)
           after == SubSeq(feed, i, Len(feed))
<1>1. i \in Nat /\ i >= 1 /\ Len(feed) \in Nat
  OBVIOUS
<1>2. before \in Seq(Events) /\ Len(before) = i - 1 /\ \A j \in 1 .. i - 1 : before[j] = feed[j]
  BY <1>1
<1>3. /\ after \in Seq(Events) /\ Len(after) = Len(feed) - i + 1
      /\ \A j \in 1 .. Len(feed) - i + 1 : after[j] = feed[i + j - 1]
  BY <1>1
<1>4. InsertAt(feed, i, e) = (before \o <<e>>) \o after
  BY DEF InsertAt
<1> HIDE DEF before, after
<1>5. before \o <<e>> \in Seq(Events) /\ Len(before \o <<e>>) = i
  BY <1>1, <1>2
<1>6. \A j \in 1 .. i : (before \o <<e>>)[j] = IF j = i THEN e ELSE before[j]
  BY <1>1, <1>2
<1>7. InsertAt(feed, i, e) \in Seq(Events) /\ Len(InsertAt(feed, i, e)) = Len(feed) + 1
  <2>1. /\ (before \o <<e>>) \o after \in Seq(Events)
        /\ Len((before \o <<e>>) \o after) = Len(before \o <<e>>) + Len(after)
    BY <1>3, <1>5, ConcatProperties
  <2>2. Len(before \o <<e>>) + Len(after) = Len(feed) + 1
    <3>1. Len(before \o <<e>>) = i /\ Len(after) = Len(feed) - i + 1
      BY <1>3, <1>5
    <3> QED
      BY <1>1, <3>1
  <2> QED
    BY <1>4, <2>1, <2>2
<1>8. ASSUME NEW j \in DOMAIN InsertAt(feed, i, e)
      PROVE  InsertAt(feed, i, e)[j] = e \/ \E k \in DOMAIN feed : InsertAt(feed, i, e)[j] = feed[k]
  <2>1. j \in 1 .. Len(feed) + 1
    BY <1>7
  <2>2. CASE j <= i
    <3>1. j \in 1 .. i /\ InsertAt(feed, i, e)[j] = (before \o <<e>>)[j]
      BY <1>1, <1>3, <1>4, <1>5, <2>1, <2>2
    <3>2. CASE j = i
      BY <1>6, <3>1, <3>2
    <3>3. CASE j # i
      <4>1. j \in 1 .. i - 1 /\ j \in DOMAIN feed
        BY <1>1, <3>1, <3>3
      <4> QED
        BY <1>2, <1>6, <3>1, <3>3, <4>1
    <3> QED
      BY <3>2, <3>3
  <2>3. CASE j > i
    <3>1. InsertAt(feed, i, e)[j] = after[j - i] /\ j - i \in 1 .. Len(feed) - i + 1
      BY <1>1, <1>3, <1>4, <1>5, <2>1, <2>3
    <3>2. after[j - i] = feed[j - 1] /\ j - 1 \in DOMAIN feed
      BY <1>1, <1>3, <2>1, <2>3, <3>1
    <3> QED
      BY <3>1, <3>2
  <2> QED
    BY <1>1, <2>1, <2>2, <2>3
<1> QED
  BY <1>7, <1>8

-----------------------------------------------------------------------------
(* Updates that are under way, and the steps on the approvals of a run. *)

Approvals == ApprovalsTyped /\ BoxesTyped /\ TrackedOnly /\ FreshTracked

LEMMA NothingConcerned ==
  ASSUME NEW m
  PROVE  ~Concerns(Empty, m)
BY ConstantsAssumption DEF Concerns, Empty, NoOp, RequestsOf, ToSet

LEMMA StaleFacts ==
  ASSUME BoxesTyped, NEW m, NEW p \in Procs
  PROVE  /\ Stale(m)[p].ops = box[p].ops /\ Stale(m)[p].flight = box[p].flight
         /\ Stale(m)[p].fresh => box[p].fresh /\ ~Concerns(box[p], m)
         /\ Stale(m)[p] \in [ops : Seq(Ops), flight : Ops \cup {NoOp}, fresh : BOOLEAN]
<1>1. box[p] \in [ops : Seq(Ops), flight : Ops \cup {NoOp}, fresh : BOOLEAN]
  BY DEF BoxesTyped
<1>2. Stale(m)[p] = IF Concerns(box[p], m) THEN [box[p] EXCEPT !.fresh = FALSE] ELSE box[p]
  BY DEF Stale
<1> QED
  BY <1>1, <1>2

LEMMA StaleTyped ==
  ASSUME BoxesTyped, NEW m, box' = Stale(m)
  PROVE  BoxesTyped'
<1>1. DOMAIN Stale(m) = Procs
  BY DEF Stale
<1>2. Stale(m) \in [Procs -> [ops : Seq(Ops), flight : Ops \cup {NoOp}, fresh : BOOLEAN]]
  BY <1>1, StaleFacts DEF Stale
<1> QED
  BY <1>2, StaleFacts DEF BoxesTyped

LEMMA UntrackTyped ==
  ASSUME Approvals, NEW m \in Messages, Untrack(m)
  PROVE  Approvals'
<1> USE DEF Approvals
<1>1. ApprovalsTyped'
  <2>1. /\ active' \in [Messages -> Requests \cup {None}]
        /\ stack' \in [Messages -> Seq(Requests)]
        /\ node' \in [Requests -> {"none", "queued", "displaying"} \cup Decisions]
        /\ card' \in [Messages -> [req : Requests \cup {None}, resolved : BOOLEAN]]
    BY DEF Untrack, ApprovalsTyped, NoCard
  <2>2. ASSUME NEW n \in Messages
        PROVE  IsInjective(stack'[n]) /\ ToSet(stack'[n]) \subseteq RequestsOf(n)
    BY DEF Untrack, ApprovalsTyped, IsInjective, ToSet
  <2> QED
    BY <2>1, <2>2 DEF ApprovalsTyped
<1>2. BoxesTyped'
  BY StaleTyped DEF Untrack
<1>3. TrackedOnly'
  <2>1. tracked' \in [Messages -> {"no", "pending", "ended", "blank"}]
    BY DEF Untrack, TrackedOnly
  <2>2. ASSUME NEW n \in Messages, tracked'[n] \in {"no", "blank"}
        PROVE  /\ active'[n] = None /\ stack'[n] = <<>> /\ card'[n] = NoCard
               /\ \A q \in RequestsOf(n) : node'[q] = "none"
    BY <2>2 DEF Untrack, TrackedOnly, ApprovalsTyped, RequestsOf
  <2> QED
    BY <2>1, <2>2 DEF TrackedOnly
<1>4. FreshTracked'
  <2> SUFFICES ASSUME NEW p \in Procs, NEW n \in Messages, box'[p].fresh, Concerns(box'[p], n)
               PROVE  tracked'[n] \notin {"no", "blank"}
    BY DEF FreshTracked
  <2>1. box'[p] = Stale(m)[p]
    BY DEF Untrack
  <2>2. box[p].fresh /\ ~Concerns(box[p], m) /\ Concerns(box[p], n)
    BY <2>1, StaleFacts DEF Concerns
  <2>3. n # m /\ tracked[n] \notin {"no", "blank"}
    BY <2>2 DEF FreshTracked
  <2> QED
    BY <2>3 DEF Untrack, TrackedOnly
<1> QED
  BY <1>1, <1>2, <1>3, <1>4

LEMMA ChangedTyped ==
  ASSUME BoxesTyped, FreshTracked, NEW p \in Procs, NEW m \in Messages,
         NEW ops \in Seq(Ops), Len(ops) <= 2, \A i \in DOMAIN ops : ops[i].req \in RequestsOf(m),
         tracked[m] \notin {"no", "blank"}, tracked' = tracked, Changed(p, m, ops)
  PROVE  BoxesTyped' /\ FreshTracked'
<1> DEFINE new == IF ops = <<>> THEN Empty ELSE [ops |-> ops, flight |-> NoOp, fresh |-> TRUE]
<1>1. /\ DOMAIN box' = Procs /\ box' = [Stale(m) EXCEPT ![p] = new]
      /\ box'[p] = new /\ \A r \in Procs \ {p} : box'[r] = Stale(m)[r]
  BY DEF Changed, Stale
<1>2. new \in [ops : Seq(Ops), flight : Ops \cup {NoOp}, fresh : BOOLEAN] /\ Len(new.ops) <= 2
  BY DEF Empty
<1>3. ASSUME NEW n \in Messages, Concerns(new, n)
      PROVE  n = m
  <2>1. CASE ops = <<>>
    BY <1>3, <2>1, NothingConcerned
  <2>2. CASE ops # <<>>
    <3>1. new.ops = ops /\ new.flight = NoOp
      BY <2>2
    <3>2. \E i \in DOMAIN ops : ops[i].req \in RequestsOf(n)
      BY <1>3, <3>1, ConstantsAssumption DEF Concerns, ToSet, NoOp, RequestsOf
    <3> QED
      BY <3>2 DEF RequestsOf
  <2> QED
    BY <2>1, <2>2
<1> HIDE DEF new
<1>4. BoxesTyped'
  <2>1. \A r \in Procs : /\ box'[r] \in [ops : Seq(Ops), flight : Ops \cup {NoOp}, fresh : BOOLEAN]
                         /\ Len(box'[r].ops) <= 2
    BY <1>1, <1>2, StaleFacts DEF BoxesTyped
  <2>2. box' = [r \in Procs |-> box'[r]]
    BY <1>1 DEF Stale
  <2> QED
    BY <2>1, <2>2 DEF BoxesTyped
<1>5. FreshTracked'
  <2> SUFFICES ASSUME NEW r \in Procs, NEW n \in Messages, box'[r].fresh, Concerns(box'[r], n)
               PROVE  tracked[n] \notin {"no", "blank"}
    BY DEF FreshTracked
  <2>1. CASE r = p
    BY <1>1, <1>3, <2>1
  <2>2. CASE r # p
    <3>1. box[r].fresh /\ Concerns(box[r], n)
      BY <1>1, <2>2, StaleFacts DEF Concerns
    <3> QED
      BY <3>1 DEF FreshTracked
  <2> QED
    BY <2>1, <2>2
<1> QED
  BY <1>4, <1>5

LEMMA RequestTyped ==
  ASSUME Approvals, NEW p \in Procs, NEW q \in Requests, Request(p, q),
         tracked[RunOf[q]] \notin {"no", "blank"}, UNCHANGED <<tracked, card>>
  PROVE  Approvals'
<1> USE DEF Approvals
<1> DEFINE m == RunOf[q]
           shows == active[m] \in {None, q}
           op == Op(IF card[m] = NoCard THEN "send" ELSE "pending", q)
           ops == IF ~shows THEN <<>> ELSE <<op>>
<1>1. m \in Messages /\ q \in RequestsOf(m)
  BY ConstantsAssumption DEF RequestsOf
<1>2. CASE node[q] \in Decisions
  <2>1. Changed(p, m, <<>>) /\ UNCHANGED <<active, stack, node>>
    BY <1>2 DEF Request
  <2>2. <<>> \in Seq(Ops) /\ Len(<<>>) <= 2 /\ DOMAIN <<>> = {}
    OBVIOUS
  <2>3. BoxesTyped' /\ FreshTracked'
    BY <1>1, <2>1, <2>2, ChangedTyped
  <2> QED
    BY <2>1, <2>3, ApprovalsKept, TrackedKept
<1>3. CASE node[q] \notin Decisions
  <2>1. /\ active' = [active EXCEPT ![m] = IF shows THEN q ELSE @]
        /\ node' = [node EXCEPT ![q] = IF shows THEN "displaying" ELSE "queued"]
        /\ stack' = IF shows \/ q \in ToSet(stack[m]) THEN stack
                    ELSE [stack EXCEPT ![m] = Append(@, q)]
        /\ Changed(p, m, ops)
    BY <1>3 DEF Request
  <2>2. ops \in Seq(Ops) /\ Len(ops) <= 2 /\ \A i \in DOMAIN ops : ops[i].req \in RequestsOf(m)
    <3>1. op \in Ops /\ op.req = q
      BY DEF Op, Ops
    <3> HIDE DEF op, shows
    <3>2. CASE ~shows
      BY <3>2
    <3>3. CASE shows
      BY <1>1, <3>1, <3>3
    <3> QED
      BY <3>2, <3>3
  <2> HIDE DEF shows, ops
  <2>3. BoxesTyped' /\ FreshTracked'
    BY <1>1, <2>1, <2>2, ChangedTyped
  <2>4. /\ active' \in [Messages -> Requests \cup {None}]
        /\ stack' \in [Messages -> Seq(Requests)]
        /\ node' \in [Requests -> {"none", "queued", "displaying"} \cup Decisions]
        /\ card' \in [Messages -> [req : Requests \cup {None}, resolved : BOOLEAN]]
    BY <1>1, <2>1 DEF ApprovalsTyped
  <2>5. ASSUME NEW n \in Messages
        PROVE  IsInjective(stack'[n]) /\ ToSet(stack'[n]) \subseteq RequestsOf(n)
    <3>1. stack[n] \in Seq(Requests) /\ IsInjective(stack[n]) /\ ToSet(stack[n]) \subseteq RequestsOf(n)
      BY DEF ApprovalsTyped
    <3>2. CASE stack'[n] = stack[n]
      BY <3>1, <3>2
    <3>3. CASE n = m /\ stack'[n] = Append(stack[n], q) /\ q \notin ToSet(stack[n])
      <4>1. /\ DOMAIN stack'[n] = 1 .. Len(stack[n]) + 1 /\ Len(stack[n]) \in Nat
            /\ \A i \in 1 .. Len(stack[n]) + 1 :
                 stack'[n][i] = IF i = Len(stack[n]) + 1 THEN q ELSE stack[n][i]
        BY <3>1, <3>3
      <4>2. \A i \in 1 .. Len(stack[n]) : stack[n][i] # q
        BY <3>1, <3>3 DEF ToSet
      <4>3. IsInjective(stack'[n])
        <5> SUFFICES ASSUME NEW a \in DOMAIN stack'[n], NEW b \in DOMAIN stack'[n],
                            stack'[n][a] = stack'[n][b]
                     PROVE  a = b
          BY DEF IsInjective
        <5>1. \A i, j \in 1 .. Len(stack[n]) : stack[n][i] = stack[n][j] => i = j
          BY <3>1 DEF IsInjective
        <5> DEFINE l == Len(stack[n])
        <5>2. a \in 1 .. l + 1 /\ b \in 1 .. l + 1 /\ l \in Nat
          BY <4>1
        <5>3. stack'[n][a] = IF a = l + 1 THEN q ELSE stack[n][a]
          BY <4>1, <5>2
        <5>4. stack'[n][b] = IF b = l + 1 THEN q ELSE stack[n][b]
          BY <4>1, <5>2
        <5>5. (a # l + 1 => a \in 1 .. l) /\ (b # l + 1 => b \in 1 .. l)
          BY <5>2
        <5> HIDE DEF l
        <5>6. CASE a = l + 1
          BY <4>2, <5>3, <5>4, <5>5, <5>6 DEF l
        <5>7. CASE b = l + 1
          BY <4>2, <5>3, <5>4, <5>5, <5>7 DEF l
        <5>8. CASE a # l + 1 /\ b # l + 1
          BY <5>1, <5>3, <5>4, <5>5, <5>8 DEF l
        <5> QED
          BY <5>6, <5>7, <5>8
      <4>4. ToSet(stack'[n]) \subseteq ToSet(stack[n]) \cup {q}
        BY <3>1, <4>1 DEF ToSet
      <4> QED
        BY <1>1, <3>1, <3>3, <4>3, <4>4
    <3> QED
      BY <1>1, <2>1, <3>2, <3>3 DEF ApprovalsTyped
  <2>6. TrackedOnly'
    BY <1>1, <2>1 DEF TrackedOnly, ApprovalsTyped, RequestsOf
  <2> QED
    BY <2>3, <2>4, <2>5, <2>6 DEF ApprovalsTyped
<1> QED
  BY <1>2, <1>3

LEMMA ResolveTyped ==
  ASSUME Approvals, NEW p \in Procs, NEW q \in Requests, NEW decision \in Decisions,
         Resolve(p, q, decision), UNCHANGED <<tracked, card>>
  PROVE  Approvals'
<1> USE DEF Approvals
<1> DEFINE m == RunOf[q]
<1>1. m \in Messages /\ q \in RequestsOf(m)
  BY ConstantsAssumption DEF RequestsOf
<1>2. CASE UNCHANGED <<active, stack, node, box>>
  BY <1>2, ApprovalsKept, BoxesKept, TrackedKept, FreshKept
<1>3. CASE /\ ~(tracked[m] = "no" \/ node[q] \in {"none"} \cup Decisions)
           /\ \E i \in Promoted(m, q) :
                LET heir == IF i = 0 THEN None ELSE stack[m][i]
                IN /\ node' = [r \in Requests |-> IF r = q THEN decision
                                                  ELSE IF r = heir THEN "displaying" ELSE node[r]]
                   /\ active' = [active EXCEPT ![m] = heir]
                   /\ stack' = [stack EXCEPT ![m] = SubSeq(@, 1, i - 1)]
                   /\ Changed(p, m, IF card[m] = NoCard THEN <<>>
                                    ELSE IF heir = None THEN <<Op("resolved", q)>>
                                    ELSE <<Op("resolved", q), Op("pending", heir)>>)
  <2> DEFINE heir(i) == IF i = 0 THEN None ELSE stack[m][i]
             ops(i) == IF card[m] = NoCard THEN <<>>
                       ELSE IF heir(i) = None THEN <<Op("resolved", q)>>
                       ELSE <<Op("resolved", q), Op("pending", heir(i))>>
  <2>1. PICK i \in Promoted(m, q) :
          /\ node' = [r \in Requests |-> IF r = q THEN decision
                                         ELSE IF r = heir(i) THEN "displaying" ELSE node[r]]
          /\ active' = [active EXCEPT ![m] = heir(i)]
          /\ stack' = [stack EXCEPT ![m] = SubSeq(@, 1, i - 1)]
          /\ Changed(p, m, ops(i))
    BY <1>3
  <2>2. /\ stack[m] \in Seq(Requests) /\ IsInjective(stack[m])
        /\ ToSet(stack[m]) \subseteq RequestsOf(m)
    BY <1>1 DEF ApprovalsTyped
  <2>3. i \in 0 .. Len(stack[m])
    BY <2>2 DEF Promoted, Waiting
  <2>4. heir(i) \in RequestsOf(m) \cup {None}
    BY <2>2, <2>3 DEF ToSet
  <2>5. tracked[m] \notin {"no", "blank"}
    BY <1>1, <1>3 DEF TrackedOnly
  <2>6. ops(i) \in Seq(Ops) /\ Len(ops(i)) <= 2 /\ \A j \in DOMAIN ops(i) : ops(i)[j].req \in RequestsOf(m)
    <3>1. Op("resolved", q) \in Ops /\ Op("resolved", q).req = q
      BY DEF Op, Ops
    <3>2. heir(i) # None => Op("pending", heir(i)) \in Ops /\ Op("pending", heir(i)).req = heir(i)
      BY <2>4 DEF Op, Ops, RequestsOf
    <3> HIDE DEF heir
    <3>3. CASE card[m] = NoCard
      BY <3>3
    <3>4. CASE card[m] # NoCard /\ heir(i) = None
      BY <1>1, <3>1, <3>4
    <3>5. CASE card[m] # NoCard /\ heir(i) # None
      BY <1>1, <2>4, <3>1, <3>2, <3>5
    <3> QED
      BY <3>3, <3>4, <3>5
  <2> HIDE DEF heir, ops
  <2>7. BoxesTyped' /\ FreshTracked'
    BY <1>1, <2>1, <2>5, <2>6, ChangedTyped
  <2>8. SubSeq(stack[m], 1, i - 1) \in Seq(Requests)
        /\ IsInjective(SubSeq(stack[m], 1, i - 1))
        /\ ToSet(SubSeq(stack[m], 1, i - 1)) \subseteq RequestsOf(m)
    <3>1. /\ SubSeq(stack[m], 1, i - 1) \in Seq(Requests)
          /\ \A j \in DOMAIN SubSeq(stack[m], 1, i - 1) :
               j \in DOMAIN stack[m] /\ SubSeq(stack[m], 1, i - 1)[j] = stack[m][j]
      BY <2>2, <2>3
    <3> QED
      BY <2>2, <3>1 DEF IsInjective, ToSet
  <2>9. ApprovalsTyped'
    <3>1. /\ active' \in [Messages -> Requests \cup {None}]
          /\ stack' \in [Messages -> Seq(Requests)]
          /\ node' \in [Requests -> {"none", "queued", "displaying"} \cup Decisions]
          /\ card' \in [Messages -> [req : Requests \cup {None}, resolved : BOOLEAN]]
      BY <1>1, <2>1, <2>4, <2>8 DEF ApprovalsTyped, RequestsOf
    <3>2. ASSUME NEW n \in Messages
          PROVE  IsInjective(stack'[n]) /\ ToSet(stack'[n]) \subseteq RequestsOf(n)
      BY <1>1, <2>1, <2>8 DEF ApprovalsTyped
    <3> QED
      BY <3>1, <3>2 DEF ApprovalsTyped
  <2>10. TrackedOnly'
    <3> SUFFICES ASSUME NEW n \in Messages, tracked[n] \in {"no", "blank"}
                 PROVE  /\ active'[n] = None /\ stack'[n] = <<>> /\ card'[n] = NoCard
                        /\ \A r \in RequestsOf(n) : node'[r] = "none"
      BY DEF TrackedOnly
    <3>1. n # m
      BY <2>5
    <3>2. \A r \in RequestsOf(n) : r # q /\ r # heir(i) /\ r \in Requests
      BY <1>1, <2>4, <3>1, ConstantsAssumption DEF RequestsOf
    <3> QED
      BY <2>1, <3>1, <3>2 DEF TrackedOnly, ApprovalsTyped
  <2> QED
    BY <2>7, <2>9, <2>10
<1> QED
  BY <1>2, <1>3 DEF Resolve

LEMMA MishapTyped ==
  ASSUME Gateway, UNCHANGED <<feed, run, ask, missed>>, mishap' \subseteq Messages
  PROVE  Gateway'
BY DEF Gateway, GatewayTyped

LEMMA ResolveMishap ==
  ASSUME Gateway, NEW p \in Procs, NEW q \in Requests, NEW decision, Resolve(p, q, decision)
  PROVE  mishap' \subseteq Messages
<1>1. mishap' \in {mishap, mishap \cup {RunOf[q]}}
  BY DEF Resolve
<1> QED
  BY <1>1, ConstantsAssumption DEF Gateway, GatewayTyped

\* The parts of a box.
LEMMA BoxFacts ==
  ASSUME BoxesTyped, NEW p \in Procs
  PROVE  /\ box[p] \in [ops : Seq(Ops), flight : Ops \cup {NoOp}, fresh : BOOLEAN]
         /\ box[p].ops \in Seq(Ops) /\ Len(box[p].ops) <= 2
         /\ box[p].ops # <<>> =>
              /\ Head(box[p].ops) \in Ops /\ Tail(box[p].ops) \in Seq(Ops)
              /\ Len(Tail(box[p].ops)) <= 2
              /\ Head(box[p].ops) \in ToSet(box[p].ops)
              /\ ToSet(Tail(box[p].ops)) \subseteq ToSet(box[p].ops)
         /\ box[p].flight # NoOp => box[p].flight \in Ops
<1>1. box[p] \in [ops : Seq(Ops), flight : Ops \cup {NoOp}, fresh : BOOLEAN] /\ Len(box[p].ops) <= 2
  BY DEF BoxesTyped
<1>2. box[p].ops \in Seq(Ops)
  BY <1>1
<1>3. ASSUME box[p].ops # <<>>
      PROVE  /\ Head(box[p].ops) \in Ops /\ Tail(box[p].ops) \in Seq(Ops)
             /\ Len(Tail(box[p].ops)) <= 2
             /\ Head(box[p].ops) \in ToSet(box[p].ops)
             /\ ToSet(Tail(box[p].ops)) \subseteq ToSet(box[p].ops)
  <2>1. Head(box[p].ops) = box[p].ops[1] /\ 1 \in DOMAIN box[p].ops
    BY <1>2, <1>3
  <2>2. /\ Tail(box[p].ops) \in Seq(Ops) /\ Len(Tail(box[p].ops)) = Len(box[p].ops) - 1
        /\ \A i \in DOMAIN Tail(box[p].ops) :
             i + 1 \in DOMAIN box[p].ops /\ Tail(box[p].ops)[i] = box[p].ops[i + 1]
    BY <1>2, <1>3
  <2>3. Len(Tail(box[p].ops)) <= 2
    BY <1>1, <1>2, <2>2
  <2>4. Head(box[p].ops) \in Ops
    BY <1>2, <2>1
  <2> QED
    BY <2>1, <2>2, <2>3, <2>4 DEF ToSet
<1> QED
  BY <1>1, <1>2, <1>3

LEMMA OpFacts ==
  ASSUME NEW o \in Ops
  PROVE  o.req \in Requests /\ o.kind \in {"send", "pending", "resolved"} /\ RunOf[o.req] \in Messages
BY ConstantsAssumption DEF Ops

LEMMA StartUpdateTyped ==
  ASSUME TypeInv, NEW p \in Procs, StartUpdate(p)
  PROVE  TypeInv'
<1> DEFINE m == RunOf[Head(box[p].ops).req]
<1>1. BoxesTyped /\ Handlers /\ ApprovalsTyped /\ Gateway /\ TrackedOnly /\ FreshTracked
  BY DEF TypeInv
<1>2. box[p].ops # <<>> /\ m \in Messages
  BY <1>1, BoxFacts, OpFacts DEF StartUpdate
<1>3. mishap' \subseteq Messages
  <2>1. mishap' \in {mishap, mishap \cup {m}}
    BY DEF StartUpdate
  <2> QED
    BY <1>1, <1>2, <2>1 DEF Gateway, GatewayTyped
<1>4. Gateway'
  BY <1>1, <1>3, MishapTyped DEF StartUpdate, gateway
<1>5. Handlers' /\ ApprovalsTyped' /\ TrackedOnly'
  BY <1>1, HandlersKept, ApprovalsKept, TrackedKept DEF StartUpdate
<1>6. CASE box[p].fresh
  <2> DEFINE new == [box[p] EXCEPT !.flight = Head(box[p].ops), !.ops = Tail(box[p].ops)]
  <2>1. box' = [box EXCEPT ![p] = new] /\ tracked' = tracked
    BY <1>1, <1>6 DEF StartUpdate, BoxesTyped
  <2>2. /\ new \in [ops : Seq(Ops), flight : Ops \cup {NoOp}, fresh : BOOLEAN]
        /\ new.ops = Tail(box[p].ops) /\ new.flight = Head(box[p].ops) /\ new.fresh = box[p].fresh
        /\ Len(new.ops) <= 2
    BY <1>1, <1>2, BoxFacts
  <2>3. ASSUME NEW n, Concerns(new, n)
        PROVE  Concerns(box[p], n)
    BY <1>1, <1>2, <2>2, <2>3, BoxFacts DEF Concerns
  <2> HIDE DEF new
  <2>4. BoxesTyped'
    BY <1>1, <2>1, <2>2 DEF BoxesTyped
  <2>5. FreshTracked'
    <3> SUFFICES ASSUME NEW r \in Procs, NEW n \in Messages, box'[r].fresh, Concerns(box'[r], n)
                 PROVE  tracked[n] \notin {"no", "blank"}
      BY <2>1 DEF FreshTracked
    <3>1. box[r].fresh /\ Concerns(box[r], n)
      BY <1>1, <2>1, <2>2, <2>3 DEF BoxesTyped
    <3> QED
      BY <1>1, <3>1 DEF FreshTracked
  <2> QED
    BY <1>4, <1>5, <2>4, <2>5 DEF TypeInv
<1>7. CASE ~box[p].fresh
  <2>1. box' = [box EXCEPT ![p] = Empty] /\ tracked' = tracked
    BY <1>7 DEF StartUpdate
  <2>2. Empty \in [ops : Seq(Ops), flight : Ops \cup {NoOp}, fresh : BOOLEAN]
        /\ Len(Empty.ops) <= 2 /\ ~Empty.fresh
    BY DEF Empty
  <2>3. BoxesTyped'
    BY <1>1, <2>1, <2>2 DEF BoxesTyped
  <2>4. FreshTracked'
    BY <1>1, <2>1, <2>2 DEF FreshTracked, BoxesTyped
  <2> QED
    BY <1>4, <1>5, <2>3, <2>4 DEF TypeInv
<1> QED
  BY <1>6, <1>7

LEMMA EndUpdateTyped ==
  ASSUME TypeInv, NEW p \in Procs, EndUpdate(p)
  PROVE  TypeInv'
<1> DEFINE op == box[p].flight
           m == RunOf[op.req]
           new == IF box[p].ops = <<>> THEN Empty ELSE [box[p] EXCEPT !.flight = NoOp]
<1>1. BoxesTyped /\ Handlers /\ ApprovalsTyped /\ Gateway /\ TrackedOnly /\ FreshTracked
  BY DEF TypeInv
<1>2. op \in Ops /\ op.req \in Requests /\ m \in Messages
  BY <1>1, BoxFacts, OpFacts DEF EndUpdate
<1>3. mishap' \in {mishap, mishap \cup {m}}
  BY DEF EndUpdate
<1>4. Gateway'
  <2>1. mishap' \subseteq Messages
    BY <1>1, <1>2, <1>3 DEF Gateway, GatewayTyped
  <2> QED
    BY <1>1, <2>1, MishapTyped DEF EndUpdate, gateway
<1>5. Handlers'
  BY <1>1, HandlersKept DEF EndUpdate
<1>6. \/ card' = card
      \/ /\ card' = [card EXCEPT ![m] = [req |-> op.req, resolved |-> op.kind = "resolved"]]
         /\ IF op.kind = "send" THEN box[p].fresh ELSE card[m] # NoCard
  BY DEF EndUpdate
<1>7. box' = [box EXCEPT ![p] = new] /\ UNCHANGED <<tracked, active, stack, node>>
  BY <1>1 DEF EndUpdate, BoxesTyped
<1>8. card' # card => tracked[m] \notin {"no", "blank"}
  <2> SUFFICES ASSUME card' # card
               PROVE  tracked[m] \notin {"no", "blank"}
    OBVIOUS
  <2>1. CASE op.kind = "send"
    <3>1. box[p].fresh
      BY <1>6, <2>1
    <3>2. Concerns(box[p], m)
      BY <1>2 DEF Concerns, RequestsOf
    <3> QED
      BY <1>1, <1>2, <3>1, <3>2 DEF FreshTracked
  <2>2. CASE op.kind # "send"
    BY <1>1, <1>2, <1>6, <2>2 DEF TrackedOnly
  <2> QED
    BY <2>1, <2>2
<1>9. /\ new \in [ops : Seq(Ops), flight : Ops \cup {NoOp}, fresh : BOOLEAN] /\ Len(new.ops) <= 2
      /\ new.fresh => box[p].fresh
      /\ \A n \in Messages : Concerns(new, n) => Concerns(box[p], n)
  <2>1. CASE box[p].ops = <<>>
    <3>1. new = Empty
      BY <2>1
    <3> HIDE DEF new
    <3>2. \A n \in Messages : ~Concerns(new, n)
      BY <3>1, NothingConcerned
    <3>3. /\ Empty \in [ops : Seq(Ops), flight : Ops \cup {NoOp}, fresh : BOOLEAN]
          /\ Len(Empty.ops) <= 2 /\ ~Empty.fresh
      BY DEF Empty
    <3> QED
      BY <3>1, <3>2, <3>3
  <2>2. CASE box[p].ops # <<>>
    <3>1. /\ new \in [ops : Seq(Ops), flight : Ops \cup {NoOp}, fresh : BOOLEAN]
          /\ new.ops = box[p].ops /\ new.flight = NoOp /\ new.fresh = box[p].fresh
          /\ Len(new.ops) <= 2
      BY <1>1, <2>2, BoxFacts
    <3> HIDE DEF new
    <3>2. ASSUME NEW n \in Messages, Concerns(new, n)
          PROVE  Concerns(box[p], n)
      <4>1. PICK o \in ToSet(new.ops) \cup {new.flight} : o.req \in RequestsOf(n)
        BY <3>2 DEF Concerns
      <4>2. o # NoOp
        BY <4>1, ConstantsAssumption DEF NoOp, RequestsOf
      <4>3. o \in ToSet(box[p].ops)
        BY <3>1, <4>1, <4>2
      <4> QED
        BY <4>1, <4>3 DEF Concerns
    <3> QED
      BY <3>1, <3>2
  <2> QED
    BY <2>1, <2>2
<1> HIDE DEF new, op, m
<1>10. ApprovalsTyped'
  <2>1. [req |-> op.req, resolved |-> op.kind = "resolved"]
          \in [req : Requests \cup {None}, resolved : BOOLEAN]
    <3>1. (op.kind = "resolved") \in BOOLEAN
      OBVIOUS
    <3> QED
      BY <1>2, <3>1
  <2>2. card' \in [Messages -> [req : Requests \cup {None}, resolved : BOOLEAN]]
    BY <1>1, <1>2, <1>6, <2>1 DEF ApprovalsTyped
  <2> QED
    BY <1>1, <1>7, <2>2 DEF ApprovalsTyped
<1>11. BoxesTyped'
  BY <1>1, <1>7, <1>9 DEF BoxesTyped
<1>12. TrackedOnly'
  <2>1. \A n \in Messages : tracked[n] \in {"no", "blank"} => card'[n] = card[n]
    BY <1>1, <1>2, <1>6, <1>8 DEF ApprovalsTyped
  <2> QED
    BY <1>1, <1>7, <2>1 DEF TrackedOnly
<1>13. FreshTracked'
  <2> SUFFICES ASSUME NEW r \in Procs, NEW n \in Messages, box'[r].fresh, Concerns(box'[r], n)
               PROVE  tracked[n] \notin {"no", "blank"}
    BY <1>7 DEF FreshTracked
  <2>1. box[r].fresh /\ Concerns(box[r], n)
    BY <1>1, <1>7, <1>9 DEF BoxesTyped
  <2> QED
    BY <1>1, <2>1 DEF FreshTracked
<1> QED
  BY <1>4, <1>5, <1>10, <1>11, <1>12, <1>13 DEF TypeInv

-----------------------------------------------------------------------------
(* Type correctness of the steps of the handlers of messages. *)

\* A handler that moves to another point keeps what is known of the others.
LEMMA WorkTyped ==
  ASSUME Handlers, NEW d \in Deliveries, NEW w,
         w \in [at : {"off", "run", "carding", "scan", "interrupt", "mark", "untrack", "over"},
                msg : Messages \cup {None}, left : SUBSET Messages, cur : Messages \cup {None}],
         w.at # "off" => w.msg \in Messages,
         w.at \in {"mark", "untrack"} => w.cur \in Messages,
         work' = [work EXCEPT ![d] = w],
         idem' \in [Messages -> {"none", "pending", "done"}], UNCHANGED <<click, loop>>
  PROVE  Handlers'
<1>1. HandlersTyped'
  BY DEF Handlers, HandlersTyped
<1>2. ASSUME NEW e \in Deliveries
      PROVE  /\ work'[e].at # "off" => work'[e].msg \in Messages
             /\ work'[e].at \in {"mark", "untrack"} => work'[e].cur \in Messages
  BY DEF Handlers, HandlersTyped
<1> QED
  BY <1>1, <1>2 DEF Handlers

LEMMA WorkFacts ==
  ASSUME Handlers, NEW d \in Deliveries
  PROVE  /\ work[d] \in [at : {"off", "run", "carding", "scan", "interrupt", "mark", "untrack", "over"},
                         msg : Messages \cup {None}, left : SUBSET Messages,
                         cur : Messages \cup {None}]
         /\ work[d].at # "off" => work[d].msg \in Messages
         /\ work[d].at \in {"mark", "untrack"} => work[d].cur \in Messages
         /\ idem \in [Messages -> {"none", "pending", "done"}]
         /\ \A w : [work EXCEPT ![d] = w] = [e \in Deliveries |-> IF e = d THEN w ELSE work[e]]
BY DEF Handlers, HandlersTyped

\* Step keeps all but the point a handler is at.
LEMMA StepTyped ==
  ASSUME Handlers, NEW d \in Deliveries, NEW at,
         at \in {"run", "carding", "scan", "interrupt", "over"}
                  \cup (IF work[d].at = "mark" THEN {"untrack"} ELSE {}),
         work[d].at # "off", Step(d, at),
         idem' \in [Messages -> {"none", "pending", "done"}], UNCHANGED <<click, loop>>
  PROVE  Handlers'
<1> DEFINE w == [work[d] EXCEPT !.at = at]
<1>1. /\ w \in [at : {"off", "run", "carding", "scan", "interrupt", "mark", "untrack", "over"},
                msg : Messages \cup {None}, left : SUBSET Messages, cur : Messages \cup {None}]
      /\ w.msg \in Messages
      /\ w.at \in {"mark", "untrack"} => w.cur \in Messages
  BY WorkFacts
<1>2. work' = [work EXCEPT ![d] = w]
  BY DEF Step, Handlers, HandlersTyped
<1> HIDE DEF w
<1> QED
  BY <1>1, <1>2, WorkTyped

\* Tracking a run, or leaving a blank entry for it.
LEMMA TrackingTyped ==
  ASSUME TrackedOnly, FreshTracked, NEW m \in Messages, NEW to \in {"pending", "ended", "blank"},
         tracked' = [tracked EXCEPT ![m] = to], to = "blank" => tracked[m] = "no",
         UNCHANGED <<active, stack, node, card, box>>
  PROVE  TrackedOnly' /\ FreshTracked'
<1>1. \A n \in Messages : tracked'[n] \in {"no", "blank"} => tracked[n] \in {"no", "blank"}
  BY DEF TrackedOnly
<1>2. tracked' \in [Messages -> {"no", "pending", "ended", "blank"}]
  BY DEF TrackedOnly
<1>3. TrackedOnly'
  BY <1>1, <1>2 DEF TrackedOnly
<1>4. FreshTracked'
  BY <1>1 DEF FreshTracked, Concerns
<1> QED
  BY <1>3, <1>4

\* A run may be started, canceled or registered.
LEMMA RunTyped ==
  ASSUME Gateway, UNCHANGED <<feed, ask>>, missed' \subseteq Messages, mishap' \subseteq Messages,
         run' \in [Messages -> [at : {"none", "accepted", "active", "ended"}, canceled : BOOLEAN,
                                times : Nat, lost : BOOLEAN]]
  PROVE  Gateway'
BY DEF Gateway, GatewayTyped

LEMMA AcceptedTyped ==
  ASSUME Gateway, NEW m \in Messages, NEW lost \in BOOLEAN, Accepted(m, lost),
         UNCHANGED <<feed, ask, missed, mishap>>
  PROVE  Gateway'
<1>1. run[m].times + 1 \in Nat /\ run[m].lost \in BOOLEAN
  BY DEF Gateway, GatewayTyped
<1>2. run' \in [Messages -> [at : {"none", "accepted", "active", "ended"}, canceled : BOOLEAN,
                             times : Nat, lost : BOOLEAN]]
  <2> DEFINE r == [at |-> "accepted", canceled |-> FALSE, times |-> run[m].times + 1,
                   lost |-> run[m].lost \/ lost]
  <2>1. r \in [at : {"none", "accepted", "active", "ended"}, canceled : BOOLEAN,
               times : Nat, lost : BOOLEAN]
    BY <1>1
  <2>2. run' = [run EXCEPT ![m] = r]
    BY DEF Accepted
  <2> HIDE DEF r
  <2> QED
    BY <2>1, <2>2 DEF Gateway, GatewayTyped
<1> QED
  BY <1>2, RunTyped DEF Gateway, GatewayTyped

LEMMA HandlingTyped ==
  ASSUME TypeInv, NEW d \in Deliveries, Handling(d)
  PROVE  TypeInv'
<1>a. Handlers /\ ApprovalsTyped /\ BoxesTyped /\ Gateway /\ TrackedOnly /\ FreshTracked
  BY DEF TypeInv
<1>b. /\ work[d] \in [at : {"off", "run", "carding", "scan", "interrupt", "mark", "untrack", "over"},
                      msg : Messages \cup {None}, left : SUBSET Messages,
                      cur : Messages \cup {None}]
      /\ work[d].at # "off" => work[d].msg \in Messages
      /\ work[d].at \in {"mark", "untrack"} => work[d].cur \in Messages
      /\ idem \in [Messages -> {"none", "pending", "done"}]
      /\ missed \subseteq Messages /\ mishap \subseteq Messages
      /\ run \in [Messages -> [at : {"none", "accepted", "active", "ended"}, canceled : BOOLEAN,
                               times : Nat, lost : BOOLEAN]]
  BY <1>a, WorkFacts DEF Gateway, GatewayTyped
<1>c. \A w : [work EXCEPT ![d] = w] = [e \in Deliveries |-> IF e = d THEN w ELSE work[e]]
  BY <1>a, WorkFacts
<1>1. CASE Receive(d)
  <2>1. PICK m \in Messages :
          IF idem[m] = "none"
          THEN /\ idem' = [idem EXCEPT ![m] = "pending"]
               /\ tracked' = [tracked EXCEPT ![m] = "pending"]
               /\ work' = [work EXCEPT ![d].at = "run", ![d].msg = m]
          ELSE /\ work' = [work EXCEPT ![d].at = "over", ![d].msg = m]
               /\ UNCHANGED <<idem, tracked>>
    BY <1>1 DEF Receive
  <2>2. Handlers'
    <3> DEFINE w == [work[d] EXCEPT !.at = IF idem[m] = "none" THEN "run" ELSE "over", !.msg = m]
    <3>1. /\ w \in [at : {"off", "run", "carding", "scan", "interrupt", "mark", "untrack", "over"},
                    msg : Messages \cup {None}, left : SUBSET Messages,
                    cur : Messages \cup {None}]
          /\ w.msg \in Messages /\ w.at \notin {"mark", "untrack"}
      BY <1>b
    <3>2. work' = [work EXCEPT ![d] = w]
      BY <1>a, <2>1 DEF Handlers, HandlersTyped
    <3> HIDE DEF w
    <3>3. idem' \in [Messages -> {"none", "pending", "done"}]
      BY <1>b, <2>1
    <3> QED
      BY <1>1, <1>a, <3>1, <3>2, <3>3, WorkTyped DEF Receive
  <2>3. TrackedOnly' /\ FreshTracked'
    <3>1. CASE idem[m] = "none"
      BY <1>1, <1>a, <2>1, <3>1, TrackingTyped DEF Receive, approvals
    <3>2. CASE idem[m] # "none"
      BY <1>1, <1>a, <2>1, <3>2, TrackedKept, FreshKept DEF Receive, approvals
    <3> QED
      BY <3>1, <3>2
  <2> QED
    BY <1>1, <1>a, <2>2, <2>3, ApprovalsKept, BoxesKept, GatewayKept DEF Receive, TypeInv, approvals, gateway
<1>2. CASE Submit(d)
  <2>1. Handlers'
    BY <1>2, <1>a, <1>b, StepTyped DEF Submit
  <2>2. Gateway'
    BY <1>2, <1>a, <1>b, AcceptedTyped DEF Submit
  <2> QED
    BY <1>2, <1>a, <2>1, <2>2, ApprovalsKept, BoxesKept, TrackedKept, FreshKept DEF Submit, TypeInv, approvals
<1>3. CASE RunFails(d)
  <2>1. Handlers'
    <3>1. idem' \in [Messages -> {"none", "pending", "done"}]
      BY <1>3, <1>b DEF RunFails
    <3> QED
      BY <1>3, <1>a, <1>b, <3>1, StepTyped DEF RunFails
  <2>2. Gateway'
    <3>1. CASE Accepted(work[d].msg, TRUE)
      BY <1>3, <1>a, <1>b, <3>1, AcceptedTyped DEF RunFails
    <3>2. CASE UNCHANGED run
      BY <1>3, <1>a, <3>2, GatewayKept DEF RunFails
    <3> QED
      BY <1>3, <3>1, <3>2 DEF RunFails
  <2>3. Approvals'
    BY <1>3, <1>a, <1>b, UntrackTyped DEF RunFails, Approvals
  <2> QED
    BY <2>1, <2>2, <2>3 DEF Approvals, TypeInv
<1>4. CASE StatusCardSent(d)
  <2>1. Handlers'
    BY <1>4, <1>a, <1>b, StepTyped DEF StatusCardSent
  <2>2. tracked' = tracked \/ (tracked[work[d].msg] = "no" /\ tracked' = [tracked EXCEPT ![work[d].msg] = "blank"])
    BY <1>4 DEF StatusCardSent
  <2>3. TrackedOnly' /\ FreshTracked'
    <3>1. UNCHANGED <<active, stack, node, card, box>> /\ work[d].msg \in Messages
      BY <1>4, <1>b DEF StatusCardSent, approvals
    <3>2. CASE tracked' = tracked
      BY <1>a, <3>1, <3>2, TrackedKept, FreshKept
    <3>3. CASE tracked' # tracked
      BY <1>a, <2>2, <3>1, <3>3, TrackingTyped
    <3> QED
      BY <3>2, <3>3
  <2> QED
    BY <1>4, <1>a, <2>1, <2>3, ApprovalsKept, BoxesKept, GatewayKept DEF StatusCardSent, TypeInv, approvals, gateway
<1>5. CASE Scan(d)
  <2>1. Handlers'
    <3> DEFINE w == [work[d] EXCEPT !.at = "interrupt",
                       !.left = {m \in Messages \ {work[d].msg} : tracked[m] = "pending"}]
    <3>1. /\ w \in [at : {"off", "run", "carding", "scan", "interrupt", "mark", "untrack", "over"},
                    msg : Messages \cup {None}, left : SUBSET Messages,
                    cur : Messages \cup {None}]
          /\ w.msg = work[d].msg /\ w.at = "interrupt"
      BY <1>b
    <3>2. work' = [work EXCEPT ![d] = w]
      BY <1>5, <1>a DEF Scan, Handlers, HandlersTyped
    <3> HIDE DEF w
    <3> QED
      BY <1>5, <1>a, <1>b, <3>1, <3>2, WorkTyped DEF Scan
  <2> QED
    BY <1>5, <1>a, <2>1, ApprovalsKept, BoxesKept, GatewayKept, TrackedKept, FreshKept
       DEF Scan, TypeInv, approvals, gateway
<1>6. CASE Interrupt(d)
  <2>1. PICK m \in work[d].left :
          /\ run' = [run EXCEPT ![m].canceled = TRUE]
          /\ work' = [work EXCEPT ![d].at = "mark", ![d].cur = m]
    BY <1>6 DEF Interrupt
  <2>2. m \in Messages
    BY <1>b
  <2>3. Handlers'
    <3> DEFINE w == [work[d] EXCEPT !.at = "mark", !.cur = m]
    <3>1. /\ w \in [at : {"off", "run", "carding", "scan", "interrupt", "mark", "untrack", "over"},
                    msg : Messages \cup {None}, left : SUBSET Messages,
                    cur : Messages \cup {None}]
          /\ w.msg = work[d].msg /\ w.cur \in Messages
      BY <1>b, <2>2
    <3>2. work' = [work EXCEPT ![d] = w]
      BY <1>a, <2>1 DEF Handlers, HandlersTyped
    <3> HIDE DEF w
    <3> QED
      BY <1>6, <1>a, <1>b, <3>1, <3>2, WorkTyped DEF Interrupt
  <2>4. Gateway'
    <3>1. run' \in [Messages -> [at : {"none", "accepted", "active", "ended"}, canceled : BOOLEAN,
                                 times : Nat, lost : BOOLEAN]]
      BY <1>b, <2>1, <2>2
    <3> QED
      BY <1>6, <1>a, <1>b, <3>1, RunTyped DEF Interrupt
  <2> QED
    BY <1>6, <1>a, <2>3, <2>4, ApprovalsKept, BoxesKept, TrackedKept, FreshKept DEF Interrupt, TypeInv, approvals
<1>7. ASSUME NotCanceled(d) \/ InterruptFails(d)
      PROVE  TypeInv'
  <2>1. PICK m \in work[d].left :
          /\ work' = [work EXCEPT ![d].left = @ \ {m}]
          /\ missed' \in {missed, missed \cup {m}}
          /\ run' = run \/ run' = [run EXCEPT ![m].canceled = @ \/ run[m].at = "active"]
    BY <1>7 DEF NotCanceled, InterruptFails, gateway
  <2>2. m \in Messages /\ work[d].at = "interrupt"
    BY <1>b, <1>7 DEF NotCanceled, InterruptFails
  <2>3. Handlers'
    <3> DEFINE w == [work[d] EXCEPT !.left = @ \ {m}]
    <3>1. /\ w \in [at : {"off", "run", "carding", "scan", "interrupt", "mark", "untrack", "over"},
                    msg : Messages \cup {None}, left : SUBSET Messages,
                    cur : Messages \cup {None}]
          /\ w.msg = work[d].msg /\ w.at = "interrupt"
      BY <1>b, <2>2
    <3>2. work' = [work EXCEPT ![d] = w]
      BY <1>a, <2>1 DEF Handlers, HandlersTyped
    <3> HIDE DEF w
    <3> QED
      BY <1>7, <1>a, <1>b, <2>2, <3>1, <3>2, WorkTyped DEF NotCanceled, InterruptFails
  <2>4. Gateway'
    <3>1. missed' \subseteq Messages
      BY <1>b, <2>1, <2>2
    <3> DEFINE c == run[m].canceled \/ run[m].at = "active"
    <3>2. c \in BOOLEAN
      OBVIOUS
    <3>3. run' \in [Messages -> [at : {"none", "accepted", "active", "ended"}, canceled : BOOLEAN,
                                 times : Nat, lost : BOOLEAN]]
      <4> DEFINE r == [run[m] EXCEPT !.canceled = c]
      <4>1. r \in [at : {"none", "accepted", "active", "ended"}, canceled : BOOLEAN,
                   times : Nat, lost : BOOLEAN]
        <5> HIDE DEF c
        <5>1. run[m] \in [at : {"none", "accepted", "active", "ended"}, canceled : BOOLEAN,
                          times : Nat, lost : BOOLEAN]
          BY <1>b, <2>2
        <5> QED
          BY <3>2, <5>1
      <4>2. run' = run \/ run' = [run EXCEPT ![m] = r]
        BY <1>b, <2>1, <2>2
      <4> HIDE DEF r
      <4> QED
        BY <1>b, <2>2, <4>1, <4>2
    <3> QED
      BY <1>7, <1>a, <1>b, <3>1, <3>3, RunTyped DEF NotCanceled, InterruptFails, gateway
  <2> QED
    BY <1>7, <1>a, <2>3, <2>4, ApprovalsKept, BoxesKept, TrackedKept, FreshKept
       DEF NotCanceled, InterruptFails, TypeInv, approvals
<1>8. CASE MarkInterrupted(d)
  <2>1. Handlers'
    BY <1>8, <1>a, <1>b, StepTyped DEF MarkInterrupted
  <2>2. TrackedOnly' /\ FreshTracked'
    <3>1. UNCHANGED <<active, stack, node, card, box>> /\ work[d].cur \in Messages
      BY <1>8, <1>b DEF MarkInterrupted, approvals
    <3>2. CASE tracked' = tracked
      BY <1>a, <3>1, <3>2, TrackedKept, FreshKept
    <3>3. CASE tracked' = [tracked EXCEPT ![work[d].cur] = "ended"]
      BY <1>a, <3>1, <3>3, TrackingTyped
    <3> QED
      BY <1>8, <3>2, <3>3 DEF MarkInterrupted
  <2> QED
    BY <1>8, <1>a, <2>1, <2>2, ApprovalsKept, BoxesKept, GatewayKept DEF MarkInterrupted, TypeInv, approvals, gateway
<1>9. CASE UntrackInterrupted(d)
  <2>1. Handlers'
    <3> DEFINE w == [work[d] EXCEPT !.at = "interrupt", !.left = @ \ {work[d].cur}, !.cur = None]
    <3>1. /\ w \in [at : {"off", "run", "carding", "scan", "interrupt", "mark", "untrack", "over"},
                    msg : Messages \cup {None}, left : SUBSET Messages,
                    cur : Messages \cup {None}]
          /\ w.msg = work[d].msg /\ w.at = "interrupt"
      BY <1>b
    <3>2. work' = [work EXCEPT ![d] = w]
      BY <1>9, <1>a DEF UntrackInterrupted, Handlers, HandlersTyped
    <3>3. UNCHANGED <<idem, click, loop>> /\ work[d].at = "untrack"
      BY <1>9 DEF UntrackInterrupted
    <3> HIDE DEF w
    <3> QED
      BY <1>a, <1>b, <3>1, <3>2, <3>3, WorkTyped
  <2>2. Approvals'
    BY <1>9, <1>a, <1>b, UntrackTyped DEF UntrackInterrupted, Approvals
  <2> QED
    BY <1>9, <1>a, <2>1, <2>2, GatewayKept DEF UntrackInterrupted, Approvals, TypeInv, gateway
<1>10. CASE MessageDone(d)
  <2>1. Handlers'
    <3>1. idem' \in [Messages -> {"none", "pending", "done"}]
      BY <1>10, <1>b DEF MessageDone
    <3> QED
      BY <1>10, <1>a, <1>b, <3>1, StepTyped DEF MessageDone
  <2> QED
    BY <1>10, <1>a, <2>1, ApprovalsKept, BoxesKept, GatewayKept, TrackedKept, FreshKept
       DEF MessageDone, TypeInv, approvals, gateway
<1> QED
  BY <1>1, <1>2, <1>3, <1>4, <1>5, <1>6, <1>7, <1>8, <1>9, <1>10 DEF Handling

-----------------------------------------------------------------------------
(* Type correctness of the steps of the consumer, of clicks and of the        *)
(* gateway.                                                                   *)

LEMMA ConsumingTyped ==
  ASSUME TypeInv, Consuming
  PROVE  TypeInv'
<1>a. Handlers /\ ApprovalsTyped /\ BoxesTyped /\ Gateway /\ TrackedOnly /\ FreshTracked
  BY DEF TypeInv
<1>b. Loop \in Procs
  BY DEF Procs
<1>c. ASSUME feed # <<>>
      PROVE  /\ Head(feed) \in Events /\ Head(feed).run \in Messages
             /\ Head(feed).kind # "done" =>
                  Head(feed).req \in Requests /\ RunOf[Head(feed).req] = Head(feed).run
             /\ Head(feed).kind = "resolved" => ask[Head(feed).req].decision \in Decisions
  BY <1>a, <1>c, HeadFacts, EventFacts
<1>1. CASE IgnoreEvent
  <2>1. Gateway'
    BY <1>1, <1>a, FeedTaken DEF IgnoreEvent, Ready, Gateway, GatewayTyped
  <2> QED
    BY <1>1, <1>a, <2>1, HandlersKept, ApprovalsKept, BoxesKept, TrackedKept, FreshKept
       DEF IgnoreEvent, TypeInv, approvals
<1>2. CASE PermissionRequested
  <2>1. feed # <<>> /\ Head(feed).kind = "requested" /\ tracked[Head(feed).run] \notin {"no", "blank"}
    BY <1>2 DEF PermissionRequested, Ready, Ignored
  <2>2. Gateway'
    BY <1>2, <1>a, FeedTaken DEF PermissionRequested, Ready, Gateway, GatewayTyped
  <2>3. Approvals'
    BY <1>2, <1>a, <1>b, <1>c, <2>1, RequestTyped DEF PermissionRequested, Approvals
  <2> QED
    BY <1>2, <1>a, <2>2, <2>3, HandlersKept DEF PermissionRequested, Approvals, TypeInv
<1>3. CASE PermissionResolved
  <2>1. feed # <<>> /\ Head(feed).kind = "resolved"
    BY <1>3 DEF PermissionResolved, Ready
  <2>2. mishap' \subseteq Messages
    BY <1>3, <1>a, <1>b, <1>c, <2>1, ResolveMishap DEF PermissionResolved
  <2>3. Gateway'
    BY <1>3, <1>a, <2>1, <2>2, FeedTaken DEF PermissionResolved
  <2>4. Approvals'
    BY <1>3, <1>a, <1>b, <1>c, <2>1, ResolveTyped DEF PermissionResolved, Approvals
  <2> QED
    BY <1>3, <1>a, <2>3, <2>4, HandlersKept DEF PermissionResolved, Approvals, TypeInv
<1>4. CASE RunTerminal
  <2>1. feed # <<>> /\ Head(feed).run \in Messages
    BY <1>4, <1>c DEF RunTerminal, Ready
  <2>2. Gateway'
    BY <1>4, <1>a, <2>1, FeedTaken DEF RunTerminal, Gateway, GatewayTyped
  <2>3. TrackedOnly' /\ FreshTracked'
    BY <1>4, <1>a, <2>1, TrackingTyped DEF RunTerminal, approvals
  <2>4. Handlers'
    BY <1>4, <1>a, <2>1 DEF RunTerminal, Handlers, HandlersTyped
  <2> QED
    BY <1>4, <1>a, <2>2, <2>3, <2>4, ApprovalsKept, BoxesKept DEF RunTerminal, TypeInv, approvals
<1>5. CASE UntrackTerminal
  <2>1. loop \in Messages
    BY <1>5, <1>a DEF UntrackTerminal, Handlers, HandlersTyped
  <2>2. Approvals'
    BY <1>5, <1>a, <2>1, UntrackTyped DEF UntrackTerminal, Approvals
  <2>3. Handlers'
    BY <1>5, <1>a DEF UntrackTerminal, Handlers, HandlersTyped
  <2> QED
    BY <1>5, <1>a, <2>2, <2>3, GatewayKept DEF UntrackTerminal, Approvals, TypeInv, gateway
<1> QED
  BY <1>1, <1>2, <1>3, <1>4, <1>5 DEF Consuming

\* A request answered is taken once, with the answer it was given.
LEMMA AnswerTyped ==
  ASSUME Gateway, NEW q \in Requests, NEW d \in Decisions, Answer(q, d),
         UNCHANGED <<feed, run, missed>>, mishap' \subseteq Messages
  PROVE  Gateway'
<1>1. ask \in [Requests -> [at : {"none", "open", "taken", "told", "left"},
                            decision : Decisions \cup {None}]]
  BY DEF Gateway, GatewayTyped
<1>2. \A r \in Requests : ask'[r] = ask[r] \/ ask'[r] = [at |-> "taken", decision |-> d]
  BY <1>1 DEF Answer
<1>3. ask' \in [Requests -> [at : {"none", "open", "taken", "told", "left"},
                             decision : Decisions \cup {None}]]
  BY <1>1 DEF Answer
<1>4. ASSUME NEW i \in DOMAIN feed, feed[i].kind = "resolved"
      PROVE  feed[i].req \in Requests
  <2>1. feed[i] \in Events
    BY DEF Gateway, GatewayTyped
  <2> QED
    BY <1>4, <2>1, EventFacts
<1> QED
  BY <1>2, <1>3, <1>4 DEF Gateway, GatewayTyped

LEMMA ClickingTyped ==
  ASSUME TypeInv, NEW k \in Clicks, Clicking(k)
  PROVE  TypeInv'
<1>a. Handlers /\ ApprovalsTyped /\ BoxesTyped /\ Gateway /\ TrackedOnly /\ FreshTracked
  BY DEF TypeInv
<1>b. /\ click \in [Clicks -> [at : {"idle", "call", "update", "over"},
                               req : Requests \cup {None}, decision : Decisions \cup {None}]]
      /\ click[k].at \in {"call", "update"} =>
           click[k].req \in Requests /\ click[k].decision \in Decisions
      /\ k \in Procs /\ mishap \subseteq Messages
  BY <1>a DEF Handlers, HandlersTyped, Procs, Gateway, GatewayTyped
<1>1. ASSUME Click(k)
      PROVE  TypeInv'
  <2>1. Handlers'
    <3>1. PICK q \in Requests, d \in Decisions :
            click' = [click EXCEPT ![k] = [at |-> "call", req |-> q, decision |-> d]]
      BY <1>1 DEF Click
    <3> QED
      BY <1>1, <1>a, <3>1 DEF Click, Handlers, HandlersTyped
  <2> QED
    BY <1>1, <1>a, <2>1, ApprovalsKept, BoxesKept, GatewayKept, TrackedKept, FreshKept
       DEF Click, TypeInv, approvals, gateway
<1>2. ASSUME ResolvePermission(k) \/ ResolvePermissionFails(k)
      PROVE  TypeInv'
  <2>1. Handlers'
    BY <1>2, <1>a DEF ResolvePermission, ResolvePermissionFails, Handlers, HandlersTyped
  <2>2. ask' = ask \/ Answer(click[k].req, click[k].decision)
    BY <1>2 DEF ResolvePermission, ResolvePermissionFails
  <2>3. Gateway'
    <3>1. UNCHANGED <<feed, run, missed, mishap>> /\ click[k].at = "call"
      BY <1>2 DEF ResolvePermission, ResolvePermissionFails
    <3> QED
      BY <1>a, <1>b, <2>2, <3>1, GatewayKept, AnswerTyped
  <2> QED
    BY <1>2, <1>a, <2>1, <2>3, ApprovalsKept, BoxesKept, TrackedKept, FreshKept
       DEF ResolvePermission, ResolvePermissionFails, TypeInv, approvals
<1>3. ASSUME UpdateApproval(k)
      PROVE  TypeInv'
  <2>1. Handlers'
    BY <1>3, <1>a DEF UpdateApproval, Handlers, HandlersTyped
  <2>2. click[k].req \in Requests /\ click[k].decision \in Decisions
    BY <1>3, <1>b DEF UpdateApproval
  <2>3. Gateway'
    <3>1. mishap' \subseteq Messages
      BY <1>3, <1>a, <1>b, <2>2, ResolveMishap DEF UpdateApproval
    <3> QED
      BY <1>3, <1>a, <3>1, MishapTyped DEF UpdateApproval, gateway
  <2>4. Approvals'
    BY <1>3, <1>a, <1>b, <2>2, ResolveTyped DEF UpdateApproval, Approvals
  <2> QED
    BY <2>1, <2>3, <2>4 DEF Approvals, TypeInv
<1> QED
  BY <1>1, <1>2, <1>3 DEF Clicking

LEMMA RunStepTyped ==
  ASSUME TypeInv, NEW m \in Messages, Register(m) \/ RunEnds(m)
  PROVE  TypeInv'
<1>a. Handlers /\ ApprovalsTyped /\ BoxesTyped /\ Gateway /\ TrackedOnly /\ FreshTracked
  BY DEF TypeInv
<1>b. /\ run \in [Messages -> [at : {"none", "accepted", "active", "ended"}, canceled : BOOLEAN,
                               times : Nat, lost : BOOLEAN]]
      /\ feed \in Seq(Events) /\ missed \subseteq Messages /\ mishap \subseteq Messages
      /\ ask \in [Requests -> [at : {"none", "open", "taken", "told", "left"},
                               decision : Decisions \cup {None}]]
  BY <1>a DEF Gateway, GatewayTyped
<1>1. Gateway'
  <2>1. CASE Register(m)
    <3>1. run' \in [Messages -> [at : {"none", "accepted", "active", "ended"}, canceled : BOOLEAN,
                                 times : Nat, lost : BOOLEAN]]
      BY <2>1, <1>b DEF Register
    <3> QED
      BY <2>1, <1>a, <1>b, <3>1, RunTyped DEF Register
  <2>2. CASE RunEnds(m)
    <3> DEFINE e == Event("done", m, None)
    <3>1. PICK i \in 1 .. Len(feed) + 1 : feed' = InsertAt(feed, i, e)
      BY <2>2 DEF RunEnds
    <3>2. e \in Events /\ e.kind = "done"
      BY DEF Events, Event
    <3> HIDE DEF e
    <3>3. /\ feed' \in Seq(Events)
          /\ \A j \in DOMAIN feed' : feed'[j] = e \/ \E k \in DOMAIN feed : feed'[j] = feed[k]
      BY <1>b, <3>1, <3>2, FeedInserted
    <3>4. run' \in [Messages -> [at : {"none", "accepted", "active", "ended"}, canceled : BOOLEAN,
                                 times : Nat, lost : BOOLEAN]]
      BY <2>2, <1>b DEF RunEnds
    <3>5. /\ ask' \in [Requests -> [at : {"none", "open", "taken", "told", "left"},
                                    decision : Decisions \cup {None}]]
          /\ \A q \in Requests : ask'[q].decision = ask[q].decision
                                 /\ ask'[q].at \in {ask[q].at, "left"}
      BY <2>2, <1>b DEF RunEnds
    <3>6. ASSUME NEW j \in DOMAIN feed', feed'[j].kind = "resolved"
          PROVE  ask'[feed'[j].req].decision \in Decisions
      <4>1. PICK k \in DOMAIN feed : feed'[j] = feed[k]
        BY <3>2, <3>3, <3>6
      <4>2. feed[k] \in Events
        BY <1>b
      <4>3. feed[k].req \in Requests
        BY <3>6, <4>1, <4>2, EventFacts
      <4> QED
        BY <1>a, <3>5, <3>6, <4>1, <4>3 DEF Gateway
    <3>7. \A q \in Requests : ask'[q].at \in {"taken", "told"} => ask'[q].decision \in Decisions
      BY <1>a, <3>5 DEF Gateway
    <3>8. UNCHANGED <<missed, mishap>>
      BY <2>2 DEF RunEnds
    <3> QED
      BY <1>b, <3>3, <3>4, <3>5, <3>6, <3>7, <3>8 DEF Gateway, GatewayTyped
  <2> QED
    BY <2>1, <2>2
<1> QED
  BY <1>a, <1>1, HandlersKept, ApprovalsKept, BoxesKept, TrackedKept, FreshKept
     DEF Register, RunEnds, TypeInv, approvals

LEMMA AskStepTyped ==
  ASSUME TypeInv, NEW q \in Requests, Ask(q) \/ OtherAnswers(q) \/ Report(q)
  PROVE  TypeInv'
<1>a. Handlers /\ ApprovalsTyped /\ BoxesTyped /\ Gateway /\ TrackedOnly /\ FreshTracked
  BY DEF TypeInv
<1>b. /\ feed \in Seq(Events) /\ missed \subseteq Messages /\ mishap \subseteq Messages
      /\ ask \in [Requests -> [at : {"none", "open", "taken", "told", "left"},
                               decision : Decisions \cup {None}]]
  BY <1>a DEF Gateway, GatewayTyped
<1>1. Gateway'
  <2>1. CASE OtherAnswers(q)
    <3>1. PICK d \in Decisions : Answer(q, d)
      BY <2>1 DEF OtherAnswers
    <3> QED
      BY <2>1, <1>a, <1>b, <3>1, AnswerTyped DEF OtherAnswers
  <2>2. ASSUME Ask(q) \/ Report(q)
        PROVE  Gateway'
    <3>1. PICK kind \in {"requested", "resolved"} :
            /\ feed' = Append(feed, Event(kind, RunOf[q], q))
            /\ ask' = [ask EXCEPT ![q].at = IF kind = "requested" THEN "open" ELSE "told"]
            /\ kind = "resolved" => ask[q].at = "taken"
      BY <2>2 DEF Ask, Report
    <3> DEFINE e == Event(kind, RunOf[q], q)
    <3>2. e \in Events /\ e.kind = kind /\ e.req = q
      BY DEF Events, Event
    <3> HIDE DEF e
    <3>3. feed' = Append(feed, e)
      BY <3>1 DEF e
    <3>4. /\ feed' \in Seq(Events)
          /\ \A j \in DOMAIN feed' : feed'[j] = e \/ (j \in DOMAIN feed /\ feed'[j] = feed[j])
      BY <1>b, <3>2, <3>3
    <3>5. /\ ask' \in [Requests -> [at : {"none", "open", "taken", "told", "left"},
                                    decision : Decisions \cup {None}]]
          /\ \A r \in Requests : ask'[r].decision = ask[r].decision
          /\ \A r \in Requests \ {q} : ask'[r].at = ask[r].at
          /\ ask'[q].at = IF kind = "requested" THEN "open" ELSE "told"
      BY <1>b, <3>1
    <3>6. \A r \in Requests : ask'[r].at \in {"taken", "told"} => ask'[r].decision \in Decisions
      BY <1>a, <3>1, <3>5 DEF Gateway
    <3>7. ASSUME NEW j \in DOMAIN feed', feed'[j].kind = "resolved"
          PROVE  ask'[feed'[j].req].decision \in Decisions
      <4>1. CASE feed'[j] = e
        BY <1>a, <3>1, <3>2, <3>5, <3>7, <4>1 DEF Gateway
      <4>2. CASE j \in DOMAIN feed /\ feed'[j] = feed[j]
        <5>1. feed[j] \in Events
          BY <1>b, <4>2
        <5>2. feed[j].req \in Requests
          BY <3>7, <4>2, <5>1, EventFacts
        <5> QED
          BY <1>a, <3>5, <3>7, <4>2, <5>2 DEF Gateway
      <4> QED
        BY <3>4, <4>1, <4>2
    <3>8. UNCHANGED <<run, missed, mishap>>
      BY <2>2 DEF Ask, Report
    <3> QED
      BY <1>a, <3>4, <3>5, <3>6, <3>7, <3>8 DEF Gateway, GatewayTyped
  <2> QED
    BY <2>1, <2>2
<1> QED
  BY <1>a, <1>1, HandlersKept, ApprovalsKept, BoxesKept, TrackedKept, FreshKept
     DEF Ask, OtherAnswers, Report, TypeInv, approvals

LEMMA InitTyped ==
  ASSUME Init
  PROVE  TypeInv
<1>1. Handlers
  BY DEF Init, Handlers, HandlersTyped
<1>2. ApprovalsTyped
  <2>1. <<>> \in Seq(Requests) /\ IsInjective(<<>>) /\ ToSet(<<>>) = {}
    BY DEF IsInjective, ToSet
  <2>2. \A m \in Messages : stack[m] = <<>>
    BY DEF Init
  <2> QED
    BY <2>1, <2>2 DEF Init, ApprovalsTyped, NoCard
<1>3. BoxesTyped
  <2>1. Empty \in [ops : Seq(Ops), flight : Ops \cup {NoOp}, fresh : BOOLEAN] /\ Len(Empty.ops) <= 2
    BY DEF Empty
  <2> QED
    BY <2>1 DEF Init, BoxesTyped
<1>4. Gateway
  <2>1. feed \in Seq(Events) /\ DOMAIN feed = {}
    BY DEF Init
  <2> QED
    BY <2>1 DEF Init, Gateway, GatewayTyped
<1>5. TrackedOnly
  BY DEF Init, TrackedOnly, RequestsOf
<1>6. FreshTracked
  BY DEF Init, FreshTracked, Empty
<1> QED
  BY <1>1, <1>2, <1>3, <1>4, <1>5, <1>6 DEF TypeInv

LEMMA NextTyped ==
  ASSUME TypeInv, [Next]_vars
  PROVE  TypeInv'
<1>1. CASE UNCHANGED vars
  <2>1. Handlers' /\ ApprovalsTyped' /\ BoxesTyped' /\ Gateway' /\ TrackedOnly' /\ FreshTracked'
    BY <1>1, HandlersKept, ApprovalsKept, BoxesKept, GatewayKept, TrackedKept, FreshKept
       DEF TypeInv, vars, approvals, gateway
  <2> QED
    BY <2>1 DEF TypeInv
<1>2. CASE Next
  BY <1>2, HandlingTyped, ConsumingTyped, ClickingTyped, StartUpdateTyped, EndUpdateTyped,
     RunStepTyped, AskStepTyped DEF Next
<1> QED
  BY <1>1, <1>2

LEMMA TypedAlways == Spec => []TypeInv
<1> QED
  BY InitTyped, NextTyped, PTL DEF Spec

\* Every reachable state is one the tables of the adapter can be in: what waits
\* for the card of a run are its own requests, each at most once, and a run that
\* is not tracked has neither approvals nor a card (trackSession, untrackRun).
THEOREM Typed == Spec => []TypeOK
<1>1. TypeInv => TypeOK
  BY DEF TypeInv, Handlers, Gateway, TypeOK
<1> QED
  BY <1>1, TypedAlways, PTL

-----------------------------------------------------------------------------
(* A message has one handler at a time, and its run is tracked while it goes  *)
(* on.                                                                        *)

Handled(d) == work[d].at \notin {"off", "over"}

\* The idempotency store lets one handler of a message through.
HandledOnce ==
  /\ \A d \in Deliveries : Handled(d) => idem[work[d].msg] = "pending"
  /\ \A d, e \in Deliveries :
       Handled(d) /\ Handled(e) /\ work[d].msg = work[e].msg => d = e

\* What is on its way to run m, unless the answer to its start was lost: its end
\* is reported, and it is dropped from the table, only once it is over or
\* canceled; it is started once, by the one handler that has tracked it.
EndReported(m) == \A i \in DOMAIN feed : feed[i].kind = "done" /\ feed[i].run = m => run[m].at = "ended"
Dropped(m) ==
  \A d \in Deliveries : work[d].at \in {"mark", "untrack"} /\ work[d].cur = m =>
    run[m].at # "none" /\ ~Live(m)
ToStart(m) ==
  \A d \in Deliveries : work[d].at = "run" /\ work[d].msg = m =>
    run[m].times = 0 /\ tracked[m] = "pending"

Followed(m) ==
  ~run[m].lost =>
    /\ run[m].times \in {0, 1} /\ (run[m].times = 0 <=> run[m].at = "none")
    /\ EndReported(m) /\ (loop = m => run[m].at = "ended")
    /\ Dropped(m) /\ ToStart(m)
    /\ Live(m) => tracked[m] = "pending"
    /\ idem[m] = "none" => run[m].times = 0

TrackInv == HandledOnce /\ \A m \in Messages : Followed(m)

\* The handler of message m has looked at the table.
HasLooked(d, m) == work[d].at \in {"interrupt", "mark", "untrack"} /\ work[d].msg = m
Looked(m) == idem[m] = "done" \/ \E d \in Deliveries : HasLooked(d, m)

\* A run that goes on although its message is not the last one to have looked is
\* still to be interrupted by one of the two.
ToInterrupt(m, n) == \E d \in Deliveries : HasLooked(d, m) /\ n \in work[d].left
Rivals(m, n) ==
  /\ Looked(m) /\ Live(m) /\ m \notin missed /\ ~run[m].lost
  /\ Looked(n) /\ Live(n) /\ n \notin missed /\ ~run[n].lost

RivalInv == \A m, n \in Messages : m # n /\ Rivals(m, n) => ToInterrupt(m, n) \/ ToInterrupt(n, m)

LEMMA HandledStays ==
  ASSUME HandledOnce, UNCHANGED <<idem, work>>
  PROVE  HandledOnce'
BY DEF HandledOnce, Handled

LEMMA FollowedStays ==
  ASSUME NEW m \in Messages, Followed(m), UNCHANGED <<idem, work, tracked, loop, run>>,
         \A i \in DOMAIN feed' : feed'[i].kind = "done" => \E j \in DOMAIN feed : feed[j] = feed'[i]
  PROVE  Followed(m)'
<1>1. EndReported(m) => EndReported(m)'
  BY DEF EndReported
<1> QED
  BY <1>1 DEF Followed, Dropped, ToStart, Live

\* What a handler at work changes in its own entry; it changes no other.
OwnEntry(d, w) ==
  /\ Handled(d) /\ work' = [work EXCEPT ![d] = w]
  /\ w.msg = work[d].msg
  /\ \A e \in Deliveries : work'[e] = IF e = d THEN w ELSE work[e]

LEMMA OwnEntries ==
  ASSUME Handlers, NEW d \in Deliveries
  PROVE  /\ Submit(d) => OwnEntry(d, [work[d] EXCEPT !.at = "carding"])
         /\ RunFails(d) \/ MessageDone(d) => OwnEntry(d, [work[d] EXCEPT !.at = "over"])
         /\ StatusCardSent(d) => OwnEntry(d, [work[d] EXCEPT !.at = "scan"])
         /\ Scan(d) =>
              OwnEntry(d, [work[d] EXCEPT !.at = "interrupt",
                             !.left = {m \in Messages \ {work[d].msg} : tracked[m] = "pending"}])
         /\ MarkInterrupted(d) => OwnEntry(d, [work[d] EXCEPT !.at = "untrack"])
         /\ UntrackInterrupted(d) =>
              OwnEntry(d, [work[d] EXCEPT !.at = "interrupt", !.left = @ \ {work[d].cur}, !.cur = None])
         /\ \A m : work' = [work EXCEPT ![d].at = "mark", ![d].cur = m] /\ Handled(d) =>
              OwnEntry(d, [work[d] EXCEPT !.at = "mark", !.cur = m])
         /\ \A m : work' = [work EXCEPT ![d].left = @ \ {m}] /\ Handled(d) =>
              OwnEntry(d, [work[d] EXCEPT !.left = @ \ {m}])
<1>1. /\ work \in [Deliveries ->
                [at : {"off", "run", "carding", "scan", "interrupt", "mark", "untrack", "over"},
                 msg : Messages \cup {None}, left : SUBSET Messages, cur : Messages \cup {None}]]
  BY DEF Handlers, HandlersTyped
<1>2. Submit(d) => OwnEntry(d, [work[d] EXCEPT !.at = "carding"])
  BY <1>1 DEF Submit, Step, OwnEntry, Handled
<1>3. RunFails(d) \/ MessageDone(d) => OwnEntry(d, [work[d] EXCEPT !.at = "over"])
  BY <1>1 DEF RunFails, MessageDone, Step, OwnEntry, Handled
<1>4. StatusCardSent(d) => OwnEntry(d, [work[d] EXCEPT !.at = "scan"])
  BY <1>1 DEF StatusCardSent, Step, OwnEntry, Handled
<1>5. Scan(d) =>
        OwnEntry(d, [work[d] EXCEPT !.at = "interrupt",
                       !.left = {m \in Messages \ {work[d].msg} : tracked[m] = "pending"}])
  BY <1>1 DEF Scan, OwnEntry, Handled
<1>6. MarkInterrupted(d) => OwnEntry(d, [work[d] EXCEPT !.at = "untrack"])
  BY <1>1 DEF MarkInterrupted, Step, OwnEntry, Handled
<1>7. UntrackInterrupted(d) =>
        OwnEntry(d, [work[d] EXCEPT !.at = "interrupt", !.left = @ \ {work[d].cur}, !.cur = None])
  <2> SUFFICES ASSUME UntrackInterrupted(d)
               PROVE  OwnEntry(d, [work[d] EXCEPT !.at = "interrupt", !.left = @ \ {work[d].cur},
                                                  !.cur = None])
    OBVIOUS
  <2> DEFINE w == [work[d] EXCEPT !.at = "interrupt", !.left = @ \ {work[d].cur}, !.cur = None]
  <2>1. work' = [work EXCEPT ![d] = w]
    BY <1>1 DEF UntrackInterrupted
  <2>2. w.msg = work[d].msg
    BY <1>1
  <2>3. Handled(d)
    BY DEF UntrackInterrupted, Handled
  <2> HIDE DEF w
  <2>4. OwnEntry(d, w)
    BY <1>1, <2>1, <2>2, <2>3 DEF OwnEntry
  <2> QED
    BY <2>4 DEF w
<1>8. ASSUME NEW m, work' = [work EXCEPT ![d].at = "mark", ![d].cur = m], Handled(d)
      PROVE  OwnEntry(d, [work[d] EXCEPT !.at = "mark", !.cur = m])
  BY <1>1, <1>8 DEF OwnEntry
<1>9. ASSUME NEW m, work' = [work EXCEPT ![d].left = @ \ {m}], Handled(d)
      PROVE  OwnEntry(d, [work[d] EXCEPT !.left = @ \ {m}])
  BY <1>1, <1>9 DEF OwnEntry
<1> QED
  BY <1>2, <1>3, <1>4, <1>5, <1>6, <1>7, <1>8, <1>9

\* A handler that goes on, or ends, leaves its message to no other.
LEMMA HandledStep ==
  ASSUME Handlers, HandledOnce, NEW d \in Deliveries, NEW w, OwnEntry(d, w),
         \/ UNCHANGED idem
         \/ w.at = "over" /\ \E to : idem' = [idem EXCEPT ![work[d].msg] = to]
  PROVE  HandledOnce'
<1>1. \A e \in Deliveries : Handled(e)' => Handled(e) /\ work'[e].msg = work[e].msg
  BY DEF OwnEntry, Handled
<1>2. ASSUME NEW e \in Deliveries, Handled(e)'
      PROVE  idem'[work'[e].msg] = "pending"
  <2>1. Handled(e) /\ work'[e].msg = work[e].msg /\ idem[work[e].msg] = "pending"
        /\ work[e].msg \in Messages
    BY <1>1, <1>2 DEF HandledOnce, Handlers, Handled
  <2>2. CASE UNCHANGED idem
    BY <2>1, <2>2
  <2>3. CASE w.at = "over" /\ \E to : idem' = [idem EXCEPT ![work[d].msg] = to]
    <3>1. e # d
      BY <1>2, <2>3 DEF OwnEntry, Handled
    <3>2. work[e].msg # work[d].msg
      BY <2>1, <3>1 DEF HandledOnce, OwnEntry
    <3> QED
      BY <2>1, <2>3, <3>2 DEF Handlers, HandlersTyped
  <2> QED
    BY <2>2, <2>3
<1>3. ASSUME NEW e \in Deliveries, NEW f \in Deliveries, Handled(e)', Handled(f)',
             work'[e].msg = work'[f].msg
      PROVE  e = f
  BY <1>1, <1>3 DEF HandledOnce
<1> QED
  BY <1>2, <1>3 DEF HandledOnce

\* The step of a handler that starts no run of m: it may cancel the run, and drops
\* it only when nobody needs its entry any more.
LEMMA FollowedStep ==
  ASSUME TypeInv, NEW m \in Messages, Followed(m), NEW d \in Deliveries, NEW w, OwnEntry(d, w),
         w.at # "run", UNCHANGED <<feed, loop>>,
         run'[m].lost = run[m].lost, run'[m].times = run[m].times, run'[m].at = run[m].at,
         Live(m)' => Live(m),
         w.at \in {"mark", "untrack"} /\ w.cur = m => run[m].at # "none" /\ ~Live(m)',
         tracked'[m] = tracked[m] \/ tracked[m] # "pending" \/ (run[m].at # "none" /\ ~Live(m)),
         idem'[m] = "none" => idem[m] = "none" \/ run[m].times = 0
  PROVE  Followed(m)'
<1> SUFFICES ASSUME ~run[m].lost
             PROVE  Followed(m)'
  BY DEF Followed
<1>1. EndReported(m)'
  BY DEF Followed, EndReported
<1>2. Dropped(m)'
  BY DEF Followed, Dropped, OwnEntry
<1>3. ToStart(m)'
  <2> SUFFICES ASSUME NEW e \in Deliveries, work'[e].at = "run", work'[e].msg = m
               PROVE  run[m].times = 0 /\ tracked'[m] = "pending"
    BY DEF ToStart
  <2>1. work[e].at = "run" /\ work[e].msg = m
    BY DEF OwnEntry
  <2> QED
    BY <2>1 DEF Followed, ToStart
<1>4. Live(m)' => tracked'[m] = "pending"
  BY DEF Followed
<1> QED
  BY <1>1, <1>2, <1>3, <1>4 DEF Followed

\* A message that nobody has handled yet, or whose start has failed, gets a handler.
LEMMA ReceiveFollowed ==
  ASSUME TypeInv, TrackInv, NEW d \in Deliveries, Receive(d)
  PROVE  TrackInv'
<1>1. PICK m \in Messages :
        IF idem[m] = "none"
        THEN /\ idem' = [idem EXCEPT ![m] = "pending"]
             /\ tracked' = [tracked EXCEPT ![m] = "pending"]
             /\ work' = [work EXCEPT ![d].at = "run", ![d].msg = m]
        ELSE /\ work' = [work EXCEPT ![d].at = "over", ![d].msg = m]
             /\ UNCHANGED <<idem, tracked>>
  BY DEF Receive
<1>2. /\ Handlers /\ work[d].at = "off" /\ UNCHANGED <<loop, feed, run>>
      /\ tracked \in [Messages -> {"no", "pending", "ended", "blank"}]
      /\ HandledOnce /\ \A n \in Messages : Followed(n)
  BY DEF Receive, TypeInv, TrackInv, TrackedOnly, gateway
<1>3. /\ \A e \in Deliveries \ {d} : work'[e] = work[e]
      /\ work'[d].at = (IF idem[m] = "none" THEN "run" ELSE "over") /\ work'[d].msg = m
  BY <1>1, <1>2 DEF Handlers, HandlersTyped
<1>4. \A n \in Messages : idem'[n] = IF n = m /\ idem[m] = "none" THEN "pending" ELSE idem[n]
  BY <1>1, <1>2 DEF Handlers, HandlersTyped
<1>5. \A n \in Messages : tracked'[n] = IF n = m /\ idem[m] = "none" THEN "pending" ELSE tracked[n]
  BY <1>1, <1>2
<1>6. HandledOnce'
  <2>1. ASSUME NEW e \in Deliveries \ {d}, Handled(e)
        PROVE  idem'[work[e].msg] = "pending" /\ (idem[m] = "none" => work[e].msg # m)
    <3>1. work[e].msg \in Messages /\ idem[work[e].msg] = "pending"
      BY <1>2, <2>1 DEF Handled, HandledOnce, Handlers
    <3> QED
      BY <1>4, <3>1
  <2>2. ASSUME NEW e \in Deliveries, Handled(e)'
        PROVE  idem'[work'[e].msg] = "pending"
    BY <1>3, <1>4, <2>1, <2>2 DEF Handled
  <2>3. ASSUME NEW e \in Deliveries, NEW f \in Deliveries, Handled(e)', Handled(f)',
               work'[e].msg = work'[f].msg
        PROVE  e = f
    BY <1>2, <1>3, <2>1, <2>3 DEF Handled, HandledOnce
  <2> QED
    BY <2>2, <2>3 DEF HandledOnce
<1>7. ASSUME NEW n \in Messages
      PROVE  Followed(n)'
  <2> SUFFICES ASSUME ~run[n].lost
               PROVE  Followed(n)'
    BY <1>2 DEF Followed
  <2>1. EndReported(n)' /\ (loop' = n => run'[n].at = "ended")
    BY <1>2 DEF Followed, EndReported
  <2>2. Dropped(n)'
    BY <1>2, <1>3 DEF Followed, Dropped, Live
  <2>3. ToStart(n)'
    BY <1>2, <1>3, <1>5 DEF Followed, ToStart
  <2>4. Live(n)' => tracked'[n] = "pending"
    BY <1>2, <1>5 DEF Followed, Live
  <2>5. idem'[n] = "none" => run'[n].times = 0
    BY <1>2, <1>4 DEF Followed
  <2> QED
    BY <1>2, <2>1, <2>2, <2>3, <2>4, <2>5 DEF Followed
<1> QED
  BY <1>6, <1>7 DEF TrackInv

\* The run of a message is started by its handler, which has tracked it.
LEMMA SubmitFollowed ==
  ASSUME TypeInv, TrackInv, NEW d \in Deliveries, Submit(d)
  PROVE  TrackInv'
<1> DEFINE w == [work[d] EXCEPT !.at = "carding"]
<1>1. /\ Handlers /\ HandledOnce /\ \A n \in Messages : Followed(n)
      /\ UNCHANGED <<idem, tracked, loop, feed>> /\ work[d].at = "run"
      /\ run \in [Messages -> [at : {"none", "accepted", "active", "ended"}, canceled : BOOLEAN,
                               times : Nat, lost : BOOLEAN]]
  BY DEF Submit, TypeInv, TrackInv, Gateway, GatewayTyped
<1>m. PICK m \in Messages : m = work[d].msg
  BY <1>1, WorkFacts
<1>2. OwnEntry(d, w) /\ w.at = "carding"
  BY <1>1, OwnEntries, WorkFacts
<1>3. /\ \A n \in Messages \ {m} : run'[n] = run[n]
      /\ run'[m].at = "accepted" /\ run'[m].times = run[m].times + 1 /\ run'[m].lost = run[m].lost
  BY <1>1, <1>m DEF Submit, Accepted
<1> HIDE DEF w
<1>4. HandledOnce'
  BY <1>1, <1>2, HandledStep
<1>5. ASSUME NEW n \in Messages \ {m}
      PROVE  Followed(n)'
  BY <1>1, <1>2, <1>3, FollowedStep DEF Live
<1>6. Followed(m)'
  <2> SUFFICES ASSUME ~run[m].lost
               PROVE  Followed(m)'
    BY <1>3 DEF Followed
  <2>1. run[m].times = 0 /\ run[m].at = "none" /\ tracked[m] = "pending"
    BY <1>m, <1>1, <1>2 DEF Followed, ToStart
  <2>2. EndReported(m)' /\ loop' # m
    BY <1>1, <1>2, <2>1 DEF Followed, EndReported
  <2>3. Dropped(m)'
    BY <1>1, <1>2, <2>1 DEF Followed, Dropped, OwnEntry
  <2>4. ToStart(m)'
    <3>1. ASSUME NEW e \in Deliveries, work'[e].at = "run", work'[e].msg = m
          PROVE  FALSE
      <4>1. e # d /\ work[e].at = "run" /\ work[e].msg = m
        BY <1>2, <3>1 DEF OwnEntry
      <4> QED
        BY <1>m, <1>1, <4>1 DEF HandledOnce, Handled
    <3> QED
      BY <3>1 DEF ToStart
  <2>5. idem[m] # "none"
    BY <1>m, <1>1 DEF HandledOnce, Handled
  <2> QED
    BY <1>1, <1>3, <2>1, <2>2, <2>3, <2>4, <2>5 DEF Followed
<1> QED
  BY <1>4, <1>5, <1>6 DEF TrackInv

\* A start that fails or whose answer is lost is given up; the message may come
\* again.
LEMMA RunFailsFollowed ==
  ASSUME TypeInv, TrackInv, NEW d \in Deliveries, RunFails(d)
  PROVE  TrackInv'
<1> DEFINE w == [work[d] EXCEPT !.at = "over"]
<1>1. /\ Handlers /\ HandledOnce /\ \A n \in Messages : Followed(n)
      /\ UNCHANGED <<loop, feed>> /\ work[d].at = "run"
      /\ run \in [Messages -> [at : {"none", "accepted", "active", "ended"}, canceled : BOOLEAN,
                               times : Nat, lost : BOOLEAN]]
      /\ tracked \in [Messages -> {"no", "pending", "ended", "blank"}]
  BY DEF RunFails, TypeInv, TrackInv, Gateway, GatewayTyped, TrackedOnly
<1>m. PICK m \in Messages : m = work[d].msg
  BY <1>1, WorkFacts
<1>2. OwnEntry(d, w) /\ w.at = "over"
  BY <1>1, OwnEntries, WorkFacts
<1>3. /\ \A n \in Messages \ {m} : run'[n] = run[n] /\ tracked'[n] = tracked[n] /\ idem'[n] = idem[n]
      /\ idem' = [idem EXCEPT ![m] = "none"]
      /\ run'[m] = run[m] \/ run'[m].lost
  <2>1. idem' = [idem EXCEPT ![m] = "none"] /\ tracked' = [tracked EXCEPT ![m] = "no"]
    BY <1>m DEF RunFails, Untrack
  <2>2. run' = run \/ Accepted(m, TRUE)
    BY <1>m DEF RunFails
  <2>3. (\A n \in Messages \ {m} : run'[n] = run[n]) /\ (run'[m] = run[m] \/ run'[m].lost)
    <3>1. CASE run' = run
      BY <3>1
    <3>2. CASE Accepted(m, TRUE)
      <4> DEFINE r == [at |-> "accepted", canceled |-> FALSE, times |-> run[m].times + 1,
                       lost |-> run[m].lost \/ TRUE]
      <4>1. run' = [run EXCEPT ![m] = r]
        BY <3>2 DEF Accepted
      <4>2. r.lost
        OBVIOUS
      <4> HIDE DEF r
      <4> QED
        BY <1>1, <4>1, <4>2
    <3> QED
      BY <2>2, <3>1, <3>2
  <2>4. \A n \in Messages \ {m} : idem'[n] = idem[n]
    BY <1>1, <2>1 DEF Handlers, HandlersTyped
  <2>5. \A n \in Messages \ {m} : tracked'[n] = tracked[n]
    BY <1>1, <2>1
  <2> QED
    BY <2>1, <2>3, <2>4, <2>5
<1> HIDE DEF w
<1>4. HandledOnce'
  <2>1. \E to : idem' = [idem EXCEPT ![work[d].msg] = to]
    BY <1>m, <1>3
  <2> QED
    BY <1>1, <1>2, <2>1, HandledStep
<1>5. ASSUME NEW n \in Messages \ {m}
      PROVE  Followed(n)'
  BY <1>1, <1>2, <1>3, FollowedStep DEF Live
<1>6. Followed(m)'
  <2>1. CASE run'[m].lost
    BY <2>1 DEF Followed
  <2>2. CASE run'[m] = run[m] /\ ~run[m].lost
    <3>1. run[m].times = 0 /\ run[m].at = "none" /\ tracked[m] = "pending"
      BY <1>m, <1>1, <1>2, <2>2 DEF Followed, ToStart
    <3>2. EndReported(m)' /\ loop' # m /\ ~Live(m)'
      BY <1>1, <1>2, <2>2, <3>1 DEF Followed, EndReported, Live
    <3>3. Dropped(m)'
      BY <1>1, <1>2, <2>2, <3>1 DEF Followed, Dropped, OwnEntry
    <3>4. ToStart(m)'
      <4>1. ASSUME NEW e \in Deliveries, work'[e].at = "run", work'[e].msg = m
            PROVE  FALSE
        <5>1. e # d /\ work[e].at = "run" /\ work[e].msg = m
          BY <1>2, <4>1 DEF OwnEntry
        <5> QED
          BY <1>m, <1>1, <5>1 DEF HandledOnce, Handled
      <4> QED
        BY <4>1 DEF ToStart
    <3> QED
      BY <1>1, <2>2, <3>1, <3>2, <3>3, <3>4 DEF Followed
  <2> QED
    BY <1>3, <2>1, <2>2 DEF Followed
<1> QED
  BY <1>4, <1>5, <1>6 DEF TrackInv

\* The other steps of a handler cancel runs or drop those that are canceled.
LEMMA HandlingFollowed ==
  ASSUME TypeInv, TrackInv, NEW d \in Deliveries, Handling(d)
  PROVE  TrackInv'
<1>a. /\ Handlers /\ HandledOnce /\ \A n \in Messages : Followed(n)
      /\ run \in [Messages -> [at : {"none", "accepted", "active", "ended"}, canceled : BOOLEAN,
                               times : Nat, lost : BOOLEAN]]
      /\ tracked \in [Messages -> {"no", "pending", "ended", "blank"}]
      /\ idem \in [Messages -> {"none", "pending", "done"}]
  BY DEF TypeInv, TrackInv, Gateway, GatewayTyped, TrackedOnly, Handlers, HandlersTyped
<1>b. /\ work[d] \in [at : {"off", "run", "carding", "scan", "interrupt", "mark", "untrack", "over"},
                      msg : Messages \cup {None}, left : SUBSET Messages,
                      cur : Messages \cup {None}]
      /\ work[d].at # "off" => work[d].msg \in Messages
      /\ work[d].at \in {"mark", "untrack"} => work[d].cur \in Messages
  BY <1>a, WorkFacts
<1>1. CASE Receive(d)
  BY <1>1, ReceiveFollowed
<1>2. CASE Submit(d)
  BY <1>2, SubmitFollowed
<1>3. CASE RunFails(d)
  BY <1>3, RunFailsFollowed
<1>4. CASE StatusCardSent(d)
  <2> DEFINE w == [work[d] EXCEPT !.at = "scan"]
  <2>1. OwnEntry(d, w) /\ w.at = "scan"
    BY <1>4, <1>a, <1>b, OwnEntries
  <2>2. UNCHANGED <<idem, feed, loop, run>>
    BY <1>4 DEF StatusCardSent, gateway
  <2>3. \A n \in Messages : tracked'[n] = tracked[n] \/ tracked[n] = "no"
    BY <1>4, <1>a DEF StatusCardSent
  <2> HIDE DEF w
  <2>4. \A n \in Messages : Followed(n)'
    BY <1>a, <2>1, <2>2, <2>3, FollowedStep DEF Live
  <2> QED
    BY <1>a, <2>1, <2>2, <2>4, HandledStep DEF TrackInv
<1>5. CASE Scan(d)
  <2> DEFINE w == [work[d] EXCEPT !.at = "interrupt",
                     !.left = {m \in Messages \ {work[d].msg} : tracked[m] = "pending"}]
  <2>1. OwnEntry(d, w) /\ w.at = "interrupt"
    BY <1>5, <1>a, <1>b, OwnEntries
  <2>2. UNCHANGED <<idem, feed, loop, run, tracked>>
    BY <1>5 DEF Scan, gateway
  <2> HIDE DEF w
  <2>3. \A n \in Messages : Followed(n)'
    BY <1>a, <2>1, <2>2, FollowedStep DEF Live
  <2> QED
    BY <1>a, <2>1, <2>2, <2>3, HandledStep DEF TrackInv
<1>6. CASE Interrupt(d)
  <2>1. PICK m \in work[d].left :
          /\ run[m].at = "active"
          /\ run' = [run EXCEPT ![m].canceled = TRUE]
          /\ work' = [work EXCEPT ![d].at = "mark", ![d].cur = m]
    BY <1>6 DEF Interrupt
  <2> DEFINE w == [work[d] EXCEPT !.at = "mark", !.cur = m]
  <2>2. OwnEntry(d, w) /\ w.at = "mark" /\ w.cur = m /\ m \in Messages
    <3>1. Handled(d)
      BY <1>6 DEF Interrupt, Handled
    <3> QED
      BY <1>a, <1>b, <2>1, <3>1, OwnEntries
  <2>3. UNCHANGED <<idem, feed, loop, tracked>>
    BY <1>6 DEF Interrupt
  <2>4. \A n \in Messages : /\ run'[n].lost = run[n].lost /\ run'[n].times = run[n].times
                            /\ run'[n].at = run[n].at /\ (Live(n)' => Live(n))
    BY <1>a, <2>1, <2>2 DEF Live
  <2>5. run[m].at # "none" /\ ~Live(m)'
    BY <1>a, <2>1, <2>2 DEF Live
  <2> HIDE DEF w
  <2>6. ASSUME NEW n \in Messages
        PROVE  Followed(n)'
    BY <1>a, <2>2, <2>3, <2>4, <2>5, FollowedStep
  <2> QED
    BY <1>a, <2>2, <2>3, <2>6, HandledStep DEF TrackInv
<1>7. CASE NotCanceled(d) \/ InterruptFails(d)
  <2>1. PICK m \in work[d].left :
          /\ work' = [work EXCEPT ![d].left = @ \ {m}]
          /\ run' = run \/ run' = [run EXCEPT ![m].canceled = @ \/ run[m].at = "active"]
    BY <1>7 DEF NotCanceled, InterruptFails, gateway
  <2> DEFINE w == [work[d] EXCEPT !.left = @ \ {m}]
  <2>2. OwnEntry(d, w) /\ w.at = "interrupt" /\ m \in Messages
    <3>1. Handled(d) /\ work[d].at = "interrupt"
      BY <1>7 DEF NotCanceled, InterruptFails, Handled
    <3> QED
      BY <1>a, <1>b, <2>1, <3>1, OwnEntries
  <2>3. UNCHANGED <<idem, feed, loop, tracked>>
    BY <1>7 DEF NotCanceled, InterruptFails, gateway
  <2>4. \A n \in Messages : /\ run'[n].lost = run[n].lost /\ run'[n].times = run[n].times
                            /\ run'[n].at = run[n].at /\ (Live(n)' => Live(n))
    BY <1>a, <2>1, <2>2 DEF Live
  <2> HIDE DEF w
  <2>5. ASSUME NEW n \in Messages
        PROVE  Followed(n)'
    BY <1>a, <2>2, <2>3, <2>4, FollowedStep
  <2> QED
    BY <1>a, <2>2, <2>3, <2>5, HandledStep DEF TrackInv
<1>8. CASE MarkInterrupted(d)
  <2> DEFINE w == [work[d] EXCEPT !.at = "untrack"]
  <2>1. OwnEntry(d, w) /\ w.at = "untrack" /\ w.cur = work[d].cur
    BY <1>8, <1>a, <1>b, OwnEntries
  <2>2. UNCHANGED <<idem, feed, loop, run>> /\ work[d].at = "mark"
    BY <1>8 DEF MarkInterrupted, gateway
  <2>3. \A n \in Messages : n # work[d].cur => tracked'[n] = tracked[n]
    BY <1>8, <1>a DEF MarkInterrupted
  <2> HIDE DEF w
  <2>4. ASSUME NEW n \in Messages
        PROVE  Followed(n)'
    <3> SUFFICES ASSUME ~run[n].lost
                 PROVE  Followed(n)'
      BY <2>2 DEF Followed
    <3>1. n = work[d].cur => run[n].at # "none" /\ ~Live(n)
      BY <1>a, <2>2 DEF Followed, Dropped
    <3>2. ~Live(n)' \/ Live(n)
      BY <2>2 DEF Live
    <3> QED
      BY <1>a, <2>1, <2>2, <2>3, <3>1, <3>2, FollowedStep DEF Live
  <2> QED
    BY <1>a, <2>1, <2>2, <2>4, HandledStep DEF TrackInv
<1>9. CASE UntrackInterrupted(d)
  <2> DEFINE w == [work[d] EXCEPT !.at = "interrupt", !.left = @ \ {work[d].cur}, !.cur = None]
  <2>1. OwnEntry(d, w) /\ w.at = "interrupt"
    BY <1>9, <1>a, <1>b, OwnEntries
  <2>2. UNCHANGED <<idem, feed, loop, run>> /\ work[d].at = "untrack"
    BY <1>9 DEF UntrackInterrupted, gateway
  <2>3. \A n \in Messages : n # work[d].cur => tracked'[n] = tracked[n]
    BY <1>9, <1>a DEF UntrackInterrupted, Untrack
  <2> HIDE DEF w
  <2>4. ASSUME NEW n \in Messages
        PROVE  Followed(n)'
    <3> SUFFICES ASSUME ~run[n].lost
                 PROVE  Followed(n)'
      BY <2>2 DEF Followed
    <3>1. n = work[d].cur => run[n].at # "none" /\ ~Live(n)
      BY <1>a, <2>2 DEF Followed, Dropped
    <3> QED
      BY <1>a, <2>1, <2>2, <2>3, <3>1, FollowedStep DEF Live
  <2> QED
    BY <1>a, <2>1, <2>2, <2>4, HandledStep DEF TrackInv
<1>10. CASE MessageDone(d)
  <2> DEFINE w == [work[d] EXCEPT !.at = "over"]
  <2>1. OwnEntry(d, w) /\ w.at = "over"
    BY <1>10, <1>a, <1>b, OwnEntries
  <2>2. UNCHANGED <<feed, loop, run, tracked>> /\ idem' = [idem EXCEPT ![work[d].msg] = "done"]
    BY <1>10 DEF MessageDone, gateway
  <2>3. \A n \in Messages : idem'[n] = "none" => idem[n] = "none"
    BY <1>a, <2>2
  <2>4. \E to : idem' = [idem EXCEPT ![work[d].msg] = to]
    BY <2>2
  <2> HIDE DEF w
  <2>5. \A n \in Messages : Followed(n)'
    BY <1>a, <2>1, <2>2, <2>3, FollowedStep DEF Live
  <2> QED
    BY <1>a, <2>1, <2>4, <2>5, HandledStep DEF TrackInv
<1> QED
  BY <1>1, <1>2, <1>3, <1>4, <1>5, <1>6, <1>7, <1>8, <1>9, <1>10 DEF Handling

\* The consumer drops a run whose end it has been told.
LEMMA ConsumingFollowed ==
  ASSUME TypeInv, TrackInv, Consuming
  PROVE  TrackInv'
<1>a. /\ Gateway /\ HandledOnce /\ \A n \in Messages : Followed(n)
      /\ tracked \in [Messages -> {"no", "pending", "ended", "blank"}]
  BY DEF TypeInv, TrackInv, TrackedOnly
<1>b. HandledOnce'
  BY <1>a, HandledStays DEF Consuming, IgnoreEvent, PermissionRequested, PermissionResolved, RunTerminal,
     UntrackTerminal
<1>c. ASSUME feed # <<>>, feed' = Tail(feed)
      PROVE  \A i \in DOMAIN feed' : \E j \in DOMAIN feed : feed[j] = feed'[i]
  <2>1. feed \in Seq(Events)
    BY <1>a DEF Gateway, GatewayTyped
  <2>2. \A i \in DOMAIN feed' : i + 1 \in DOMAIN feed /\ feed[i + 1] = feed'[i]
    BY <1>c, <2>1
  <2> QED
    BY <2>2
<1>1. CASE IgnoreEvent \/ PermissionRequested \/ PermissionResolved
  <2>1. feed # <<>> /\ feed' = Tail(feed) /\ UNCHANGED <<idem, work, tracked, loop, run>>
    BY <1>1 DEF IgnoreEvent, PermissionRequested, PermissionResolved, Ready
  <2>2. \A n \in Messages : Followed(n)'
    BY <1>a, <1>c, <2>1, FollowedStays
  <2> QED
    BY <1>b, <2>2 DEF TrackInv
<1>2. CASE RunTerminal
  <2>1. /\ feed # <<>> /\ feed' = Tail(feed) /\ Head(feed).kind = "done" /\ loop' = Head(feed).run
        /\ tracked' = [tracked EXCEPT ![Head(feed).run] = "ended"]
        /\ UNCHANGED <<idem, work, run>>
    BY <1>2 DEF RunTerminal, Ready
  <2>2. 1 \in DOMAIN feed /\ feed[1] = Head(feed)
    BY <1>a, <2>1 DEF Gateway, GatewayTyped
  <2>3. ASSUME NEW n \in Messages
        PROVE  Followed(n)'
    <3> SUFFICES ASSUME ~run[n].lost
                 PROVE  Followed(n)'
      BY <2>1 DEF Followed
    <3>1. n = Head(feed).run => run[n].at = "ended"
      BY <1>a, <2>1, <2>2 DEF Followed, EndReported
    <3>2. EndReported(n)'
      BY <1>a, <1>c, <2>1 DEF Followed, EndReported
    <3>3. \A i \in Messages : i # Head(feed).run => tracked'[i] = tracked[i]
      BY <1>a, <2>1
    <3>4. Dropped(n)'
      BY <1>a, <2>1 DEF Followed, Dropped, Live
    <3>5. ToStart(n)'
      BY <1>a, <2>1, <3>1, <3>3 DEF Followed, ToStart
    <3>6. Live(n)' => tracked'[n] = "pending"
      BY <1>a, <2>1, <3>1, <3>3 DEF Followed, Live
    <3> QED
      BY <1>a, <2>1, <3>1, <3>2, <3>4, <3>5, <3>6 DEF Followed
  <2> QED
    BY <1>b, <2>3 DEF TrackInv
<1>3. CASE UntrackTerminal
  <2>1. /\ loop' = None /\ tracked' = [tracked EXCEPT ![loop] = "no"]
        /\ UNCHANGED <<idem, work, run, feed>>
    BY <1>3 DEF UntrackTerminal, Untrack, gateway
  <2>2. ASSUME NEW n \in Messages
        PROVE  Followed(n)'
    <3> SUFFICES ASSUME ~run[n].lost
                 PROVE  Followed(n)'
      BY <2>1 DEF Followed
    <3>1. n = loop => run[n].at = "ended"
      BY <1>a DEF Followed
    <3>2. n # loop => tracked'[n] = tracked[n]
      BY <1>a, <2>1
    <3>3. EndReported(n)' /\ loop' # n
      BY <1>a, <2>1, ConstantsAssumption DEF Followed, EndReported
    <3>4. Dropped(n)'
      BY <1>a, <2>1 DEF Followed, Dropped, Live
    <3>5. ToStart(n)'
      BY <1>a, <2>1, <3>1, <3>2 DEF Followed, ToStart
    <3>6. Live(n)' => tracked'[n] = "pending"
      BY <1>a, <2>1, <3>1, <3>2 DEF Followed, Live
    <3> QED
      BY <1>a, <2>1, <3>3, <3>4, <3>5, <3>6 DEF Followed
  <2> QED
    BY <1>b, <2>2 DEF TrackInv
<1> QED
  BY <1>1, <1>2, <1>3 DEF Consuming

\* A run that is registered goes on; one that has ended is reported as ended.
LEMMA RunStepFollowed ==
  ASSUME TypeInv, TrackInv, NEW m \in Messages, Register(m) \/ RunEnds(m)
  PROVE  TrackInv'
<1>a. /\ Gateway /\ HandledOnce /\ \A n \in Messages : Followed(n)
      /\ feed \in Seq(Events)
      /\ run \in [Messages -> [at : {"none", "accepted", "active", "ended"}, canceled : BOOLEAN,
                               times : Nat, lost : BOOLEAN]]
      /\ UNCHANGED <<idem, work, tracked, loop>>
  BY DEF TypeInv, TrackInv, Gateway, GatewayTyped, Register, RunEnds
<1>b. HandledOnce'
  BY <1>a, HandledStays
<1>c. /\ \A n \in Messages : /\ run'[n].lost = run[n].lost /\ run'[n].times = run[n].times
                             /\ Live(n)' => Live(n)
                             /\ run[n].at = "ended" => run'[n].at = "ended"
                             /\ run[n].at = "none" <=> run'[n].at = "none"
      /\ \A n \in Messages \ {m} : run'[n] = run[n]
  <2>1. /\ run[m].at \in {"accepted", "active"}
        /\ run' = [run EXCEPT ![m].at = "active"] \/ run' = [run EXCEPT ![m].at = "ended"]
    BY DEF Register, RunEnds
  <2>2. \A n \in Messages \ {m} : run'[n] = run[n]
    BY <1>a, <2>1
  <2>3. /\ run'[m].lost = run[m].lost /\ run'[m].times = run[m].times
        /\ run'[m].canceled = run[m].canceled /\ run'[m].at \in {"active", "ended"}
    BY <1>a, <2>1
  <2> QED
    BY <2>1, <2>2, <2>3 DEF Live
<1>1. \A i \in DOMAIN feed' : feed'[i].kind = "done" =>
        \/ \E j \in DOMAIN feed : feed[j] = feed'[i]
        \/ feed'[i].run = m /\ run'[m].at = "ended"
  <2>1. CASE Register(m)
    BY <2>1 DEF Register
  <2>2. CASE RunEnds(m)
    <3> DEFINE e == Event("done", m, None)
    <3>1. PICK i \in 1 .. Len(feed) + 1 : feed' = InsertAt(feed, i, e)
      BY <2>2 DEF RunEnds
    <3>2. e \in Events /\ e.run = m
      BY DEF Events, Event
    <3>3. run'[m].at = "ended"
      BY <2>2, <1>a DEF RunEnds
    <3> HIDE DEF e
    <3>4. \A j \in DOMAIN feed' : feed'[j] = e \/ \E k \in DOMAIN feed : feed'[j] = feed[k]
      BY <1>a, <3>1, <3>2, FeedInserted
    <3> QED
      BY <3>2, <3>3, <3>4
  <2> QED
    BY <2>1, <2>2
<1>2. ASSUME NEW n \in Messages
      PROVE  Followed(n)'
  <2> SUFFICES ASSUME ~run[n].lost
               PROVE  Followed(n)'
    BY <1>c DEF Followed
  <2>1. EndReported(n)'
    BY <1>a, <1>c, <1>1 DEF Followed, EndReported
  <2>2. Dropped(n)'
    BY <1>a, <1>c DEF Followed, Dropped
  <2>3. ToStart(n)'
    BY <1>a, <1>c DEF Followed, ToStart
  <2> QED
    BY <1>a, <1>c, <2>1, <2>2, <2>3 DEF Followed
<1> QED
  BY <1>b, <1>2 DEF TrackInv

\* Nothing else touches a run or the table, and no other event reports an end.
LEMMA OtherFollowed ==
  ASSUME TypeInv, TrackInv, UNCHANGED <<idem, work, tracked, loop, run>>,
         \/ feed' = feed
         \/ \E e \in Events : e.kind # "done" /\ feed' = Append(feed, e)
  PROVE  TrackInv'
<1>a. feed \in Seq(Events) /\ HandledOnce /\ \A n \in Messages : Followed(n)
  BY DEF TypeInv, TrackInv, Gateway, GatewayTyped
<1>1. \A i \in DOMAIN feed' : feed'[i].kind = "done" => \E j \in DOMAIN feed : feed[j] = feed'[i]
  <2>1. CASE \E e \in Events : e.kind # "done" /\ feed' = Append(feed, e)
    <3>1. PICK e \in Events : e.kind # "done" /\ feed' = Append(feed, e)
      BY <2>1
    <3>2. \A i \in DOMAIN feed' : feed'[i] = e \/ (i \in DOMAIN feed /\ feed[i] = feed'[i])
      BY <1>a, <3>1
    <3> QED
      BY <3>1, <3>2
  <2> QED
    BY <2>1
<1>2. HandledOnce' /\ \A n \in Messages : Followed(n)'
  BY <1>a, <1>1, HandledStays, FollowedStays
<1> QED
  BY <1>2 DEF TrackInv

LEMMA NextFollowed ==
  ASSUME TypeInv, TrackInv, [Next]_vars
  PROVE  TrackInv'
<1>1. CASE UNCHANGED vars
  BY <1>1, OtherFollowed DEF vars, gateway
<1>2. CASE \E d \in Deliveries : Handling(d)
  BY <1>2, HandlingFollowed
<1>3. CASE Consuming
  BY <1>3, ConsumingFollowed
<1>4. ASSUME NEW k \in Clicks, Clicking(k)
      PROVE  TrackInv'
  <2>1. UNCHANGED <<idem, work, tracked, loop, run, feed>>
    BY <1>4 DEF Clicking, Click, ResolvePermission, ResolvePermissionFails, UpdateApproval, gateway
  <2> QED
    BY <2>1, OtherFollowed
<1>5. ASSUME NEW p \in Procs, StartUpdate(p) \/ EndUpdate(p)
      PROVE  TrackInv'
  <2>1. UNCHANGED <<idem, work, tracked, loop, run, feed>>
    BY <1>5 DEF StartUpdate, EndUpdate, gateway
  <2> QED
    BY <2>1, OtherFollowed
<1>6. CASE \E m \in Messages : Register(m) \/ RunEnds(m)
  BY <1>6, RunStepFollowed
<1>7. ASSUME NEW q \in Requests, Ask(q) \/ OtherAnswers(q) \/ Report(q)
      PROVE  TrackInv'
  <2>1. UNCHANGED <<idem, work, tracked, loop, run>>
    BY <1>7 DEF Ask, OtherAnswers, Report
  <2>2. CASE OtherAnswers(q)
    BY <2>1, <2>2, OtherFollowed DEF OtherAnswers
  <2>3. ASSUME Ask(q) \/ Report(q)
        PROVE  TrackInv'
    <3>1. PICK kind \in {"requested", "resolved"} : feed' = Append(feed, Event(kind, RunOf[q], q))
      BY <2>3 DEF Ask, Report
    <3>2. Event(kind, RunOf[q], q) \in Events /\ Event(kind, RunOf[q], q).kind # "done"
      BY DEF Events, Event
    <3> QED
      BY <2>1, <3>1, <3>2, OtherFollowed
  <2> QED
    BY <1>7, <2>2, <2>3
<1> QED
  BY <1>1, <1>2, <1>3, <1>4, <1>5, <1>6, <1>7 DEF Next

LEMMA InitFollowed ==
  ASSUME Init
  PROVE  TrackInv
<1>1. HandledOnce
  BY DEF Init, HandledOnce, Handled
<1>2. ASSUME NEW m \in Messages
      PROVE  Followed(m)
  <2>1. EndReported(m) /\ loop # m
    BY ConstantsAssumption DEF Init, EndReported
  <2>2. Dropped(m) /\ ToStart(m)
    BY DEF Init, Dropped, ToStart
  <2> QED
    BY <2>1, <2>2 DEF Init, Followed, Live
<1> QED
  BY <1>1, <1>2 DEF TrackInv

LEMMA FollowedAlways == Spec => [](TypeInv /\ TrackInv)
<1>1. Init => TypeInv /\ TrackInv
  BY InitTyped, InitFollowed
<1>2. TypeInv /\ TrackInv /\ [Next]_vars => (TypeInv /\ TrackInv)'
  BY NextTyped, NextFollowed
<1> QED
  BY <1>1, <1>2, PTL DEF Spec

\* Unless the answer to its start was lost, a message has one run, however often
\* it is delivered, and the adapter tracks the run while it goes on: neither the
\* handler of another message nor a late card nor the consumer of events makes it
\* forget a run that still waits for answers (TryStart, trackSession, untrackRun).
THEOREM RunsAreTracked == Spec => []OneTrackedRun
<1>1. TypeInv /\ TrackInv => OneTrackedRun
  <2> SUFFICES ASSUME TrackInv, NEW m \in Messages, ~run[m].lost
               PROVE  run[m].times <= 1 /\ (Live(m) => tracked[m] = "pending")
    BY DEF OneTrackedRun
  <2>1. run[m].times \in {0, 1} /\ (Live(m) => tracked[m] = "pending")
    BY DEF TrackInv, Followed
  <2> QED
    BY <2>1
<1> QED
  BY <1>1, FollowedAlways, PTL

-----------------------------------------------------------------------------
(* Of two messages the one that looks at the table later cancels the run of   *)
(* the other.                                                                 *)

\* Steps of others make no two runs rivals.
LEMMA RivalsStay ==
  ASSUME RivalInv, UNCHANGED <<idem, work, missed>>,
         \A m \in Messages : Live(m)' /\ ~run'[m].lost => Live(m) /\ ~run[m].lost
  PROVE  RivalInv'
<1> SUFFICES ASSUME NEW m \in Messages, NEW n \in Messages, m # n, Rivals(m, n)'
             PROVE  (ToInterrupt(m, n) \/ ToInterrupt(n, m))'
  BY DEF RivalInv
<1>1. Rivals(m, n)
  BY DEF Rivals, Looked, HasLooked
<1> QED
  BY <1>1 DEF RivalInv, ToInterrupt, HasLooked

\* Neither does the step of a handler that has looked before, or does not look.
LEMMA RivalsBefore ==
  ASSUME NEW d \in Deliveries, NEW w, OwnEntry(d, w), NEW m \in Messages, NEW n \in Messages,
         Rivals(m, n)',
         \A l \in Messages : idem'[l] = "done" => Looked(l),
         w.at \in {"interrupt", "mark", "untrack"} => work[d].at \in {"interrupt", "mark", "untrack"},
         missed \subseteq missed',
         \A l \in {m, n} : Live(l)' /\ ~run'[l].lost => Live(l) /\ ~run[l].lost
  PROVE  Rivals(m, n)
<1>1. \A e \in Deliveries, l \in Messages : HasLooked(e, l)' => HasLooked(e, l)
  BY DEF HasLooked, OwnEntry
<1>2. \A l \in Messages : Looked(l)' => Looked(l)
  BY <1>1 DEF Looked
<1> QED
  BY <1>2 DEF Rivals

\* A handler may be through with a run only when it is no rival any more.
LEMMA RivalsStep ==
  ASSUME RivalInv, NEW d \in Deliveries, NEW w, OwnEntry(d, w),
         \A m, n \in Messages : m # n /\ Rivals(m, n)' =>
           /\ Rivals(m, n)
           /\ HasLooked(d, m) /\ n \in work[d].left =>
                w.at \in {"interrupt", "mark", "untrack"} /\ n \in w.left
  PROVE  RivalInv'
<1> SUFFICES ASSUME NEW m \in Messages, NEW n \in Messages, m # n, Rivals(m, n)'
             PROVE  (ToInterrupt(m, n) \/ ToInterrupt(n, m))'
  BY DEF RivalInv
<1>1. Rivals(m, n) /\ Rivals(n, m)'
  BY DEF Rivals
<1>2. ASSUME NEW a \in Messages, NEW b \in Messages, a # b, Rivals(a, b)', ToInterrupt(a, b)
      PROVE  ToInterrupt(a, b)'
  <2>1. PICK e \in Deliveries : HasLooked(e, a) /\ b \in work[e].left
    BY <1>2 DEF ToInterrupt
  <2>2. HasLooked(e, a)' /\ b \in work'[e].left
    BY <1>2, <2>1 DEF HasLooked, OwnEntry
  <2> QED
    BY <2>2 DEF ToInterrupt
<1> QED
  BY <1>1, <1>2 DEF RivalInv

LEMMA ReceiveRivals ==
  ASSUME TypeInv, TrackInv, RivalInv, NEW d \in Deliveries, Receive(d)
  PROVE  RivalInv'
<1>1. PICK m \in Messages :
        IF idem[m] = "none"
        THEN /\ idem' = [idem EXCEPT ![m] = "pending"]
             /\ work' = [work EXCEPT ![d].at = "run", ![d].msg = m]
        ELSE /\ work' = [work EXCEPT ![d].at = "over", ![d].msg = m]
             /\ UNCHANGED idem
  BY DEF Receive
<1>2. Handlers /\ work[d].at = "off" /\ UNCHANGED <<run, missed>>
  BY DEF Receive, TypeInv, gateway
<1>3. (\A e \in Deliveries \ {d} : work'[e] = work[e]) /\ work'[d].at \in {"run", "over"}
  BY <1>1, <1>2 DEF Handlers, HandlersTyped
<1>4. \A l \in Messages : idem'[l] = "done" => idem[l] = "done"
  BY <1>1, <1>2 DEF Handlers, HandlersTyped
<1>5. /\ \A e \in Deliveries, l \in Messages : HasLooked(e, l)' <=> HasLooked(e, l)
      /\ \A e \in Deliveries, l \in Messages : HasLooked(e, l) => work'[e] = work[e]
  BY <1>2, <1>3 DEF HasLooked
<1> SUFFICES ASSUME NEW a \in Messages, NEW b \in Messages, a # b, Rivals(a, b)'
             PROVE  (ToInterrupt(a, b) \/ ToInterrupt(b, a))'
  BY DEF RivalInv
<1>6. Rivals(a, b)
  BY <1>2, <1>4, <1>5 DEF Rivals, Looked, Live
<1>7. \A x, y \in Messages : ToInterrupt(x, y) => ToInterrupt(x, y)'
  BY <1>5 DEF ToInterrupt
<1> QED
  BY <1>6, <1>7 DEF RivalInv

\* The run of a message starts before its handler looks at the table.
LEMMA SubmitRivals ==
  ASSUME TypeInv, TrackInv, RivalInv, NEW d \in Deliveries, Submit(d)
  PROVE  RivalInv'
<1> DEFINE w == [work[d] EXCEPT !.at = "carding"]
<1>1. /\ Handlers /\ HandledOnce /\ UNCHANGED <<idem, missed>> /\ work[d].at = "run"
      /\ run \in [Messages -> [at : {"none", "accepted", "active", "ended"}, canceled : BOOLEAN,
                               times : Nat, lost : BOOLEAN]]
  BY DEF Submit, TypeInv, TrackInv, Gateway, GatewayTyped
<1>2. OwnEntry(d, w) /\ w.at = "carding"
  BY <1>1, OwnEntries, WorkFacts
<1> HIDE DEF w
<1>3. PICK m \in Messages : m = work[d].msg
  BY <1>1, WorkFacts
<1>4. \A n \in Messages \ {m} : run'[n] = run[n]
  BY <1>1, <1>3 DEF Submit, Accepted
<1>5. ~Looked(m)'
  <2>1. idem[m] = "pending"
    BY <1>1, <1>3 DEF HandledOnce, Handled
  <2>2. ASSUME NEW e \in Deliveries, HasLooked(e, m)'
        PROVE  FALSE
    <3>1. e # d
      BY <1>2, <2>2 DEF HasLooked, OwnEntry
    <3>2. Handled(e) /\ Handled(d) /\ work[e].msg = work[d].msg
      BY <1>1, <1>2, <1>3, <2>2, <3>1 DEF HasLooked, OwnEntry, Handled
    <3> QED
      BY <1>1, <3>1, <3>2 DEF HandledOnce
  <2> QED
    BY <1>1, <2>1, <2>2 DEF Looked
<1>6. ASSUME NEW a \in Messages, NEW b \in Messages, a # b, Rivals(a, b)'
      PROVE  Rivals(a, b) /\ ~HasLooked(d, a)
  <2>1. a # m /\ b # m
    BY <1>5, <1>6 DEF Rivals
  <2>2. \A l \in {a, b} : Live(l)' /\ ~run'[l].lost => Live(l) /\ ~run[l].lost
    BY <1>4, <2>1 DEF Live
  <2>3. \A l \in Messages : idem'[l] = "done" => Looked(l)
    BY <1>1 DEF Looked
  <2> QED
    BY <1>1, <1>2, <1>6, <2>2, <2>3, RivalsBefore DEF HasLooked
<1> QED
  BY <1>2, <1>6, RivalsStep

\* A run whose start failed, or whose answer was lost, is no rival.
LEMMA RunFailsRivals ==
  ASSUME TypeInv, TrackInv, RivalInv, NEW d \in Deliveries, RunFails(d)
  PROVE  RivalInv'
<1> DEFINE w == [work[d] EXCEPT !.at = "over"]
<1>1. /\ Handlers /\ UNCHANGED missed /\ work[d].at = "run"
      /\ run \in [Messages -> [at : {"none", "accepted", "active", "ended"}, canceled : BOOLEAN,
                               times : Nat, lost : BOOLEAN]]
      /\ idem' = [idem EXCEPT ![work[d].msg] = "none"]
  BY DEF RunFails, TypeInv, Gateway, GatewayTyped
<1>2. OwnEntry(d, w) /\ w.at = "over"
  BY <1>1, OwnEntries, WorkFacts
<1> HIDE DEF w
<1>3. PICK m \in Messages : m = work[d].msg
  BY <1>1, WorkFacts
<1>4. \A l \in Messages : Live(l)' /\ ~run'[l].lost => Live(l) /\ ~run[l].lost
  <2>1. CASE run' = run
    BY <2>1 DEF Live
  <2>2. CASE Accepted(m, TRUE)
    <3> DEFINE r == [at |-> "accepted", canceled |-> FALSE, times |-> run[m].times + 1,
                     lost |-> run[m].lost \/ TRUE]
    <3>1. run' = [run EXCEPT ![m] = r]
      BY <2>2 DEF Accepted
    <3>2. r.lost
      OBVIOUS
    <3> HIDE DEF r
    <3> QED
      BY <1>1, <3>1, <3>2 DEF Live
  <2> QED
    BY <1>3, <2>1, <2>2 DEF RunFails
<1>5. \A l \in Messages : idem'[l] = "done" => Looked(l)
  BY <1>1, <1>3 DEF Looked, Handlers, HandlersTyped
<1>6. \A a, b \in Messages : Rivals(a, b)' => Rivals(a, b) /\ ~HasLooked(d, a)
  BY <1>1, <1>2, <1>4, <1>5, RivalsBefore DEF HasLooked
<1> QED
  BY <1>2, <1>6, RivalsStep

\* The handler finds in the table every run that goes on.
LEMMA ScanRivals ==
  ASSUME TypeInv, TrackInv, RivalInv, NEW d \in Deliveries, Scan(d)
  PROVE  RivalInv'
<1> DEFINE w == [work[d] EXCEPT !.at = "interrupt",
                   !.left = {m \in Messages \ {work[d].msg} : tracked[m] = "pending"}]
<1>1. /\ Handlers /\ UNCHANGED <<idem, run, missed>> /\ work[d].at = "scan"
      /\ \A n \in Messages : Followed(n)
  BY DEF Scan, TypeInv, TrackInv, gateway
<1>2. PICK m \in Messages : m = work[d].msg
  BY <1>1, WorkFacts
<1>3. /\ OwnEntry(d, w) /\ w.at = "interrupt"
      /\ w.left = {n \in Messages \ {m} : tracked[n] = "pending"}
  BY <1>1, <1>2, OwnEntries, WorkFacts
<1> HIDE DEF w
<1>4. ASSUME NEW n \in Messages \ {m}, Live(n)', ~run'[n].lost
      PROVE  ToInterrupt(m, n)'
  <2>1. tracked[n] = "pending"
    BY <1>1, <1>4 DEF Followed, Live
  <2>2. HasLooked(d, m)' /\ n \in work'[d].left
    BY <1>2, <1>3, <2>1 DEF HasLooked, OwnEntry
  <2> QED
    BY <2>2 DEF ToInterrupt
<1> SUFFICES ASSUME NEW a \in Messages, NEW b \in Messages, a # b, Rivals(a, b)'
             PROVE  (ToInterrupt(a, b) \/ ToInterrupt(b, a))'
  BY DEF RivalInv
<1>5. CASE a = m \/ b = m
  BY <1>4, <1>5 DEF Rivals
<1>6. CASE a # m /\ b # m
  <2>1. \A e \in Deliveries : /\ HasLooked(e, a)' => HasLooked(e, a)
                              /\ HasLooked(e, b)' => HasLooked(e, b)
    BY <1>2, <1>3, <1>6 DEF HasLooked, OwnEntry
  <2>2. Rivals(a, b)
    BY <1>1, <2>1 DEF Rivals, Looked, Live
  <2>3. ASSUME NEW x \in {a, b}, NEW y \in {a, b}, ToInterrupt(x, y)
        PROVE  ToInterrupt(x, y)'
    <3>1. PICK e \in Deliveries : HasLooked(e, x) /\ y \in work[e].left
      BY <2>3 DEF ToInterrupt
    <3>2. work'[e] = work[e]
      BY <1>1, <1>3, <3>1 DEF HasLooked, OwnEntry
    <3> QED
      BY <3>1, <3>2 DEF ToInterrupt, HasLooked
  <2> QED
    BY <2>2, <2>3 DEF RivalInv
<1> QED
  BY <1>5, <1>6

LEMMA HandlingRivals ==
  ASSUME TypeInv, TrackInv, RivalInv, NEW d \in Deliveries, Handling(d)
  PROVE  RivalInv'
<1>a. /\ Handlers /\ HandledOnce /\ \A n \in Messages : Followed(n)
      /\ run \in [Messages -> [at : {"none", "accepted", "active", "ended"}, canceled : BOOLEAN,
                               times : Nat, lost : BOOLEAN]]
      /\ idem \in [Messages -> {"none", "pending", "done"}]
  BY DEF TypeInv, TrackInv, Gateway, GatewayTyped, Handlers, HandlersTyped
<1>b. /\ work[d] \in [at : {"off", "run", "carding", "scan", "interrupt", "mark", "untrack", "over"},
                      msg : Messages \cup {None}, left : SUBSET Messages,
                      cur : Messages \cup {None}]
      /\ work[d].at # "off" => work[d].msg \in Messages
      /\ work[d].at \in {"mark", "untrack"} => work[d].cur \in Messages
  BY <1>a, WorkFacts
<1>c. \A l \in Messages : idem[l] = "done" => Looked(l)
  BY DEF Looked
<1>1. CASE Receive(d)
  BY <1>1, ReceiveRivals
<1>2. CASE Submit(d)
  BY <1>2, SubmitRivals
<1>3. CASE RunFails(d)
  BY <1>3, RunFailsRivals
<1>4. CASE StatusCardSent(d)
  <2> DEFINE w == [work[d] EXCEPT !.at = "scan"]
  <2>1. OwnEntry(d, w) /\ w.at = "scan"
    BY <1>4, <1>a, <1>b, OwnEntries
  <2>2. UNCHANGED <<idem, run, missed>> /\ work[d].at = "carding"
    BY <1>4 DEF StatusCardSent, gateway
  <2> HIDE DEF w
  <2>3. \A m, n \in Messages : Rivals(m, n)' => Rivals(m, n) /\ ~HasLooked(d, m)
    BY <1>c, <2>1, <2>2, RivalsBefore DEF HasLooked, Live
  <2> QED
    BY <2>1, <2>3, RivalsStep
<1>5. CASE Scan(d)
  BY <1>5, ScanRivals
<1>6. CASE Interrupt(d)
  <2>1. PICK m \in work[d].left :
          /\ run' = [run EXCEPT ![m].canceled = TRUE]
          /\ work' = [work EXCEPT ![d].at = "mark", ![d].cur = m]
    BY <1>6 DEF Interrupt
  <2> DEFINE w == [work[d] EXCEPT !.at = "mark", !.cur = m]
  <2>2. OwnEntry(d, w) /\ w.at = "mark" /\ w.left = work[d].left /\ m \in Messages
    <3>1. Handled(d)
      BY <1>6 DEF Interrupt, Handled
    <3> QED
      BY <1>a, <1>b, <2>1, <3>1, OwnEntries
  <2>3. UNCHANGED <<idem, missed>> /\ work[d].at = "interrupt"
    BY <1>6 DEF Interrupt
  <2>4. \A n \in Messages : Live(n)' /\ ~run'[n].lost => Live(n) /\ ~run[n].lost
    BY <1>a, <2>1, <2>2 DEF Live
  <2> HIDE DEF w
  <2>5. \A a, b \in Messages : Rivals(a, b)' => Rivals(a, b)
    BY <1>c, <2>2, <2>3, <2>4, RivalsBefore
  <2> QED
    BY <2>2, <2>5, RivalsStep
<1>7. CASE NotCanceled(d) \/ InterruptFails(d)
  <2>1. PICK m \in work[d].left :
          /\ work' = [work EXCEPT ![d].left = @ \ {m}]
          /\ missed \subseteq missed'
          /\ m \in missed' \/ run[m].at \notin {"accepted", "active"}
          /\ run' = run \/ run' = [run EXCEPT ![m].canceled = @ \/ run[m].at = "active"]
    BY <1>7 DEF NotCanceled, InterruptFails, gateway
  <2> DEFINE w == [work[d] EXCEPT !.left = @ \ {m}]
  <2>2. OwnEntry(d, w) /\ w.at = "interrupt" /\ w.left = work[d].left \ {m} /\ m \in Messages
    <3>1. Handled(d) /\ work[d].at = "interrupt"
      BY <1>7 DEF NotCanceled, InterruptFails, Handled
    <3> QED
      BY <1>a, <1>b, <2>1, <3>1, OwnEntries
  <2>3. UNCHANGED idem /\ work[d].at = "interrupt"
    BY <1>7 DEF NotCanceled, InterruptFails
  <2>4. \A n \in Messages : Live(n)' /\ ~run'[n].lost => Live(n) /\ ~run[n].lost
    BY <1>a, <2>1, <2>2 DEF Live
  <2> HIDE DEF w
  <2>5. \A a, b \in Messages : Rivals(a, b)' => Rivals(a, b)
    BY <1>c, <2>1, <2>2, <2>3, <2>4, RivalsBefore
  <2>6. ASSUME NEW a \in Messages, NEW b \in Messages, Rivals(a, b)'
        PROVE  b # m
    BY <2>1, <2>4, <2>5, <2>6 DEF Rivals, Live
  <2> QED
    BY <2>2, <2>5, <2>6, RivalsStep
<1>8. CASE MarkInterrupted(d)
  <2> DEFINE w == [work[d] EXCEPT !.at = "untrack"]
  <2>1. OwnEntry(d, w) /\ w.at = "untrack" /\ w.left = work[d].left
    BY <1>8, <1>a, <1>b, OwnEntries
  <2>2. UNCHANGED <<idem, run, missed>> /\ work[d].at = "mark"
    BY <1>8 DEF MarkInterrupted, gateway
  <2> HIDE DEF w
  <2>3. \A a, b \in Messages : Rivals(a, b)' => Rivals(a, b)
    BY <1>c, <2>1, <2>2, RivalsBefore DEF Live
  <2> QED
    BY <2>1, <2>3, RivalsStep
<1>9. CASE UntrackInterrupted(d)
  <2> DEFINE w == [work[d] EXCEPT !.at = "interrupt", !.left = @ \ {work[d].cur}, !.cur = None]
  <2>1. OwnEntry(d, w) /\ w.at = "interrupt" /\ w.left = work[d].left \ {work[d].cur}
    BY <1>9, <1>a, <1>b, OwnEntries
  <2>2. UNCHANGED <<idem, run, missed>> /\ work[d].at = "untrack"
    BY <1>9 DEF UntrackInterrupted, gateway
  <2> HIDE DEF w
  <2>3. \A a, b \in Messages : Rivals(a, b)' => Rivals(a, b)
    BY <1>c, <2>1, <2>2, RivalsBefore DEF Live
  <2>4. ASSUME NEW a \in Messages, NEW b \in Messages, Rivals(a, b)
        PROVE  b # work[d].cur
    BY <1>a, <2>2, <2>4 DEF Rivals, Followed, Dropped
  <2> QED
    BY <2>1, <2>3, <2>4, RivalsStep
<1>10. CASE MessageDone(d)
  <2> DEFINE w == [work[d] EXCEPT !.at = "over"]
  <2>1. OwnEntry(d, w) /\ w.at = "over"
    BY <1>10, <1>a, <1>b, OwnEntries
  <2>2. /\ UNCHANGED <<run, missed>> /\ idem' = [idem EXCEPT ![work[d].msg] = "done"]
        /\ work[d].at = "interrupt" /\ work[d].left = {}
    BY <1>10 DEF MessageDone, gateway
  <2> HIDE DEF w
  <2>3. \A l \in Messages : idem'[l] = "done" => Looked(l)
    <3>1. HasLooked(d, work[d].msg)
      BY <2>2 DEF HasLooked
    <3> QED
      BY <1>a, <2>2, <3>1 DEF Looked
  <2>4. \A a, b \in Messages : Rivals(a, b)' => Rivals(a, b)
    BY <2>1, <2>2, <2>3, RivalsBefore DEF Live
  <2> QED
    BY <2>1, <2>2, <2>4, RivalsStep
<1> QED
  BY <1>1, <1>2, <1>3, <1>4, <1>5, <1>6, <1>7, <1>8, <1>9, <1>10 DEF Handling

LEMMA NextRivals ==
  ASSUME TypeInv, TrackInv, RivalInv, [Next]_vars
  PROVE  RivalInv'
<1>a. run \in [Messages -> [at : {"none", "accepted", "active", "ended"}, canceled : BOOLEAN,
                            times : Nat, lost : BOOLEAN]]
  BY DEF TypeInv, Gateway, GatewayTyped
<1>1. CASE \E d \in Deliveries : Handling(d)
  BY <1>1, HandlingRivals
<1>2. ASSUME NEW m \in Messages, Register(m) \/ RunEnds(m)
      PROVE  RivalInv'
  <2>1. /\ UNCHANGED <<idem, work, missed>> /\ run[m].at \in {"accepted", "active"}
        /\ run' = [run EXCEPT ![m].at = "active"] \/ run' = [run EXCEPT ![m].at = "ended"]
    BY <1>2 DEF Register, RunEnds
  <2>2. \A n \in Messages \ {m} : run'[n] = run[n]
    BY <1>a, <2>1
  <2>3. /\ run'[m].lost = run[m].lost /\ run'[m].canceled = run[m].canceled
        /\ run'[m].at \in {"active", "ended"}
    BY <1>a, <2>1
  <2>4. \A n \in Messages : Live(n)' /\ ~run'[n].lost => Live(n) /\ ~run[n].lost
    BY <2>1, <2>2, <2>3 DEF Live
  <2> QED
    BY <2>1, <2>4, RivalsStay
<1>3. ASSUME UNCHANGED <<idem, work, run, missed>>
      PROVE  RivalInv'
  BY <1>3, RivalsStay DEF Live
<1>4. CASE UNCHANGED vars
  BY <1>3, <1>4 DEF vars, gateway
<1>5. CASE Consuming
  <2>1. UNCHANGED <<idem, work, run, missed>>
    BY <1>5 DEF Consuming, IgnoreEvent, PermissionRequested, PermissionResolved, RunTerminal,
       UntrackTerminal, gateway
  <2> QED
    BY <1>3, <2>1
<1>6. ASSUME NEW k \in Clicks, Clicking(k)
      PROVE  RivalInv'
  <2>1. UNCHANGED <<idem, work, run, missed>>
    BY <1>6 DEF Clicking, Click, ResolvePermission, ResolvePermissionFails, UpdateApproval, gateway
  <2> QED
    BY <1>3, <2>1
<1>7. ASSUME NEW p \in Procs, StartUpdate(p) \/ EndUpdate(p)
      PROVE  RivalInv'
  <2>1. UNCHANGED <<idem, work, run, missed>>
    BY <1>7 DEF StartUpdate, EndUpdate, gateway
  <2> QED
    BY <1>3, <2>1
<1>8. ASSUME NEW q \in Requests, Ask(q) \/ OtherAnswers(q) \/ Report(q)
      PROVE  RivalInv'
  BY <1>3, <1>8 DEF Ask, OtherAnswers, Report
<1> QED
  BY <1>1, <1>2, <1>4, <1>5, <1>6, <1>7, <1>8 DEF Next

\* Of two messages at the same time at most one keeps its run once both handlers
\* are through: whichever looks at the table later finds the run of the other,
\* which is tracked while it goes on, and lets go of it only when it is canceled,
\* over, or known to have been missed (interruptSessionRuns).
THEOREM OneRunIsLeft == Spec => []OneRunLeft
<1>1. Init => RivalInv
  BY DEF Init, RivalInv, Rivals, Live
<1>2. TypeInv /\ TrackInv /\ RivalInv /\ [Next]_vars => RivalInv'
  BY NextRivals
<1>3. TrackInv /\ RivalInv => OneRunLeft
  <2> SUFFICES ASSUME TrackInv, RivalInv, NEW m \in Messages, NEW n \in Messages, m # n,
                      idem[m] = "done", idem[n] = "done", Live(m), Live(n),
                      m \notin missed, n \notin missed, ~run[m].lost, ~run[n].lost
               PROVE  FALSE
    BY DEF OneRunLeft
  <2>1. ToInterrupt(m, n) \/ ToInterrupt(n, m)
    BY DEF RivalInv, Rivals, Looked
  <2>2. \A l \in {m, n}, d \in Deliveries : ~HasLooked(d, l)
    BY DEF TrackInv, HandledOnce, Handled, HasLooked
  <2> QED
    BY <2>1, <2>2 DEF ToInterrupt
<1> QED
  BY <1>1, <1>2, <1>3, FollowedAlways, PTL DEF Spec

-----------------------------------------------------------------------------
(* What is on the card of a run: the inductive invariant.                     *)

Asked(q) == ask[q].at # "none"
IsRequested(e, q) == e.kind = "requested" /\ e.req = q
IsResolved(e, q) == e.kind = "resolved" /\ e.req = q
Announced(q) == \E i \in DOMAIN feed : IsRequested(feed[i], q)
Reported(q) == \E i \in DOMAIN feed : IsResolved(feed[i], q)

\* A run is started before it asks, waits for one approval at a time, and leaves
\* its requests only when it ends.
AskInv ==
  /\ \A q \in Requests : ~run[RunOf[q]].lost =>
       /\ Asked(q) => run[RunOf[q]].times # 0
       /\ ask[q].at = "open" => run[RunOf[q]].at # "ended"
       /\ ask[q].at = "left" => run[RunOf[q]].at = "ended"
  /\ \A q, r \in Requests :
       ask[q].at = "open" /\ ask[r].at = "open" /\ RunOf[q] = RunOf[r] => q = r

\* A request is announced once, before its end is reported, and the one that is
\* open is announced after all others of the run.
FeedInv ==
  /\ \A q \in Requests : Announced(q) => Asked(q) /\ node[q] = "none"
  /\ \A q \in Requests : Reported(q) => ask[q].at = "told"
  /\ \A q \in Requests, i, j \in DOMAIN feed :
       IsRequested(feed[i], q) /\ IsRequested(feed[j], q) => i = j
  /\ \A q \in Requests, i, j \in DOMAIN feed :
       IsRequested(feed[i], q) /\ IsResolved(feed[j], q) => i < j
  /\ \A q, r \in Requests, i \in DOMAIN feed :
       IsRequested(feed[i], r) /\ ask[q].at = "open" /\ RunOf[q] = RunOf[r] /\ q # r
         => \E j \in DOMAIN feed : i < j /\ IsRequested(feed[j], q)

\* The updates process p has not made yet; all are of one run.
Undone(p) == ToSet(box[p].ops) \cup {box[p].flight}
OneRunEach == \A p \in Procs : \A o, u \in Undone(p) \cap Ops : RunOf[o.req] = RunOf[u.req]

\* What the adapter knows of a request, it knows from the gateway.
KnownInv ==
  /\ \A q \in Requests : node[q] # "none" => Asked(q)
  /\ \A q \in Requests : node[q] \in Decisions => ask[q].at # "open"
  /\ \A k \in Clicks : click[k].at = "update" => ask[click[k].req].at \notin {"none", "open"}
  /\ \A k \in Clicks : click[k].at # "over" => Idle(k)
  /\ \A p \in Procs : \A o \in Undone(p) \cap Ops : Asked(o.req)

\* The adapter has followed the run from its start.
Kept(m) == tracked[m] = "pending" /\ ~run[m].lost

HeardInv ==
  \A q \in Requests : Kept(RunOf[q]) =>
    /\ ask[q].at \in {"open", "taken", "told"} => node[q] # "none" \/ Announced(q)
    /\ ask[q].at = "told" => node[q] \in Decisions \/ Reported(q)

\* One request has the card; the others that are undecided wait for it.
Lined(m) ==
  /\ active[m] # None => active[m] \in RequestsOf(m) /\ node[active[m]] = "displaying"
  /\ \A q \in RequestsOf(m) : node[q] = "displaying" => active[m] = q
  /\ \A q \in RequestsOf(m) : node[q] = "queued" => q \in ToSet(stack[m]) /\ active[m] # None

OpsOf(p, m) == {o \in Undone(p) \cap Ops : o.req \in RequestsOf(m)}
Edits(o) == o.kind \in {"pending", "resolved"}

\* The updates of process p begin with, or consist of, the sending of q's card.
Sending(p, q) ==
  \/ box[p].ops = <<Op("send", q)>> /\ box[p].flight = NoOp
  \/ box[p].ops = <<>> /\ box[p].flight = Op("send", q)

\* The updates of p end with q on the card.
Bringing(p, q) ==
  \/ box[p].ops = <<Op("pending", q)>> /\ (box[p].flight = NoOp \/ \E r \in RequestsOf(RunOf[q]) : box[p].flight = Op("resolved", r))
  \/ box[p].ops = <<>> /\ box[p].flight = Op("pending", q)
  \/ box[p].flight = NoOp /\ \E r \in RequestsOf(RunOf[q]) : box[p].ops = <<Op("resolved", r), Op("pending", q)>>

Coming(q) == \E p \in Procs : box[p].fresh /\ Bringing(p, q)

\* Request q is on the card and nothing will change that.
Settled(m, q) ==
  /\ card[m] = [req |-> q, resolved |-> FALSE]
  /\ \A p \in Procs : OpsOf(p, m) # {} => ~box[p].fresh /\ box[p].flight = NoOp

\* A card is sent by the consumer of events, and only then edited, by one process
\* at a time; while there is none no request waits.
NoEditYet(m) == card[m] = NoCard => \A p \in Procs : \A o \in OpsOf(p, m) : ~Edits(o)
SentByLoop(m) ==
  \A p \in Procs : \A o \in OpsOf(p, m) :
    o.kind = "send" => p = Loop /\ card[m] = NoCard /\ Sending(p, o.req)
OneFresh(m) ==
  \A p, r \in Procs :
    box[p].fresh /\ box[r].fresh /\ OpsOf(p, m) # {} /\ OpsOf(r, m) # {} => p = r
OneEdit(m) ==
  \A p, r \in Procs :
    /\ box[p].flight \in OpsOf(p, m) /\ Edits(box[p].flight)
    /\ box[r].flight \in OpsOf(r, m) /\ Edits(box[r].flight)
    => p = r
BeingSent(m) ==
  card[m] = NoCard /\ active[m] # None =>
    /\ box[Loop].fresh /\ Sending(Loop, active[m])
    /\ \A q \in RequestsOf(m) : node[q] # "queued"
BeingShown(m) ==
  (active[m] # None /\ ask[active[m]].at = "open" /\ card[m] # NoCard) =>
    Coming(active[m]) \/ Settled(m, active[m])

CardInv(m) ==
  NoEditYet(m) /\ SentByLoop(m) /\ OneFresh(m) /\ OneEdit(m) /\ BeingSent(m) /\ BeingShown(m)

CardsInv ==
  \A m \in Messages : m \notin mishap => Lined(m) /\ (Kept(m) => CardInv(m))

ShownInv == AskInv /\ FeedInv /\ OneRunEach /\ KnownInv /\ HeardInv /\ CardsInv

-----------------------------------------------------------------------------
(* What a step is to a run that the adapter follows, and to a request.        *)

\* No run is started again, ends twice, or is tracked again once it has asked.
RunMoves(m) ==
  ~run'[m].lost =>
    /\ ~run[m].lost
    /\ run[m].times # 0 => run'[m].times # 0
    /\ run[m].times # 0 /\ run[m].at = "ended" => run'[m].at = "ended"
    /\ run'[m].at = "ended" /\ run[m].at # "ended" => \A q \in RequestsOf(m) : ask'[q].at # "open"
    /\ tracked'[m] = "pending" => tracked[m] = "pending" \/ run[m].times = 0

AskMoves(q) ==
  \/ ask'[q] = ask[q]
  \/ /\ ask[q].at = "none" /\ ask'[q].at = "open"
     /\ run[RunOf[q]].at = "active" /\ UNCHANGED run
     /\ \A r \in RequestsOf(RunOf[q]) \ {q} : ask[r].at # "open" /\ ask'[r] = ask[r]
  \/ ask[q].at = "open" /\ ask'[q].at = "taken"
  \/ ask[q].at = "taken" /\ ask'[q].at = "told" /\ ask'[q].decision = ask[q].decision
  \/ ask[q].at \in {"open", "taken"} /\ ask'[q].at = "left" /\ run'[RunOf[q]].at = "ended"

LEMMA RunMovesKept ==
  ASSUME UNCHANGED <<run, tracked>>, NEW m \in Messages
  PROVE  RunMoves(m)
BY DEF RunMoves

LEMMA HandlingRuns ==
  ASSUME TypeInv, TrackInv, NEW d \in Deliveries, Handling(d), NEW m \in Messages
  PROVE  RunMoves(m)
<1>1. /\ run \in [Messages -> [at : {"none", "accepted", "active", "ended"}, canceled : BOOLEAN,
                               times : Nat, lost : BOOLEAN]]
      /\ tracked \in [Messages -> {"no", "pending", "ended", "blank"}]
      /\ Handlers /\ Followed(m)
  BY DEF TypeInv, TrackInv, Gateway, GatewayTyped, TrackedOnly
<1>2. CASE Receive(d)
  <2>1. PICK n \in Messages : IF idem[n] = "none" THEN tracked' = [tracked EXCEPT ![n] = "pending"]
                                                  ELSE tracked' = tracked
    BY <1>2 DEF Receive
  <2>2. tracked'[m] = tracked[m] \/ (idem[m] = "none" /\ tracked'[m] = "pending")
    BY <1>1, <2>1
  <2>3. run' = run
    BY <1>2 DEF Receive, gateway
  <2> QED
    BY <1>1, <2>2, <2>3 DEF RunMoves, Followed
<1>3. CASE Submit(d)
  <2>1. PICK n \in Messages : n = work[d].msg
    BY <1>1, <1>3, WorkFacts DEF Submit
  <2>2. /\ run' = [run EXCEPT ![n] = [at |-> "accepted", canceled |-> FALSE, times |-> @.times + 1,
                                      lost |-> @.lost \/ FALSE]]
        /\ tracked' = tracked /\ work[d].at = "run"
    BY <1>3, <2>1 DEF Submit, Accepted
  <2>3. CASE m = n
    <3>1. run'[m].times # 0 /\ run'[m].at = "accepted" /\ run'[m].lost = run[m].lost
      BY <1>1, <2>2, <2>3
    <3>2. ~run[m].lost => run[m].times = 0
      BY <1>1, <2>1, <2>2, <2>3 DEF Followed, ToStart
    <3> QED
      BY <2>2, <3>1, <3>2 DEF RunMoves
  <2>4. CASE m # n
    <3>1. run'[m] = run[m]
      BY <1>1, <2>2, <2>4
    <3> QED
      BY <2>2, <3>1 DEF RunMoves
  <2> QED
    BY <2>3, <2>4
<1>4. CASE RunFails(d)
  <2>1. PICK n \in Messages : n = work[d].msg
    BY <1>1, <1>4, WorkFacts DEF RunFails
  <2>2. /\ \/ run' = [run EXCEPT ![n] = [at |-> "accepted", canceled |-> FALSE, times |-> @.times + 1,
                                         lost |-> @.lost \/ TRUE]]
           \/ run' = run
        /\ tracked' = [tracked EXCEPT ![n] = "no"]
    BY <1>4, <2>1 DEF RunFails, Accepted, Untrack
  <2>3. run'[m] = run[m] \/ run'[m].lost
    <3> DEFINE started == [at |-> "accepted", canceled |-> FALSE, times |-> run[n].times + 1,
                           lost |-> run[n].lost \/ TRUE]
    <3>1. started.lost
      OBVIOUS
    <3>2. run' = [run EXCEPT ![n] = started] \/ run' = run
      BY <2>2
    <3> HIDE DEF started
    <3> QED
      BY <1>1, <3>1, <3>2
  <2>4. tracked'[m] = tracked[m] \/ tracked'[m] = "no"
    BY <1>1, <2>2
  <2> QED
    BY <2>3, <2>4 DEF RunMoves
<1>5. CASE StatusCardSent(d) \/ MarkInterrupted(d) \/ UntrackInterrupted(d)
  <2>1. run' = run
    BY <1>5 DEF StatusCardSent, MarkInterrupted, UntrackInterrupted, gateway
  <2>2. \E n \in Messages, t \in {"no", "blank", "ended"} :
          tracked' = [tracked EXCEPT ![n] = t] \/ tracked' = tracked
    BY <1>1, <1>5, WorkFacts DEF StatusCardSent, MarkInterrupted, UntrackInterrupted, Untrack
  <2>3. tracked'[m] = tracked[m] \/ tracked'[m] # "pending"
    BY <1>1, <2>2
  <2> QED
    BY <2>1, <2>3 DEF RunMoves
<1>6. CASE Interrupt(d) \/ InterruptFails(d)
  <2>1. tracked' = tracked
    BY <1>6 DEF Interrupt, InterruptFails
  <2>2. /\ run'[m].at = run[m].at /\ run'[m].times = run[m].times /\ run'[m].lost = run[m].lost
    BY <1>1, <1>6 DEF Interrupt, InterruptFails
  <2> QED
    BY <2>1, <2>2 DEF RunMoves
<1>7. CASE Scan(d) \/ NotCanceled(d) \/ MessageDone(d)
  BY <1>7, RunMovesKept DEF Scan, NotCanceled, MessageDone, gateway
<1> QED
  BY <1>2, <1>3, <1>4, <1>5, <1>6, <1>7 DEF Handling, RunMoves

LEMMA RunsMove ==
  ASSUME TypeInv, TrackInv, [Next]_vars, NEW m \in Messages
  PROVE  RunMoves(m)
<1>1. /\ run \in [Messages -> [at : {"none", "accepted", "active", "ended"}, canceled : BOOLEAN,
                               times : Nat, lost : BOOLEAN]]
      /\ tracked \in [Messages -> {"no", "pending", "ended", "blank"}]
      /\ ask \in [Requests -> [at : {"none", "open", "taken", "told", "left"}, decision : Decisions \cup {None}]]
      /\ feed \in Seq(Events) /\ loop \in Messages \cup {None}
  BY DEF TypeInv, TrackInv, Gateway, GatewayTyped, TrackedOnly, Handlers, HandlersTyped
<1>2. CASE \E d \in Deliveries : Handling(d)
  BY <1>2, HandlingRuns
<1>3. CASE Consuming
  <2>1. run' = run
    BY <1>3 DEF Consuming, IgnoreEvent, PermissionRequested, PermissionResolved, RunTerminal,
                UntrackTerminal, gateway
  <2>2. tracked'[m] = tracked[m] \/ tracked'[m] # "pending"
    BY <1>1, <1>3 DEF Consuming, IgnoreEvent, PermissionRequested, PermissionResolved, RunTerminal,
                      UntrackTerminal, Untrack
  <2> QED
    BY <2>1, <2>2 DEF RunMoves
<1>4. CASE \E k \in Clicks : Clicking(k)
  BY <1>4, RunMovesKept DEF Clicking, Click, ResolvePermission, ResolvePermissionFails, UpdateApproval, gateway
<1>5. CASE \E p \in Procs : StartUpdate(p) \/ EndUpdate(p)
  BY <1>5, RunMovesKept DEF StartUpdate, EndUpdate, gateway
<1>6. ASSUME NEW n \in Messages, Register(n) \/ RunEnds(n) PROVE RunMoves(m)
  <2>1. tracked' = tracked
    BY <1>6 DEF Register, RunEnds
  <2>2. CASE Register(n)
    <3>1. /\ run'[m].times = run[m].times /\ run'[m].lost = run[m].lost
          /\ run'[m].at = run[m].at \/ (run[m].at = "accepted" /\ run'[m].at = "active")
      BY <1>1, <2>2 DEF Register
    <3> QED
      BY <2>1, <3>1 DEF RunMoves
  <2>3. CASE RunEnds(n) /\ m = n
    <3>1. /\ run'[m].times = run[m].times /\ run'[m].lost = run[m].lost
          /\ run'[m].at = "ended"
      BY <1>1, <2>3 DEF RunEnds
    <3>2. \A q \in RequestsOf(m) : ask'[q].at # "open"
      BY <1>1, <2>3 DEF RunEnds, RequestsOf
    <3> QED
      BY <2>1, <3>1, <3>2 DEF RunMoves
  <2>4. CASE RunEnds(n) /\ m # n
    <3>1. run'[m] = run[m]
      BY <1>1, <2>4 DEF RunEnds
    <3> QED
      BY <2>1, <3>1 DEF RunMoves
  <2> QED
    BY <1>6, <2>2, <2>3, <2>4
<1>7. CASE \E q \in Requests : Ask(q) \/ OtherAnswers(q) \/ Report(q)
  BY <1>7, RunMovesKept DEF Ask, OtherAnswers, Report
<1>8. CASE UNCHANGED vars
  BY <1>8, RunMovesKept DEF vars, gateway
<1> QED
  BY <1>2, <1>3, <1>4, <1>5, <1>6, <1>7, <1>8 DEF Next

LEMMA AnswerMoves ==
  ASSUME Gateway, NEW r \in Requests, NEW d, Answer(r, d), NEW q \in Requests
  PROVE  AskMoves(q)
BY DEF Answer, AskMoves, Gateway, GatewayTyped

LEMMA AsksMove ==
  ASSUME TypeInv, [Next]_vars, NEW q \in Requests
  PROVE  AskMoves(q)
<1>1. /\ ask \in [Requests -> [at : {"none", "open", "taken", "told", "left"}, decision : Decisions \cup {None}]]
      /\ Gateway /\ Handlers
      /\ run \in [Messages -> [at : {"none", "accepted", "active", "ended"}, canceled : BOOLEAN,
                               times : Nat, lost : BOOLEAN]]
      /\ RunOf[q] \in Messages
  BY ConstantsAssumption DEF TypeInv, Gateway, GatewayTyped
<1>2. CASE \E d \in Deliveries : Handling(d)
  BY <1>2 DEF Handling, Receive, Submit, RunFails, StatusCardSent, Scan, Interrupt, NotCanceled, InterruptFails,
              MarkInterrupted, UntrackInterrupted, MessageDone, gateway, AskMoves
<1>3. CASE Consuming
  BY <1>3 DEF Consuming, IgnoreEvent, PermissionRequested, PermissionResolved, RunTerminal, UntrackTerminal,
              gateway, AskMoves
<1>4. ASSUME NEW k \in Clicks, Clicking(k) PROVE AskMoves(q)
  <2>1. CASE Click(k) \/ UpdateApproval(k)
    BY <2>1 DEF Click, UpdateApproval, gateway, AskMoves
  <2>2. CASE ResolvePermission(k) \/ ResolvePermissionFails(k)
    <3>1. click[k].at = "call" /\ click[k].req \in Requests
      BY <1>1, <2>2 DEF ResolvePermission, ResolvePermissionFails, Handlers
    <3>2. ask' = ask \/ Answer(click[k].req, click[k].decision)
      BY <2>2 DEF ResolvePermission, ResolvePermissionFails
    <3> QED
      BY <1>1, <3>1, <3>2, AnswerMoves DEF AskMoves
  <2> QED
    BY <1>4, <2>1, <2>2 DEF Clicking
<1>5. CASE \E p \in Procs : StartUpdate(p) \/ EndUpdate(p)
  BY <1>5 DEF StartUpdate, EndUpdate, gateway, AskMoves
<1>6. ASSUME NEW n \in Messages, Register(n) \/ RunEnds(n) PROVE AskMoves(q)
  <2>1. CASE Register(n)
    BY <2>1 DEF Register, AskMoves
  <2>2. CASE RunEnds(n)
    BY <1>1, <2>2 DEF RunEnds, AskMoves
  <2> QED
    BY <1>6, <2>1, <2>2
<1>7. ASSUME NEW r \in Requests, Ask(r) PROVE AskMoves(q)
  <2>1. run[RunOf[r]].at = "active" /\ ask[r].at = "none" /\ ask' = [ask EXCEPT ![r].at = "open"] /\ run' = run
        /\ \A s \in RequestsOf(RunOf[r]) : ask[s].at # "open"
    BY <1>7 DEF Ask
  <2>2. CASE q = r
    <3>1. ask'[q].at = "open" /\ \A s \in Requests \ {q} : ask'[s] = ask[s]
      BY <1>1, <2>1, <2>2
    <3> QED
      BY <2>1, <2>2, <3>1 DEF AskMoves, RequestsOf
  <2>3. CASE q # r
    BY <1>1, <2>1, <2>3 DEF AskMoves
  <2> QED
    BY <2>2, <2>3
<1>8. ASSUME NEW r \in Requests, OtherAnswers(r) PROVE AskMoves(q)
  BY <1>1, <1>8, AnswerMoves DEF OtherAnswers
<1>9. ASSUME NEW r \in Requests, Report(r) PROVE AskMoves(q)
  <2>1. ask[r].at = "taken" /\ ask' = [ask EXCEPT ![r].at = "told"]
    BY <1>9 DEF Report
  <2> QED
    BY <1>1, <2>1 DEF AskMoves
<1>10. CASE UNCHANGED vars
  BY <1>10 DEF vars, gateway, AskMoves
<1> QED
  BY <1>2, <1>3, <1>4, <1>5, <1>6, <1>7, <1>8, <1>9, <1>10 DEF Next

-----------------------------------------------------------------------------
(* What the runs wait for. *)

LEMMA AsksStayRight ==
  ASSUME TypeInv, TrackInv, AskInv, \A m \in Messages : RunMoves(m), \A q \in Requests : AskMoves(q)
  PROVE  AskInv'
<1>1. ASSUME NEW q \in Requests, ~run'[RunOf[q]].lost
      PROVE  /\ Asked(q)' => run'[RunOf[q]].times # 0
             /\ ask'[q].at = "open" => run'[RunOf[q]].at # "ended"
             /\ ask'[q].at = "left" => run'[RunOf[q]].at = "ended"
  <2> DEFINE m == RunOf[q]
  <2>1. m \in Messages /\ q \in RequestsOf(m)
    BY ConstantsAssumption DEF RequestsOf
  <2>2. RunMoves(m) /\ AskMoves(q) /\ ~run'[m].lost /\ Followed(m)
    BY <2>1, <1>1 DEF TrackInv
  <2>3. /\ ~run[m].lost
        /\ Asked(q) => run[m].times # 0
        /\ ask[q].at = "open" => run[m].at # "ended"
        /\ ask[q].at = "left" => run[m].at = "ended"
        /\ run[m].times = 0 <=> run[m].at = "none"
    BY <2>1, <2>2 DEF RunMoves, AskInv, Followed
  <2> HIDE DEF m
  <2>4. Asked(q)' => run'[m].times # 0
    BY <2>2, <2>3 DEF AskMoves, RunMoves, Asked, m
  <2>5. ask'[q].at = "open" => run'[m].at # "ended"
    BY <2>1, <2>2, <2>3 DEF AskMoves, RunMoves, m
  <2>6. ask'[q].at = "left" => run'[m].at = "ended"
    BY <2>2, <2>3 DEF AskMoves, RunMoves, Asked, m
  <2> QED
    BY <2>4, <2>5, <2>6 DEF m
<1>2. ASSUME NEW q \in Requests, NEW r \in Requests, ask'[q].at = "open", ask'[r].at = "open", RunOf[q] = RunOf[r]
      PROVE  q = r
  <2>1. AskMoves(q) /\ AskMoves(r)
    OBVIOUS
  <2>2. (ask[q].at = "open" /\ ask[r].at = "open") \/ q = r
    BY <1>2, <2>1 DEF AskMoves, RequestsOf
  <2> QED
    BY <1>2, <2>2 DEF AskInv
<1> QED
  BY <1>1, <1>2 DEF AskInv

-----------------------------------------------------------------------------
(* Events on their way. *)

LEMMA FeedTailed ==
  ASSUME Gateway, feed # <<>>, feed' = Tail(feed)
  PROVE  /\ Head(feed) = feed[1] /\ 1 \in DOMAIN feed /\ Head(feed) \in Events
         /\ \A i \in DOMAIN feed : i \in Nat /\ i >= 1
         /\ \A i \in DOMAIN feed' : i \in Nat /\ i >= 1
         /\ \A i \in DOMAIN feed' : i + 1 \in DOMAIN feed /\ feed'[i] = feed[i + 1]
         /\ \A i \in DOMAIN feed : i > 1 => i - 1 \in DOMAIN feed' /\ feed'[i - 1] = feed[i]
<1>1. feed \in Seq(Events)
  BY DEF Gateway, GatewayTyped
<1>2. Head(feed) = feed[1] /\ 1 \in DOMAIN feed /\ feed[1] \in Events
  BY <1>1
<1>3. /\ Tail(feed) \in Seq(Events) /\ Len(Tail(feed)) = Len(feed) - 1
      /\ \A i \in 1 .. Len(feed) - 1 : Tail(feed)[i] = feed[i + 1]
  BY <1>1
<1>4. DOMAIN feed = 1 .. Len(feed) /\ DOMAIN feed' = 1 .. Len(feed) - 1 /\ Len(feed) \in Nat
  BY <1>1, <1>3
<1> QED
  BY <1>2, <1>3, <1>4

\* One event more, at place i.
FeedGets(i, e) ==
  /\ i \in 1 .. Len(feed) + 1
  /\ DOMAIN feed' = 1 .. Len(feed) + 1
  /\ \A j \in DOMAIN feed' : feed'[j] = IF j < i THEN feed[j] ELSE IF j = i THEN e ELSE feed[j - 1]

LEMMA FeedPlaces ==
  ASSUME Gateway, NEW i, NEW e, FeedGets(i, e)
  PROVE  /\ i \in DOMAIN feed' /\ feed'[i] = e
         /\ \A j \in DOMAIN feed' : j \in Nat /\ j >= 1
         /\ \A j \in DOMAIN feed : j \in Nat /\ j >= 1
         /\ \A j \in DOMAIN feed' : j < i => j \in DOMAIN feed /\ feed'[j] = feed[j]
         /\ \A j \in DOMAIN feed' : j > i => j - 1 \in DOMAIN feed /\ feed'[j] = feed[j - 1]
         /\ \A j \in DOMAIN feed : j < i => j \in DOMAIN feed' /\ feed'[j] = feed[j]
         /\ \A j \in DOMAIN feed : j >= i => j + 1 \in DOMAIN feed' /\ feed'[j + 1] = feed[j]
<1>1. feed \in Seq(Events)
  BY DEF Gateway, GatewayTyped
<1>2. DOMAIN feed = 1 .. Len(feed) /\ Len(feed) \in Nat
  BY <1>1
<1> QED
  BY <1>2 DEF FeedGets

LEMMA AppendGets ==
  ASSUME Gateway, NEW e, feed' = Append(feed, e)
  PROVE  FeedGets(Len(feed) + 1, e)
<1> DEFINE T == Events \cup {e}
<1>1. feed \in Seq(Events)
  BY DEF Gateway, GatewayTyped
<1>2. feed \in Seq(T) /\ e \in T
  BY <1>1
<1> HIDE DEF T
<1>3. /\ Append(feed, e) \in Seq(T) /\ Len(Append(feed, e)) = Len(feed) + 1 /\ Len(feed) \in Nat
      /\ \A j \in 1 .. Len(feed) : Append(feed, e)[j] = feed[j]
      /\ Append(feed, e)[Len(feed) + 1] = e
  BY <1>2, AppendProperties
<1>4. DOMAIN feed' = 1 .. Len(feed) + 1
  BY <1>3
<1> QED
  BY <1>3, <1>4 DEF FeedGets

LEMMA InsertGets ==
  ASSUME Gateway, NEW e \in Events, NEW i \in 1 .. Len(feed) + 1, feed' = InsertAt(feed, i, e)
  PROVE  FeedGets(i, e)
<1>0. feed \in Seq(Events)
  BY DEF Gateway, GatewayTyped
<1> DEFINE before == SubSeq(feed, 1, i - 1)
           after == SubSeq(feed, i, Len(feed))
<1>1. i \in Nat /\ i >= 1 /\ Len(feed) \in Nat
  BY <1>0
<1>2. before \in Seq(Events) /\ Len(before) = i - 1 /\ \A j \in 1 .. i - 1 : before[j] = feed[j]
  BY <1>0, <1>1
<1>3. /\ after \in Seq(Events) /\ Len(after) = Len(feed) - i + 1
      /\ \A j \in 1 .. Len(feed) - i + 1 : after[j] = feed[i + j - 1]
  BY <1>0, <1>1
<1>4. InsertAt(feed, i, e) = (before \o <<e>>) \o after
  BY DEF InsertAt
<1> HIDE DEF before, after
<1>5. before \o <<e>> \in Seq(Events) /\ Len(before \o <<e>>) = i
  BY <1>1, <1>2
<1>6. \A j \in 1 .. i : (before \o <<e>>)[j] = IF j = i THEN e ELSE before[j]
  BY <1>1, <1>2
<1>7. feed' \in Seq(Events) /\ Len(feed') = Len(feed) + 1
  BY <1>0, FeedInserted, <1>1, <1>3, <1>4, <1>5, ConcatProperties
<1>8. DOMAIN feed' = 1 .. Len(feed) + 1
  BY <1>7
<1>9. ASSUME NEW j \in 1 .. Len(feed) + 1
      PROVE  feed'[j] = IF j < i THEN feed[j] ELSE IF j = i THEN e ELSE feed[j - 1]
  <2>1. CASE j <= i
    <3>1. j \in 1 .. i /\ feed'[j] = (before \o <<e>>)[j]
      BY <1>1, <1>3, <1>4, <1>5, <2>1
    <3>2. CASE j = i
      <4>1. ~(j < i)
        BY <1>1, <3>2
      <4>2. (before \o <<e>>)[j] = e
        BY <1>6, <3>1, <3>2
      <4> QED
        BY <3>1, <3>2, <4>1, <4>2
    <3>3. CASE j # i
      <4>1. j \in 1 .. i - 1 /\ j < i
        BY <1>1, <3>1, <3>3
      <4> QED
        BY <1>2, <1>6, <3>1, <3>3, <4>1
    <3> QED
      BY <3>2, <3>3
  <2>2. CASE j > i
    <3>1. feed'[j] = after[j - i] /\ j - i \in 1 .. Len(feed) - i + 1
      BY <1>1, <1>3, <1>4, <1>5, <2>2
    <3>2. after[j - i] = feed[j - 1]
      BY <1>1, <1>3, <2>2, <3>1
    <3> QED
      BY <1>1, <3>1, <3>2, <2>2
  <2> QED
    BY <1>1, <2>1, <2>2
<1> QED
  BY <1>8, <1>9 DEF FeedGets

\* Asks that are not opened; the reported ones stay so.
NoneOpens ==
  \A q \in Requests : /\ ask'[q].at = "open" => ask[q].at = "open"
                      /\ Asked(q) => Asked(q)'
                      /\ ask[q].at = "told" => ask'[q].at = "told"

LEMMA FeedStays ==
  ASSUME FeedInv, NoneOpens, feed' = feed,
         \A q \in Requests : Announced(q) => node'[q] = node[q]
  PROVE  FeedInv'
BY DEF FeedInv, NoneOpens, Announced, Reported, IsRequested, IsResolved

LEMMA FeedLoses ==
  ASSUME Gateway, FeedInv, feed # <<>>, feed' = Tail(feed), ask' = ask,
         \A q \in Requests : node[q] = "none" /\ ~IsRequested(Head(feed), q) => node'[q] = "none"
  PROVE  FeedInv'
<1> USE FeedTailed
<1>1. ASSUME NEW q \in Requests, Announced(q)' PROVE Asked(q)' /\ node'[q] = "none"
  <2>1. PICK i \in DOMAIN feed' : IsRequested(feed'[i], q)
    BY <1>1 DEF Announced
  <2>2. i + 1 \in DOMAIN feed /\ IsRequested(feed[i + 1], q) /\ i + 1 # 1
    BY <2>1
  <2>3. Asked(q) /\ node[q] = "none" /\ ~IsRequested(Head(feed), q)
    BY <2>2 DEF FeedInv, Announced
  <2> QED
    BY <2>3 DEF Asked
<1>2. ASSUME NEW q \in Requests, Reported(q)' PROVE ask'[q].at = "told"
  BY <1>2 DEF FeedInv, Reported
<1>3. ASSUME NEW q \in Requests, NEW i \in DOMAIN feed', NEW j \in DOMAIN feed',
             IsRequested(feed'[i], q), IsRequested(feed'[j], q)
      PROVE  i = j
  <2>1. i + 1 = j + 1
    BY <1>3 DEF FeedInv
  <2> QED
    BY <2>1
<1>4. ASSUME NEW q \in Requests, NEW i \in DOMAIN feed', NEW j \in DOMAIN feed',
             IsRequested(feed'[i], q), IsResolved(feed'[j], q)
      PROVE  i < j
  <2>1. i + 1 < j + 1
    BY <1>4 DEF FeedInv
  <2> QED
    BY <2>1
<1>5. ASSUME NEW q \in Requests, NEW r \in Requests, NEW i \in DOMAIN feed',
             IsRequested(feed'[i], r), ask'[q].at = "open", RunOf[q] = RunOf[r], q # r
      PROVE  \E j \in DOMAIN feed' : i < j /\ IsRequested(feed'[j], q)
  <2>1. PICK j \in DOMAIN feed : i + 1 < j /\ IsRequested(feed[j], q)
    BY <1>5 DEF FeedInv
  <2>2. j > 1 /\ i < j - 1
    BY <2>1
  <2> QED
    BY <2>1, <2>2
<1> QED
  BY <1>1, <1>2, <1>3, <1>4, <1>5 DEF FeedInv

\* The event of an end, wherever it overtakes others.
LEMMA FeedGetsEnd ==
  ASSUME Gateway, FeedInv, NoneOpens, node' = node,
         NEW i, NEW e, e.kind = "done", FeedGets(i, e)
  PROVE  FeedInv'
<1> USE FeedPlaces
<1> DEFINE Old(j) == IF j < i THEN j ELSE j - 1
           New(j) == IF j < i THEN j ELSE j + 1
<1>0. i \in Nat
  BY DEF FeedGets
<1>a. ASSUME NEW j \in DOMAIN feed', feed'[j].kind # "done"
      PROVE  Old(j) \in DOMAIN feed /\ feed'[j] = feed[Old(j)] /\ j # i
  BY <1>0, <1>a
<1>b. ASSUME NEW j \in DOMAIN feed
      PROVE  New(j) \in DOMAIN feed' /\ feed'[New(j)] = feed[j]
  BY <1>0
<1>c. ASSUME NEW q, NEW j \in DOMAIN feed', IsRequested(feed'[j], q)
      PROVE  Old(j) \in DOMAIN feed /\ IsRequested(feed[Old(j)], q) /\ j # i
  BY <1>a, <1>c DEF IsRequested
<1>d. ASSUME NEW q, NEW j \in DOMAIN feed', IsResolved(feed'[j], q)
      PROVE  Old(j) \in DOMAIN feed /\ IsResolved(feed[Old(j)], q) /\ j # i
  BY <1>a, <1>d DEF IsResolved
<1>1. ASSUME NEW q \in Requests, Announced(q)' PROVE Asked(q)' /\ node'[q] = "none"
  BY <1>c, <1>1 DEF FeedInv, Announced, NoneOpens
<1>2. ASSUME NEW q \in Requests, Reported(q)' PROVE ask'[q].at = "told"
  BY <1>d, <1>2 DEF FeedInv, Reported, NoneOpens
<1>3. ASSUME NEW q \in Requests, NEW j \in DOMAIN feed', NEW k \in DOMAIN feed',
             IsRequested(feed'[j], q), IsRequested(feed'[k], q)
      PROVE  j = k
  <2>1. Old(j) = Old(k) /\ j # i /\ k # i
    BY <1>3, <1>c DEF FeedInv
  <2> QED
    BY <1>0, <2>1
<1>4. ASSUME NEW q \in Requests, NEW j \in DOMAIN feed', NEW k \in DOMAIN feed',
             IsRequested(feed'[j], q), IsResolved(feed'[k], q)
      PROVE  j < k
  <2>1. Old(j) < Old(k) /\ j # i /\ k # i
    BY <1>4, <1>c, <1>d DEF FeedInv
  <2> QED
    BY <1>0, <2>1
<1>5. ASSUME NEW q \in Requests, NEW r \in Requests, NEW k \in DOMAIN feed',
             IsRequested(feed'[k], r), ask'[q].at = "open", RunOf[q] = RunOf[r], q # r
      PROVE  \E j \in DOMAIN feed' : k < j /\ IsRequested(feed'[j], q)
  <2>1. Old(k) \in DOMAIN feed /\ IsRequested(feed[Old(k)], r) /\ k # i
    BY <1>5, <1>c
  <2>2. ask[q].at = "open"
    BY <1>5 DEF NoneOpens
  <2>3. PICK j \in DOMAIN feed : Old(k) < j /\ IsRequested(feed[j], q)
    BY <1>5, <2>1, <2>2 DEF FeedInv
  <2>4. New(j) \in DOMAIN feed' /\ IsRequested(feed'[New(j)], q) /\ k < New(j)
    BY <1>0, <1>b, <2>1, <2>3
  <2> QED
    BY <2>4
<1> QED
  BY <1>1, <1>2, <1>3, <1>4, <1>5 DEF FeedInv

\* A new request is announced after everything else.
LEMMA FeedGetsRequest ==
  ASSUME Gateway, FeedInv, NEW q \in Requests, FeedGets(Len(feed) + 1, Event("requested", RunOf[q], q)),
         node' = node, node[q] = "none", ask[q].at = "none",
         \A r \in RequestsOf(RunOf[q]) : ask[r].at # "open",
         ask'[q].at = "open", \A r \in Requests \ {q} : ask'[r] = ask[r]
  PROVE  FeedInv'
<1> DEFINE last == Len(feed) + 1
<1>0. last \in Nat /\ \A j \in DOMAIN feed : j < last /\ j \in DOMAIN feed' /\ feed'[j] = feed[j]
  <2>1. feed \in Seq(Events)
    BY DEF Gateway, GatewayTyped
  <2>2. Len(feed) \in Nat /\ DOMAIN feed = 1 .. Len(feed)
    BY <2>1
  <2> QED
    BY <2>2 DEF FeedGets
<1>1. /\ last \in DOMAIN feed' /\ feed'[last] = Event("requested", RunOf[q], q)
      /\ \A j \in DOMAIN feed' : j # last => j \in DOMAIN feed /\ feed'[j] = feed[j]
  <2>1. feed \in Seq(Events)
    BY DEF Gateway, GatewayTyped
  <2>2. Len(feed) \in Nat /\ DOMAIN feed = 1 .. Len(feed)
    BY <2>1
  <2> QED
    BY <2>2 DEF FeedGets
<1> HIDE DEF last
<1>2. /\ IsRequested(feed'[last], q)
      /\ \A r : IsRequested(feed'[last], r) => r = q
      /\ \A r : ~IsResolved(feed'[last], r)
  BY <1>1 DEF IsRequested, IsResolved, Event
<1>3. ~Announced(q) /\ ~Reported(q)
  BY DEF FeedInv, Asked
<1>4. ASSUME NEW r, NEW j \in DOMAIN feed', IsRequested(feed'[j], r)
      PROVE  (j = last /\ r = q) \/ (j # last /\ r # q /\ j \in DOMAIN feed /\ IsRequested(feed[j], r))
  BY <1>1, <1>2, <1>3, <1>4 DEF Announced
<1>5. ASSUME NEW r, NEW j \in DOMAIN feed', IsResolved(feed'[j], r)
      PROVE  j # last /\ r # q /\ j \in DOMAIN feed /\ IsResolved(feed[j], r)
  BY <1>1, <1>2, <1>3, <1>5 DEF Reported
<1>6. ASSUME NEW r \in Requests, Announced(r)' PROVE Asked(r)' /\ node'[r] = "none"
  BY <1>4, <1>6 DEF FeedInv, Announced, Asked
<1>7. ASSUME NEW r \in Requests, Reported(r)' PROVE ask'[r].at = "told"
  BY <1>5, <1>7 DEF FeedInv, Reported
<1>8. ASSUME NEW r \in Requests, NEW j \in DOMAIN feed', NEW k \in DOMAIN feed',
             IsRequested(feed'[j], r), IsRequested(feed'[k], r)
      PROVE  j = k
  BY <1>4, <1>8 DEF FeedInv
<1>9. ASSUME NEW r \in Requests, NEW j \in DOMAIN feed', NEW k \in DOMAIN feed',
             IsRequested(feed'[j], r), IsResolved(feed'[k], r)
      PROVE  j < k
  BY <1>4, <1>5, <1>9 DEF FeedInv
<1>10. ASSUME NEW r \in Requests, NEW s \in Requests, NEW k \in DOMAIN feed',
              IsRequested(feed'[k], s), ask'[r].at = "open", RunOf[r] = RunOf[s], r # s
       PROVE  \E j \in DOMAIN feed' : k < j /\ IsRequested(feed'[j], r)
  <2>1. CASE r = q
    <3>1. k \in DOMAIN feed
      BY <1>4, <1>10, <2>1
    <3> QED
      BY <1>0, <1>1, <1>2, <2>1, <3>1
  <2>2. CASE r # q
    <3>1. ask[r].at = "open" /\ s # q /\ k \in DOMAIN feed /\ IsRequested(feed[k], s)
      BY <1>4, <1>10, <2>2 DEF RequestsOf
    <3>2. PICK j \in DOMAIN feed : k < j /\ IsRequested(feed[j], r)
      BY <1>10, <3>1 DEF FeedInv
    <3> QED
      BY <1>0, <3>2
  <2> QED
    BY <2>1, <2>2
<1> QED
  BY <1>6, <1>7, <1>8, <1>9, <1>10 DEF FeedInv

\* An answer is reported after the request.
LEMMA FeedGetsReport ==
  ASSUME Gateway, FeedInv, NEW q \in Requests, FeedGets(Len(feed) + 1, Event("resolved", RunOf[q], q)),
         NoneOpens, node' = node, ask'[q].at = "told"
  PROVE  FeedInv'
<1> DEFINE last == Len(feed) + 1
<1>0. last \in Nat /\ \A j \in DOMAIN feed : j < last /\ j \in DOMAIN feed' /\ feed'[j] = feed[j]
  <2>1. feed \in Seq(Events)
    BY DEF Gateway, GatewayTyped
  <2>2. Len(feed) \in Nat /\ DOMAIN feed = 1 .. Len(feed)
    BY <2>1
  <2> QED
    BY <2>2 DEF FeedGets
<1>1. /\ last \in DOMAIN feed' /\ feed'[last] = Event("resolved", RunOf[q], q)
      /\ \A j \in DOMAIN feed' : j # last => j \in DOMAIN feed /\ feed'[j] = feed[j]
  <2>1. feed \in Seq(Events)
    BY DEF Gateway, GatewayTyped
  <2>2. Len(feed) \in Nat /\ DOMAIN feed = 1 .. Len(feed)
    BY <2>1
  <2> QED
    BY <2>2 DEF FeedGets
<1> HIDE DEF last
<1>2. /\ IsResolved(feed'[last], q)
      /\ \A r : IsResolved(feed'[last], r) => r = q
      /\ \A r : ~IsRequested(feed'[last], r)
  BY <1>1 DEF IsRequested, IsResolved, Event
<1>4. ASSUME NEW r, NEW j \in DOMAIN feed', IsRequested(feed'[j], r)
      PROVE  j # last /\ j \in DOMAIN feed /\ IsRequested(feed[j], r)
  BY <1>1, <1>2, <1>4
<1>5. ASSUME NEW r, NEW j \in DOMAIN feed', IsResolved(feed'[j], r)
      PROVE  (j = last /\ r = q) \/ (j \in DOMAIN feed /\ IsResolved(feed[j], r))
  BY <1>1, <1>2, <1>5
<1>6. ASSUME NEW r \in Requests, Announced(r)' PROVE Asked(r)' /\ node'[r] = "none"
  BY <1>4, <1>6 DEF FeedInv, Announced, NoneOpens
<1>7. ASSUME NEW r \in Requests, Reported(r)' PROVE ask'[r].at = "told"
  BY <1>5, <1>7 DEF FeedInv, Reported, NoneOpens
<1>8. ASSUME NEW r \in Requests, NEW j \in DOMAIN feed', NEW k \in DOMAIN feed',
             IsRequested(feed'[j], r), IsRequested(feed'[k], r)
      PROVE  j = k
  BY <1>4, <1>8 DEF FeedInv
<1>9. ASSUME NEW r \in Requests, NEW j \in DOMAIN feed', NEW k \in DOMAIN feed',
             IsRequested(feed'[j], r), IsResolved(feed'[k], r)
      PROVE  j < k
  <2>1. j \in DOMAIN feed /\ IsRequested(feed[j], r)
    BY <1>4, <1>9
  <2>2. CASE k = last
    BY <1>0, <2>1, <2>2
  <2>3. CASE k # last
    BY <1>1, <1>9, <2>1, <2>3 DEF FeedInv
  <2> QED
    BY <2>2, <2>3
<1>10. ASSUME NEW r \in Requests, NEW s \in Requests, NEW k \in DOMAIN feed',
              IsRequested(feed'[k], s), ask'[r].at = "open", RunOf[r] = RunOf[s], r # s
       PROVE  \E j \in DOMAIN feed' : k < j /\ IsRequested(feed'[j], r)
  <2>1. ask[r].at = "open" /\ k \in DOMAIN feed /\ IsRequested(feed[k], s)
    BY <1>4, <1>10 DEF NoneOpens
  <2>2. PICK j \in DOMAIN feed : k < j /\ IsRequested(feed[j], r)
    BY <1>10, <2>1 DEF FeedInv
  <2> QED
    BY <1>0, <2>2
<1> QED
  BY <1>6, <1>7, <1>8, <1>9, <1>10 DEF FeedInv

-----------------------------------------------------------------------------
(* Updates that are still to be made. *)

LEMMA FewOps ==
  /\ ToSet(<<>>) = {}
  /\ \A o : ToSet(<<o>>) = {o}
  /\ \A o, u : ToSet(<<o, u>>) = {o, u}
<1>1. ToSet(<<>>) = {}
  BY DEF ToSet
<1>2. ASSUME NEW o PROVE ToSet(<<o>>) = {o}
  <2>1. DOMAIN <<o>> = {1} /\ <<o>>[1] = o
    OBVIOUS
  <2> QED
    BY <2>1 DEF ToSet
<1>3. ASSUME NEW o, NEW u PROVE ToSet(<<o, u>>) = {o, u}
  <2>1. DOMAIN <<o, u>> = {1, 2} /\ <<o, u>>[1] = o /\ <<o, u>>[2] = u
    OBVIOUS
  <2> QED
    BY <2>1 DEF ToSet
<1> QED
  BY <1>1, <1>2, <1>3

LEMMA NoOpIsNone ==
  /\ NoOp \notin Ops /\ NoOp.req = None /\ NoOp.kind = "none"
  /\ \A m : NoOp.req \notin RequestsOf(m)
BY ConstantsAssumption DEF NoOp, Ops, RequestsOf

LEMMA UndoneTyped ==
  ASSUME BoxesTyped, NEW p \in Procs
  PROVE  /\ Undone(p) \subseteq Ops \cup {NoOp}
         /\ \A m : Concerns(box[p], m) <=> OpsOf(p, m) # {}
<1>1. box[p].ops \in Seq(Ops) /\ box[p].flight \in Ops \cup {NoOp}
  BY BoxFacts
<1>2. ToSet(box[p].ops) \subseteq Ops
  BY <1>1 DEF ToSet
<1>3. Undone(p) \subseteq Ops \cup {NoOp}
  BY <1>1, <1>2 DEF Undone
<1> QED
  BY <1>3, NoOpIsNone DEF Concerns, OpsOf, Undone

LEMMA EmptyUndone ==
  ASSUME NEW p, Idle(p)
  PROVE  Undone(p) \cap Ops = {} /\ \A m : OpsOf(p, m) = {}
<1>1. Undone(p) = {NoOp}
  BY FewOps DEF Undone, Idle, Empty
<1> QED
  BY <1>1, NoOpIsNone DEF OpsOf

\* What becomes of the updates of process p when the approvals of run m change.
Staled(p, m) ==
  /\ box'[p].ops = box[p].ops /\ box'[p].flight = box[p].flight
  /\ box'[p].fresh => box[p].fresh /\ OpsOf(p, m) = {}
  /\ OpsOf(p, m) = {} => box'[p] = box[p]

LEMMA StaleIsStaled ==
  ASSUME BoxesTyped, NEW m, NEW p \in Procs, box'[p] = Stale(m)[p]
  PROVE  Staled(p, m)
<1>1. Stale(m)[p] = IF Concerns(box[p], m) THEN [box[p] EXCEPT !.fresh = FALSE] ELSE box[p]
  BY DEF Stale
<1> QED
  BY <1>1, StaleFacts, UndoneTyped DEF Staled

LEMMA ChangedFacts ==
  ASSUME BoxesTyped, NEW p \in Procs, NEW m, NEW ops, Changed(p, m, ops)
  PROVE  /\ \A r \in Procs \ {p} : Staled(r, m)
         /\ ops = <<>> => box'[p] = Empty
         /\ ops # <<>> => box'[p].ops = ops /\ box'[p].flight = NoOp /\ box'[p].fresh
<1>1. \A r \in Procs \ {p} : box'[r] = Stale(m)[r]
  BY DEF Changed, Stale
<1>2. box'[p] = IF ops = <<>> THEN Empty ELSE [ops |-> ops, flight |-> NoOp, fresh |-> TRUE]
  BY DEF Changed, Stale
<1> QED
  BY <1>1, <1>2, StaleIsStaled

LEMMA UntrackStales ==
  ASSUME BoxesTyped, NEW m, Untrack(m), NEW p \in Procs
  PROVE  Staled(p, m)
BY StaleIsStaled DEF Untrack

LEMMA StaledUndone ==
  ASSUME NEW p, NEW m, Staled(p, m)
  PROVE  Undone(p)' = Undone(p) /\ \A n : OpsOf(p, n)' = OpsOf(p, n)
BY DEF Staled, Undone, OpsOf

\* An update goes off when it is not out of date, and then leaves the others to
\* be made; otherwise all are given up.
LEMMA StartFacts ==
  ASSUME TypeInv, NEW p \in Procs, StartUpdate(p)
  PROVE  /\ \A r \in Procs \ {p} : box'[r] = box[r]
         /\ box[p].ops # <<>> /\ box[p].flight = NoOp
         /\ ~box[p].fresh => box'[p] = Empty /\ mishap' = mishap
         /\ box[p].fresh =>
              /\ box'[p].ops = Tail(box[p].ops) /\ box'[p].flight = Head(box[p].ops) /\ box'[p].fresh
              /\ Undone(p)' \cap Ops = Undone(p) \cap Ops
              /\ Head(box[p].ops) \in Ops
<1>1. BoxesTyped /\ box[p].ops # <<>> /\ box[p].flight = NoOp
  BY DEF TypeInv, StartUpdate
<1>2. /\ box[p] \in [ops : Seq(Ops), flight : Ops \cup {NoOp}, fresh : BOOLEAN]
      /\ box[p].ops \in Seq(Ops) /\ Head(box[p].ops) \in Ops /\ Tail(box[p].ops) \in Seq(Ops)
      /\ DOMAIN box = Procs
  BY <1>1, BoxFacts DEF BoxesTyped
<1>3. CASE ~box[p].fresh
  <2>1. box' = [box EXCEPT ![p] = Empty] /\ mishap' = mishap
    BY <1>3 DEF StartUpdate
  <2> QED
    BY <1>1, <1>2, <1>3, <2>1
<1>4. CASE box[p].fresh
  <2>1. box' = [box EXCEPT ![p].flight = Head(box[p].ops), ![p].ops = Tail(@)]
    BY <1>4 DEF StartUpdate
  <2> DEFINE mid == [box EXCEPT ![p].flight = Head(box[p].ops)]
  <2>2. /\ mid[p].flight = Head(box[p].ops) /\ mid[p].ops = box[p].ops /\ mid[p].fresh = box[p].fresh
        /\ \A r \in Procs \ {p} : mid[r] = box[r]
        /\ DOMAIN mid = Procs /\ DOMAIN mid[p] = {"ops", "flight", "fresh"}
    BY <1>2
  <2>3. box' = [mid EXCEPT ![p].ops = Tail(@)]
    BY <2>1
  <2> HIDE DEF mid
  <2>4. /\ box'[p].flight = Head(box[p].ops) /\ box'[p].ops = Tail(box[p].ops) /\ box'[p].fresh
        /\ \A r \in Procs \ {p} : box'[r] = box[r]
    BY <1>4, <2>2, <2>3
  <2>5. ToSet(box[p].ops) = ToSet(Tail(box[p].ops)) \cup {Head(box[p].ops)}
    <3>1. /\ Head(box[p].ops) = box[p].ops[1] /\ DOMAIN box[p].ops = 1 .. Len(box[p].ops)
          /\ Len(box[p].ops) \in Nat /\ Len(box[p].ops) >= 1
      BY <1>1, <1>2
    <3>2. /\ DOMAIN Tail(box[p].ops) = 1 .. Len(box[p].ops) - 1
          /\ \A i \in 1 .. Len(box[p].ops) - 1 : Tail(box[p].ops)[i] = box[p].ops[i + 1]
      BY <1>1, <1>2
    <3>3. ASSUME NEW i \in DOMAIN box[p].ops
          PROVE  box[p].ops[i] \in ToSet(Tail(box[p].ops)) \cup {Head(box[p].ops)}
      <4>1. CASE i = 1
        BY <3>1, <4>1
      <4>2. CASE i # 1
        <5>1. i - 1 \in 1 .. Len(box[p].ops) - 1 /\ (i - 1) + 1 = i
          BY <3>1, <4>2
        <5> QED
          BY <3>2, <5>1 DEF ToSet
      <4> QED
        BY <4>1, <4>2
    <3>4. ToSet(Tail(box[p].ops)) \cup {Head(box[p].ops)} \subseteq ToSet(box[p].ops)
      BY <1>1, BoxFacts
    <3> QED
      BY <3>3, <3>4 DEF ToSet
  <2>6. Undone(p)' \cap Ops = Undone(p) \cap Ops
    BY <1>1, <1>2, <2>4, <2>5, NoOpIsNone DEF Undone
  <2> QED
    BY <1>1, <1>2, <1>4, <2>4, <2>6
<1> QED
  BY <1>3, <1>4

LEMMA EndFacts ==
  ASSUME TypeInv, NEW p \in Procs, EndUpdate(p)
  PROVE  /\ \A r \in Procs \ {p} : box'[r] = box[r]
         /\ box[p].flight \in Ops
         /\ box[p].ops = <<>> => box'[p] = Empty
         /\ box[p].ops # <<>> => box'[p].ops = box[p].ops /\ box'[p].flight = NoOp
                                 /\ box'[p].fresh = box[p].fresh
         /\ Undone(p)' \cap Ops \subseteq Undone(p) \cap Ops
<1>1. /\ BoxesTyped /\ box[p].flight # NoOp
      /\ box' = [box EXCEPT ![p] = IF box[p].ops = <<>> THEN Empty ELSE [box[p] EXCEPT !.flight = NoOp]]
  BY DEF TypeInv, EndUpdate
<1>2. /\ box[p] \in [ops : Seq(Ops), flight : Ops \cup {NoOp}, fresh : BOOLEAN]
      /\ box[p].flight \in Ops /\ DOMAIN box = Procs
  BY <1>1, BoxFacts DEF BoxesTyped
<1>3. /\ \A r \in Procs \ {p} : box'[r] = box[r]
      /\ box'[p] = IF box[p].ops = <<>> THEN Empty ELSE [box[p] EXCEPT !.flight = NoOp]
  BY <1>1, <1>2
<1>4. box[p].ops # <<>> => box'[p].ops = box[p].ops /\ box'[p].flight = NoOp
                           /\ box'[p].fresh = box[p].fresh
  BY <1>2, <1>3
<1>5. CASE box[p].ops = <<>>
  <2>1. Idle(p)'
    BY <1>3, <1>5 DEF Idle
  <2>2. Undone(p)' = {NoOp}
    BY <2>1, FewOps DEF Undone, Idle, Empty
  <2> QED
    BY <1>2, <1>3, <1>5, <2>2, NoOpIsNone
<1>6. CASE box[p].ops # <<>>
  BY <1>2, <1>3, <1>4, <1>6, NoOpIsNone DEF Undone
<1> QED
  BY <1>5, <1>6

-----------------------------------------------------------------------------
(* What the consumer and a click change of the approvals of run m.            *)

\* Request q of run m gets the card, or waits for it.
Requested(m, p, q) ==
  /\ \A n \in Messages \ {m} : active'[n] = active[n] /\ stack'[n] = stack[n]
  /\ \A r \in Requests \ {q} : node'[r] = node[r]
  /\ active[m] \in {None, q} =>
       /\ active'[m] = q /\ node'[q] = "displaying"
       /\ Changed(p, m, <<Op(IF card[m] = NoCard THEN "send" ELSE "pending", q)>>)
  /\ active[m] \notin {None, q} =>
       /\ active'[m] = active[m] /\ node'[q] = "queued"
       /\ q \in ToSet(stack'[m]) /\ ToSet(stack[m]) \subseteq ToSet(stack'[m])
       /\ Changed(p, m, <<>>)

LEMMA RequestFacts ==
  ASSUME ApprovalsTyped, NEW p, NEW q \in Requests, NEW m \in Messages, m = RunOf[q],
         Request(p, q), node[q] = "none"
  PROVE  Requested(m, p, q)
<1> DEFINE shows == active[m] \in {None, q}
<1> USE DEF Requested
<1>1. /\ active' = [active EXCEPT ![m] = IF shows THEN q ELSE @]
      /\ node' = [node EXCEPT ![q] = IF shows THEN "displaying" ELSE "queued"]
      /\ stack' = IF shows \/ q \in ToSet(stack[m]) THEN stack
                  ELSE [stack EXCEPT ![m] = Append(@, q)]
      /\ Changed(p, m, IF ~shows THEN <<>>
                       ELSE <<Op(IF card[m] = NoCard THEN "send" ELSE "pending", q)>>)
  BY ConstantsAssumption DEF Request
<1>2. /\ active \in [Messages -> Requests \cup {None}]
      /\ stack \in [Messages -> Seq(Requests)]
      /\ node \in [Requests -> {"none", "queued", "displaying"} \cup Decisions]
  BY DEF ApprovalsTyped
<1>3. /\ \A n \in Messages \ {m} : active'[n] = active[n] /\ stack'[n] = stack[n]
      /\ \A r \in Requests \ {q} : node'[r] = node[r]
  BY <1>1, <1>2
<1>4. CASE shows
  BY <1>1, <1>2, <1>3, <1>4
<1>5. CASE ~shows
  <2>1. active'[m] = active[m] /\ node'[q] = "queued" /\ Changed(p, m, <<>>)
    BY <1>1, <1>2, <1>5
  <2>2. CASE q \in ToSet(stack[m])
    BY <1>1, <1>3, <1>5, <2>1, <2>2
  <2>3. CASE q \notin ToSet(stack[m])
    <3>1. stack'[m] = Append(stack[m], q)
      BY <1>1, <1>2, <1>5, <2>3
    <3>2. stack[m] \in Seq(Requests)
      BY <1>2
    <3>3. /\ Append(stack[m], q) \in Seq(Requests) /\ Len(Append(stack[m], q)) = Len(stack[m]) + 1
          /\ \A i \in 1 .. Len(stack[m]) : Append(stack[m], q)[i] = stack[m][i]
          /\ Append(stack[m], q)[Len(stack[m]) + 1] = q
      BY <3>2, AppendProperties
    <3>4. /\ DOMAIN stack[m] = 1 .. Len(stack[m]) /\ Len(stack[m]) \in Nat
          /\ DOMAIN Append(stack[m], q) = 1 .. Len(stack[m]) + 1
      BY <3>2, <3>3
    <3>5. q \in ToSet(Append(stack[m], q))
      BY <3>3, <3>4 DEF ToSet
    <3>6. ToSet(stack[m]) \subseteq ToSet(Append(stack[m], q))
      BY <3>3, <3>4 DEF ToSet
    <3> QED
      BY <1>3, <1>5, <2>1, <3>1, <3>5, <3>6
  <2> QED
    BY <2>2, <2>3
<1> QED
  BY <1>4, <1>5

\* Request q of run m is decided, and heir takes the card.
Resolved(m, p, q, decision, heir) ==
  /\ node'[q] = decision
  /\ heir # None => heir # q /\ node[heir] = "queued" /\ node'[heir] = "displaying"
  /\ \A r \in Requests \ {q, heir} : node'[r] = node[r]
  /\ active'[m] = heir
  /\ \A n \in Messages \ {m} : active'[n] = active[n] /\ stack'[n] = stack[n]
  /\ \A r \in RequestsOf(m) \ {q, heir} :
       r \in ToSet(stack[m]) /\ node[r] = "queued" => heir # None /\ r \in ToSet(stack'[m])
  /\ mishap' = IF active[m] \in {q, None} THEN mishap ELSE mishap \cup {m}
  /\ Changed(p, m, IF card[m] = NoCard THEN <<>>
                   ELSE IF heir = None THEN <<Op("resolved", q)>>
                   ELSE <<Op("resolved", q), Op("pending", heir)>>)

LEMMA ResolveFacts ==
  ASSUME ApprovalsTyped, NEW p, NEW q \in Requests, NEW m \in Messages, m = RunOf[q],
         NEW decision, Resolve(p, q, decision), tracked[m] # "no", node[q] \notin {"none"} \cup Decisions
  PROVE  \E heir \in RequestsOf(m) \cup {None} : Resolved(m, p, q, decision, heir)
<1>1. PICK i \in Promoted(m, q) :
        LET heir == IF i = 0 THEN None ELSE stack[m][i]
        IN /\ node' = [r \in Requests |-> IF r = q THEN decision
                                          ELSE IF r = heir THEN "displaying" ELSE node[r]]
           /\ active' = [active EXCEPT ![m] = heir]
           /\ stack' = [stack EXCEPT ![m] = SubSeq(@, 1, i - 1)]
           /\ mishap' = IF active[m] \in {q, None} THEN mishap ELSE mishap \cup {m}
           /\ Changed(p, m, IF card[m] = NoCard THEN <<>>
                            ELSE IF heir = None THEN <<Op("resolved", q)>>
                            ELSE <<Op("resolved", q), Op("pending", heir)>>)
  BY DEF Resolve
<1> DEFINE heir == IF i = 0 THEN None ELSE stack[m][i]
<1>2. /\ active \in [Messages -> Requests \cup {None}]
      /\ stack \in [Messages -> Seq(Requests)] /\ stack[m] \in Seq(Requests)
      /\ node \in [Requests -> {"none", "queued", "displaying"} \cup Decisions]
      /\ ToSet(stack[m]) \subseteq RequestsOf(m)
  BY DEF ApprovalsTyped
<1>3. DOMAIN stack[m] = 1 .. Len(stack[m]) /\ Len(stack[m]) \in Nat
  BY <1>2
<1>4. /\ i \in {0} \cup Waiting(m, q) /\ Waiting(m, q) \subseteq 1 .. Len(stack[m])
      /\ \A j \in Waiting(m, q) : j <= i
  BY <1>3 DEF Promoted, Waiting
<1>5. i # 0 => heir \in RequestsOf(m) /\ heir # q /\ node[heir] = "queued" /\ heir # None
  <2> SUFFICES ASSUME i # 0 PROVE stack[m][i] \in RequestsOf(m) /\ stack[m][i] # q /\ node[stack[m][i]] = "queued"
                                  /\ stack[m][i] # None
    OBVIOUS
  <2>1. i \in Waiting(m, q) /\ i \in DOMAIN stack[m]
    BY <1>3, <1>4
  <2>2. stack[m][i] \in ToSet(stack[m])
    BY <2>1 DEF ToSet
  <2> QED
    BY <1>2, <2>1, <2>2, ConstantsAssumption DEF Waiting, RequestsOf
<1>6. i = 0 => heir = None
  OBVIOUS
<1>7. heir \in RequestsOf(m) \cup {None} /\ (heir = None <=> i = 0)
  BY <1>5, <1>6
<1>8. /\ node' = [r \in Requests |-> IF r = q THEN decision ELSE IF r = heir THEN "displaying" ELSE node[r]]
      /\ active' = [active EXCEPT ![m] = heir]
      /\ stack' = [stack EXCEPT ![m] = SubSeq(@, 1, i - 1)]
      /\ mishap' = IF active[m] \in {q, None} THEN mishap ELSE mishap \cup {m}
      /\ Changed(p, m, IF card[m] = NoCard THEN <<>>
                       ELSE IF heir = None THEN <<Op("resolved", q)>>
                       ELSE <<Op("resolved", q), Op("pending", heir)>>)
  BY <1>1
<1>9. ASSUME NEW r \in RequestsOf(m) \ {q, heir}, r \in ToSet(stack[m]), node[r] = "queued"
      PROVE  heir # None /\ r \in ToSet(stack'[m])
  <2>1. PICK j \in DOMAIN stack[m] : stack[m][j] = r
    BY <1>9 DEF ToSet
  <2>2. j \in Waiting(m, q)
    BY <1>9, <2>1 DEF Waiting
  <2>3. i \in Nat /\ j \in 1 .. Len(stack[m]) /\ j <= i /\ i # 0 /\ i <= Len(stack[m])
    BY <1>3, <1>4, <2>2
  <2>4. j # i
    BY <1>9, <2>1, <2>3
  <2>5. stack'[m] = SubSeq(stack[m], 1, i - 1)
    BY <1>2, <1>8
  <2>6. j \in 1 .. i - 1 /\ i - 1 <= Len(stack[m]) /\ i - 1 \in Nat
    BY <2>3, <2>4
  <2>7. /\ DOMAIN SubSeq(stack[m], 1, i - 1) = 1 .. i - 1
        /\ \A x \in 1 .. i - 1 : SubSeq(stack[m], 1, i - 1)[x] = stack[m][x]
    BY <1>2, <2>6
  <2>8. r \in ToSet(stack'[m])
    BY <2>1, <2>5, <2>6, <2>7 DEF ToSet
  <2> QED
    BY <1>7, <2>3, <2>8
<1> HIDE DEF heir
<1>10. /\ node'[q] = decision
       /\ heir # None => heir # q /\ node[heir] = "queued" /\ node'[heir] = "displaying"
       /\ \A r \in Requests \ {q, heir} : node'[r] = node[r]
  BY <1>5, <1>7, <1>8 DEF RequestsOf
<1>11. /\ active'[m] = heir
       /\ \A n \in Messages \ {m} : active'[n] = active[n] /\ stack'[n] = stack[n]
  BY <1>2, <1>8
<1>12. Resolved(m, p, q, decision, heir)
  BY <1>8, <1>9, <1>10, <1>11 DEF Resolved
<1> QED
  BY <1>7, <1>12

-----------------------------------------------------------------------------
(* The requests in line for a card. *)

LEMMA LinedKept ==
  ASSUME NEW m, Lined(m), active'[m] = active[m], stack'[m] = stack[m],
         \A q \in RequestsOf(m) : node'[q] = node[q]
  PROVE  Lined(m)'
BY DEF Lined, RequestsOf

LEMMA UntrackLined ==
  ASSUME TypeInv, NEW m \in Messages, Untrack(m), NEW n \in Messages, Lined(n)
  PROVE  Lined(n)'
<1>1. /\ active \in [Messages -> Requests \cup {None}] /\ stack \in [Messages -> Seq(Requests)]
  BY DEF TypeInv, ApprovalsTyped
<1>2. CASE n = m
  <2>1. active'[n] = None /\ \A q \in RequestsOf(n) : node'[q] = "none"
    BY <1>1, <1>2 DEF Untrack, RequestsOf
  <2> QED
    BY <2>1 DEF Lined, RequestsOf
<1>3. CASE n # m
  BY <1>1, <1>3, LinedKept DEF Untrack, RequestsOf
<1> QED
  BY <1>2, <1>3

LEMMA RequestLined ==
  ASSUME TypeInv, NEW p, NEW q \in Requests, NEW m \in Messages, m = RunOf[q],
         Requested(m, p, q), node[q] = "none", Lined(m)
  PROVE  Lined(m)' /\ active[m] # q
<1>1. q \in RequestsOf(m) /\ q # None /\ RequestsOf(m) \subseteq Requests /\ ApprovalsTyped
  BY ConstantsAssumption DEF RequestsOf, TypeInv
<1>2. active[m] # q
  BY <1>1 DEF Lined
<1>3. CASE active[m] = None
  <2>1. /\ active'[m] = q /\ node'[q] = "displaying"
        /\ \A r \in Requests \ {q} : node'[r] = node[r]
    BY <1>3 DEF Requested
  <2>2. \A r \in RequestsOf(m) \ {q} : node'[r] \notin {"displaying", "queued"}
    BY <1>1, <1>3, <2>1, ConstantsAssumption DEF Lined
  <2> QED
    BY <1>1, <1>2, <2>1, <2>2 DEF Lined, RequestsOf
<1>4. CASE active[m] # None
  <2>1. /\ active'[m] = active[m] /\ node'[q] = "queued"
        /\ q \in ToSet(stack'[m]) /\ ToSet(stack[m]) \subseteq ToSet(stack'[m])
        /\ \A r \in Requests \ {q} : node'[r] = node[r]
    BY <1>2, <1>4 DEF Requested
  <2> QED
    BY <1>1, <1>2, <1>4, <2>1 DEF Lined, RequestsOf
<1> QED
  BY <1>2, <1>3, <1>4

LEMMA ResolvedLined ==
  ASSUME TypeInv, NEW p, NEW q \in Requests, NEW m \in Messages, m = RunOf[q], NEW decision \in Decisions,
         NEW heir \in RequestsOf(m) \cup {None}, Resolved(m, p, q, decision, heir),
         node[q] \in {"queued", "displaying"}, Lined(m), m \notin mishap'
  PROVE  /\ Lined(m)' /\ active[m] = q
         /\ heir = None => \A r \in RequestsOf(m) : node'[r] \notin {"queued", "displaying"}
<1>1. q \in RequestsOf(m) /\ q # None /\ RequestsOf(m) \subseteq Requests
  BY ConstantsAssumption DEF RequestsOf
<1>2. active[m] \in {q, None}
  BY DEF Resolved
<1>3. active[m] # None
  BY <1>1, ConstantsAssumption DEF Lined
<1>4. active[m] = q /\ node[q] = "displaying"
  BY <1>2, <1>3 DEF Lined
<1>5. decision \notin {"none", "queued", "displaying"}
  BY ConstantsAssumption
<1>6. \A r \in RequestsOf(m) \ {q} : node[r] # "displaying"
  BY <1>4 DEF Lined
<1>7. \A r \in RequestsOf(m) : node[r] = "queued" => r \in ToSet(stack[m])
  BY DEF Lined
<1>8. CASE heir = None
  <2>1. \A r \in RequestsOf(m) \ {q} : node'[r] = node[r] /\ node[r] # "queued"
    BY <1>1, <1>7, <1>8, ConstantsAssumption DEF Resolved
  <2>2. \A r \in RequestsOf(m) : node'[r] \notin {"queued", "displaying"}
    BY <1>5, <1>6, <2>1 DEF Resolved
  <2>3. active'[m] = None
    BY <1>8 DEF Resolved
  <2> QED
    BY <1>4, <2>2, <2>3 DEF Lined, RequestsOf
<1>9. CASE heir # None
  <2>1. active'[m] = heir /\ heir \in RequestsOf(m) /\ heir # q /\ node'[heir] = "displaying"
    BY <1>9 DEF Resolved
  <2>2. ASSUME NEW r \in RequestsOf(m), node'[r] = "displaying"
        PROVE  r = heir
    BY <1>1, <1>5, <1>6, <2>2 DEF Resolved
  <2>3. ASSUME NEW r \in RequestsOf(m), node'[r] = "queued"
        PROVE  r \in ToSet(stack'[m])
    <3>1. r \notin {q, heir}
      BY <1>5, <2>1, <2>3 DEF Resolved
    <3> QED
      BY <1>1, <1>7, <2>3, <3>1 DEF Resolved
  <2> QED
    BY <1>4, <1>9, <2>1, <2>2, <2>3 DEF Lined, RequestsOf
<1> QED
  BY <1>8, <1>9

-----------------------------------------------------------------------------
(* What happens to the card of a run.                                         *)

LEMMA OpParts ==
  ASSUME NEW q \in Requests, NEW kind \in {"send", "pending", "resolved"}
  PROVE  /\ Op(kind, q) \in Ops /\ Op(kind, q).req = q /\ Op(kind, q).kind = kind
         /\ Op(kind, q) # NoOp
BY NoOpIsNone DEF Op, Ops

LEMMA SendingIsOp ==
  ASSUME NEW p, NEW q \in Requests, NEW m, m = RunOf[q], Sending(p, q)
  PROVE  Op("send", q) \in OpsOf(p, m)
<1>1. CASE box[p].ops = <<Op("send", q)>>
  BY <1>1, OpParts, FewOps DEF OpsOf, Undone, RequestsOf
<1>2. CASE box[p].flight = Op("send", q)
  BY <1>2, OpParts DEF OpsOf, Undone, RequestsOf
<1> QED
  BY <1>1, <1>2 DEF Sending

LEMMA BringingIsOp ==
  ASSUME NEW p, NEW q \in Requests, NEW m, m = RunOf[q], Bringing(p, q)
  PROVE  Op("pending", q) \in OpsOf(p, m)
<1>1. CASE box[p].ops = <<Op("pending", q)>>
  BY <1>1, OpParts, FewOps DEF OpsOf, Undone, RequestsOf
<1>2. CASE box[p].flight = Op("pending", q)
  BY <1>2, OpParts DEF OpsOf, Undone, RequestsOf
<1>3. CASE \E r \in RequestsOf(RunOf[q]) : box[p].ops = <<Op("resolved", r), Op("pending", q)>>
  BY <1>3, OpParts, FewOps DEF OpsOf, Undone, RequestsOf
<1> QED
  BY <1>1, <1>2, <1>3 DEF Bringing

\* The request that has the card is one of the run.
LEMMA ActiveFacts ==
  ASSUME NEW m \in Messages, Lined(m), active[m] # None
  PROVE  active[m] \in Requests /\ RunOf[active[m]] = m /\ active[m] \in RequestsOf(m)
BY DEF Lined, RequestsOf

\* Process p has nothing to do with the card of run m, before and after a step.
Elsewhere(p, m) == box'[p] = box[p] \/ (OpsOf(p, m) = {} /\ OpsOf(p, m)' = {})

LEMMA ElsewhereFacts ==
  ASSUME NEW p, NEW m, Elsewhere(p, m)
  PROVE  /\ OpsOf(p, m)' = OpsOf(p, m)
         /\ OpsOf(p, m) # {} => box'[p] = box[p]
BY DEF Elsewhere, OpsOf, Undone

\* A run whose approvals a step leaves alone, with what is to be done for its card.
LEMMA CardKept ==
  ASSUME NEW m \in Messages, Lined(m), CardInv(m), \A p \in Procs : Elsewhere(p, m),
         card'[m] = card[m], active'[m] = active[m],
         \A q \in RequestsOf(m) : node'[q] = node[q],
         active[m] # None => (ask'[active[m]].at = "open" => ask[active[m]].at = "open")
  PROVE  CardInv(m)'
<1> DEFINE a == active[m]
<1>1. ASSUME NEW p \in Procs
      PROVE  /\ OpsOf(p, m)' = OpsOf(p, m)
             /\ OpsOf(p, m) # {} => box'[p] = box[p]
  BY ElsewhereFacts
<1>2. NoEditYet(m)'
  BY <1>1 DEF CardInv, NoEditYet
<1>3. SentByLoop(m)'
  BY <1>1 DEF CardInv, SentByLoop, Sending
<1>4. OneFresh(m)'
  BY <1>1 DEF CardInv, OneFresh
<1>5. OneEdit(m)'
  BY <1>1 DEF CardInv, OneEdit
<1>6. BeingSent(m)'
  <2> SUFFICES ASSUME card[m] = NoCard, a # None
               PROVE  /\ box'[Loop].fresh /\ Sending(Loop, a)'
                      /\ \A q \in RequestsOf(m) : node'[q] # "queued"
    BY DEF BeingSent, RequestsOf
  <2>1. box[Loop].fresh /\ Sending(Loop, a) /\ \A q \in RequestsOf(m) : node[q] # "queued"
    BY DEF CardInv, BeingSent
  <2>2. OpsOf(Loop, m) # {}
    BY <2>1, ActiveFacts, SendingIsOp
  <2>3. box'[Loop] = box[Loop]
    BY <1>1, <2>2 DEF Procs
  <2> QED
    BY <2>1, <2>3 DEF Sending
<1>7. BeingShown(m)'
  <2> SUFFICES ASSUME a # None, ask'[a].at = "open", card[m] # NoCard
               PROVE  Coming(a)' \/ Settled(m, a)'
    BY DEF BeingShown
  <2>1. a \in Requests /\ RunOf[a] = m
    BY ActiveFacts
  <2>2. CASE Coming(a)
    <3>1. PICK p \in Procs : box[p].fresh /\ Bringing(p, a)
      BY <2>2 DEF Coming
    <3>2. OpsOf(p, m) # {}
      BY <2>1, <3>1, BringingIsOp
    <3>3. box'[p] = box[p]
      BY <1>1, <3>2
    <3> QED
      BY <3>1, <3>3 DEF Coming, Bringing
  <2>3. CASE Settled(m, a)
    BY <1>1, <2>3 DEF Settled
  <2> QED
    BY <2>2, <2>3 DEF CardInv, BeingShown
<1> QED
  BY <1>2, <1>3, <1>4, <1>5, <1>6, <1>7 DEF CardInv

\* A run that has asked for nothing has no card, and none is on its way.
LEMMA CardOfNothing ==
  ASSUME NEW m \in Messages, Lined(m)', KnownInv', \A q \in RequestsOf(m) : ~Asked(q)'
  PROVE  CardInv(m)'
<1>1. \A p \in Procs : OpsOf(p, m)' = {}
  BY DEF KnownInv, OpsOf, RequestsOf
<1>2. active'[m] = None
  BY DEF Lined, KnownInv, RequestsOf
<1> QED
  BY <1>1, <1>2 DEF CardInv, NoEditYet, SentByLoop, OneFresh, OneEdit, BeingSent, BeingShown

LEMMA StaledElsewhere ==
  ASSUME OneRunEach, NEW m, NEW n, m # n, NEW p \in Procs, Staled(p, m)
  PROVE  Elsewhere(p, n)
<1>1. CASE OpsOf(p, m) = {}
  BY <1>1 DEF Staled, Elsewhere
<1>2. CASE OpsOf(p, m) # {}
  <2>1. OpsOf(p, n) = {}
    BY <1>2 DEF OneRunEach, OpsOf, RequestsOf
  <2> QED
    BY <2>1, StaledUndone DEF Elsewhere
<1> QED
  BY <1>1, <1>2

\* The updates process p is given for run m do not concern another run.
LEMMA ChangedElsewhere ==
  ASSUME BoxesTyped, OneRunEach, NEW m, NEW n, m # n, NEW p \in Procs, Idle(p),
         NEW ops \in Seq(Ops), \A o \in ToSet(ops) : o.req \in RequestsOf(m), Changed(p, m, ops)
  PROVE  \A r \in Procs : Elsewhere(r, n)
<1>1. \A r \in Procs \ {p} : Elsewhere(r, n)
  BY ChangedFacts, StaledElsewhere
<1>2. OpsOf(p, n) = {}
  BY EmptyUndone
<1>3. OpsOf(p, n)' = {}
  <2>1. CASE ops = <<>>
    <3>1. Idle(p)'
      BY <2>1, ChangedFacts DEF Idle
    <3>2. Undone(p)' = {NoOp}
      BY <3>1, FewOps DEF Undone, Idle, Empty
    <3> QED
      BY <3>2, NoOpIsNone DEF OpsOf
  <2>2. CASE ops # <<>>
    <3>1. Undone(p)' = ToSet(ops) \cup {NoOp}
      BY <2>2, ChangedFacts DEF Undone
    <3> QED
      BY <3>1, NoOpIsNone DEF OpsOf, RequestsOf
  <2> QED
    BY <2>1, <2>2
<1> QED
  BY <1>1, <1>2, <1>3 DEF Elsewhere

LEMMA StaledCard ==
  ASSUME NEW p, NEW m, Staled(p, m)
  PROVE  /\ OpsOf(p, m)' = OpsOf(p, m) /\ box'[p].flight = box[p].flight
         /\ \A q : Sending(p, q)' <=> Sending(p, q)
         /\ box'[p].fresh => OpsOf(p, m)' = {}
BY StaledUndone DEF Staled, Sending

\* The updates process p is given are those of a list.
LEMMA GivenOps ==
  ASSUME BoxesTyped, NEW p \in Procs, NEW m, NEW ops, Changed(p, m, ops), ops # <<>>,
         ToSet(ops) \subseteq Ops, \A o \in ToSet(ops) : o.req \in RequestsOf(m)
  PROVE  /\ OpsOf(p, m)' = ToSet(ops) /\ Undone(p)' = ToSet(ops) \cup {NoOp}
         /\ box'[p].ops = ops /\ box'[p].flight = NoOp /\ box'[p].fresh
<1>1. box'[p].ops = ops /\ box'[p].flight = NoOp /\ box'[p].fresh
  BY ChangedFacts
<1>2. Undone(p)' = ToSet(ops) \cup {NoOp}
  BY <1>1 DEF Undone
<1> QED
  BY <1>1, <1>2, NoOpIsNone DEF OpsOf, RequestsOf

LEMMA NothingGiven ==
  ASSUME BoxesTyped, NEW p \in Procs, NEW m, Changed(p, m, <<>>)
  PROVE  OpsOf(p, m)' = {} /\ box'[p] = Empty /\ Undone(p)' \cap Ops = {}
<1>1. box'[p] = Empty
  BY ChangedFacts
<1>2. Undone(p)' = {NoOp}
  BY <1>1, FewOps DEF Undone, Empty
<1> QED
  BY <1>1, <1>2, NoOpIsNone DEF OpsOf

\* What others were to do for the card is out of date, and no new edit is under way.
LEMMA OnlyFresh ==
  ASSUME NEW m, NEW p \in Procs, OneEdit(m), \A r \in Procs \ {p} : Staled(r, m),
         box'[p].flight \notin Ops
  PROVE  OneFresh(m)' /\ OneEdit(m)'
<1>1. \A r \in Procs \ {p} : /\ OpsOf(r, m)' = OpsOf(r, m) /\ box'[r].flight = box[r].flight
                             /\ box'[r].fresh => OpsOf(r, m)' = {}
  BY StaledCard
<1>2. OneFresh(m)'
  BY <1>1 DEF OneFresh
<1>3. box'[p].flight \notin OpsOf(p, m)'
  BY DEF OpsOf
<1> QED
  BY <1>1, <1>2, <1>3 DEF OneEdit

\* There is a card, so none is being sent.
LEMMA NoneSent ==
  ASSUME NEW m, NEW p \in Procs, card[m] # NoCard, SentByLoop(m), \A r \in Procs \ {p} : Staled(r, m),
         \A o \in OpsOf(p, m)' : o.kind # "send"
  PROVE  SentByLoop(m)'
<1>1. \A r \in Procs : \A o \in OpsOf(r, m)' : o.kind # "send"
  BY StaledCard DEF SentByLoop
<1> QED
  BY <1>1 DEF SentByLoop

LEMMA RequestCard ==
  ASSUME TypeInv, NEW q \in Requests, NEW m \in Messages, m = RunOf[q], Requested(m, Loop, q),
         node[q] = "none", card' = card, Idle(Loop), Lined(m), CardInv(m), active[m] # q,
         active[m] # None => ask'[active[m]].at # "open"
  PROVE  CardInv(m)'
<1>1. /\ BoxesTyped /\ Loop \in Procs /\ q # None /\ q \in RequestsOf(m)
      /\ OpsOf(Loop, m) = {} /\ RequestsOf(m) \subseteq Requests
  BY EmptyUndone, ConstantsAssumption DEF TypeInv, Procs, RequestsOf
<1>2. NoEditYet(m) /\ SentByLoop(m) /\ OneEdit(m) /\ BeingSent(m)
  BY DEF CardInv
<1>3. CASE active[m] = None /\ card[m] = NoCard
  <2> DEFINE ops == <<Op("send", q)>>
  <2>1. Changed(Loop, m, ops) /\ active'[m] = q /\ node'[q] = "displaying"
        /\ \A r \in Requests \ {q} : node'[r] = node[r]
    BY <1>3 DEF Requested
  <2>2. ops # <<>> /\ ToSet(ops) = {Op("send", q)}
    BY FewOps
  <2>3. /\ OpsOf(Loop, m)' = {Op("send", q)} /\ box'[Loop].ops = ops /\ box'[Loop].flight = NoOp
        /\ box'[Loop].fresh
    BY <1>1, <2>1, <2>2, OpParts, GivenOps
  <2>4. \A r \in Procs \ {Loop} : Staled(r, m)
    BY <1>1, <2>1, ChangedFacts
  <2>5. Sending(Loop, q)'
    BY <2>3 DEF Sending
  <2>6. OneFresh(m)' /\ OneEdit(m)'
    BY <1>1, <1>2, <2>3, <2>4, OnlyFresh, NoOpIsNone
  <2>7. NoEditYet(m)'
    <3>1. ~Edits(Op("send", q))
      BY OpParts DEF Edits
    <3> QED
      BY <1>2, <1>3, <2>3, <2>4, <3>1, StaledCard DEF NoEditYet
  <2>8. SentByLoop(m)'
    <3>1. ASSUME NEW r \in Procs, NEW o \in OpsOf(r, m)', o.kind = "send"
          PROVE  r = Loop /\ Sending(r, o.req)'
      <4>1. CASE r = Loop
        BY <2>3, <2>5, <3>1, <4>1, OpParts
      <4>2. CASE r # Loop
        BY <1>2, <2>4, <3>1, <4>2, StaledCard DEF SentByLoop
      <4> QED
        BY <4>1, <4>2
    <3> QED
      BY <1>3, <3>1 DEF SentByLoop
  <2>9. BeingSent(m)'
    <3>1. \A r \in RequestsOf(m) : node'[r] # "queued"
      BY <1>1, <1>3, <2>1 DEF Lined
    <3> QED
      BY <2>1, <2>3, <2>5, <3>1 DEF BeingSent, RequestsOf
  <2>10. BeingShown(m)'
    BY <1>3 DEF BeingShown
  <2> QED
    BY <2>6, <2>7, <2>8, <2>9, <2>10 DEF CardInv
<1>4. CASE active[m] = None /\ card[m] # NoCard
  <2> DEFINE ops == <<Op("pending", q)>>
  <2>1. Changed(Loop, m, ops) /\ active'[m] = q
    BY <1>4 DEF Requested
  <2>2. ops # <<>> /\ ToSet(ops) = {Op("pending", q)}
    BY FewOps
  <2>3. /\ OpsOf(Loop, m)' = {Op("pending", q)} /\ box'[Loop].ops = ops /\ box'[Loop].flight = NoOp
        /\ box'[Loop].fresh
    BY <1>1, <2>1, <2>2, OpParts, GivenOps
  <2>4. \A r \in Procs \ {Loop} : Staled(r, m)
    BY <1>1, <2>1, ChangedFacts
  <2>5. Coming(q)'
    BY <1>1, <2>3 DEF Coming, Bringing
  <2>6. OneFresh(m)' /\ OneEdit(m)'
    BY <1>1, <1>2, <2>3, <2>4, OnlyFresh, NoOpIsNone
  <2>7. SentByLoop(m)'
    BY <1>1, <1>2, <1>4, <2>3, <2>4, NoneSent, OpParts
  <2> QED
    BY <1>4, <2>1, <2>5, <2>6, <2>7 DEF CardInv, NoEditYet, BeingSent, BeingShown
<1>5. CASE active[m] # None
  <2>1. Changed(Loop, m, <<>>) /\ active'[m] = active[m]
    BY <1>5 DEF Requested
  <2>2. card[m] # NoCard
    <3>1. active[m] \in Requests /\ RunOf[active[m]] = m
      BY <1>5, ActiveFacts
    <3> QED
      BY <1>1, <1>2, <1>5, <3>1, SendingIsOp DEF BeingSent
  <2>3. OpsOf(Loop, m)' = {} /\ box'[Loop].flight = NoOp
    BY <1>1, <2>1, NothingGiven DEF Empty
  <2>4. \A r \in Procs \ {Loop} : Staled(r, m)
    BY <1>1, <2>1, ChangedFacts
  <2>5. OneFresh(m)' /\ OneEdit(m)'
    BY <1>1, <1>2, <2>3, <2>4, OnlyFresh, NoOpIsNone
  <2>6. SentByLoop(m)'
    BY <1>1, <1>2, <2>2, <2>3, <2>4, NoneSent
  <2> QED
    BY <2>1, <2>2, <2>5, <2>6 DEF CardInv, NoEditYet, BeingSent, BeingShown
<1> QED
  BY <1>3, <1>4, <1>5

LEMMA ResolveCard ==
  ASSUME TypeInv, NEW p \in Procs, NEW q \in Requests, NEW m \in Messages, m = RunOf[q], NEW decision \in Decisions,
         NEW heir \in RequestsOf(m) \cup {None}, Resolved(m, p, q, decision, heir),
         card' = card, Idle(p), active[m] = q, CardInv(m)
  PROVE  CardInv(m)'
<1>1. /\ BoxesTyped /\ q # None /\ q \in RequestsOf(m)
      /\ OpsOf(p, m) = {} /\ RequestsOf(m) \subseteq Requests
  BY EmptyUndone, ConstantsAssumption DEF TypeInv, RequestsOf
<1>2. NoEditYet(m) /\ SentByLoop(m) /\ OneEdit(m) /\ BeingSent(m)
  BY DEF CardInv
<1>3. active'[m] = heir
  BY DEF Resolved
<1>4. CASE card[m] = NoCard
  <2>1. heir = None
    <3>1. \A r \in RequestsOf(m) : node[r] # "queued"
      BY <1>1, <1>2, <1>4 DEF BeingSent
    <3> QED
      BY <3>1 DEF Resolved
  <2>2. Changed(p, m, <<>>)
    BY <1>4 DEF Resolved
  <2>3. OpsOf(p, m)' = {} /\ box'[p].flight = NoOp
    BY <1>1, <2>2, NothingGiven DEF Empty
  <2>4. \A r \in Procs \ {p} : Staled(r, m)
    BY <1>1, <2>2, ChangedFacts
  <2>5. OneFresh(m)' /\ OneEdit(m)'
    BY <1>1, <1>2, <2>3, <2>4, OnlyFresh, NoOpIsNone
  <2>6. NoEditYet(m)'
    BY <1>2, <1>4, <2>3, <2>4, StaledCard DEF NoEditYet
  <2>7. SentByLoop(m)'
    <3>1. ASSUME NEW r \in Procs, NEW o \in OpsOf(r, m)', o.kind = "send"
          PROVE  r = Loop /\ Sending(r, o.req)'
      BY <1>2, <2>3, <2>4, <3>1, StaledCard DEF SentByLoop
    <3> QED
      BY <1>4, <3>1 DEF SentByLoop
  <2> QED
    BY <1>3, <2>1, <2>5, <2>6, <2>7 DEF CardInv, BeingSent, BeingShown
<1>5. CASE card[m] # NoCard /\ heir = None
  <2> DEFINE ops == <<Op("resolved", q)>>
  <2>1. Changed(p, m, ops)
    BY <1>5 DEF Resolved
  <2>2. ops # <<>> /\ ToSet(ops) = {Op("resolved", q)}
    BY FewOps
  <2>3. OpsOf(p, m)' = {Op("resolved", q)} /\ box'[p].flight = NoOp
    BY <1>1, <2>1, <2>2, OpParts, GivenOps
  <2>4. \A r \in Procs \ {p} : Staled(r, m)
    BY <1>1, <2>1, ChangedFacts
  <2>5. OneFresh(m)' /\ OneEdit(m)'
    BY <1>1, <1>2, <2>3, <2>4, OnlyFresh, NoOpIsNone
  <2>6. SentByLoop(m)'
    BY <1>2, <1>5, <2>3, <2>4, NoneSent, OpParts
  <2> QED
    BY <1>3, <1>5, <2>5, <2>6 DEF CardInv, NoEditYet, BeingSent, BeingShown
<1>6. CASE card[m] # NoCard /\ heir # None
  <2> DEFINE ops == <<Op("resolved", q), Op("pending", heir)>>
  <2>0. heir \in RequestsOf(m) /\ heir \in Requests /\ RunOf[heir] = m
    BY <1>6 DEF RequestsOf
  <2>1. Changed(p, m, ops)
    BY <1>6 DEF Resolved
  <2>2. ops # <<>> /\ ToSet(ops) = {Op("resolved", q), Op("pending", heir)}
    BY FewOps
  <2>3. /\ OpsOf(p, m)' = {Op("resolved", q), Op("pending", heir)} /\ box'[p].flight = NoOp
        /\ box'[p].ops = ops /\ box'[p].fresh
    <3>1. ToSet(ops) \subseteq Ops /\ \A o \in ToSet(ops) : o.req \in RequestsOf(m)
      BY <1>1, <2>0, <2>2, OpParts
    <3> HIDE DEF ops
    <3> QED
      BY <1>1, <2>1, <2>2, <3>1, GivenOps
  <2>4. \A r \in Procs \ {p} : Staled(r, m)
    BY <1>1, <2>1, ChangedFacts
  <2>5. OneFresh(m)' /\ OneEdit(m)'
    BY <1>1, <1>2, <2>3, <2>4, OnlyFresh, NoOpIsNone
  <2>6. SentByLoop(m)'
    BY <1>2, <1>6, <2>0, <2>3, <2>4, NoneSent, OpParts
  <2>7. Coming(heir)'
    <3>1. Bringing(p, heir)'
      BY <1>1, <2>0, <2>3 DEF Bringing, RequestsOf
    <3> QED
      BY <2>3, <3>1 DEF Coming
  <2> QED
    BY <1>3, <1>6, <2>5, <2>6, <2>7 DEF CardInv, NoEditYet, BeingSent, BeingShown
<1> QED
  BY <1>4, <1>5, <1>6

\* An update that goes off is still the sending of the card, or brings the request to it.
LEMMA StartGoesOn ==
  ASSUME NEW p, NEW q, box[p].ops # <<>>, box[p].flight = NoOp,
         box'[p].ops = Tail(box[p].ops), box'[p].flight = Head(box[p].ops)
  PROVE  /\ Sending(p, q) => Sending(p, q)'
         /\ Bringing(p, q) => Bringing(p, q)'
<1>1. ASSUME Sending(p, q) PROVE Sending(p, q)'
  <2>1. box[p].ops = <<Op("send", q)>>
    BY <1>1 DEF Sending
  <2>2. box'[p].ops = <<>> /\ box'[p].flight = Op("send", q)
    BY <2>1
  <2> QED
    BY <2>2 DEF Sending
<1>2. ASSUME Bringing(p, q) PROVE Bringing(p, q)'
  <2>1. CASE box[p].ops = <<Op("pending", q)>>
    <3>1. box'[p].ops = <<>> /\ box'[p].flight = Op("pending", q)
      BY <2>1
    <3> QED
      BY <3>1 DEF Bringing
  <2>2. ASSUME NEW r \in RequestsOf(RunOf[q]), box[p].ops = <<Op("resolved", r), Op("pending", q)>>
        PROVE  Bringing(p, q)'
    <3>1. box'[p].ops = <<Op("pending", q)>> /\ box'[p].flight = Op("resolved", r)
      BY <2>2
    <3> QED
      BY <3>1 DEF Bringing, RequestsOf
  <2> QED
    BY <1>2, <2>1, <2>2 DEF Bringing
<1> QED
  BY <1>1, <1>2

LEMMA StartCard ==
  ASSUME TypeInv, OneRunEach, NEW p \in Procs, StartUpdate(p), NEW m \in Messages, m \notin mishap',
         Lined(m), CardInv(m)
  PROVE  CardInv(m)'
<1> DEFINE n == RunOf[Head(box[p].ops).req]
<1>1. /\ BoxesTyped /\ UNCHANGED <<active, stack, node, card, ask>>
      /\ NoEditYet(m) /\ SentByLoop(m) /\ OneFresh(m) /\ OneEdit(m) /\ BeingSent(m) /\ BeingShown(m)
  BY DEF TypeInv, StartUpdate, gateway, CardInv
<1>2. /\ \A r \in Procs \ {p} : box'[r] = box[r]
      /\ box[p].ops # <<>> /\ box[p].flight = NoOp
  BY StartFacts
<1>3. \A r \in Procs \ {p} : OpsOf(r, m)' = OpsOf(r, m)
  BY <1>2 DEF OpsOf, Undone
<1>4. active[m] # None => active[m] \in Requests /\ RunOf[active[m]] = m
  BY ActiveFacts
<1>5. CASE ~box[p].fresh
  <2>1. box'[p] = Empty
    BY <1>5, StartFacts
  <2>2. OpsOf(p, m)' = {} /\ box'[p].flight = NoOp
    <3>1. Undone(p)' = {NoOp}
      BY <2>1, FewOps DEF Undone, Empty
    <3> QED
      BY <2>1, <3>1, NoOpIsNone DEF OpsOf, Empty
  <2>3. NoEditYet(m)'
    BY <1>1, <1>3, <2>2 DEF NoEditYet
  <2>4. SentByLoop(m)'
    <3>1. ASSUME NEW r \in Procs, NEW o \in OpsOf(r, m)', o.kind = "send"
          PROVE  r = Loop /\ card[m] = NoCard /\ Sending(r, o.req)'
      BY <1>1, <1>2, <1>3, <2>2, <3>1 DEF SentByLoop, Sending
    <3> QED
      BY <1>1, <3>1 DEF SentByLoop
  <2>5. OneFresh(m)' /\ OneEdit(m)'
    BY <1>1, <1>2, <1>3, <2>2 DEF OneFresh, OneEdit
  <2>6. BeingSent(m)'
    <3>1. ASSUME card[m] = NoCard, active[m] # None
          PROVE  box'[Loop].fresh /\ Sending(Loop, active[m])'
      <4>1. box[Loop].fresh /\ Sending(Loop, active[m])
        BY <1>1, <3>1 DEF BeingSent
      <4>2. box'[Loop] = box[Loop]
        BY <1>2, <1>5, <4>1 DEF Procs
      <4> QED
        BY <1>1, <4>1, <4>2 DEF Sending
    <3> QED
      BY <1>1, <3>1 DEF BeingSent, Sending, RequestsOf
  <2>7. BeingShown(m)'
    <3> SUFFICES ASSUME active[m] # None, ask[active[m]].at = "open", card[m] # NoCard
                 PROVE  Coming(active[m])' \/ Settled(m, active[m])'
      BY <1>1 DEF BeingShown, Coming, Settled, Bringing, RequestsOf
    <3>1. CASE Coming(active[m])
      <4>1. PICK r \in Procs : box[r].fresh /\ Bringing(r, active[m])
        BY <3>1 DEF Coming
      <4>2. box'[r] = box[r]
        BY <1>2, <1>5, <4>1
      <4>3. box'[r].fresh /\ Bringing(r, active[m])'
        BY <1>1, <4>1, <4>2 DEF Bringing, RequestsOf
      <4> QED
        BY <1>1, <4>3 DEF Coming
    <3>2. CASE Settled(m, active[m])
      BY <1>1, <1>2, <1>3, <2>2, <3>2 DEF Settled
    <3> QED
      BY <1>1, <3>1, <3>2 DEF BeingShown
  <2> QED
    BY <2>3, <2>4, <2>5, <2>6, <2>7 DEF CardInv
<1>6. CASE box[p].fresh
  <2>1. /\ box'[p].ops = Tail(box[p].ops) /\ box'[p].flight = Head(box[p].ops) /\ box'[p].fresh
        /\ Undone(p)' \cap Ops = Undone(p) \cap Ops
        /\ Head(box[p].ops) \in Ops /\ Head(box[p].ops) \in Undone(p)
    BY <1>1, <1>2, <1>6, StartFacts, BoxFacts DEF Undone
  <2>2. OpsOf(p, m)' = OpsOf(p, m)
    BY <2>1 DEF OpsOf
  <2>3. CASE OpsOf(p, m) = {}
    <3>1. \A r \in Procs : Elsewhere(r, m)
      BY <1>2, <2>2, <2>3 DEF Elsewhere
    <3> QED
      BY <1>1, <3>1, CardKept
  <2>4. CASE OpsOf(p, m) # {}
    <3>1. n = m
      BY <2>1, <2>4 DEF OneRunEach, OpsOf, RequestsOf
    <3>2. ASSUME NEW r \in Procs \ {p}
          PROVE  ~(box[r].flight \in OpsOf(r, m) /\ Edits(box[r].flight))
      <4>1. ~(box[r].flight.kind \in {"pending", "resolved"} /\ RunOf[box[r].flight.req] = m)
        BY <1>6, <3>1 DEF StartUpdate
      <4> QED
        BY <4>1 DEF OpsOf, RequestsOf, Edits
    <3>3. NoEditYet(m)'
      BY <1>1, <1>3, <2>2 DEF NoEditYet
    <3>4. SentByLoop(m)'
      <4>1. ASSUME NEW r \in Procs, NEW o \in OpsOf(r, m)', o.kind = "send"
            PROVE  r = Loop /\ card[m] = NoCard /\ Sending(r, o.req)'
        <5>1. r = Loop /\ card[m] = NoCard /\ Sending(r, o.req)
          BY <1>1, <1>3, <2>2, <4>1 DEF SentByLoop
        <5>2. CASE r = p
          BY <1>2, <2>1, <5>1, <5>2, StartGoesOn
        <5>3. CASE r # p
          BY <1>2, <5>1, <5>3 DEF Sending
        <5> QED
          BY <5>1, <5>2, <5>3
      <4> QED
        BY <1>1, <4>1 DEF SentByLoop
    <3>5. OneFresh(m)'
      BY <1>1, <1>2, <1>3, <1>6, <2>2 DEF OneFresh
    <3>6. OneEdit(m)'
      BY <1>2, <1>3, <3>2 DEF OneEdit
    <3>7. BeingSent(m)'
      <4>1. ASSUME card[m] = NoCard, active[m] # None
            PROVE  box'[Loop].fresh /\ Sending(Loop, active[m])'
        <5>1. box[Loop].fresh /\ Sending(Loop, active[m])
          BY <1>1, <4>1 DEF BeingSent
        <5>2. CASE Loop = p
          <6>1. Sending(p, active[m])'
            <7> DEFINE a == active[m]
            <7>1. Sending(p, a) /\ a' = a
              BY <1>1, <5>1, <5>2
            <7> HIDE DEF a
            <7>2. PICK b : b = a
              OBVIOUS
            <7>3. Sending(p, b) => Sending(p, b)'
              BY <1>2, <2>1, StartGoesOn
            <7> QED
              BY <7>1, <7>2, <7>3 DEF a, Sending
          <6> QED
            BY <2>1, <5>2, <6>1
        <5>3. CASE Loop # p
          <6>1. box'[Loop] = box[Loop]
            BY <1>2, <5>3 DEF Procs
          <6> QED
            BY <1>1, <5>1, <6>1 DEF Sending
        <5> QED
          BY <5>2, <5>3
      <4> QED
        BY <1>1, <4>1 DEF BeingSent, Sending, RequestsOf
    <3>8. BeingShown(m)'
      <4> SUFFICES ASSUME active[m] # None, ask[active[m]].at = "open", card[m] # NoCard
                   PROVE  Coming(active[m])'
        BY <1>1 DEF BeingShown, Coming, Bringing, RequestsOf
      <4>1. ~Settled(m, active[m])
        BY <1>6, <2>4 DEF Settled
      <4>2. PICK a \in Requests : a = active[m] /\ a = active'[m]
        BY <1>1, <1>4
      <4>3. PICK r \in Procs : box[r].fresh /\ Bringing(r, a)
        BY <1>1, <4>1, <4>2 DEF BeingShown, Coming
      <4>4. box'[r].fresh /\ Bringing(r, a)'
        <5>1. CASE r = p
          BY <1>2, <2>1, <4>3, <5>1, StartGoesOn
        <5>2. CASE r # p
          <6>1. box'[r] = box[r]
            BY <1>2, <5>2
          <6> QED
            BY <4>3, <6>1 DEF Bringing, RequestsOf
        <5> QED
          BY <5>1, <5>2
      <4> QED
        BY <4>2, <4>4 DEF Coming, Bringing, RequestsOf
    <3> QED
      BY <3>3, <3>4, <3>5, <3>6, <3>7, <3>8 DEF CardInv
  <2> QED
    BY <2>3, <2>4
<1> QED
  BY <1>5, <1>6

\* Others keep what they have to do for the card; p has less.
LEMMA EndLess ==
  ASSUME TypeInv, NEW p \in Procs, EndUpdate(p), NEW m, SentByLoop(m), OneFresh(m), OneEdit(m)
  PROVE  /\ \A r \in Procs \ {p} : box'[r] = box[r] /\ OpsOf(r, m)' = OpsOf(r, m)
         /\ \A r \in Procs : OpsOf(r, m)' \subseteq OpsOf(r, m) /\ (box'[r].fresh => box[r].fresh)
         /\ OneFresh(m)' /\ OneEdit(m)'
<1>1. \A r \in Procs \ {p} : box'[r] = box[r] /\ OpsOf(r, m)' = OpsOf(r, m)
  BY EndFacts DEF OpsOf, Undone
<1>2. OpsOf(p, m)' \subseteq OpsOf(p, m)
  BY EndFacts DEF OpsOf
<1>3. (box'[p].fresh => box[p].fresh) /\ box'[p].flight = NoOp
  BY EndFacts DEF Empty
<1>4. OneFresh(m)'
  BY <1>1, <1>2, <1>3 DEF OneFresh
<1>5. OneEdit(m)'
  BY <1>1, <1>3, NoOpIsNone DEF OneEdit, OpsOf
<1> QED
  BY <1>1, <1>2, <1>3, <1>4, <1>5

\* The sending of the card ends.
LEMMA SendEnds ==
  ASSUME TypeInv, OneRunEach, NEW p \in Procs, EndUpdate(p), NEW m \in Messages, m \notin mishap',
         Lined(m), CardInv(m), box[p].flight \in OpsOf(p, m), box[p].flight.kind = "send"
  PROVE  CardInv(m)'
<1> DEFINE q == box[p].flight.req
<1>1. /\ BoxesTyped /\ UNCHANGED <<active, stack, node, ask>>
      /\ NoEditYet(m) /\ SentByLoop(m) /\ OneFresh(m) /\ OneEdit(m) /\ BeingSent(m) /\ BeingShown(m)
      /\ card \in [Messages -> [req : Requests \cup {None}, resolved : BOOLEAN]]
  BY DEF TypeInv, EndUpdate, gateway, CardInv, ApprovalsTyped
<1>2. /\ \A r \in Procs \ {p} : box'[r] = box[r] /\ OpsOf(r, m)' = OpsOf(r, m)
      /\ \A r \in Procs : OpsOf(r, m)' \subseteq OpsOf(r, m) /\ (box'[r].fresh => box[r].fresh)
      /\ OneFresh(m)' /\ OneEdit(m)'
  BY <1>1, EndLess
<1>3. p = Loop /\ card[m] = NoCard /\ Sending(Loop, q) /\ q \in Requests /\ RunOf[q] = m /\ q # None
  BY <1>1, ConstantsAssumption DEF SentByLoop, OpsOf, RequestsOf
<1>4. box[p].ops = <<>> /\ box[p].flight = Op("send", q)
  BY <1>3, EndFacts, NoOpIsNone DEF Sending
<1>5. box'[p] = Empty
  BY <1>4, EndFacts
<1>6. OpsOf(p, m)' = {}
  <2>1. Undone(p)' = {NoOp}
    BY <1>5, FewOps DEF Undone, Empty
  <2> QED
    BY <2>1, NoOpIsNone DEF OpsOf
<1>7. \A r \in Procs : \A o \in OpsOf(r, m)' : o.kind # "send"
  BY <1>1, <1>2, <1>3, <1>6 DEF SentByLoop
<1>8. SentByLoop(m)'
  BY <1>7 DEF SentByLoop
<1>9. card'[m] = IF box[p].fresh THEN [req |-> q, resolved |-> FALSE] ELSE card[m]
  <2>1. \/ card' = IF box[p].fresh
                   THEN [card EXCEPT ![m] = [req |-> q, resolved |-> FALSE]]
                   ELSE card
        \/ mishap' = mishap \cup {m}
    BY <1>3, <1>4, OpParts DEF EndUpdate
  <2> QED
    BY <1>1, <2>1
<1>10. CASE ~box[p].fresh
  <2>1. card'[m] = NoCard /\ active[m] = None
    BY <1>1, <1>3, <1>9, <1>10 DEF BeingSent
  <2>2. NoEditYet(m)'
    BY <1>1, <1>2, <1>3 DEF NoEditYet
  <2> QED
    BY <1>1, <1>2, <1>8, <2>1, <2>2 DEF CardInv, BeingSent, BeingShown
<1>11. CASE box[p].fresh
  <2>1. card'[m] = [req |-> q, resolved |-> FALSE] /\ card'[m] # NoCard
    BY <1>3, <1>9, <1>11 DEF NoCard
  <2>2. ASSUME active[m] # None PROVE active[m] = q
    <3>1. Sending(Loop, active[m]) /\ active[m] \in Requests
      BY <1>1, <1>3, <2>2, ActiveFacts DEF BeingSent
    <3>2. Op("send", active[m]) = Op("send", q)
      BY <1>3, <1>4, <3>1, OpParts, NoOpIsNone DEF Sending
    <3> QED
      BY <1>3, <3>1, <3>2, OpParts
  <2>3. ASSUME NEW r \in Procs, OpsOf(r, m)' # {}
        PROVE  ~box'[r].fresh /\ box'[r].flight = NoOp
    <3>1. r # p /\ OpsOf(r, m) # {} /\ OpsOf(p, m) # {}
      BY <1>2, <1>6, <2>3
    <3>2. ~box[r].fresh
      BY <1>1, <1>11, <3>1 DEF OneFresh
    <3>3. \A o \in OpsOf(r, m) : o.kind \notin {"send", "pending", "resolved"}
      BY <1>1, <1>3, <3>1 DEF SentByLoop, NoEditYet, Edits
    <3> QED
      BY <3>1, <3>3, OpFacts DEF OpsOf
  <2>4. active[m] # None => Settled(m, active[m])'
    BY <1>1, <2>1, <2>2, <2>3 DEF Settled
  <2>5. BeingShown(m)'
    BY <1>1, <2>4 DEF BeingShown, Settled
  <2> QED
    BY <1>2, <1>8, <2>1, <2>5 DEF CardInv, NoEditYet, BeingSent
<1> QED
  BY <1>10, <1>11

\* An edit of the card ends.
LEMMA EditEnds ==
  ASSUME TypeInv, OneRunEach, NEW p \in Procs, EndUpdate(p), NEW m \in Messages, m \notin mishap',
         Lined(m), CardInv(m), box[p].flight \in OpsOf(p, m), box[p].flight.kind # "send"
  PROVE  CardInv(m)'
<1> DEFINE op == box[p].flight
<1>1. /\ BoxesTyped /\ UNCHANGED <<active, stack, node, ask>>
      /\ NoEditYet(m) /\ SentByLoop(m) /\ OneFresh(m) /\ OneEdit(m) /\ BeingSent(m) /\ BeingShown(m)
      /\ card \in [Messages -> [req : Requests \cup {None}, resolved : BOOLEAN]]
  BY DEF TypeInv, EndUpdate, gateway, CardInv, ApprovalsTyped
<1>2. /\ \A r \in Procs \ {p} : box'[r] = box[r] /\ OpsOf(r, m)' = OpsOf(r, m)
      /\ \A r \in Procs : OpsOf(r, m)' \subseteq OpsOf(r, m) /\ (box'[r].fresh => box[r].fresh)
      /\ OneFresh(m)' /\ OneEdit(m)'
  BY <1>1, EndLess
<1>3. /\ op \in Ops /\ op.req \in Requests /\ RunOf[op.req] = m /\ op.req # None /\ Edits(op)
      /\ op # NoOp
  BY OpFacts, ConstantsAssumption, NoOpIsNone DEF OpsOf, RequestsOf, Edits
<1>4. card[m] # NoCard
  BY <1>1, <1>3 DEF NoEditYet
<1>5. card'[m] = [req |-> op.req, resolved |-> op.kind = "resolved"]
  <2>1. \/ card' = IF (IF op.kind = "send" THEN box[p].fresh ELSE card[m] # NoCard)
                   THEN [card EXCEPT ![m] = [req |-> op.req, resolved |-> op.kind = "resolved"]]
                   ELSE card
        \/ mishap' = mishap \cup {m}
    BY <1>3 DEF EndUpdate
  <2> QED
    BY <1>1, <1>4, <2>1
<1>6. card'[m] # NoCard
  BY <1>3, <1>5 DEF NoCard
<1>7. SentByLoop(m)'
  <2>1. \A r \in Procs : \A o \in OpsOf(r, m)' : o.kind # "send"
    BY <1>1, <1>2, <1>4 DEF SentByLoop
  <2> QED
    BY <2>1 DEF SentByLoop
<1>8. BeingShown(m)'
  <2> SUFFICES ASSUME active[m] # None, ask[active[m]].at = "open"
               PROVE  Coming(active[m])' \/ Settled(m, active[m])'
    BY <1>1 DEF BeingShown, Coming, Settled, Bringing, RequestsOf
  <2>0. PICK a \in Requests : a = active[m] /\ a = active'[m] /\ RunOf[a] = m
    BY <1>1, ActiveFacts
  <2> SUFFICES Coming(a)' \/ Settled(m, a)'
    BY <2>0 DEF Coming, Settled, Bringing, RequestsOf
  <2>1. a = active[m] /\ ask[a].at = "open"
    BY <2>0
  <2>2. Coming(a) \/ Settled(m, a)
    BY <1>1, <1>4, <2>0, <2>1 DEF BeingShown
  <2>3. Coming(a)
    BY <1>3, <2>2 DEF Settled
  <2>4. PICK r \in Procs : box[r].fresh /\ Bringing(r, a)
    BY <2>3 DEF Coming
  <2>5. CASE r # p
    <3>1. box'[r] = box[r]
      BY <1>2, <2>5
    <3>2. box'[r].fresh /\ Bringing(r, a)'
      BY <2>4, <3>1 DEF Bringing, RequestsOf
    <3> QED
      BY <3>2 DEF Coming
  <2>6. CASE r = p /\ box[p].ops # <<>>
    <3>1. box'[p].ops = box[p].ops /\ box'[p].flight = NoOp /\ box'[p].fresh
      BY <2>4, <2>6, EndFacts
    <3>2. box[p].ops = <<Op("pending", a)>>
      BY <1>3, <2>4, <2>6 DEF Bringing
    <3>3. Bringing(p, a)'
      BY <3>1, <3>2 DEF Bringing
    <3> QED
      BY <3>1, <3>3 DEF Coming
  <2>7. CASE r = p /\ box[p].ops = <<>>
    <3>1. op = Op("pending", a)
      BY <2>4, <2>7, FewOps DEF Bringing
    <3>2. card'[m] = [req |-> a, resolved |-> FALSE]
      BY <1>5, <3>1, OpParts
    <3>3. OpsOf(p, m)' = {}
      <4>1. box'[p] = Empty
        BY <2>7, EndFacts
      <4>2. Undone(p)' = {NoOp}
        BY <4>1, FewOps DEF Undone, Empty
      <4> QED
        BY <4>2, NoOpIsNone DEF OpsOf
    <3>4. ASSUME NEW s \in Procs, OpsOf(s, m)' # {}
          PROVE  ~box'[s].fresh /\ box'[s].flight = NoOp
      <4>1. s # p /\ OpsOf(s, m) # {} /\ box'[s] = box[s]
        BY <1>2, <3>3, <3>4
      <4>2. ~box[s].fresh
        BY <1>1, <2>4, <2>7, <4>1 DEF OneFresh
      <4>3. ~(box[s].flight \in OpsOf(s, m) /\ Edits(box[s].flight))
        BY <1>1, <1>3, <4>1 DEF OneEdit
      <4>4. box[s].flight \notin OpsOf(s, m)
        BY <1>1, <1>4, <4>3, OpFacts DEF SentByLoop, OpsOf, Edits
      <4>5. box[s].flight = NoOp
        <5>1. PICK o \in Undone(s) \cap Ops : o.req \in RequestsOf(m)
          BY <4>1 DEF OpsOf
        <5>2. box[s].flight \in Ops => RunOf[box[s].flight.req] = RunOf[o.req]
          BY <5>1 DEF OneRunEach, Undone
        <5>3. box[s].flight \in Ops => box[s].flight \in OpsOf(s, m)
          BY <5>1, <5>2, OpFacts DEF OpsOf, Undone, RequestsOf
        <5>4. box[s].flight \in Ops \cup {NoOp}
          BY <1>1, BoxFacts
        <5> QED
          BY <4>4, <5>3, <5>4
      <4> QED
        BY <4>1, <4>2, <4>5
    <3>5. Settled(m, a)'
      BY <3>2, <3>4 DEF Settled
    <3> QED
      BY <3>5
  <2> QED
    BY <2>5, <2>6, <2>7
<1> QED
  BY <1>2, <1>6, <1>7, <1>8 DEF CardInv, NoEditYet, BeingSent

LEMMA EndCard ==
  ASSUME TypeInv, OneRunEach, NEW p \in Procs, EndUpdate(p), NEW m \in Messages, m \notin mishap',
         Lined(m), CardInv(m)
  PROVE  CardInv(m)'
<1> DEFINE n == RunOf[box[p].flight.req]
<1>1. /\ UNCHANGED <<active, stack, node, ask>> /\ box[p].flight \in Ops
      /\ card \in [Messages -> [req : Requests \cup {None}, resolved : BOOLEAN]]
  BY EndFacts DEF TypeInv, EndUpdate, gateway, ApprovalsTyped
<1>2. CASE n = m
  <2>1. box[p].flight \in OpsOf(p, m)
    BY <1>1, <1>2, OpFacts DEF OpsOf, Undone, RequestsOf
  <2> QED
    BY <2>1, SendEnds, EditEnds
<1>3. CASE n # m
  <2>1. OpsOf(p, m) = {}
    BY <1>1, <1>3 DEF OneRunEach, OpsOf, Undone, RequestsOf
  <2>2. \A r \in Procs : Elsewhere(r, m)
    BY <2>1, EndFacts DEF Elsewhere, OpsOf
  <2>3. card'[m] = card[m]
    BY <1>1, <1>3 DEF EndUpdate
  <2> QED
    BY <1>1, <2>2, <2>3, CardKept
<1> QED
  BY <1>2, <1>3

-----------------------------------------------------------------------------
(* Each step keeps all of this.                                               *)

\* The adapter does not lose sight of request q.
Hears(q) ==
  /\ node[q] # "none" \/ Announced(q) => node'[q] # "none" \/ Announced(q)'
  /\ node[q] \in Decisions \/ Reported(q) => node'[q] \in Decisions \/ Reported(q)'
  /\ ~Asked(q) /\ Asked(q)' => Announced(q)'
  /\ ask'[q].at = "told" /\ ask[q].at # "told" => Reported(q)'

\* What the adapter comes to know, it knows from the gateway.
Learns ==
  /\ \A q \in Requests :
       /\ node'[q] # "none" => node[q] # "none" \/ Asked(q)
       /\ node'[q] \in Decisions => node[q] \in Decisions \/ ask'[q].at # "open"
  /\ \A k \in Clicks :
       /\ click'[k].at = "update" =>
            \/ click[k].at = "update" /\ click'[k].req = click[k].req
            \/ ask'[click'[k].req].at \notin {"none", "open"}
       /\ click'[k].at # "over" => click[k].at # "over" /\ (Idle(k) => Idle(k)')
  /\ \A p \in Procs : \A o \in Undone(p)' \cap Ops : o \in Undone(p) \/ Asked(o.req)

Follows ==
  /\ FeedInv' /\ OneRunEach' /\ Learns
  /\ \A q \in Requests : Kept(RunOf[q]) /\ Kept(RunOf[q])' => Hears(q)
  /\ mishap \subseteq mishap'
  /\ \A m \in Messages \ mishap' :
       Lined(m)' /\ (Kept(m) /\ CardInv(m) /\ Kept(m)' => CardInv(m)')

Moves == (\A m \in Messages : RunMoves(m)) /\ (\A q \in Requests : AskMoves(q))

LEMMA KeptOrNothing ==
  ASSUME TypeInv, TrackInv, AskInv, Moves, NEW m \in Messages, Kept(m)'
  PROVE  Kept(m) \/ \A q \in RequestsOf(m) : ~Asked(q)'
<1>1. RunMoves(m) /\ Followed(m)
  BY DEF Moves, TrackInv
<1>2. ~run[m].lost /\ (tracked[m] = "pending" \/ run[m].times = 0)
  BY <1>1 DEF RunMoves, Kept
<1>3. ASSUME run[m].times = 0, NEW q \in RequestsOf(m) PROVE ~Asked(q)'
  <2>1. q \in Requests /\ RunOf[q] = m
    BY DEF RequestsOf
  <2>2. ~Asked(q)
    BY <1>2, <1>3, <2>1 DEF AskInv
  <2>3. run[m].at = "none"
    BY <1>1, <1>2, <1>3 DEF Followed
  <2>4. AskMoves(q)
    BY <2>1 DEF Moves
  <2> QED
    BY <2>1, <2>2, <2>3, <2>4 DEF AskMoves, Asked
<1> QED
  BY <1>2, <1>3 DEF Kept

LEMMA KnownStays ==
  ASSUME TypeInv, KnownInv, Moves, Learns
  PROVE  KnownInv'
<1>0. \A q \in Requests : /\ AskMoves(q)
                          /\ Asked(q) => Asked(q)'
                          /\ ask[q].at \notin {"none", "open"} => ask'[q].at \notin {"none", "open"}
  BY DEF Moves, AskMoves, Asked
<1>1. ASSUME NEW q \in Requests, node'[q] # "none" PROVE Asked(q)'
  BY <1>0, <1>1 DEF Learns, KnownInv
<1>2. ASSUME NEW q \in Requests, node'[q] \in Decisions PROVE ask'[q].at # "open"
  <2>1. CASE node[q] \in Decisions
    <3>1. ask[q].at # "open" /\ Asked(q)
      BY <2>1, ConstantsAssumption DEF KnownInv
    <3> QED
      BY <1>0, <3>1 DEF Asked
  <2>2. CASE node[q] \notin Decisions
    BY <1>2, <2>2 DEF Learns
  <2> QED
    BY <2>1, <2>2
<1>3. ASSUME NEW k \in Clicks, click'[k].at = "update" PROVE ask'[click'[k].req].at \notin {"none", "open"}
  <2>1. CASE click[k].at = "update" /\ click'[k].req = click[k].req
    <3>1. click[k].req \in Requests
      BY <2>1 DEF TypeInv, Handlers
    <3>2. ask[click[k].req].at \notin {"none", "open"}
      BY <2>1 DEF KnownInv
    <3> QED
      BY <1>0, <2>1, <3>1, <3>2
  <2> QED
    BY <1>3, <2>1 DEF Learns
<1>4. ASSUME NEW k \in Clicks, click'[k].at # "over" PROVE Idle(k)'
  BY <1>4 DEF Learns, KnownInv
<1>5. ASSUME NEW p \in Procs, NEW o \in Undone(p)' \cap Ops PROVE Asked(o.req)'
  BY <1>0, <1>5, OpFacts DEF Learns, KnownInv
<1> QED
  BY <1>1, <1>2, <1>3, <1>4, <1>5 DEF KnownInv

LEMMA HeardStays ==
  ASSUME TypeInv, TrackInv, AskInv, HeardInv, Moves,
         \A q \in Requests : Kept(RunOf[q]) /\ Kept(RunOf[q])' => Hears(q)
  PROVE  HeardInv'
<1> SUFFICES ASSUME NEW q \in Requests, Kept(RunOf[q])'
             PROVE  /\ ask'[q].at \in {"open", "taken", "told"} => node'[q] # "none" \/ Announced(q)'
                    /\ ask'[q].at = "told" => node'[q] \in Decisions \/ Reported(q)'
  BY DEF HeardInv, Kept
<1>1. RunOf[q] \in Messages /\ q \in RequestsOf(RunOf[q]) /\ AskMoves(q)
  BY ConstantsAssumption DEF RequestsOf, Moves
<1>2. CASE ~Asked(q)'
  BY <1>2 DEF Asked
<1>3. CASE Kept(RunOf[q])
  <2>1. Hears(q)
    BY <1>3
  <2>2. /\ ask[q].at \in {"open", "taken", "told"} => node[q] # "none" \/ Announced(q)
        /\ ask[q].at = "told" => node[q] \in Decisions \/ Reported(q)
    BY <1>3 DEF HeardInv
  <2>3. ask'[q].at \in {"open", "taken", "told"} => ask[q].at \in {"open", "taken", "told"} \/ (~Asked(q) /\ Asked(q)')
    BY <1>1 DEF AskMoves, Asked
  <2> QED
    BY <2>1, <2>2, <2>3 DEF Hears
<1> QED
  BY <1>1, <1>2, <1>3, KeptOrNothing

LEMMA FollowsKeeps ==
  ASSUME TypeInv, TrackInv, ShownInv, Moves, Follows
  PROVE  ShownInv'
<1>1. AskInv /\ FeedInv /\ OneRunEach /\ KnownInv /\ HeardInv /\ CardsInv
  BY DEF ShownInv
<1>2. AskInv'
  BY <1>1, AsksStayRight DEF Moves
<1>3. KnownInv'
  BY <1>1, KnownStays DEF Follows
<1>4. HeardInv'
  BY <1>1, HeardStays DEF Follows
<1>5. ASSUME NEW m \in Messages, m \notin mishap'
      PROVE  Lined(m)' /\ (Kept(m)' => CardInv(m)')
  <2>1. Lined(m)' /\ m \notin mishap
    BY <1>5 DEF Follows
  <2>2. ASSUME Kept(m)' PROVE CardInv(m)'
    <3>1. CASE Kept(m)
      BY <1>1, <1>5, <2>1, <2>2, <3>1 DEF Follows, CardsInv
    <3>2. CASE \A q \in RequestsOf(m) : ~Asked(q)'
      BY <1>3, <2>1, <3>2, CardOfNothing
    <3> QED
      BY <1>1, <2>2, <3>1, <3>2, KeptOrNothing
  <2> QED
    BY <2>1, <2>2
<1>6. CardsInv'
  BY <1>5 DEF CardsInv
<1> QED
  BY <1>2, <1>3, <1>4, <1>6 DEF Follows, ShownInv

-----------------------------------------------------------------------------
(* The steps, one kind after the other. *)

LEMMA BoxesSame ==
  ASSUME box' = box
  PROVE  /\ OneRunEach => OneRunEach'
         /\ \A p : Undone(p)' = Undone(p) /\ (Idle(p) => Idle(p)')
         /\ \A p, m : Elsewhere(p, m)
BY DEF OneRunEach, Undone, Idle, Elsewhere

\* A step that leaves the approvals alone leaves the cards alone.
LEMMA CardsStay ==
  ASSUME ShownInv, UNCHANGED <<approvals, mishap>>,
         \A q \in Requests : Asked(q) /\ ask'[q].at = "open" => ask[q].at = "open"
  PROVE  /\ OneRunEach' /\ mishap \subseteq mishap'
         /\ \A m \in Messages \ mishap' :
              Lined(m)' /\ (Kept(m) /\ CardInv(m) /\ Kept(m)' => CardInv(m)')
<1>1. OneRunEach' /\ mishap \subseteq mishap' /\ \A p, m : Elsewhere(p, m)
  BY BoxesSame DEF approvals, ShownInv
<1>2. ASSUME NEW m \in Messages \ mishap'
      PROVE  Lined(m)' /\ (CardInv(m) => CardInv(m)')
  <2>1. Lined(m)
    BY <1>2 DEF ShownInv, CardsInv
  <2>2. active[m] # None => (ask'[active[m]].at = "open" => ask[active[m]].at = "open")
    <3>1. active[m] # None => active[m] \in Requests /\ Asked(active[m])
      BY <2>1, ActiveFacts DEF Lined, ShownInv, KnownInv
    <3> QED
      BY <3>1
  <2>3. Lined(m)'
    BY <2>1, LinedKept DEF approvals
  <2> QED
    BY <1>1, <2>1, <2>2, <2>3, CardKept DEF approvals
<1> QED
  BY <1>1, <1>2

\* Nothing but runs and the table of runs changes.
LEMMA AsideFollows ==
  ASSUME ShownInv, UNCHANGED <<approvals, feed, ask, click, mishap>>
  PROVE  Follows
<1>1. /\ OneRunEach' /\ mishap \subseteq mishap'
      /\ \A m \in Messages \ mishap' :
           Lined(m)' /\ (Kept(m) /\ CardInv(m) /\ Kept(m)' => CardInv(m)')
  BY CardsStay DEF Asked
<1>2. FeedInv'
  BY FeedStays DEF ShownInv, NoneOpens, Asked, approvals
<1>3. Learns
  BY BoxesSame DEF Learns, approvals
<1>4. \A q \in Requests : Hears(q)
  BY DEF Hears, Announced, Reported, Asked, approvals
<1> QED
  BY <1>1, <1>2, <1>3, <1>4 DEF Follows

LEMMA StaledIdle ==
  ASSUME NEW p, NEW m, Staled(p, m), Idle(p)
  PROVE  Idle(p)'
BY EmptyUndone DEF Staled, Idle

LEMMA UntrackFollows ==
  ASSUME TypeInv, ShownInv, NEW n \in Messages, Untrack(n), UNCHANGED <<feed, ask, click, mishap>>
  PROVE  Follows
<1>1. /\ BoxesTyped /\ FeedInv /\ OneRunEach /\ KnownInv
      /\ tracked \in [Messages -> {"no", "pending", "ended", "blank"}]
      /\ active \in [Messages -> Requests \cup {None}]
      /\ card \in [Messages -> [req : Requests \cup {None}, resolved : BOOLEAN]]
  BY DEF TypeInv, ShownInv, TrackedOnly, ApprovalsTyped
<1>2. /\ \A p \in Procs : Staled(p, n)
      /\ \A q \in Requests : node'[q] = IF RunOf[q] = n THEN "none" ELSE node[q]
      /\ tracked'[n] # "pending"
      /\ \A m \in Messages \ {n} : active'[m] = active[m] /\ card'[m] = card[m]
  BY <1>1, UntrackStales DEF Untrack
<1>3. \A p \in Procs : Undone(p)' = Undone(p) /\ (Idle(p) => Idle(p)')
  BY <1>2, StaledUndone, StaledIdle
<1>4. FeedInv'
  BY <1>1, <1>2, FeedStays DEF FeedInv, NoneOpens, Asked
<1>5. OneRunEach'
  BY <1>1, <1>3 DEF OneRunEach
<1>6. Learns
  <2>1. \A q \in Requests : node'[q] \in {node[q], "none"}
    BY <1>2
  <2> QED
    BY <1>3, <2>1, ConstantsAssumption DEF Learns, Procs
<1>7. ASSUME NEW q \in Requests, Kept(RunOf[q])' PROVE Hears(q)
  <2>1. RunOf[q] # n
    BY <1>2, <1>7 DEF Kept
  <2> QED
    BY <1>2, <2>1 DEF Hears, Announced, Reported, Asked
<1>8. ASSUME NEW m \in Messages \ mishap'
      PROVE  Lined(m)' /\ (CardInv(m) /\ Kept(m)' => CardInv(m)')
  <2>1. Lined(m)
    BY <1>8 DEF ShownInv, CardsInv
  <2>2. Lined(m)'
    BY <1>8, <2>1, UntrackLined
  <2>3. ASSUME Kept(m)', CardInv(m) PROVE CardInv(m)'
    <3>1. m # n
      BY <1>2, <2>3 DEF Kept
    <3>2. \A p \in Procs : Elsewhere(p, m)
      BY <1>1, <1>2, <3>1, StaledElsewhere
    <3>3. \A q \in RequestsOf(m) : node'[q] = node[q]
      BY <1>2, <3>1 DEF RequestsOf
    <3>4. active'[m] = active[m] /\ card'[m] = card[m]
      BY <1>2, <1>8, <3>1
    <3> QED
      BY <1>8, <2>1, <2>3, <3>2, <3>3, <3>4, CardKept
  <2> QED
    BY <2>2, <2>3
<1> QED
  BY <1>4, <1>5, <1>6, <1>7, <1>8 DEF Follows

\* An event that is not the first stays on its way.
LEMMA StillOnTheWay ==
  ASSUME Gateway, feed # <<>>, feed' = Tail(feed), NEW q
  PROVE  /\ Announced(q) => Announced(q)' \/ IsRequested(Head(feed), q)
         /\ Reported(q) => Reported(q)' \/ IsResolved(Head(feed), q)
<1>1. ASSUME NEW i \in DOMAIN feed, i # 1 PROVE i - 1 \in DOMAIN feed' /\ feed'[i - 1] = feed[i]
  BY <1>1, FeedTailed
<1> QED
  BY <1>1, FeedTailed DEF Announced, Reported

\* An event that changes no approval is taken.
LEMMA TakeFollows ==
  ASSUME TypeInv, ShownInv, feed # <<>>, feed' = Tail(feed), UNCHANGED <<approvals, ask, click, mishap>>,
         tracked[Head(feed).run] # "pending" \/ Head(feed).kind = "done"
  PROVE  Follows
<1>0. Gateway /\ Head(feed) \in Events
  BY FeedTailed DEF TypeInv
<1>1. /\ OneRunEach' /\ mishap \subseteq mishap'
      /\ \A m \in Messages \ mishap' :
           Lined(m)' /\ (Kept(m) /\ CardInv(m) /\ Kept(m)' => CardInv(m)')
  BY CardsStay DEF Asked
<1>2. FeedInv'
  BY <1>0, FeedLoses DEF ShownInv, approvals
<1>3. Learns
  BY BoxesSame DEF Learns, approvals
<1>4. ASSUME NEW q \in Requests, Kept(RunOf[q]) PROVE Hears(q)
  <2>1. ~IsRequested(Head(feed), q) /\ ~IsResolved(Head(feed), q)
    BY <1>0, <1>4, EventFacts DEF IsRequested, IsResolved, Kept
  <2>2. (Announced(q) => Announced(q)') /\ (Reported(q) => Reported(q)')
    BY <1>0, <2>1, StillOnTheWay
  <2> QED
    BY <2>2 DEF Hears, Asked, approvals
<1> QED
  BY <1>1, <1>2, <1>3, <1>4 DEF Follows

\* The gateway takes an answer, or a user begins to give one.
LEMMA AnswerFollows ==
  ASSUME TypeInv, ShownInv, UNCHANGED <<approvals, feed, mishap>>,
         ask' = ask \/ \E q \in Requests : \E d : Answer(q, d),
         \A k \in Clicks :
           /\ click'[k].at = "update" =>
                \/ click[k].at = "update" /\ click'[k].req = click[k].req
                \/ ask'[click'[k].req].at \notin {"none", "open"}
           /\ click'[k].at # "over" => click[k].at # "over"
  PROVE  Follows
<1>0. \A q \in Requests : ask'[q] = ask[q] \/ (ask[q].at = "open" /\ ask'[q].at = "taken")
  BY DEF Answer, TypeInv, Gateway, GatewayTyped
<1>1. /\ OneRunEach' /\ mishap \subseteq mishap'
      /\ \A m \in Messages \ mishap' :
           Lined(m)' /\ (Kept(m) /\ CardInv(m) /\ Kept(m)' => CardInv(m)')
  BY <1>0, CardsStay
<1>2. FeedInv'
  <2>1. NoneOpens
    BY <1>0 DEF NoneOpens, Asked
  <2> QED
    BY <2>1, FeedStays DEF ShownInv, approvals
<1>3. Learns
  BY BoxesSame DEF Learns, approvals
<1>4. \A q \in Requests : Hears(q)
  BY <1>0 DEF Hears, Announced, Reported, Asked, approvals
<1> QED
  BY <1>1, <1>2, <1>3, <1>4 DEF Follows

LEMMA GottenKeeps ==
  ASSUME Gateway, NEW i, NEW e, FeedGets(i, e), NEW q
  PROVE  (Announced(q) => Announced(q)') /\ (Reported(q) => Reported(q)')
<1>1. ASSUME NEW j \in DOMAIN feed PROVE \E k \in DOMAIN feed' : feed'[k] = feed[j]
  <2>1. i \in Nat /\ j \in Nat
    BY FeedPlaces DEF FeedGets
  <2>2. j < i \/ j >= i
    BY <2>1
  <2> QED
    BY <2>2, FeedPlaces
<1> QED
  BY <1>1 DEF Announced, Reported

LEMMA RunEndsFollows ==
  ASSUME TypeInv, ShownInv, NEW m \in Messages, RunEnds(m)
  PROVE  Follows
<1>0. /\ \A q \in Requests : ask'[q] = ask[q] \/ (ask[q].at \in {"open", "taken"} /\ ask'[q].at = "left")
      /\ UNCHANGED <<approvals, click, mishap>> /\ node' = node /\ box' = box
      /\ Gateway /\ FeedInv
  BY DEF RunEnds, TypeInv, Gateway, GatewayTyped, ShownInv, approvals
<1> DEFINE e == Event("done", m, None)
<1>1. PICK i \in 1 .. Len(feed) + 1 : feed' = InsertAt(feed, i, e)
  BY DEF RunEnds
<1>2. e \in Events /\ e.kind = "done"
  BY DEF Events, Event
<1>3. FeedGets(i, e)
  BY <1>0, <1>1, <1>2, InsertGets
<1> HIDE DEF e
<1>4. /\ OneRunEach' /\ mishap \subseteq mishap'
      /\ \A n \in Messages \ mishap' :
           Lined(n)' /\ (Kept(n) /\ CardInv(n) /\ Kept(n)' => CardInv(n)')
  BY <1>0, CardsStay
<1>5. FeedInv'
  <2>1. NoneOpens
    BY <1>0 DEF NoneOpens, Asked
  <2> QED
    BY <1>0, <1>2, <1>3, <2>1, FeedGetsEnd
<1>6. Learns
  BY <1>0, BoxesSame DEF Learns
<1>7. ASSUME NEW q \in Requests PROVE Hears(q)
  BY <1>0, <1>3, GottenKeeps DEF Hears, Asked
<1> QED
  BY <1>4, <1>5, <1>6, <1>7 DEF Follows

LEMMA AskFollows ==
  ASSUME TypeInv, ShownInv, NEW q \in Requests, Ask(q)
  PROVE  Follows
<1> DEFINE e == Event("requested", RunOf[q], q)
<1>0. /\ ask[q].at = "none" /\ ask'[q].at = "open" /\ \A r \in Requests \ {q} : ask'[r] = ask[r]
      /\ \A r \in RequestsOf(RunOf[q]) : ask[r].at # "open"
      /\ UNCHANGED <<approvals, click, mishap>> /\ node' = node /\ box' = box
      /\ Gateway /\ FeedInv /\ KnownInv /\ feed' = Append(feed, e)
  BY DEF Ask, TypeInv, Gateway, GatewayTyped, ShownInv, approvals
<1>1. node[q] = "none"
  BY <1>0 DEF KnownInv, Asked
<1>2. FeedGets(Len(feed) + 1, e)
  BY <1>0, AppendGets
<1>3. /\ OneRunEach' /\ mishap \subseteq mishap'
      /\ \A n \in Messages \ mishap' :
           Lined(n)' /\ (Kept(n) /\ CardInv(n) /\ Kept(n)' => CardInv(n)')
  <2>1. \A r \in Requests : Asked(r) /\ ask'[r].at = "open" => ask[r].at = "open"
    BY <1>0 DEF Asked
  <2> QED
    BY <1>0, <2>1, CardsStay
<1>4. FeedInv'
  BY <1>0, <1>1, <1>2, FeedGetsRequest
<1>5. Learns
  BY <1>0, BoxesSame DEF Learns
<1>6. Announced(q)'
  <2>1. Len(feed) + 1 \in DOMAIN feed' /\ feed'[Len(feed) + 1] = e
    BY <1>0, <1>2, FeedPlaces
  <2> QED
    BY <2>1 DEF Announced, IsRequested, Event
<1> HIDE DEF e
<1>7. ASSUME NEW r \in Requests PROVE Hears(r)
  BY <1>0, <1>2, <1>6, GottenKeeps DEF Hears, Asked
<1> QED
  BY <1>3, <1>4, <1>5, <1>7 DEF Follows

LEMMA ReportFollows ==
  ASSUME TypeInv, ShownInv, NEW q \in Requests, Report(q)
  PROVE  Follows
<1> DEFINE e == Event("resolved", RunOf[q], q)
<1>0. /\ ask[q].at = "taken" /\ ask'[q].at = "told" /\ \A r \in Requests \ {q} : ask'[r] = ask[r]
      /\ UNCHANGED <<approvals, click, mishap>> /\ node' = node /\ box' = box
      /\ Gateway /\ FeedInv /\ feed' = Append(feed, e)
  BY DEF Report, TypeInv, Gateway, GatewayTyped, ShownInv, approvals
<1>1. NoneOpens
  BY <1>0 DEF NoneOpens, Asked
<1>2. FeedGets(Len(feed) + 1, e)
  BY <1>0, AppendGets
<1>3. /\ OneRunEach' /\ mishap \subseteq mishap'
      /\ \A n \in Messages \ mishap' :
           Lined(n)' /\ (Kept(n) /\ CardInv(n) /\ Kept(n)' => CardInv(n)')
  BY <1>0, <1>1, CardsStay DEF NoneOpens
<1>4. FeedInv'
  BY <1>0, <1>1, <1>2, FeedGetsReport
<1>5. Learns
  BY <1>0, BoxesSame DEF Learns
<1>6. Reported(q)'
  <2>1. Len(feed) + 1 \in DOMAIN feed' /\ feed'[Len(feed) + 1] = e
    BY <1>0, <1>2, FeedPlaces
  <2> QED
    BY <2>1 DEF Reported, IsResolved, Event
<1> HIDE DEF e
<1>7. ASSUME NEW r \in Requests PROVE Hears(r)
  BY <1>0, <1>2, <1>6, GottenKeeps DEF Hears, Asked
<1> QED
  BY <1>3, <1>4, <1>5, <1>7 DEF Follows

\* An update of a card goes off or ends.
LEMMA UpdateFollows ==
  ASSUME TypeInv, ShownInv, NEW p \in Procs, StartUpdate(p) \/ EndUpdate(p)
  PROVE  Follows
<1>0. /\ UNCHANGED <<tracked, active, stack, node, click, feed, run, ask>> /\ BoxesTyped
      /\ FeedInv /\ OneRunEach /\ KnownInv /\ mishap \subseteq mishap'
  BY DEF StartUpdate, EndUpdate, gateway, TypeInv, ShownInv
<1>1. /\ \A r \in Procs \ {p} : box'[r] = box[r]
      /\ Undone(p)' \cap Ops \subseteq Undone(p) \cap Ops /\ ~Idle(p)
  <2>1. CASE StartUpdate(p) /\ box[p].fresh
    BY <2>1, StartFacts DEF Idle, Empty
  <2>2. CASE StartUpdate(p) /\ ~box[p].fresh
    <3>1. box'[p] = Empty
      BY <2>2, StartFacts
    <3>2. Undone(p)' = {NoOp}
      BY <3>1, FewOps DEF Undone, Empty
    <3> QED
      BY <2>2, <3>2, StartFacts, NoOpIsNone DEF Idle, Empty
  <2>3. CASE EndUpdate(p)
    BY <2>3, EndFacts, NoOpIsNone DEF Idle, Empty
  <2> QED
    BY <2>1, <2>2, <2>3
<1>2. \A r \in Procs : Undone(r)' \cap Ops \subseteq Undone(r) \cap Ops /\ (Idle(r) => Idle(r)')
  BY <1>1 DEF Undone, Idle
<1>3. FeedInv'
  BY <1>0, FeedStays DEF NoneOpens, Asked
<1>4. OneRunEach'
  BY <1>0, <1>2 DEF OneRunEach
<1>5. Learns
  BY <1>0, <1>2 DEF Learns, Procs
<1>6. \A q \in Requests : Hears(q)
  BY <1>0 DEF Hears, Announced, Reported, Asked
<1>7. ASSUME NEW m \in Messages \ mishap'
      PROVE  Lined(m)' /\ (CardInv(m) => CardInv(m)')
  <2>1. Lined(m)
    BY <1>0, <1>7 DEF ShownInv, CardsInv
  <2>2. Lined(m)'
    BY <1>0, <2>1, LinedKept
  <2>3. CardInv(m) => CardInv(m)'
    BY <1>0, <1>7, <2>1, StartCard, EndCard
  <2> QED
    BY <2>2, <2>3
<1> QED
  BY <1>0, <1>3, <1>4, <1>5, <1>6, <1>7 DEF Follows

-----------------------------------------------------------------------------
(* The consumer and the clicks change the approvals of a run.                 *)

\* Updates of run m, as a list for an idle process.
ListFor(m, ops) == ops \in Seq(Ops) /\ \A o \in ToSet(ops) : o.req \in RequestsOf(m)

LEMMA ListsFor ==
  ASSUME NEW m, NEW q \in Requests, m = RunOf[q]
  PROVE  /\ ListFor(m, <<>>)
         /\ \A kind \in {"send", "pending", "resolved"} : ListFor(m, <<Op(kind, q)>>)
         /\ \A r \in RequestsOf(m) : ListFor(m, <<Op("resolved", q), Op("pending", r)>>)
<1>1. q \in RequestsOf(m)
  BY DEF RequestsOf
<1>2. ListFor(m, <<>>)
  BY FewOps DEF ListFor
<1>3. ASSUME NEW kind \in {"send", "pending", "resolved"} PROVE ListFor(m, <<Op(kind, q)>>)
  <2>1. Op(kind, q) \in Ops /\ Op(kind, q).req = q
    BY OpParts
  <2>2. <<Op(kind, q)>> \in Seq(Ops)
    BY <2>1
  <2> QED
    BY <1>1, <2>1, <2>2, FewOps DEF ListFor
<1>4. ASSUME NEW r \in RequestsOf(m) PROVE ListFor(m, <<Op("resolved", q), Op("pending", r)>>)
  <2>1. r \in Requests
    BY DEF RequestsOf
  <2>2. Op("resolved", q) \in Ops /\ Op("resolved", q).req = q /\ Op("pending", r) \in Ops /\ Op("pending", r).req = r
    BY <2>1, OpParts
  <2>3. <<Op("resolved", q), Op("pending", r)>> \in Seq(Ops)
    BY <2>2
  <2> QED
    BY <1>1, <2>2, <2>3, FewOps DEF ListFor
<1> QED
  BY <1>2, <1>3, <1>4

LEMMA ChangedUndone ==
  ASSUME BoxesTyped, OneRunEach, NEW p \in Procs, NEW m, NEW ops, ListFor(m, ops), Changed(p, m, ops)
  PROVE  /\ OneRunEach' /\ Undone(p)' \cap Ops = ToSet(ops)
         /\ \A r \in Procs \ {p} : Undone(r)' = Undone(r) /\ (Idle(r) => Idle(r)')
<1>0. ToSet(ops) \subseteq Ops
  BY DEF ListFor, ToSet
<1>1. Undone(p)' \cap Ops = ToSet(ops)
  <2>1. CASE ops = <<>>
    BY <2>1, FewOps, NothingGiven
  <2>2. CASE ops # <<>>
    BY <1>0, <2>2, GivenOps, NoOpIsNone DEF ListFor
  <2> QED
    BY <2>1, <2>2
<1>2. \A r \in Procs \ {p} : Undone(r)' = Undone(r) /\ (Idle(r) => Idle(r)')
  BY ChangedFacts, StaledUndone, StaledIdle
<1>3. \A o \in ToSet(ops) : RunOf[o.req] = m
  BY DEF ListFor, RequestsOf
<1>4. ASSUME NEW r \in Procs, NEW o \in Undone(r)' \cap Ops, NEW u \in Undone(r)' \cap Ops
      PROVE RunOf[o.req] = RunOf[u.req]
  <2>1. CASE r = p
    BY <1>1, <1>3, <2>1
  <2>2. CASE r # p
    BY <1>2, <2>2 DEF OneRunEach
  <2> QED
    BY <2>1, <2>2
<1> QED
  BY <1>1, <1>2, <1>4 DEF OneRunEach

\* The other runs keep their requests and their cards.
LEMMA OthersStay ==
  ASSUME BoxesTyped, ShownInv, NEW p \in Procs, Idle(p), NEW m, NEW ops, ListFor(m, ops), Changed(p, m, ops),
         mishap \subseteq mishap', ask' = ask, card' = card,
         NEW n \in Messages \ mishap', n # m, active'[n] = active[n], stack'[n] = stack[n],
         \A r \in RequestsOf(n) : node'[r] = node[r]
  PROVE  Lined(n)' /\ (Kept(n) /\ CardInv(n) /\ Kept(n)' => CardInv(n)')
<1>1. Lined(n) /\ OneRunEach
  BY DEF ShownInv, CardsInv
<1>2. Lined(n)'
  BY <1>1, LinedKept
<1>3. \A r \in Procs : Elsewhere(r, n)
  BY <1>1, ChangedElsewhere DEF ListFor
<1> QED
  BY <1>1, <1>2, <1>3, CardKept

\* A request is announced to the adapter: no other request of its run is open by
\* then, for that one would be announced later.
LEMMA RequestFollows ==
  ASSUME TypeInv, ShownInv, PermissionRequested
  PROVE  Follows
<1>1. PICK q \in Requests : q = Head(feed).req /\ RunOf[q] = Head(feed).run
  BY FeedTailed, EventFacts DEF PermissionRequested, Ready, TypeInv
<1>2. PICK m \in Messages : m = RunOf[q]
  BY ConstantsAssumption
<1>3. /\ Request(Loop, q) /\ Idle(Loop) /\ feed # <<>> /\ feed' = Tail(feed)
      /\ UNCHANGED <<tracked, card, click, ask, mishap>>
      /\ IsRequested(Head(feed), q) /\ ~IsResolved(Head(feed), q) /\ Head(feed).kind = "requested"
  BY <1>1 DEF PermissionRequested, Ready, IsRequested, IsResolved
<1>4. Gateway /\ ApprovalsTyped /\ BoxesTyped /\ FeedInv /\ OneRunEach /\ Loop \in Procs
  BY DEF TypeInv, ShownInv, Procs
<1>5. IsRequested(feed[1], q) /\ 1 \in DOMAIN feed
  BY <1>3, <1>4, FeedTailed
<1>6. Asked(q) /\ node[q] = "none"
  BY <1>4, <1>5 DEF FeedInv, Announced
<1>7. Requested(m, Loop, q)
  BY <1>2, <1>3, <1>4, <1>6, RequestFacts
<1>8. q \in RequestsOf(m)
  BY <1>2 DEF RequestsOf
<1>9. /\ \A r \in Requests \ {q} : node'[r] = node[r]
      /\ node'[q] \in {"queued", "displaying"}
  BY <1>7 DEF Requested
<1>10. PICK ops : Changed(Loop, m, ops) /\ ListFor(m, ops) /\ \A o \in ToSet(ops) : o.req = q
  <2>1. CASE active[m] \in {None, q}
    <3>1. PICK kind \in {"send", "pending", "resolved"} : Changed(Loop, m, <<Op(kind, q)>>)
      BY <1>7, <2>1 DEF Requested
    <3>2. \A o \in ToSet(<<Op(kind, q)>>) : o.req = q
      BY FewOps, OpParts
    <3> QED
      BY <1>2, <3>1, <3>2, ListsFor
  <2>2. CASE active[m] \notin {None, q}
    BY <1>2, <1>7, <2>2, ListsFor, FewOps DEF Requested
  <2> QED
    BY <2>1, <2>2
<1>11. /\ OneRunEach' /\ Undone(Loop)' \cap Ops = ToSet(ops)
       /\ \A r \in Procs \ {Loop} : Undone(r)' = Undone(r) /\ (Idle(r) => Idle(r)')
  BY <1>4, <1>10, ChangedUndone
<1>12. FeedInv'
  <2>1. \A r \in Requests : node[r] = "none" /\ ~IsRequested(Head(feed), r) => node'[r] = "none"
    BY <1>3, <1>9
  <2> QED
    BY <1>3, <1>4, <2>1, FeedLoses
<1>13. Learns
  <2>1. ASSUME NEW r \in Requests
        PROVE /\ node'[r] # "none" => node[r] # "none" \/ Asked(r)
              /\ node'[r] \in Decisions => node[r] \in Decisions \/ ask'[r].at # "open"
    BY <1>6, <1>9, ConstantsAssumption
  <2>2. ASSUME NEW k \in Clicks PROVE Idle(k) => Idle(k)'
    BY <1>11, ConstantsAssumption DEF Procs
  <2>3. ASSUME NEW r \in Procs, NEW o \in Undone(r)' \cap Ops PROVE o \in Undone(r) \/ Asked(o.req)
    BY <1>6, <1>10, <1>11
  <2> QED
    BY <1>3, <2>1, <2>2, <2>3 DEF Learns
<1>14. ASSUME NEW r \in Requests PROVE Hears(r)
  <2>1. /\ Announced(r) => Announced(r)' \/ r = q
        /\ Reported(r) => Reported(r)'
    BY <1>3, <1>4, StillOnTheWay DEF IsRequested, IsResolved
  <2>2. node'[r] = node[r] \/ (r = q /\ node'[r] # "none" /\ node[r] \notin Decisions)
    BY <1>6, <1>9, ConstantsAssumption
  <2>3. ask'[r] = ask[r] /\ ~(~Asked(r) /\ Asked(r)')
    BY <1>3 DEF Asked
  <2>4. CASE node'[r] = node[r] /\ r # q
    BY <2>1, <2>3, <2>4 DEF Hears
  <2>5. CASE r = q
    BY <1>6, <1>9, <2>1, <2>3, <2>5, ConstantsAssumption DEF Hears
  <2> QED
    BY <2>2, <2>4, <2>5, <1>9
<1>15. ASSUME NEW n \in Messages \ mishap', n # m
       PROVE Lined(n)' /\ (Kept(n) /\ CardInv(n) /\ Kept(n)' => CardInv(n)')
  <2>1. active'[n] = active[n] /\ stack'[n] = stack[n]
    BY <1>7, <1>15 DEF Requested
  <2>2. \A r \in RequestsOf(n) : node'[r] = node[r]
    BY <1>2, <1>9, <1>15 DEF RequestsOf
  <2> QED
    BY <1>3, <1>4, <1>10, <1>15, <2>1, <2>2, OthersStay
<1>16. ASSUME m \notin mishap'
       PROVE Lined(m)' /\ (Kept(m) /\ CardInv(m) /\ Kept(m)' => CardInv(m)')
  <2>1. Lined(m)
    BY <1>3, <1>16 DEF ShownInv, CardsInv
  <2>2. Lined(m)' /\ active[m] # q
    BY <1>2, <1>6, <1>7, <2>1, RequestLined
  <2>3. active[m] # None => ask'[active[m]].at # "open"
    <3> SUFFICES ASSUME active[m] # None, ask'[active[m]].at = "open" PROVE FALSE
      OBVIOUS
    <3>1. active[m] \in Requests /\ RunOf[active[m]] = m /\ node[active[m]] = "displaying"
      BY <2>1 DEF Lined, RequestsOf
    <3>2. ask[active[m]].at = "open"
      BY <1>3
    <3>3. Announced(active[m])
      BY <1>2, <1>4, <1>5, <2>2, <3>1, <3>2 DEF FeedInv, Announced
    <3> QED
      BY <1>4, <3>1, <3>3 DEF FeedInv
  <2> QED
    BY <1>2, <1>3, <1>6, <1>7, <2>1, <2>2, <2>3, RequestCard
<1> QED
  BY <1>3, <1>11, <1>12, <1>13, <1>14, <1>15, <1>16 DEF Follows

\* A request is resolved, by its report or after a click, or was before.
ResolvesNow(p, q, m, decision) ==
  /\ tracked[m] # "no" /\ node[q] \in {"queued", "displaying"}
  /\ \E heir \in RequestsOf(m) \cup {None} : Resolved(m, p, q, decision, heir)

LEMMA ResolveCases ==
  ASSUME ApprovalsTyped, NEW p, NEW q \in Requests, NEW m \in Messages, m = RunOf[q],
         NEW decision, Resolve(p, q, decision)
  PROVE  \/ UNCHANGED <<active, stack, node, box, mishap>> /\ (tracked[m] = "no" \/ node[q] \in {"none"} \cup Decisions)
         \/ ResolvesNow(p, q, m, decision)
<1>1. CASE tracked[m] = "no" \/ node[q] \in {"none"} \cup Decisions
  BY <1>1 DEF Resolve
<1>2. CASE ~(tracked[m] = "no" \/ node[q] \in {"none"} \cup Decisions)
  <2>1. node[q] \in {"queued", "displaying"}
    BY <1>2 DEF ApprovalsTyped
  <2>2. \E heir \in RequestsOf(m) \cup {None} : Resolved(m, p, q, decision, heir)
    BY <1>2, ResolveFacts
  <2> QED
    BY <1>2, <2>1, <2>2 DEF ResolvesNow
<1> QED
  BY <1>1, <1>2

LEMMA ResolveNodes ==
  ASSUME ApprovalsTyped, NEW p, NEW q \in Requests, NEW m \in Messages, m = RunOf[q],
         NEW decision \in Decisions, Resolve(p, q, decision)
  PROVE  /\ \A r \in Requests : /\ node'[r] = "none" <=> node[r] = "none"
                                /\ node[r] \in Decisions => node'[r] \in Decisions
                                /\ node'[r] \in Decisions => node[r] \in Decisions \/ r = q
         /\ tracked[m] # "no" /\ node[q] # "none" => node'[q] \in Decisions
<1>1. CASE UNCHANGED <<active, stack, node, box, mishap>> /\ (tracked[m] = "no" \/ node[q] \in {"none"} \cup Decisions)
  BY <1>1
<1>2. CASE ResolvesNow(p, q, m, decision)
  <2>1. PICK heir \in RequestsOf(m) \cup {None} : Resolved(m, p, q, decision, heir)
    BY <1>2 DEF ResolvesNow
  <2>2. /\ node'[q] = decision /\ node[q] \in {"queued", "displaying"}
        /\ heir # None => heir # q /\ node[heir] = "queued" /\ node'[heir] = "displaying"
        /\ \A r \in Requests \ {q, heir} : node'[r] = node[r]
    BY <1>2, <2>1 DEF Resolved, ResolvesNow
  <2>3. heir = None => heir \notin Requests
    BY ConstantsAssumption
  <2> QED
    BY <2>2, <2>3, ConstantsAssumption
<1> QED
  BY <1>1, <1>2, ResolveCases

\* The clicks that are under way, and the process that resolves is none of them
\* afterwards.
ClicksAfter(p) ==
  \A k \in Clicks :
    /\ click'[k].at = "update" => click[k].at = "update" /\ click'[k].req = click[k].req
    /\ click'[k].at # "over" => click[k].at # "over" /\ k # p

LEMMA ResolveFollows ==
  ASSUME TypeInv, ShownInv, NEW p \in Procs, Idle(p), NEW q \in Requests, NEW decision \in Decisions,
         Resolve(p, q, decision), ask[q].at \notin {"none", "open"}, UNCHANGED <<tracked, card, ask>>,
         FeedInv', ClicksAfter(p),
         \A r \in Requests : Announced(r) => Announced(r)',
         \A r \in Requests : Reported(r) => \/ Reported(r)'
                                            \/ r = q /\ (Kept(RunOf[q]) => node[q] # "none")
  PROVE  Follows
<1>1. PICK m \in Messages : m = RunOf[q]
  BY ConstantsAssumption
<1>2. ApprovalsTyped /\ BoxesTyped /\ OneRunEach /\ KnownInv /\ q \in RequestsOf(m) /\ q \in Requests
  BY <1>1 DEF TypeInv, ShownInv, RequestsOf
<1>3. /\ \A r \in Requests : /\ node'[r] = "none" <=> node[r] = "none"
                             /\ node[r] \in Decisions => node'[r] \in Decisions
                             /\ node'[r] \in Decisions => node[r] \in Decisions \/ r = q
      /\ tracked[m] # "no" /\ node[q] # "none" => node'[q] \in Decisions
  BY <1>1, <1>2, ResolveNodes
<1>4. ASSUME NEW r \in Requests, Kept(RunOf[r]) PROVE Hears(r)
  <2>1. ask'[r] = ask[r] /\ ~(~Asked(r) /\ Asked(r)')
    BY DEF Asked
  <2>2. Reported(r) => Reported(r)' \/ node'[r] \in Decisions
    BY <1>1, <1>3, <1>4 DEF Kept
  <2> QED
    BY <1>3, <2>1, <2>2 DEF Hears
<1>5. \A r \in Requests :
        /\ node'[r] # "none" => node[r] # "none" \/ Asked(r)
        /\ node'[r] \in Decisions => node[r] \in Decisions \/ ask'[r].at # "open"
  BY <1>3
<1>6. CASE UNCHANGED <<active, stack, node, box, mishap>>
  <2>1. Learns
    BY <1>5, <1>6, BoxesSame DEF Learns, ClicksAfter
  <2>2. \A r \in Requests : Asked(r) /\ ask'[r].at = "open" => ask[r].at = "open"
    OBVIOUS
  <2>3. UNCHANGED <<approvals, mishap>>
    BY <1>6 DEF approvals
  <2> QED
    BY <1>4, <2>1, <2>2, <2>3, CardsStay DEF Follows
<1>7. CASE ResolvesNow(p, q, m, decision)
  <2>1. PICK heir \in RequestsOf(m) \cup {None} : Resolved(m, p, q, decision, heir)
    BY <1>7 DEF ResolvesNow
  <2>2. PICK ops : Changed(p, m, ops) /\ ListFor(m, ops) /\ \A o \in ToSet(ops) : o.req \in {q, heir} \cap Requests
    <3>0. /\ \A r \in Requests : Op("resolved", r).req = r /\ Op("pending", r).req = r
          /\ q \in Requests /\ (heir # None => heir \in Requests)
      BY OpParts DEF RequestsOf
    <3>1. CASE card[m] = NoCard
      BY <1>1, <2>1, <3>1, ListsFor, FewOps DEF Resolved
    <3>2. CASE card[m] # NoCard /\ heir = None
      <4>1. Changed(p, m, <<Op("resolved", q)>>)
        BY <2>1, <3>2 DEF Resolved
      <4>2. \A o \in ToSet(<<Op("resolved", q)>>) : o.req \in {q, heir} \cap Requests
        BY <3>0, FewOps
      <4> QED
        BY <1>1, <4>1, <4>2, ListsFor
    <3>3. CASE card[m] # NoCard /\ heir # None
      <4>1. Changed(p, m, <<Op("resolved", q), Op("pending", heir)>>)
        BY <2>1, <3>3 DEF Resolved
      <4>2. \A o \in ToSet(<<Op("resolved", q), Op("pending", heir)>>) : o.req \in {q, heir} \cap Requests
        BY <3>0, <3>3, FewOps
      <4> QED
        BY <1>1, <3>3, <4>1, <4>2, ListsFor
    <3> QED
      BY <3>1, <3>2, <3>3
  <2>3. Asked(q) /\ (heir # None => Asked(heir))
    <3>1. heir # None => heir \in Requests /\ node[heir] = "queued"
      BY <2>1 DEF Resolved, RequestsOf
    <3> QED
      BY <1>2, <3>1 DEF KnownInv, Asked
  <2>4. /\ OneRunEach' /\ Undone(p)' \cap Ops = ToSet(ops)
        /\ \A r \in Procs \ {p} : Undone(r)' = Undone(r) /\ (Idle(r) => Idle(r)')
    BY <1>2, <2>2, ChangedUndone
  <2>5. Learns
    <3>1. ASSUME NEW k \in Clicks
          PROVE click'[k].at # "over" => click[k].at # "over" /\ (Idle(k) => Idle(k)')
      BY <2>4 DEF Procs, ClicksAfter
    <3>2. ASSUME NEW r \in Procs, NEW o \in Undone(r)' \cap Ops PROVE o \in Undone(r) \/ Asked(o.req)
      <4>1. CASE r = p
        <5>1. o.req \in {q, heir} \cap Requests
          BY <2>2, <2>4, <4>1
        <5> QED
          BY <2>3, <5>1, ConstantsAssumption
      <4>2. CASE r # p
        BY <2>4, <4>2
      <4> QED
        BY <4>1, <4>2
    <3> QED
      BY <1>5, <3>1, <3>2 DEF Learns, ClicksAfter
  <2>6. mishap \subseteq mishap'
    BY <2>1 DEF Resolved
  <2>7. ASSUME NEW n \in Messages \ mishap', n # m
        PROVE Lined(n)' /\ (Kept(n) /\ CardInv(n) /\ Kept(n)' => CardInv(n)')
    <3>1. active'[n] = active[n] /\ stack'[n] = stack[n]
      BY <2>1, <2>7 DEF Resolved
    <3>2. \A r \in RequestsOf(n) : node'[r] = node[r]
      <4>1. \A r \in RequestsOf(n) : r \in Requests \ {q, heir}
        BY <1>1, <2>7, ConstantsAssumption DEF RequestsOf
      <4> QED
        BY <2>1, <4>1 DEF Resolved
    <3> QED
      BY <1>2, <2>2, <2>6, <2>7, <3>1, <3>2, OthersStay
  <2>8. ASSUME m \notin mishap'
        PROVE Lined(m)' /\ (Kept(m) /\ CardInv(m) /\ Kept(m)' => CardInv(m)')
    <3>1. Lined(m)
      BY <2>6, <2>8 DEF ShownInv, CardsInv
    <3>2. node[q] \in {"queued", "displaying"}
      BY <1>7 DEF ResolvesNow
    <3>3. Lined(m)' /\ active[m] = q
      BY <1>1, <2>1, <2>8, <3>1, <3>2, ResolvedLined
    <3>4. CardInv(m) => CardInv(m)'
      BY <1>1, <2>1, <3>3, ResolveCard
    <3> QED
      BY <3>3, <3>4
  <2> QED
    BY <1>4, <2>4, <2>5, <2>6, <2>7, <2>8 DEF Follows
<1> QED
  BY <1>1, <1>2, <1>6, <1>7, ResolveCases

LEMMA PermissionResolvedFollows ==
  ASSUME TypeInv, ShownInv, PermissionResolved
  PROVE  Follows
<1>1. PICK q \in Requests : q = Head(feed).req /\ RunOf[q] = Head(feed).run
  BY FeedTailed, EventFacts DEF PermissionResolved, Ready, TypeInv
<1>2. PICK decision \in Decisions : decision = ask[q].decision
  BY <1>1, HeadFacts DEF PermissionResolved, Ready, TypeInv
<1>3. /\ Resolve(Loop, q, decision) /\ Idle(Loop) /\ feed # <<>> /\ feed' = Tail(feed)
      /\ UNCHANGED <<tracked, card, ask, click>>
      /\ IsResolved(Head(feed), q) /\ Head(feed).kind = "resolved"
  BY <1>1, <1>2 DEF PermissionResolved, Ready, IsResolved
<1>4. /\ Gateway /\ ApprovalsTyped /\ FeedInv /\ HeardInv /\ KnownInv /\ Loop \in Procs
      /\ RunOf[q] \in Messages
  BY ConstantsAssumption DEF TypeInv, ShownInv, Procs
<1>5. IsResolved(feed[1], q) /\ 1 \in DOMAIN feed /\ \A i \in DOMAIN feed : i \in Nat /\ i >= 1
  BY <1>3, <1>4, FeedTailed
<1>6. ask[q].at = "told"
  BY <1>4, <1>5 DEF FeedInv, Reported
<1>7. ~Announced(q)
  <2> SUFFICES ASSUME NEW i \in DOMAIN feed, IsRequested(feed[i], q) PROVE FALSE
    BY DEF Announced
  <2>1. i < 1
    BY <1>4, <1>5 DEF FeedInv
  <2> QED
    BY <1>5, <2>1
<1>8. Kept(RunOf[q]) => node[q] # "none"
  BY <1>4, <1>6, <1>7 DEF HeardInv
<1>9. FeedInv'
  <2>1. \A r \in Requests : node'[r] = "none" <=> node[r] = "none"
    BY <1>3, <1>4, ResolveNodes
  <2> QED
    BY <1>3, <1>4, <2>1, FeedLoses
<1>10. ASSUME NEW r \in Requests
       PROVE /\ Announced(r) => Announced(r)'
             /\ Reported(r) => Reported(r)' \/ r = q
  BY <1>3, <1>4, StillOnTheWay DEF IsRequested, IsResolved
<1>11. ClicksAfter(Loop)
  <2>1. \A k \in Clicks : click[k].at # "over" => k # Loop
    BY ConstantsAssumption
  <2> QED
    BY <1>3, <2>1 DEF ClicksAfter
<1> QED
  BY <1>3, <1>4, <1>6, <1>8, <1>9, <1>10, <1>11, ResolveFollows

LEMMA UpdateApprovalFollows ==
  ASSUME TypeInv, ShownInv, NEW k \in Clicks, UpdateApproval(k)
  PROVE  Follows
<1>1. PICK q \in Requests : q = click[k].req
  BY DEF UpdateApproval, TypeInv, Handlers
<1>2. PICK decision \in Decisions : decision = click[k].decision
  BY DEF UpdateApproval, TypeInv, Handlers
<1>3. /\ Resolve(k, q, decision) /\ UNCHANGED <<tracked, card, ask, feed>>
      /\ click[k].at = "update" /\ click' = [click EXCEPT ![k].at = "over"]
  BY <1>1, <1>2 DEF UpdateApproval, gateway
<1>4. /\ ApprovalsTyped /\ FeedInv /\ KnownInv /\ k \in Procs /\ RunOf[q] \in Messages
  BY ConstantsAssumption DEF TypeInv, ShownInv, Procs
<1>5. Idle(k) /\ ask[q].at \notin {"none", "open"}
  BY <1>1, <1>3, <1>4 DEF KnownInv
<1>6. FeedInv'
  <2>1. \A r \in Requests : node'[r] = "none" <=> node[r] = "none"
    BY <1>3, <1>4, ResolveNodes
  <2>2. \A r \in Requests : Announced(r) => node'[r] = node[r]
    BY <1>4, <2>1 DEF FeedInv
  <2>3. NoneOpens
    BY <1>3 DEF NoneOpens, Asked
  <2> QED
    BY <1>3, <1>4, <2>2, <2>3, FeedStays
<1>7. ClicksAfter(k)
  BY <1>3 DEF ClicksAfter, TypeInv, Handlers, HandlersTyped
<1>8. \A r \in Requests : (Announced(r) => Announced(r)') /\ (Reported(r) => Reported(r)')
  BY <1>3 DEF Announced, Reported
<1> QED
  BY <1>3, <1>4, <1>5, <1>6, <1>7, <1>8, ResolveFollows

LEMMA HandlingFollows ==
  ASSUME TypeInv, ShownInv, NEW d \in Deliveries, Handling(d)
  PROVE  Follows
<1>1. CASE \/ Receive(d) \/ Submit(d) \/ StatusCardSent(d) \/ Scan(d) \/ Interrupt(d) \/ NotCanceled(d)
           \/ InterruptFails(d) \/ MarkInterrupted(d) \/ MessageDone(d)
  <2>1. UNCHANGED <<approvals, feed, ask, click, mishap>>
    BY <1>1 DEF Receive, Submit, StatusCardSent, Scan, Interrupt, NotCanceled, InterruptFails,
                MarkInterrupted, MessageDone, gateway
  <2> QED
    BY <2>1, AsideFollows
<1>2. CASE RunFails(d) \/ UntrackInterrupted(d)
  <2>1. PICK n \in Messages : Untrack(n)
    BY <1>2, WorkFacts DEF RunFails, UntrackInterrupted, TypeInv
  <2>2. UNCHANGED <<feed, ask, click, mishap>>
    BY <1>2 DEF RunFails, UntrackInterrupted, gateway
  <2> QED
    BY <2>1, <2>2, UntrackFollows
<1> QED
  BY <1>1, <1>2 DEF Handling

LEMMA ConsumingFollows ==
  ASSUME TypeInv, ShownInv, Consuming
  PROVE  Follows
<1>1. CASE IgnoreEvent
  BY <1>1, TakeFollows DEF IgnoreEvent, Ready, Ignored
<1>2. CASE PermissionRequested
  BY <1>2, RequestFollows
<1>3. CASE PermissionResolved
  BY <1>3, PermissionResolvedFollows
<1>4. CASE RunTerminal
  BY <1>4, TakeFollows DEF RunTerminal, Ready
<1>5. CASE UntrackTerminal
  <2>1. loop \in Messages /\ Untrack(loop) /\ UNCHANGED <<feed, ask, click, mishap>>
    BY <1>5 DEF UntrackTerminal, TypeInv, Handlers, HandlersTyped, gateway
  <2> QED
    BY <2>1, UntrackFollows
<1> QED
  BY <1>1, <1>2, <1>3, <1>4, <1>5 DEF Consuming

LEMMA ClickingFollows ==
  ASSUME TypeInv, ShownInv, NEW k \in Clicks, Clicking(k)
  PROVE  Follows
<1>0. \A j \in Clicks : DOMAIN click = Clicks /\ (click[j].at \in {"call", "update"} => click[j].req \in Requests)
  BY DEF TypeInv, Handlers, HandlersTyped
<1>1. CASE Click(k)
  <2>1. PICK q \in Requests, d \in Decisions :
          click' = [click EXCEPT ![k] = [at |-> "call", req |-> q, decision |-> d]]
    BY <1>1 DEF Click
  <2>2. ASSUME NEW j \in Clicks
        PROVE /\ click'[j].at = "update" => click[j].at = "update" /\ click'[j].req = click[j].req
              /\ click'[j].at # "over" => click[j].at # "over"
    BY <1>0, <1>1, <2>1 DEF Click
  <2>3. UNCHANGED <<approvals, feed, mishap>> /\ ask' = ask
    BY <1>1 DEF Click, gateway
  <2> QED
    BY <2>2, <2>3, AnswerFollows
<1>2. CASE ResolvePermission(k)
  <2>1. click[k].req \in Requests /\ ask[click[k].req].at \in {"open", "taken"}
    BY <1>0, <1>2 DEF ResolvePermission
  <2>2. Answer(click[k].req, click[k].decision) /\ UNCHANGED <<approvals, feed, mishap>>
    BY <1>2 DEF ResolvePermission
  <2>3. ask'[click[k].req].at \notin {"none", "open"}
    BY <2>1, <2>2 DEF Answer, TypeInv, Gateway, GatewayTyped
  <2>4. ASSUME NEW j \in Clicks
        PROVE /\ click'[j].at = "update" =>
                   \/ click[j].at = "update" /\ click'[j].req = click[j].req
                   \/ ask'[click'[j].req].at \notin {"none", "open"}
              /\ click'[j].at # "over" => click[j].at # "over"
    <3>1. CASE j = k
      BY <1>2, <2>3, <3>1 DEF ResolvePermission, TypeInv, Handlers, HandlersTyped
    <3>2. CASE j # k
      BY <1>2, <3>2 DEF ResolvePermission, TypeInv, Handlers, HandlersTyped
    <3> QED
      BY <3>1, <3>2
  <2> QED
    BY <2>1, <2>2, <2>4, AnswerFollows
<1>3. CASE ResolvePermissionFails(k)
  <2>1. click[k].req \in Requests
    BY <1>0, <1>3 DEF ResolvePermissionFails
  <2>2. UNCHANGED <<approvals, feed, mishap>> /\ (ask' = ask \/ Answer(click[k].req, click[k].decision))
    BY <1>3 DEF ResolvePermissionFails
  <2>3. ASSUME NEW j \in Clicks
        PROVE /\ click'[j].at = "update" => click[j].at = "update" /\ click'[j].req = click[j].req
              /\ click'[j].at # "over" => click[j].at # "over"
    BY <1>3 DEF ResolvePermissionFails, TypeInv, Handlers, HandlersTyped
  <2> QED
    BY <2>1, <2>2, <2>3, AnswerFollows
<1>4. CASE UpdateApproval(k)
  BY <1>4, UpdateApprovalFollows
<1> QED
  BY <1>1, <1>2, <1>3, <1>4 DEF Clicking

LEMMA NextFollows ==
  ASSUME TypeInv, ShownInv, [Next]_vars
  PROVE  Follows
<1>1. CASE \E d \in Deliveries : Handling(d)
  BY <1>1, HandlingFollows
<1>2. CASE Consuming
  BY <1>2, ConsumingFollows
<1>3. CASE \E k \in Clicks : Clicking(k)
  BY <1>3, ClickingFollows
<1>4. CASE \E p \in Procs : StartUpdate(p) \/ EndUpdate(p)
  BY <1>4, UpdateFollows
<1>5. CASE \E m \in Messages : Register(m) \/ RunEnds(m)
  <2>1. ASSUME NEW m \in Messages, Register(m) PROVE UNCHANGED <<approvals, feed, ask, click, mishap>>
    BY <2>1 DEF Register
  <2> QED
    BY <1>5, <2>1, AsideFollows, RunEndsFollows
<1>6. CASE \E q \in Requests : Ask(q) \/ OtherAnswers(q) \/ Report(q)
  <2>1. ASSUME NEW q \in Requests, OtherAnswers(q) PROVE Follows
    <3>1. /\ UNCHANGED <<approvals, feed, mishap>> /\ click' = click
          /\ \E d : Answer(q, d)
      BY <2>1 DEF OtherAnswers
    <3> QED
      BY <3>1, AnswerFollows
  <2> QED
    BY <1>6, <2>1, AskFollows, ReportFollows
<1>7. CASE UNCHANGED vars
  <2>1. UNCHANGED <<approvals, feed, ask, click, mishap>>
    BY <1>7 DEF vars, gateway
  <2> QED
    BY <2>1, AsideFollows
<1> QED
  BY <1>1, <1>2, <1>3, <1>4, <1>5, <1>6, <1>7 DEF Next

LEMMA NextShown ==
  ASSUME TypeInv, TrackInv, ShownInv, [Next]_vars
  PROVE  ShownInv'
<1>1. Follows
  BY NextFollows
<1>2. Moves
  BY RunsMove, AsksMove DEF Moves
<1> QED
  BY <1>1, <1>2, FollowsKeeps

LEMMA InitShown ==
  ASSUME Init
  PROVE  ShownInv
<1>1. \A p \in Procs : box[p] = Empty
  BY DEF Init
<1>2. \A p \in Procs : Undone(p) \cap Ops = {} /\ Idle(p) /\ \A m : OpsOf(p, m) = {}
  BY <1>1, EmptyUndone DEF Idle
<1>3. /\ \A q \in Requests : ask[q].at = "none" /\ node[q] = "none" /\ ~Asked(q)
      /\ DOMAIN feed = {}
      /\ \A k \in Clicks : click[k].at = "idle" /\ k \in Procs
      /\ \A m \in Messages : active[m] = None /\ card[m] = NoCard
  BY DEF Init, Asked, Procs
<1>4. \A q : ~Announced(q) /\ ~Reported(q)
  BY <1>3 DEF Announced, Reported
<1>5. AskInv
  BY <1>3 DEF AskInv
<1>6. FeedInv
  BY <1>3, <1>4 DEF FeedInv
<1>7. OneRunEach
  BY <1>2 DEF OneRunEach
<1>8. KnownInv
  BY <1>2, <1>3, ConstantsAssumption DEF KnownInv
<1>9. HeardInv
  BY <1>3 DEF HeardInv
<1>10. ASSUME NEW m \in Messages PROVE Lined(m) /\ CardInv(m)
  <2>1. Lined(m)
    BY <1>3 DEF Lined, RequestsOf
  <2>2. NoEditYet(m) /\ SentByLoop(m) /\ OneFresh(m) /\ OneEdit(m)
    BY <1>2 DEF NoEditYet, SentByLoop, OneFresh, OneEdit
  <2>3. BeingSent(m) /\ BeingShown(m)
    BY <1>3 DEF BeingSent, BeingShown
  <2> QED
    BY <2>1, <2>2, <2>3 DEF CardInv
<1> QED
  BY <1>5, <1>6, <1>7, <1>8, <1>9, <1>10 DEF ShownInv, CardsInv

LEMMA QuietShows ==
  ASSUME TypeInv, ShownInv
  PROVE  RequestShown
<1> SUFFICES ASSUME NEW q \in Requests, NEW m \in Messages, m = RunOf[q],
                    ask[q].at = "open", tracked[m] = "pending", Quiet(m), m \notin mishap, ~run[m].lost
             PROVE  Strict(q) /\ card[m] = [req |-> q, resolved |-> FALSE]
  BY ConstantsAssumption DEF RequestShown
<1>1. /\ Kept(m) /\ Lined(m) /\ CardInv(m) /\ AskInv /\ FeedInv /\ KnownInv /\ HeardInv
      /\ ApprovalsTyped /\ BoxesTyped /\ Gateway
  BY DEF Kept, ShownInv, CardsInv, TypeInv
<1>2. \A p \in Procs : OpsOf(p, m) = {}
  BY <1>1, UndoneTyped DEF Quiet
<1>3. \A r \in RequestsOf(m) : ~Announced(r) /\ ~Reported(r)
  <2>1. \A i \in DOMAIN feed : feed[i] \in Events /\ feed[i] \in ToSet(feed)
    BY <1>1 DEF Gateway, GatewayTyped, ToSet
  <2>2. \A i \in DOMAIN feed, r \in RequestsOf(m) :
          ~IsRequested(feed[i], r) /\ ~IsResolved(feed[i], r)
    BY <2>1, EventFacts DEF Quiet, IsRequested, IsResolved, RequestsOf
  <2> QED
    BY <2>2 DEF Announced, Reported
<1>4. q \in RequestsOf(m) /\ \A r \in RequestsOf(m) : r \in Requests /\ RunOf[r] = m
  BY DEF RequestsOf
<1>5. node[q] \in {"queued", "displaying"}
  <2>1. node[q] # "none"
    BY <1>1, <1>3, <1>4 DEF HeardInv
  <2>2. node[q] \notin Decisions
    BY <1>1 DEF KnownInv
  <2> QED
    BY <1>1, <2>1, <2>2 DEF ApprovalsTyped
<1>6. active[m] # None
  <2>1. CASE node[q] = "queued"
    BY <1>1, <1>4, <2>1 DEF Lined
  <2>2. CASE node[q] = "displaying"
    BY <1>1, <1>4, <2>2, ConstantsAssumption DEF Lined
  <2> QED
    BY <1>5, <2>1, <2>2
<1>7. PICK a \in RequestsOf(m) : a = active[m] /\ node[a] = "displaying"
  BY <1>1, <1>6 DEF Lined
<1>8. ask[a].at = "open"
  <2>1. ask[a].at # "none"
    BY <1>1, <1>4, <1>7 DEF KnownInv, Asked
  <2>2. ask[a].at # "taken"
    BY <1>7 DEF Quiet
  <2>3. ask[a].at # "told"
    <3>1. node[a] \notin Decisions
      BY <1>7, ConstantsAssumption
    <3> QED
      BY <1>1, <1>3, <1>4, <1>7, <3>1 DEF HeardInv
  <2>4. ask[a].at # "left"
    BY <1>1, <1>4, <1>7 DEF AskInv
  <2> QED
    BY <1>1, <1>4, <1>7, <2>1, <2>2, <2>3, <2>4 DEF Gateway, GatewayTyped
<1>9. a = q
  BY <1>1, <1>4, <1>7, <1>8 DEF AskInv
<1>10. card[m] # NoCard
  <2> SUFFICES ASSUME card[m] = NoCard PROVE FALSE
    OBVIOUS
  <2>1. Sending(Loop, q) /\ Loop \in Procs
    BY <1>1, <1>6, <1>7, <1>9 DEF CardInv, BeingSent, Procs
  <2> QED
    BY <1>2, <2>1, SendingIsOp
<1>11. ~Coming(q)
  <2> SUFFICES ASSUME NEW p \in Procs, Bringing(p, q) PROVE FALSE
    BY DEF Coming
  <2> QED
    BY <1>2, BringingIsOp
<1>12. Settled(m, q)
  BY <1>1, <1>6, <1>7, <1>8, <1>9, <1>10, <1>11 DEF CardInv, BeingShown
<1> QED
  BY <1>7, <1>9, <1>12 DEF Settled, Strict

LEMMA ShownAlways == Spec => [](TypeInv /\ TrackInv /\ ShownInv)
<1>1. Init => TypeInv /\ TrackInv /\ ShownInv
  BY InitTyped, InitFollowed, InitShown
<1>2. TypeInv /\ TrackInv /\ ShownInv /\ [Next]_vars => (TypeInv /\ TrackInv /\ ShownInv)'
  BY NextTyped, NextFollowed, NextShown
<1> QED
  BY <1>1, <1>2, PTL DEF Spec

\* Once everything said about a run has been taken in, the request it waits for
\* can be answered and is the one on its card, in whatever order requests, answers
\* and updates of the card have come (transitionPermissionRequested,
\* updateApprovalStatus, executeApprovalOutbox).
THEOREM RequestsAreShown == Spec => []RequestShown
<1>1. TypeInv /\ TrackInv /\ ShownInv => RequestShown
  BY QuietShows
<1> QED
  BY <1>1, ShownAlways, PTL

=============================================================================
