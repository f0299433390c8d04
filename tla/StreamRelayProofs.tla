-------------------------- MODULE StreamRelayProofs --------------------------
(* Proofs about StreamRelay: the tables of the relay are what they can be and *)
(* its indexes are sound, and the relay implements EventFeed, one message at  *)
(* a time. The events of a publisher in a queue are picked by a function that *)
(* is defined by recursion, so what it does to a queue that grows at its end  *)
(* or loses its first message is proved by induction over the number of       *)
(* messages: the set of exceptions has no least number.                       *)
EXTENDS StreamRelay, FiniteSetTheorems, SequenceTheorems, WellFoundedInduction, TLAPS
-----------------------------------------------------------------------------
(* Induction, by the least number that is an exception. *)

LEMMA LeastNumber ==
  ASSUME NEW T \in SUBSET Nat, T # {}
  PROVE  \E n \in T : \A m \in T : n <= m
<1>1. PICK n \in T : \A m \in T : ~(<<m, n>> \in OpToRel(<, Nat))
  BY NatLessThanWellFounded, WFMin
<1>2. ASSUME NEW m \in T PROVE n <= m
  <2>1. ~(m < n)
    BY <1>1 DEF OpToRel
  <2> QED
    BY <2>1
<1> QED
  BY <1>2

\* A set of numbers below a limit that holds 0, and n + 1 with n, is all of them.
LEMMA UpTo ==
  ASSUME NEW limit \in Nat, NEW S, 0 \in S, \A n \in 0 .. limit : (n \in S /\ n < limit) => n + 1 \in S
  PROVE  0 .. limit \subseteq S
<1> DEFINE T == {n \in 0 .. limit : n \notin S}
<1> SUFFICES ASSUME T # {} PROVE FALSE
  OBVIOUS
<1>1. T \in SUBSET Nat
  OBVIOUS
<1>2. PICK n \in T : \A m \in T : n <= m
  BY <1>1, LeastNumber
<1>3. n # 0 /\ n - 1 \in 0 .. limit /\ n - 1 < limit /\ n - 1 \notin T
  BY <1>2
<1>4. n - 1 \in S
  BY <1>3
<1> QED
  BY <1>2, <1>3, <1>4

-----------------------------------------------------------------------------
(* The events of a publisher in a queue. *)

Messages == [by : Publishers \cup {None}, event : 0 .. MaxEvents]

\* f picks the events of p from the first messages of q.
Picks(q, p, n, f) ==
  f = [i \in 0 .. n |->
         IF i = 0 THEN <<>>
         ELSE IF q[i].by = p THEN Append(f[i - 1], q[i].event) ELSE f[i - 1]]

LEMMA PickingExists ==
  ASSUME NEW q, NEW p, NEW n \in Nat
  PROVE  \E f : Picks(q, p, n, f)
<1> DEFINE S == {m \in 0 .. n : \E f : Picks(q, p, m, f)}
<1>1. 0 \in S
  <2> DEFINE f == [i \in 0 .. 0 |-> <<>>]
  <2>1. Picks(q, p, 0, f)
    BY DEF Picks
  <2> QED
    BY <2>1
<1>2. ASSUME NEW m \in 0 .. n, m \in S, m < n PROVE m + 1 \in S
  <2>1. PICK f : Picks(q, p, m, f)
    BY <1>2
  <2> DEFINE last == IF q[m + 1].by = p THEN Append(f[m], q[m + 1].event) ELSE f[m]
  <2> DEFINE g == [i \in 0 .. m + 1 |-> IF i = m + 1 THEN last ELSE f[i]]
  <2>2. \A i \in 0 .. m : f[i] = IF i = 0 THEN <<>>
                                 ELSE IF q[i].by = p THEN Append(f[i - 1], q[i].event) ELSE f[i - 1]
    BY <2>1 DEF Picks
  <2>3. \A i \in 0 .. m : g[i] = f[i]
    OBVIOUS
  <2>4. g[m + 1] = last
    OBVIOUS
  <2> HIDE DEF last
  <2>5. ASSUME NEW i \in 0 .. m + 1
        PROVE  g[i] = IF i = 0 THEN <<>>
                      ELSE IF q[i].by = p THEN Append(g[i - 1], q[i].event) ELSE g[i - 1]
    <3>1. CASE i = m + 1
      <4>1. g[i - 1] = f[m] /\ i # 0
        BY <3>1, <2>3
      <4> QED
        BY <3>1, <4>1, <2>4 DEF last
    <3>2. CASE i # m + 1 /\ i # 0
      <4>1. i \in 0 .. m /\ i - 1 \in 0 .. m
        BY <3>2
      <4> HIDE DEF g
      <4> QED
        BY <3>2, <4>1, <2>2, <2>3
    <3>3. CASE i = 0
      <4>1. 0 \in 0 .. m
        OBVIOUS
      <4> HIDE DEF g
      <4> QED
        BY <3>3, <4>1, <2>2, <2>3
    <3> QED
      BY <3>1, <3>2, <3>3
  <2>6. g = [i \in 0 .. m + 1 |-> g[i]]
    OBVIOUS
  <2> HIDE DEF g
  <2>7. Picks(q, p, m + 1, g)
    BY <2>5, <2>6 DEF Picks
  <2> QED
    BY <2>7, <1>2
<1> HIDE DEF S
<1>3. 0 .. n \subseteq S
  BY <1>1, <1>2, UpTo
<1> QED
  BY <1>3 DEF S

LEMMA PickedIsPicking ==
  ASSUME NEW q, NEW p, Len(q) \in Nat
  PROVE  \E f : Picks(q, p, Len(q), f) /\ Picked(q, p) = f[Len(q)]
<1> DEFINE f == CHOOSE f : Picks(q, p, Len(q), f)
<1>1. Picks(q, p, Len(q), f)
  BY PickingExists
<1>2. Picked(q, p) = f[Len(q)]
  BY DEF Picked, Picks
<1> QED
  BY <1>1, <1>2

\* What f is at each message.
PickSteps(q, p, n, f) ==
  /\ f[0] = <<>>
  /\ \A i \in 1 .. n : f[i] = IF q[i].by = p THEN Append(f[i - 1], q[i].event) ELSE f[i - 1]

LEMMA PickingSteps ==
  ASSUME NEW q, NEW p, NEW n \in Nat, NEW f, Picks(q, p, n, f)
  PROVE  PickSteps(q, p, n, f)
<1>1. \A i \in 0 .. n : f[i] = IF i = 0 THEN <<>>
                               ELSE IF q[i].by = p THEN Append(f[i - 1], q[i].event) ELSE f[i - 1]
  BY DEF Picks
<1>2. 0 \in 0 .. n /\ \A i \in 1 .. n : i \in 0 .. n /\ i # 0
  OBVIOUS
<1> QED
  BY <1>1, <1>2 DEF PickSteps

LEMMA PickingTyped ==
  ASSUME NEW q \in Seq(Messages), NEW p, NEW f, Picks(q, p, Len(q), f)
  PROVE  \A i \in 0 .. Len(q) : f[i] \in Seq(0 .. MaxEvents)
<1> DEFINE E == 0 .. MaxEvents
<1> DEFINE n == Len(q)
<1> DEFINE S == {i \in 0 .. n : f[i] \in Seq(E)}
<1>1. n \in Nat /\ Picks(q, p, n, f)
  OBVIOUS
<1>a. \A i \in 1 .. n : q[i] \in Messages
  BY ElementOfSeq
<1>2. /\ f[0] = <<>>
      /\ \A i \in 1 .. n : f[i] = IF q[i].by = p THEN Append(f[i - 1], q[i].event) ELSE f[i - 1]
  <2> HIDE DEF n, E, S
  <2>1. PickSteps(q, p, n, f)
    BY <1>1, PickingSteps
  <2> QED
    BY <2>1 DEF PickSteps
<1> HIDE DEF n
<1>3. 0 \in S
  <2>1. <<>> \in Seq(E)
    BY EmptySeq
  <2>2. f[0] \in Seq(E)
    BY <2>1, <1>2
  <2> QED
    BY <1>1, <2>2
<1>4. ASSUME NEW i \in 0 .. n, i \in S, i < n PROVE i + 1 \in S
  <2>1. i + 1 \in 1 .. n /\ (i + 1) - 1 = i
    BY <1>1, <1>4
  <2>2. q[i + 1] \in Messages
    BY <2>1, <1>a
  <2>3. q[i + 1].event \in E
    BY <2>2 DEF Messages
  <2>4. Append(f[i], q[i + 1].event) \in Seq(E)
    BY <2>3, <1>4, AppendProperties
  <2>5. f[i + 1] \in Seq(E)
    BY <1>2, <2>1, <2>4, <1>4
  <2> QED
    BY <2>1, <2>5
<1> HIDE DEF S
<1>5. 0 .. n \subseteq S
  BY <1>1, <1>3, <1>4, UpTo
<1> QED
  BY <1>5 DEF S, n

LEMMA PickedTyped ==
  ASSUME NEW q \in Seq(Messages), NEW p
  PROVE  Picked(q, p) \in Seq(0 .. MaxEvents)
<1>1. Len(q) \in Nat
  OBVIOUS
<1>2. PICK f : Picks(q, p, Len(q), f) /\ Picked(q, p) = f[Len(q)]
  BY <1>1, PickedIsPicking
<1>3. f[Len(q)] \in Seq(0 .. MaxEvents)
  BY <1>1, <1>2, PickingTyped
<1> QED
  BY <1>2, <1>3

LEMMA PickedOfNone ==
  ASSUME NEW p
  PROVE  Picked(<<>>, p) = <<>>
<1>1. Len(<<>>) = 0
  OBVIOUS
<1>2. PICK f : Picks(<<>>, p, 0, f) /\ Picked(<<>>, p) = f[0]
  BY <1>1, PickedIsPicking
<1>3. PickSteps(<<>>, p, 0, f)
  BY <1>2, PickingSteps
<1>4. f[0] = <<>>
  BY <1>3 DEF PickSteps
<1> QED
  BY <1>2, <1>4

\* Pickings of two queues agree as long as the queues do.
LEMMA PickingsAgree ==
  ASSUME NEW p, NEW q, NEW n \in Nat, NEW f, Picks(q, p, n, f),
         NEW r, NEW m \in Nat, NEW g, Picks(r, p, m, g),
         NEW k \in Nat, k <= n, k <= m, \A i \in 1 .. k : q[i] = r[i]
  PROVE  f[k] = g[k]
<1> DEFINE S == {i \in 0 .. k : f[i] = g[i]}
<1>1. /\ f[0] = <<>>
      /\ \A i \in 1 .. n : f[i] = IF q[i].by = p THEN Append(f[i - 1], q[i].event) ELSE f[i - 1]
  <2>1. PickSteps(q, p, n, f)
    BY PickingSteps
  <2> QED
    BY <2>1 DEF PickSteps
<1>2. /\ g[0] = <<>>
      /\ \A i \in 1 .. m : g[i] = IF r[i].by = p THEN Append(g[i - 1], r[i].event) ELSE g[i - 1]
  <2>1. PickSteps(r, p, m, g)
    BY PickingSteps
  <2> QED
    BY <2>1 DEF PickSteps
<1>3. 0 \in S
  BY <1>1, <1>2
<1>4. ASSUME NEW i \in 0 .. k, i \in S, i < k PROVE i + 1 \in S
  <2>1. i + 1 \in 1 .. n /\ i + 1 \in 1 .. m /\ i + 1 \in 1 .. k /\ (i + 1) - 1 = i
    BY <1>4
  <2>2. f[i + 1] = IF q[i + 1].by = p THEN Append(f[i], q[i + 1].event) ELSE f[i]
    BY <1>1, <2>1
  <2>3. g[i + 1] = IF r[i + 1].by = p THEN Append(g[i], r[i + 1].event) ELSE g[i]
    BY <1>2, <2>1
  <2>4. q[i + 1] = r[i + 1] /\ f[i] = g[i]
    BY <1>4, <2>1
  <2>5. f[i + 1] = g[i + 1]
    BY <2>2, <2>3, <2>4
  <2> QED
    BY <2>1, <2>5
<1> HIDE DEF S
<1>5. 0 .. k \subseteq S
  BY <1>3, <1>4, UpTo
<1> QED
  BY <1>5 DEF S

LEMMA PickedOfAppend ==
  ASSUME NEW q \in Seq(Messages), NEW m \in Messages, NEW p
  PROVE  Picked(Append(q, m), p) = IF m.by = p THEN Append(Picked(q, p), m.event) ELSE Picked(q, p)
<1> DEFINE r == Append(q, m)
<1> DEFINE n == Len(q)
<1>1. /\ n \in Nat /\ Len(r) = n + 1 /\ r \in Seq(Messages)
      /\ \A i \in 1 .. n : r[i] = q[i]
      /\ r[n + 1] = m
  BY AppendProperties
<1> HIDE DEF r
<1>2. PICK f : Picks(q, p, n, f) /\ Picked(q, p) = f[n]
  BY <1>1, PickedIsPicking
<1>3. PICK g : Picks(r, p, n + 1, g) /\ Picked(r, p) = g[n + 1]
  BY <1>1, PickedIsPicking
<1> HIDE DEF n
<1>4. g[n] = f[n]
  BY <1>1, <1>2, <1>3, PickingsAgree
<1>5. g[n + 1] = IF r[n + 1].by = p THEN Append(g[n], r[n + 1].event) ELSE g[n]
  <2>0. PickSteps(r, p, n + 1, g)
    BY <1>1, <1>3, PickingSteps
  <2>1. \A i \in 1 .. n + 1 : g[i] = IF r[i].by = p THEN Append(g[i - 1], r[i].event) ELSE g[i - 1]
    BY <2>0 DEF PickSteps
  <2>2. n + 1 \in 1 .. n + 1 /\ (n + 1) - 1 = n
    BY <1>1
  <2> QED
    BY <2>1, <2>2
<1> QED
  BY <1>1, <1>2, <1>3, <1>4, <1>5 DEF r

\* What the first message of a queue gives to p.
First(q, p) == IF Head(q).by = p THEN <<Head(q).event>> ELSE <<>>

LEMMA PickedOfTail ==
  ASSUME NEW q \in Seq(Messages), q # <<>>, NEW p
  PROVE  Picked(q, p) = First(q, p) \o Picked(Tail(q), p)
<1> DEFINE E == 0 .. MaxEvents
<1> DEFINE t == Tail(q)
<1> DEFINE n == Len(t)
<1> DEFINE pre == First(q, p)
<1>1. /\ n \in Nat /\ Len(q) = n + 1 /\ t \in Seq(Messages)
      /\ \A i \in 1 .. n : t[i] = q[i + 1]
      /\ Head(q) \in Messages /\ Head(q) = q[1]
  BY HeadTailProperties, EmptySeq
<1> HIDE DEF t
<1>2. PICK f : Picks(q, p, n + 1, f) /\ Picked(q, p) = f[n + 1]
  BY <1>1, PickedIsPicking
<1>3. PICK g : Picks(t, p, n, g) /\ Picked(t, p) = g[n]
  BY <1>1, PickedIsPicking
<1>4. \A i \in 0 .. n : g[i] \in Seq(E)
  BY <1>1, <1>3, PickingTyped
<1> HIDE DEF n
<1>5. Head(q).event \in E
  BY <1>1 DEF Messages
<1>6. pre \in Seq(E)
  <2>1. <<Head(q).event>> \in Seq(E) /\ <<>> \in Seq(E)
    BY <1>5
  <2> QED
    BY <2>1 DEF First
<1> HIDE DEF E
<1>7. /\ f[0] = <<>>
      /\ \A i \in 1 .. n + 1 : f[i] = IF q[i].by = p THEN Append(f[i - 1], q[i].event) ELSE f[i - 1]
  <2>1. PickSteps(q, p, n + 1, f)
    BY <1>1, <1>2, PickingSteps
  <2> QED
    BY <2>1 DEF PickSteps
<1>8. /\ g[0] = <<>>
      /\ \A i \in 1 .. n : g[i] = IF t[i].by = p THEN Append(g[i - 1], t[i].event) ELSE g[i - 1]
  <2>1. PickSteps(t, p, n, g)
    BY <1>1, <1>3, PickingSteps
  <2> QED
    BY <2>1 DEF PickSteps
<1> DEFINE S == {i \in 0 .. n : f[i + 1] = pre \o g[i]}
<1>9. 0 \in S
  <2>1. 1 \in 1 .. n + 1 /\ 1 - 1 = 0 /\ 0 \in 0 .. n
    BY <1>1
  <2>2. f[1] = IF q[1].by = p THEN Append(<<>>, q[1].event) ELSE <<>>
    BY <1>7, <2>1
  <2>3. Append(<<>>, q[1].event) = <<q[1].event>>
    OBVIOUS
  <2>4. f[1] = pre
    BY <1>1, <2>2, <2>3 DEF First
  <2>5. pre \o <<>> = pre
    BY <1>6, ConcatEmptySeq
  <2> HIDE DEF pre
  <2>6. f[0 + 1] = pre \o g[0]
    <3>1. 0 + 1 = 1
      OBVIOUS
    <3>2. pre \o g[0] = pre
      BY <2>5, <1>8
    <3> QED
      BY <3>1, <3>2, <2>4
  <2> QED
    BY <2>1, <2>6
<1>10. ASSUME NEW i \in 0 .. n, i \in S, i < n PROVE i + 1 \in S
  <2>1. i + 1 \in 1 .. n /\ (i + 1) - 1 = i /\ (i + 1) + 1 \in 1 .. n + 1 /\ ((i + 1) + 1) - 1 = i + 1
    BY <1>1, <1>10
  <2> DEFINE x == t[i + 1]
  <2>2. x = q[(i + 1) + 1] /\ x \in Messages
    BY <1>1, <2>1, ElementOfSeq DEF n
  <2>3. x.event \in E
    BY <2>2 DEF Messages, E
  <2>4. f[(i + 1) + 1] = IF x.by = p THEN Append(f[i + 1], x.event) ELSE f[i + 1]
    BY <1>7, <2>1, <2>2
  <2>5. g[i + 1] = IF x.by = p THEN Append(g[i], x.event) ELSE g[i]
    BY <1>8, <2>1
  <2>6. f[i + 1] = pre \o g[i]
    BY <1>10
  <2>7. g[i] \in Seq(E)
    BY <1>4
  <2> HIDE DEF x, pre
  <2>8. Append(pre \o g[i], x.event) = pre \o Append(g[i], x.event)
    <3>1. pre \o g[i] \in Seq(E)
      BY <1>6, <2>7, ConcatProperties
    <3>2. Append(pre \o g[i], x.event) = (pre \o g[i]) \o <<x.event>>
      BY <3>1, <2>3, AppendIsConcat
    <3>3. Append(g[i], x.event) = g[i] \o <<x.event>>
      BY <2>7, <2>3, AppendIsConcat
    <3> DEFINE y == <<x.event>>
    <3> DEFINE z == g[i]
    <3>4. y \in Seq(E) /\ z \in Seq(E)
      BY <2>3, <2>7
    <3> HIDE DEF y, z
    <3>5. (pre \o z) \o y = pre \o (z \o y)
      BY <1>6, <3>4, ConcatAssociative
    <3> QED
      BY <3>2, <3>3, <3>5 DEF y, z
  <2>9. f[(i + 1) + 1] = pre \o g[i + 1]
    BY <2>4, <2>5, <2>6, <2>8
  <2> QED
    BY <2>1, <2>9
<1> HIDE DEF S
<1>11. 0 .. n \subseteq S
  BY <1>1, <1>9, <1>10, UpTo
<1>12. f[n + 1] = pre \o g[n]
  <2>1. n \in S
    BY <1>1, <1>11
  <2> QED
    BY <2>1 DEF S
<1> QED
  BY <1>2, <1>3, <1>12 DEF t

-----------------------------------------------------------------------------
(* The inductive invariant. *)

ConnStates == [at : {"new", "open", "gone"}, sock : {"open", "closed"},
               closing : BOOLEAN, reader : {"none", "reading", "replying", "ended"}]

RunKeys == [session : Sessions, run : Runs]

\* What the bindings of a connection look like.
Bound(b) ==
  /\ b = [k \in DOMAIN b |-> b[k]] /\ DOMAIN b \subseteq Keys
  /\ IsFiniteSet(DOMAIN b) /\ Cardinality(DOMAIN b) <= MaxBindings
  /\ \A k \in DOMAIN b : b[k] \in 0 .. TTL

ConnsTyped == conn \in [Conns -> ConnStates]

RoutesTyped ==
  /\ bindings = [c \in Conns |-> bindings[c]] /\ \A c \in Conns : Bound(bindings[c])
  /\ sessionIndex \in [Sessions -> SUBSET Conns]
  /\ runIndex \in [RunKeys -> SUBSET Conns]

QueuesTyped == queue \in [Conns -> Seq(Messages)] /\ \A c \in Conns : Len(queue[c]) <= QueueSize

PublishersTyped ==
  /\ publisher \in [Publishers -> [event : 0 .. MaxEvents, to : SUBSET Conns]]
  /\ count \in 0 .. MaxEvents

\* Nothing waits for a connection that has not begun or has ended.
NothingWaits ==
  \A c \in Conns :
    /\ conn[c].at = "new" => conn[c].reader = "none" /\ \A p \in Publishers : c \notin publisher[p].to
    /\ ~Open(c) => queue[c] = <<>>

Typed == ConnsTyped /\ RoutesTyped /\ QueuesTyped /\ PublishersTyped

RelayInv == Typed /\ IndexesSound /\ NothingWaits

-----------------------------------------------------------------------------
(* The routes. *)

SessionsSound ==
  \A s \in Sessions : \A c \in sessionIndex[s] : \E k \in DOMAIN bindings[c] : k.session = s

RunsSound == \A k \in RunKeys : runIndex[k] = {c \in Conns : k \in DOMAIN bindings[c]}

BoundAreOpen == \A c \in Conns : bindings[c] # NoBindings => Open(c)

LEMMA IndexesSoundParts ==
  ASSUME RoutesTyped
  PROVE  IndexesSound <=> SessionsSound /\ RunsSound /\ BoundAreOpen
BY DEF RoutesTyped, IndexesSound, SessionsSound, RunsSound, BoundAreOpen, RunKeys

LEMMA IndexesSoundPartsNext ==
  ASSUME RoutesTyped'
  PROVE  IndexesSound' <=> SessionsSound' /\ RunsSound' /\ BoundAreOpen'
BY DEF RoutesTyped, IndexesSound, SessionsSound, RunsSound, BoundAreOpen, RunKeys

LEMMA NothingBound ==
  /\ Bound(NoBindings)
  /\ DOMAIN NoBindings = {}
  /\ \A b : b = [k \in DOMAIN b |-> b[k]] /\ DOMAIN b = {} => b = NoBindings
<1>1. DOMAIN NoBindings = {} /\ NoBindings = [k \in DOMAIN NoBindings |-> NoBindings[k]]
  BY DEF NoBindings
<1>2. IsFiniteSet({}) /\ Cardinality({}) = 0
  BY FS_EmptySet
<1>3. MaxBindings \in Nat
  BY RelayAssumption
<1>4. Bound(NoBindings)
  BY <1>1, <1>2, <1>3 DEF Bound
<1>5. \A b : b = [k \in DOMAIN b |-> b[k]] /\ DOMAIN b = {} => b = NoBindings
  BY DEF NoBindings
<1> QED
  BY <1>1, <1>4, <1>5

\* A part of what is bound is bound, whatever time it has.
LEMMA BoundPart ==
  ASSUME NEW b, Bound(b), NEW S \in SUBSET DOMAIN b, NEW g,
         g = [k \in S |-> g[k]], \A k \in S : g[k] \in 0 .. TTL
  PROVE  Bound(g) /\ DOMAIN g = S
<1>1. DOMAIN g = S
  <2> DEFINE h == [k \in S |-> g[k]]
  <2>1. DOMAIN h = S
    OBVIOUS
  <2> QED
    BY <2>1
<1>2. IsFiniteSet(S) /\ Cardinality(S) <= Cardinality(DOMAIN b)
  BY FS_Subset DEF Bound
<1>3. Cardinality(DOMAIN b) \in Nat /\ Cardinality(S) \in Nat /\ MaxBindings \in Nat
  BY <1>2, FS_CardinalityType, RelayAssumption DEF Bound
<1>4. Cardinality(S) <= MaxBindings
  BY <1>2, <1>3 DEF Bound
<1>5. S \subseteq Keys
  BY DEF Bound
<1> QED
  BY <1>1, <1>2, <1>4, <1>5 DEF Bound

\* gone[c] is unbound, and got[c] bound, for each connection.
IndexesMove(gone, got) ==
  /\ sessionIndex' \in [Sessions -> SUBSET Conns]
  /\ runIndex' \in [RunKeys -> SUBSET Conns]
  /\ \A s \in Sessions : \A c \in sessionIndex'[s] :
       \/ c \in sessionIndex[s] /\ \A k \in gone[c] : k.session # s
       \/ \E k \in got[c] : k.session = s
  /\ \A k \in RunKeys : \A c \in Conns :
       c \in runIndex'[k] <=> ((c \in runIndex[k] /\ k \notin gone[c]) \/ k \in got[c])

BindingsMove(gone, got) ==
  /\ bindings' = [c \in Conns |-> bindings'[c]]
  /\ \A c \in Conns :
       /\ Bound(bindings'[c])
       /\ DOMAIN bindings'[c] = (DOMAIN bindings[c] \ gone[c]) \cup got[c]
       /\ bindings'[c] # NoBindings => bindings[c] # NoBindings \/ Open(c)

\* What a step does to the routes, apart from connections that end.
RoutesMove ==
  /\ RoutesTyped' /\ SessionsSound' /\ RunsSound'
  /\ \A c \in Conns : bindings'[c] # NoBindings => bindings[c] # NoBindings \/ Open(c)

LEMMA MovesTogether ==
  ASSUME RoutesTyped, SessionsSound, RunsSound,
         NEW gone, NEW got, IndexesMove(gone, got), BindingsMove(gone, got)
  PROVE  RoutesMove
<1>1. RoutesTyped'
  BY DEF RoutesTyped, IndexesMove, BindingsMove
<1>2. ASSUME NEW s \in Sessions, NEW c \in sessionIndex'[s]
      PROVE  \E k \in DOMAIN bindings'[c] : k.session = s
  <2>1. c \in Conns
    BY DEF IndexesMove
  <2>2. DOMAIN bindings'[c] = (DOMAIN bindings[c] \ gone[c]) \cup got[c]
    BY <2>1 DEF BindingsMove
  <2>3. CASE c \in sessionIndex[s] /\ \A k \in gone[c] : k.session # s
    <3>1. PICK k \in DOMAIN bindings[c] : k.session = s
      BY <2>3 DEF SessionsSound
    <3>2. k \notin gone[c]
      BY <2>3, <3>1
    <3> QED
      BY <2>2, <3>1, <3>2
  <2>4. CASE \E k \in got[c] : k.session = s
    BY <2>2, <2>4
  <2> QED
    BY <2>3, <2>4 DEF IndexesMove
<1>3. ASSUME NEW k \in RunKeys
      PROVE  runIndex'[k] = {c \in Conns : k \in DOMAIN bindings'[c]}
  <2>1. runIndex'[k] \subseteq Conns
    BY DEF IndexesMove
  <2>2. ASSUME NEW c \in Conns
        PROVE  c \in runIndex'[k] <=> k \in DOMAIN bindings'[c]
    <3>1. c \in runIndex[k] <=> k \in DOMAIN bindings[c]
      BY DEF RunsSound
    <3>2. DOMAIN bindings'[c] = (DOMAIN bindings[c] \ gone[c]) \cup got[c]
      BY DEF BindingsMove
    <3>3. c \in runIndex'[k] <=> ((c \in runIndex[k] /\ k \notin gone[c]) \/ k \in got[c])
      BY DEF IndexesMove
    <3> QED
      BY <3>1, <3>2, <3>3
  <2> QED
    BY <2>1, <2>2
<1>4. SessionsSound'
  BY <1>2 DEF SessionsSound
<1>5. RunsSound'
  BY <1>3 DEF RunsSound
<1> QED
  BY <1>1, <1>4, <1>5 DEF RoutesMove, BindingsMove

LEMMA RoutesKept ==
  ASSUME RoutesTyped, SessionsSound, RunsSound, UNCHANGED routes
  PROVE  RoutesMove
<1>1. bindings' = bindings /\ sessionIndex' = sessionIndex /\ runIndex' = runIndex
  BY DEF routes
<1> QED
  BY <1>1 DEF RoutesTyped, SessionsSound, RunsSound, RoutesMove

LEMMA Unindexing ==
  ASSUME RoutesTyped, NEW gone
  PROVE  /\ Unindexed(gone) \in [Sessions -> SUBSET Conns]
         /\ \A s \in Sessions : \A c \in Unindexed(gone)[s] :
              c \in sessionIndex[s] /\ \A k \in gone[c] : k.session # s
         /\ RunUnindexed(gone) \in [RunKeys -> SUBSET Conns]
         /\ \A k \in RunKeys : \A c \in Conns :
              c \in RunUnindexed(gone)[k] <=> c \in runIndex[k] /\ k \notin gone[c]
<1>1. /\ sessionIndex \in [Sessions -> SUBSET Conns]
      /\ runIndex \in [RunKeys -> SUBSET Conns] /\ DOMAIN runIndex = RunKeys
  BY DEF RoutesTyped
<1>2. \A s \in Sessions :
        Unindexed(gone)[s] = sessionIndex[s] \ {c \in Conns : \E k \in gone[c] : k.session = s}
  BY DEF Unindexed
<1>3. \A s \in Sessions : \A c \in Unindexed(gone)[s] :
        c \in sessionIndex[s] /\ \A k \in gone[c] : k.session # s
  BY <1>1, <1>2
<1>4. \A s \in Sessions : Unindexed(gone)[s] \in SUBSET Conns
  BY <1>1, <1>2
<1>5. Unindexed(gone) \in [Sessions -> SUBSET Conns]
  BY <1>2, <1>4 DEF Unindexed
<1>6. \A k \in RunKeys : RunUnindexed(gone)[k] = runIndex[k] \ {c \in Conns : k \in gone[c]}
  BY <1>1 DEF RunUnindexed
<1>7. \A k \in RunKeys : RunUnindexed(gone)[k] \in SUBSET Conns
  BY <1>1, <1>6
<1>8. RunUnindexed(gone) \in [RunKeys -> SUBSET Conns]
  BY <1>1, <1>6, <1>7 DEF RunUnindexed
<1>9. \A k \in RunKeys : \A c \in Conns :
        c \in RunUnindexed(gone)[k] <=> c \in runIndex[k] /\ k \notin gone[c]
  BY <1>1, <1>6
<1> QED
  BY <1>3, <1>5, <1>8, <1>9

Nothing == [c \in Conns |-> {}]

LEMMA UnindexingMoves ==
  ASSUME RoutesTyped, NEW gone,
         sessionIndex' = Unindexed(gone), runIndex' = RunUnindexed(gone)
  PROVE  IndexesMove(gone, Nothing)
<1>1. \A c \in Conns : Nothing[c] = {}
  BY DEF Nothing
<1> QED
  BY <1>1, Unindexing DEF IndexesMove

LEMMA OfOne ==
  ASSUME NEW c \in Conns, NEW keys
  PROVE  Of(c, keys)[c] = keys /\ \A d \in Conns : d # c => Of(c, keys)[d] = {}
BY DEF Of

\* The bindings of one connection change.
LEMMA OneMoves ==
  ASSUME RoutesTyped, NEW c \in Conns, NEW b, bindings' = [bindings EXCEPT ![c] = b],
         Bound(b), NEW gone, NEW got, DOMAIN b = (DOMAIN bindings[c] \ gone) \cup got,
         b # NoBindings => bindings[c] # NoBindings \/ Open(c)
  PROVE  BindingsMove(Of(c, gone), Of(c, got))
<1>1. bindings = [d \in Conns |-> bindings[d]] /\ \A d \in Conns : Bound(bindings[d])
  BY DEF RoutesTyped
<1>2. bindings' = [d \in Conns |-> bindings'[d]]
  BY <1>1
<1>3. bindings'[c] = b /\ \A d \in Conns : d # c => bindings'[d] = bindings[d]
  BY <1>1
<1>4. ASSUME NEW d \in Conns
      PROVE  /\ Bound(bindings'[d])
             /\ DOMAIN bindings'[d] = (DOMAIN bindings[d] \ Of(c, gone)[d]) \cup Of(c, got)[d]
             /\ bindings'[d] # NoBindings => bindings[d] # NoBindings \/ Open(d)
  <2>1. CASE d = c
    BY <1>3, <2>1, OfOne
  <2>2. CASE d # c
    <3>1. bindings'[d] = bindings[d] /\ Of(c, gone)[d] = {} /\ Of(c, got)[d] = {}
      BY <1>3, <2>2, OfOne
    <3> QED
      BY <1>1, <3>1
  <2> QED
    BY <2>1, <2>2
<1> QED
  BY <1>2, <1>4 DEF BindingsMove

LEMMA NothingOf == ASSUME NEW c PROVE Of(c, {}) = Nothing
BY DEF Of, Nothing

LEMMA UnroutedMoves ==
  ASSUME RoutesTyped, SessionsSound, RunsSound, NEW c \in Conns, Unrouted(c)
  PROVE  /\ RoutesMove
         /\ bindings'[c] = NoBindings /\ \A d \in Conns : d # c => bindings'[d] = bindings[d]
<1> DEFINE gone == DOMAIN bindings[c]
<1>1. /\ bindings' = [bindings EXCEPT ![c] = NoBindings]
      /\ sessionIndex' = Unindexed(Of(c, gone)) /\ runIndex' = RunUnindexed(Of(c, gone))
  BY DEF Unrouted
<1>2. DOMAIN NoBindings = (DOMAIN bindings[c] \ gone) \cup {}
  BY NothingBound
<1> HIDE DEF gone
<1>3. BindingsMove(Of(c, gone), Of(c, {}))
  BY <1>1, <1>2, NothingBound, OneMoves
<1>4. IndexesMove(Of(c, gone), Nothing)
  BY <1>1, UnindexingMoves
<1>5. RoutesMove
  BY <1>3, <1>4, NothingOf, MovesTogether
<1>6. bindings = [d \in Conns |-> bindings[d]]
  BY DEF RoutesTyped
<1>7. bindings'[c] = NoBindings /\ \A d \in Conns : d # c => bindings'[d] = bindings[d]
  BY <1>1, <1>6
<1> QED
  BY <1>5, <1>7

LEMMA LiveAndExpired ==
  ASSUME NEW c
  PROVE  /\ Live(c) \subseteq DOMAIN bindings[c]
         /\ Live(c) = DOMAIN bindings[c] \ Expired(c)
BY DEF Live, Expired

LEMMA RefreshMoves ==
  ASSUME RoutesTyped, SessionsSound, RunsSound, NEW c \in Conns, Refresh(c)
  PROVE  RoutesMove
<1> DEFINE b == [k \in Live(c) |-> TTL]
<1>1. /\ bindings' = [bindings EXCEPT ![c] = b]
      /\ sessionIndex' = Unindexed(Of(c, Expired(c))) /\ runIndex' = RunUnindexed(Of(c, Expired(c)))
  BY DEF Refresh
<1>2. Bound(bindings[c]) /\ Live(c) \in SUBSET DOMAIN bindings[c]
  BY LiveAndExpired DEF RoutesTyped
<1>3. TTL \in 0 .. TTL
  BY RelayAssumption
<1>4. b = [k \in Live(c) |-> b[k]] /\ \A k \in Live(c) : b[k] \in 0 .. TTL
  BY <1>3
<1> HIDE DEF b
<1>5. Bound(b) /\ DOMAIN b = Live(c)
  BY <1>2, <1>4, BoundPart
<1>6. DOMAIN b = (DOMAIN bindings[c] \ Expired(c)) \cup {}
  BY <1>5, LiveAndExpired
<1>7. b # NoBindings => bindings[c] # NoBindings
  <2> SUFFICES ASSUME bindings[c] = NoBindings PROVE b = NoBindings
    OBVIOUS
  <2>1. DOMAIN b = {}
    BY <1>5, <1>2, NothingBound
  <2>2. b = [k \in DOMAIN b |-> b[k]]
    BY <1>4, <1>5
  <2> QED
    BY <2>1, <2>2, NothingBound
<1>8. BindingsMove(Of(c, Expired(c)), Of(c, {}))
  BY <1>1, <1>5, <1>6, <1>7, OneMoves
<1>9. IndexesMove(Of(c, Expired(c)), Nothing)
  BY <1>1, UnindexingMoves
<1> QED
  BY <1>8, <1>9, NothingOf, MovesTogether

LEMMA BindMoves ==
  ASSUME RoutesTyped, SessionsSound, RunsSound, NEW c \in Conns, Open(c),
         NEW k \in Keys, Bind(c, k)
  PROVE  RoutesMove
<1> DEFINE bound == k \in Live(c) \/ Cardinality(Live(c)) < MaxBindings
<1> DEFINE sessions == Unindexed(Of(c, Expired(c)))
<1> DEFINE runs == RunUnindexed(Of(c, Expired(c)))
<1> DEFINE S == IF bound THEN Live(c) \cup {k} ELSE Live(c)
<1> DEFINE got == IF bound THEN {k} ELSE {}
<1> DEFINE b == [l \in S |-> IF bound /\ l = k THEN TTL ELSE bindings[c][l]]
<1>1. /\ bindings' = [bindings EXCEPT ![c] = b]
      /\ sessionIndex' = IF bound THEN [sessions EXCEPT ![k.session] = @ \cup {c}] ELSE sessions
      /\ runIndex' = IF bound /\ k.run # None THEN [runs EXCEPT ![k] = @ \cup {c}] ELSE runs
  BY DEF Bind
<1>2. Bound(bindings[c]) /\ Live(c) \in SUBSET DOMAIN bindings[c]
  BY LiveAndExpired DEF RoutesTyped
<1>3. TTL \in 0 .. TTL /\ MaxBindings \in Nat
  BY RelayAssumption
<1>4. IsFiniteSet(Live(c)) /\ Cardinality(Live(c)) <= Cardinality(DOMAIN bindings[c])
  BY <1>2, FS_Subset DEF Bound
<1>5. Cardinality(Live(c)) \in Nat /\ Cardinality(DOMAIN bindings[c]) \in Nat
      /\ Cardinality(DOMAIN bindings[c]) <= MaxBindings
  BY <1>2, <1>4, FS_CardinalityType DEF Bound
<1>6. IsFiniteSet(S) /\ Cardinality(S) <= MaxBindings
  <2>1. /\ IsFiniteSet(Live(c) \cup {k})
        /\ Cardinality(Live(c) \cup {k}) = IF k \in Live(c) THEN Cardinality(Live(c)) ELSE Cardinality(Live(c)) + 1
    BY <1>4, FS_AddElement
  <2>2. CASE bound
    <3>1. S = Live(c) \cup {k}
      BY <2>2
    <3> HIDE DEF S
    <3>2. Cardinality(Live(c) \cup {k}) <= MaxBindings
      BY <2>1, <2>2, <1>5, <1>4, <1>3
    <3> QED
      BY <3>1, <3>2, <2>1
  <2>3. CASE ~bound
    <3>1. S = Live(c)
      BY <2>3
    <3> HIDE DEF S
    <3> QED
      BY <3>1, <1>3, <1>4, <1>5
  <2> QED
    BY <2>2, <2>3
<1> HIDE DEF bound
<1>7. S \subseteq Keys
  BY <1>2 DEF Bound
<1>8. \A l \in S : b[l] \in 0 .. TTL
  BY <1>2, <1>3 DEF Bound
<1>9. b = [l \in DOMAIN b |-> b[l]] /\ DOMAIN b = S
  OBVIOUS
<1>10. Bound(b)
  <2> HIDE DEF b, S
  <2> QED
    BY <1>6, <1>7, <1>8, <1>9 DEF Bound
<1>11. S = (DOMAIN bindings[c] \ Expired(c)) \cup got
  BY LiveAndExpired
<1> HIDE DEF b, S, got
<1>12. BindingsMove(Of(c, Expired(c)), Of(c, got))
  BY <1>1, <1>9, <1>10, <1>11, OneMoves
<1>13. /\ sessions \in [Sessions -> SUBSET Conns]
       /\ \A s \in Sessions : \A d \in sessions[s] :
            d \in sessionIndex[s] /\ \A l \in Of(c, Expired(c))[d] : l.session # s
       /\ runs \in [RunKeys -> SUBSET Conns]
       /\ \A l \in RunKeys : \A d \in Conns :
            d \in runs[l] <=> d \in runIndex[l] /\ l \notin Of(c, Expired(c))[d]
  BY Unindexing
<1> HIDE DEF sessions, runs
<1>14. k.session \in Sessions /\ k.run \in Runs \cup {None}
       /\ (k \in RunKeys <=> k.run # None) /\ k = [session |-> k.session, run |-> k.run]
  BY RelayAssumption DEF Keys, RunKeys
<1>15. /\ sessionIndex' \in [Sessions -> SUBSET Conns]
       /\ \A s \in Sessions : \A d \in sessionIndex'[s] :
            \/ d \in sessionIndex[s] /\ \A l \in Of(c, Expired(c))[d] : l.session # s
            \/ \E l \in Of(c, got)[d] : l.session = s
  <2>1. CASE bound
    <3>1. sessionIndex' = [sessions EXCEPT ![k.session] = sessions[k.session] \cup {c}]
      BY <1>1, <2>1
    <3>2. sessionIndex' \in [Sessions -> SUBSET Conns]
      BY <3>1, <1>13, <1>14
    <3>3. \A s \in Sessions : \A d \in sessionIndex'[s] : d \in sessions[s] \/ (d = c /\ s = k.session)
      BY <3>1, <1>13, <1>14
    <3>4. k \in Of(c, got)[c]
      BY <2>1, OfOne DEF got
    <3> QED
      BY <3>2, <3>3, <3>4, <1>13
  <2>2. CASE ~bound
    BY <2>2, <1>1, <1>13
  <2> QED
    BY <2>1, <2>2
<1>16. /\ runIndex' \in [RunKeys -> SUBSET Conns]
       /\ \A l \in RunKeys : \A d \in Conns :
            d \in runIndex'[l] <=> ((d \in runIndex[l] /\ l \notin Of(c, Expired(c))[d]) \/ l \in Of(c, got)[d])
  <2>1. CASE bound /\ k.run # None
    <3>1. runIndex' = [runs EXCEPT ![k] = runs[k] \cup {c}]
      BY <1>1, <2>1
    <3>2. k \in RunKeys
      BY <1>14, <2>1
    <3>3. runIndex' \in [RunKeys -> SUBSET Conns]
      BY <3>1, <3>2, <1>13
    <3>4. \A l \in RunKeys : \A d \in Conns : d \in runIndex'[l] <=> (d \in runs[l] \/ (l = k /\ d = c))
      BY <3>1, <3>2, <1>13
    <3>5. \A l, d : d \in Conns => (l \in Of(c, got)[d] <=> (l = k /\ d = c))
      BY <2>1, OfOne DEF got
    <3> QED
      BY <3>3, <3>4, <3>5, <1>13
  <2>2. CASE ~(bound /\ k.run # None)
    <3>1. runIndex' = runs
      BY <1>1, <2>2
    <3>2. \A l \in RunKeys : \A d \in Conns : l \notin Of(c, got)[d]
      BY <2>2, OfOne, <1>14 DEF got
    <3> QED
      BY <3>1, <3>2, <1>13
  <2> QED
    BY <2>1, <2>2
<1>17. IndexesMove(Of(c, Expired(c)), Of(c, got))
  BY <1>15, <1>16 DEF IndexesMove
<1> QED
  BY <1>12, <1>17, MovesTogether

\* The bindings of every connection change, and none gets a new one.
LEMMA AllMove ==
  ASSUME RoutesTyped, NEW b, NEW S,
         bindings' = [c \in Conns |-> b[c]],
         \A c \in Conns : b[c] = [k \in S[c] |-> b[c][k]],
         \A c \in Conns : S[c] \subseteq DOMAIN bindings[c] /\ \A k \in S[c] : b[c][k] \in 0 .. TTL,
         NEW gone, \A c \in Conns : S[c] = DOMAIN bindings[c] \ gone[c]
  PROVE  BindingsMove(gone, Nothing)
<1>1. bindings' = [c \in Conns |-> bindings'[c]] /\ \A c \in Conns : bindings'[c] = b[c]
  OBVIOUS
<1>2. ASSUME NEW c \in Conns
      PROVE  /\ Bound(bindings'[c])
             /\ DOMAIN bindings'[c] = (DOMAIN bindings[c] \ gone[c]) \cup Nothing[c]
             /\ bindings'[c] # NoBindings => bindings[c] # NoBindings
  <2>1. Bound(bindings[c])
    BY DEF RoutesTyped
  <2>2. Bound(b[c]) /\ DOMAIN b[c] = S[c]
    BY <2>1, BoundPart
  <2>3. Nothing[c] = {}
    BY DEF Nothing
  <2>4. bindings[c] = NoBindings => b[c] = NoBindings
    <3> SUFFICES ASSUME bindings[c] = NoBindings PROVE b[c] = NoBindings
      OBVIOUS
    <3>1. DOMAIN b[c] = {}
      BY <2>2, NothingBound
    <3> QED
      BY <3>1, <2>2, NothingBound
  <2> QED
    BY <1>1, <2>2, <2>3, <2>4
<1> QED
  BY <1>1, <1>2 DEF BindingsMove

LEMMA CleanUpMoves ==
  ASSUME RoutesTyped, SessionsSound, RunsSound, CleanUp
  PROVE  RoutesMove
<1> DEFINE b == [c \in Conns |-> [k \in Live(c) |-> bindings[c][k]]]
<1> DEFINE S == [c \in Conns |-> Live(c)]
<1> DEFINE gone == [c \in Conns |-> Expired(c)]
<1>1. /\ bindings' = [c \in Conns |-> b[c]]
      /\ sessionIndex' = Unindexed(gone) /\ runIndex' = RunUnindexed(gone)
  BY DEF CleanUp
<1>2. \A c \in Conns : b[c] = [k \in S[c] |-> b[c][k]]
  OBVIOUS
<1>3. \A c \in Conns : S[c] \subseteq DOMAIN bindings[c] /\ \A k \in S[c] : b[c][k] \in 0 .. TTL
  <2>1. ASSUME NEW c \in Conns, NEW k \in S[c] PROVE k \in DOMAIN bindings[c] /\ b[c][k] \in 0 .. TTL
    <3>1. k \in Live(c) /\ b[c][k] = bindings[c][k]
      OBVIOUS
    <3>2. k \in DOMAIN bindings[c]
      BY <3>1, LiveAndExpired
    <3> HIDE DEF b
    <3> QED
      BY <3>1, <3>2 DEF RoutesTyped, Bound
  <2> HIDE DEF b
  <2> QED
    BY <2>1
<1>4. \A c \in Conns : S[c] = DOMAIN bindings[c] \ gone[c]
  BY LiveAndExpired
<1> HIDE DEF b, S, gone
<1>5. BindingsMove(gone, Nothing)
  BY <1>1, <1>2, <1>3, <1>4, AllMove
<1>6. IndexesMove(gone, Nothing)
  BY <1>1, UnindexingMoves
<1> QED
  BY <1>5, <1>6, MovesTogether

LEMMA TickMoves ==
  ASSUME RoutesTyped, SessionsSound, RunsSound, Tick
  PROVE  RoutesMove
<1> DEFINE b == [c \in Conns |-> [k \in DOMAIN bindings[c] |->
                   IF bindings[c][k] > 0 THEN bindings[c][k] - 1 ELSE 0]]
<1> DEFINE S == [c \in Conns |-> DOMAIN bindings[c]]
<1>1. bindings' = [c \in Conns |-> b[c]] /\ sessionIndex' = sessionIndex /\ runIndex' = runIndex
  BY DEF Tick
<1>2. \A c \in Conns : b[c] = [k \in S[c] |-> b[c][k]]
  OBVIOUS
<1>3. \A c \in Conns : S[c] \subseteq DOMAIN bindings[c] /\ \A k \in S[c] : b[c][k] \in 0 .. TTL
  <2>1. ASSUME NEW c \in Conns, NEW k \in S[c] PROVE k \in DOMAIN bindings[c] /\ b[c][k] \in 0 .. TTL
    <3>1. k \in DOMAIN bindings[c]
          /\ b[c][k] = IF bindings[c][k] > 0 THEN bindings[c][k] - 1 ELSE 0
      OBVIOUS
    <3>2. bindings[c][k] \in 0 .. TTL /\ TTL \in Nat
      BY <3>1, RelayAssumption DEF RoutesTyped, Bound
    <3> HIDE DEF b
    <3> QED
      BY <3>1, <3>2
  <2>2. \A c \in Conns : S[c] = DOMAIN bindings[c]
    OBVIOUS
  <2> HIDE DEF b, S
  <2> QED
    BY <2>1, <2>2
<1>4. \A c \in Conns : S[c] = DOMAIN bindings[c] \ Nothing[c]
  BY DEF Nothing
<1> HIDE DEF b, S
<1>5. BindingsMove(Nothing, Nothing)
  BY <1>1, <1>2, <1>3, <1>4, AllMove
<1>6. IndexesMove(Nothing, Nothing)
  <2>1. \A c \in Conns : Nothing[c] = {}
    BY DEF Nothing
  <2> QED
    BY <1>1, <2>1 DEF IndexesMove, RoutesTyped
<1> QED
  BY <1>5, <1>6, MovesTogether

-----------------------------------------------------------------------------
(* What a step does to the connections and their queues. *)

LEMMA SetAt ==
  ASSUME NEW f \in [Conns -> ConnStates], NEW c \in Conns, NEW v \in {"new", "open", "gone"}
  PROVE  /\ [f EXCEPT ![c].at = v] \in [Conns -> ConnStates]
         /\ [f EXCEPT ![c].at = v][c].at = v
         /\ [f EXCEPT ![c].at = v][c].reader = f[c].reader
         /\ \A d \in Conns : d # c => [f EXCEPT ![c].at = v][d] = f[d]
BY DEF ConnStates

LEMMA SetSock ==
  ASSUME NEW f \in [Conns -> ConnStates], NEW c \in Conns, NEW v \in {"open", "closed"}
  PROVE  /\ [f EXCEPT ![c].sock = v] \in [Conns -> ConnStates]
         /\ [f EXCEPT ![c].sock = v][c].at = f[c].at
         /\ [f EXCEPT ![c].sock = v][c].reader = f[c].reader
         /\ \A d \in Conns : d # c => [f EXCEPT ![c].sock = v][d] = f[d]
BY DEF ConnStates

LEMMA SetClosing ==
  ASSUME NEW f \in [Conns -> ConnStates], NEW c \in Conns, NEW v \in BOOLEAN
  PROVE  /\ [f EXCEPT ![c].closing = v] \in [Conns -> ConnStates]
         /\ [f EXCEPT ![c].closing = v][c].at = f[c].at
         /\ [f EXCEPT ![c].closing = v][c].reader = f[c].reader
         /\ \A d \in Conns : d # c => [f EXCEPT ![c].closing = v][d] = f[d]
BY DEF ConnStates

ConnsKeep ==
  /\ ConnsTyped'
  /\ \A c \in Conns : conn'[c].at = conn[c].at
                      /\ (conn[c].reader = "none" => conn'[c].reader = "none" \/ conn[c].at # "new")

Begins(c) ==
  /\ ConnsTyped' /\ conn[c].at = "new" /\ conn'[c].at = "open"
  /\ \A d \in Conns : d # c => conn'[d] = conn[d]

Ends(c) ==
  /\ ConnsTyped' /\ conn[c].at # "new" /\ conn'[c].at = "gone"
  /\ \A d \in Conns : d # c => conn'[d] = conn[d]

RouteStep == ConnsKeep /\ RoutesMove /\ UNCHANGED <<queue, publisher, count>>

BeginStep(c) == Begins(c) /\ UNCHANGED <<routes, queue, publisher, count>>

EndStep(c) == Ends(c) /\ queue' = [queue EXCEPT ![c] = <<>>] /\ Unrouted(c)

TakeStep(c, m) ==
  /\ ConnsKeep /\ Open(c) /\ Len(queue[c]) < QueueSize
  /\ queue' = [queue EXCEPT ![c] = Append(queue[c], m)]
  /\ UNCHANGED routes

WriteStep(c) ==
  /\ ConnsKeep /\ Open(c) /\ queue[c] # <<>>
  /\ queue' = [queue EXCEPT ![c] = Tail(queue[c])]
  /\ UNCHANGED <<routes, publisher, count>>

SendStep(p, c) ==
  /\ c \in publisher[p].to
  /\ publisher' = [publisher EXCEPT ![p].to = publisher[p].to \ {c}] /\ UNCHANGED count
  /\ \/ TakeStep(c, [by |-> p, event |-> publisher[p].event])
     \/ EndStep(c)
     \/ ~Open(c) /\ UNCHANGED <<conn, routes, queue>>

LEMMA ConnsKept ==
  ASSUME ConnsTyped, UNCHANGED conn
  PROVE  ConnsKeep
BY DEF ConnsTyped, ConnsKeep

LEMMA DroppedEnds ==
  ASSUME ConnsTyped, NEW c \in Conns, Open(c), Dropped(c)
  PROVE  EndStep(c)
<1> DEFINE m == [conn EXCEPT ![c].at = "gone"]
<1> DEFINE n == [m EXCEPT ![c].closing = TRUE]
<1>1. conn' = n
  BY DEF Dropped
<1>2. m \in [Conns -> ConnStates] /\ m[c].at = "gone" /\ \A d \in Conns : d # c => m[d] = conn[d]
  BY SetAt DEF ConnsTyped
<1> HIDE DEF m
<1>3. n \in [Conns -> ConnStates] /\ n[c].at = "gone" /\ \A d \in Conns : d # c => n[d] = conn[d]
  BY <1>2, SetClosing
<1> HIDE DEF n
<1>4. conn[c].at # "new"
  BY DEF Open
<1>5. Ends(c)
  BY <1>1, <1>3, <1>4 DEF Ends, ConnsTyped
<1> QED
  BY <1>5 DEF EndStep, Dropped

LEMMA EnqueuedStep ==
  ASSUME ConnsTyped, NEW c \in Conns, Open(c), NEW m, Enqueued(c, m)
  PROVE  TakeStep(c, m) \/ EndStep(c)
<1>1. CASE Len(queue[c]) < QueueSize
  BY <1>1, ConnsKept DEF Enqueued, TakeStep
<1>2. CASE ~(Len(queue[c]) < QueueSize)
  BY <1>2, DroppedEnds DEF Enqueued
<1> QED
  BY <1>1, <1>2

LEMMA ConnectStep ==
  ASSUME ConnsTyped, NEW c \in Conns, Connect(c)
  PROVE  BeginStep(c)
<1> DEFINE m == [conn EXCEPT ![c].at = "open"]
<1> DEFINE n == [m EXCEPT ![c].reader = "reading"]
<1>1. conn' = n /\ conn[c].at = "new" /\ UNCHANGED <<routes, queue, publisher, count>>
  BY DEF Connect
<1>2. m \in [Conns -> ConnStates] /\ m[c].at = "open" /\ \A d \in Conns : d # c => m[d] = conn[d]
  BY SetAt DEF ConnsTyped
<1> HIDE DEF m
<1>3. n \in [Conns -> ConnStates] /\ n[c].at = "open" /\ \A d \in Conns : d # c => n[d] = conn[d]
  BY <1>2 DEF ConnStates
<1> HIDE DEF n
<1> QED
  BY <1>1, <1>3 DEF BeginStep, Begins, ConnsTyped

LEMMA ReaderMoves ==
  ASSUME ConnsTyped, NEW c \in Conns, conn[c].reader # "none",
         NEW v \in {"none", "reading", "replying", "ended"}, conn' = [conn EXCEPT ![c].reader = v]
  PROVE  ConnsKeep
<1> DEFINE n == [conn EXCEPT ![c].reader = v]
<1>1. n \in [Conns -> ConnStates] /\ n[c].at = conn[c].at /\ \A d \in Conns : d # c => n[d] = conn[d]
  BY DEF ConnsTyped, ConnStates
<1> HIDE DEF n
<1>2. conn' = n
  BY DEF n
<1> QED
  BY <1>1, <1>2 DEF ConnsKeep, ConnsTyped

LEMMA RequestStep ==
  ASSUME Typed, SessionsSound, RunsSound, NEW c \in Conns, Request(c)
  PROVE  RouteStep
<1>1. ConnsTyped /\ RoutesTyped
  BY DEF Typed
<1>2. ConnsKeep
  BY <1>1, ReaderMoves DEF Request
<1>3. RoutesMove
  <2>1. ASSUME Open(c), NEW k \in Keys, Bind(c, k) PROVE RoutesMove
    BY <1>1, <2>1, BindMoves
  <2>2. CASE Refresh(c)
    BY <1>1, <2>2, RefreshMoves
  <2>3. CASE Unrouted(c)
    BY <1>1, <2>3, UnroutedMoves
  <2>4. CASE UNCHANGED routes
    BY <1>1, <2>4, RoutesKept
  <2> QED
    BY <2>1, <2>2, <2>3, <2>4 DEF Request
<1> QED
  BY <1>2, <1>3 DEF RouteStep, Request

\* The reader returns: its connection is gone, and is to be closed.
ReaderEnded(c) == [conn EXCEPT ![c].at = "gone", ![c].closing = TRUE, ![c].reader = "ended"]

LEMMA ReaderEnds ==
  ASSUME ConnsTyped, NEW c \in Conns, conn[c].at # "new", conn' = ReaderEnded(c)
  PROVE  Ends(c)
<1> DEFINE l == [conn EXCEPT ![c].at = "gone"]
<1> DEFINE m == [l EXCEPT ![c].closing = TRUE]
<1> DEFINE n == [m EXCEPT ![c].reader = "ended"]
<1>1. conn' = n
  BY DEF ReaderEnded
<1>2. l \in [Conns -> ConnStates] /\ l[c].at = "gone" /\ \A d \in Conns : d # c => l[d] = conn[d]
  BY SetAt DEF ConnsTyped
<1> HIDE DEF l
<1>3. m \in [Conns -> ConnStates] /\ m[c].at = "gone" /\ \A d \in Conns : d # c => m[d] = conn[d]
  BY <1>2, SetClosing
<1> HIDE DEF m
<1>4. n \in [Conns -> ConnStates] /\ n[c].at = "gone" /\ \A d \in Conns : d # c => n[d] = conn[d]
  BY <1>3 DEF ConnStates
<1> HIDE DEF n
<1> QED
  BY <1>1, <1>4 DEF Ends, ConnsTyped

LEMMA ReplyStep ==
  ASSUME Typed, NothingWaits, NEW c \in Conns, Reply(c)
  PROVE  TakeStep(c, Other) \/ EndStep(c)
<1>1. ConnsTyped /\ conn[c].reader = "replying" /\ conn[c].at # "new"
  BY DEF Typed, Reply, NothingWaits
<1>2. CASE Open(c) /\ Len(queue[c]) < QueueSize
  <2>1. ConnsKeep
    BY <1>1, <1>2, ReaderMoves DEF Reply
  <2> QED
    BY <1>2, <2>1 DEF Reply, TakeStep
<1>3. CASE ~(Open(c) /\ Len(queue[c]) < QueueSize)
  <2>1. /\ conn' = ReaderEnded(c)
        /\ queue' = [queue EXCEPT ![c] = <<>>] /\ Unrouted(c)
    BY <1>3 DEF Reply, ReaderEnded
  <2>2. Ends(c)
    BY <1>1, <2>1, ReaderEnds
  <2> QED
    BY <2>1, <2>2 DEF EndStep
<1> QED
  BY <1>2, <1>3

LEMMA ReadFailsStep ==
  ASSUME Typed, NothingWaits, NEW c \in Conns, ReadFails(c)
  PROVE  EndStep(c)
<1>1. ConnsTyped /\ conn[c].reader = "reading" /\ conn[c].at # "new"
  BY DEF Typed, ReadFails, NothingWaits
<1>2. /\ conn' = ReaderEnded(c)
      /\ queue' = [queue EXCEPT ![c] = <<>>] /\ Unrouted(c)
  BY DEF ReadFails, ReaderEnded
<1>3. Ends(c)
  BY <1>1, <1>2, ReaderEnds
<1> QED
  BY <1>2, <1>3 DEF EndStep

LEMMA WriterDoneStep ==
  ASSUME Typed, NEW c \in Conns, WriterDone(c)
  PROVE  EndStep(c)
<1> DEFINE n == [conn EXCEPT ![c].at = "gone"]
<1>1. n \in [Conns -> ConnStates] /\ n[c].at = "gone" /\ \A d \in Conns : d # c => n[d] = conn[d]
  BY SetAt DEF Typed, ConnsTyped
<1>2. conn' = n /\ conn[c].at # "new"
  BY DEF WriterDone, Open
<1> HIDE DEF n
<1>3. Ends(c)
  BY <1>1, <1>2 DEF Ends, ConnsTyped
<1> QED
  BY <1>3 DEF EndStep, WriterDone

LEMMA CloseSteps ==
  ASSUME Typed, SessionsSound, RunsSound, NEW c \in Conns, Close(c) \/ CloseEarly(c)
  PROVE  RouteStep
<1> DEFINE m == [conn EXCEPT ![c].sock = "closed"]
<1> DEFINE n == [m EXCEPT ![c].closing = FALSE]
<1>1. m \in [Conns -> ConnStates] /\ m[c].at = conn[c].at /\ m[c].reader = conn[c].reader
      /\ \A d \in Conns : d # c => m[d] = conn[d]
  BY SetSock DEF Typed, ConnsTyped
<1>2. conn' = n \/ conn' = m
  BY DEF Close, CloseEarly
<1> HIDE DEF m
<1>3. n \in [Conns -> ConnStates] /\ n[c].at = conn[c].at /\ n[c].reader = conn[c].reader
      /\ \A d \in Conns : d # c => n[d] = conn[d]
  BY <1>1, SetClosing
<1> HIDE DEF n
<1>4. ConnsKeep
  BY <1>1, <1>2, <1>3 DEF ConnsKeep, ConnsTyped
<1>5. UNCHANGED routes /\ UNCHANGED <<queue, publisher, count>>
  BY DEF Close, CloseEarly
<1>6. RoutesMove
  BY <1>5, RoutesKept DEF Typed
<1> QED
  BY <1>4, <1>5, <1>6 DEF RouteStep

LEMMA WriteSteps ==
  ASSUME Typed, NEW c \in Conns, Write(c)
  PROVE  WriteStep(c) \/ EndStep(c)
<1>1. ConnsTyped /\ Open(c)
  BY DEF Typed, Write
<1>2. CASE Dropped(c)
  BY <1>1, <1>2, DroppedEnds
<1>3. CASE queue' = [queue EXCEPT ![c] = Tail(@)] /\ UNCHANGED <<conn, routes>>
  <2>1. ConnsKeep
    BY <1>1, <1>3, ConnsKept
  <2> QED
    BY <1>3, <2>1 DEF Write, WriteStep
<1> QED
  BY <1>2, <1>3 DEF Write

LEMMA SendSteps ==
  ASSUME Typed, NEW p \in Publishers, NEW c \in Conns, Send(p, c)
  PROVE  SendStep(p, c)
<1>1. ConnsTyped
  BY DEF Typed
<1>2. CASE Open(c)
  <2>1. Enqueued(c, [by |-> p, event |-> publisher[p].event])
    BY <1>2 DEF Send
  <2>2. TakeStep(c, [by |-> p, event |-> publisher[p].event]) \/ EndStep(c)
    BY <1>1, <1>2, <2>1, EnqueuedStep
  <2> QED
    BY <2>2 DEF Send, SendStep
<1>3. CASE ~Open(c)
  BY <1>3 DEF Send, SendStep
<1> QED
  BY <1>2, <1>3

Kept == UNCHANGED <<publisher, count>>

\* The kinds of step there are.
LEMMA StepKinds ==
  ASSUME RelayInv, Next
  PROVE  \/ RouteStep
         \/ \E c \in Conns : BeginStep(c) \/ WriteStep(c)
         \/ \E c \in Conns : (TakeStep(c, Other) \/ EndStep(c)) /\ Kept
         \/ \E p \in Publishers, s \in Sessions, r \in Runs \cup {None} : Publish(p, s, r)
         \/ \E p \in Publishers, c \in Conns : SendStep(p, c)
<1>1. Typed /\ NothingWaits /\ ConnsTyped /\ RoutesTyped
  BY DEF RelayInv, Typed
<1>2. SessionsSound /\ RunsSound
  BY <1>1, IndexesSoundParts DEF RelayInv
<1>3. CASE Tick
  BY <1>1, <1>2, <1>3, TickMoves, ConnsKept DEF Tick, RouteStep
<1>4. CASE CleanUp
  BY <1>1, <1>2, <1>4, CleanUpMoves, ConnsKept DEF CleanUp, RouteStep
<1>5. ASSUME NEW c \in Conns, Connect(c) PROVE BeginStep(c)
  BY <1>1, <1>5, ConnectStep
<1>6. ASSUME NEW c \in Conns, Request(c) PROVE RouteStep
  BY <1>1, <1>2, <1>6, RequestStep
<1>7. ASSUME NEW c \in Conns, Reply(c) PROVE (TakeStep(c, Other) \/ EndStep(c)) /\ Kept
  BY <1>1, <1>7, ReplyStep DEF Reply, Kept
<1>8. ASSUME NEW c \in Conns, ReadFails(c) PROVE EndStep(c) /\ Kept
  BY <1>1, <1>8, ReadFailsStep DEF ReadFails, Kept
<1>9. ASSUME NEW c \in Conns, Heartbeat(c) PROVE (TakeStep(c, Other) \/ EndStep(c)) /\ Kept
  BY <1>1, <1>9, EnqueuedStep DEF Heartbeat, Kept
<1>10. ASSUME NEW c \in Conns, Write(c) PROVE WriteStep(c) \/ (EndStep(c) /\ Kept)
  BY <1>1, <1>10, WriteSteps DEF Write, Kept
<1>11. ASSUME NEW c \in Conns, WriterDone(c) PROVE EndStep(c) /\ Kept
  BY <1>1, <1>11, WriterDoneStep DEF WriterDone, Kept
<1>12. ASSUME NEW c \in Conns, Close(c) \/ CloseEarly(c) PROVE RouteStep
  BY <1>1, <1>2, <1>12, CloseSteps
<1>13. ASSUME NEW c \in Conns, StopDrops(c) PROVE EndStep(c) /\ Kept
  BY <1>1, <1>13, DroppedEnds DEF StopDrops, Kept
<1>14. ASSUME NEW p \in Publishers, NEW c \in Conns, Send(p, c) PROVE SendStep(p, c)
  BY <1>1, <1>14, SendSteps
<1> QED
  BY <1>3, <1>4, <1>5, <1>6, <1>7, <1>8, <1>9, <1>10, <1>11, <1>12, <1>13, <1>14 DEF Next

-----------------------------------------------------------------------------
(* The invariant is kept. *)

\* No publisher gets a new target.
TargetsServed == PublishersTyped' /\ \A p \in Publishers : publisher'[p].to \subseteq publisher[p].to

LEMMA KeptServes ==
  ASSUME PublishersTyped, Kept
  PROVE  TargetsServed
BY DEF PublishersTyped, Kept, TargetsServed

LEMMA SendServes ==
  ASSUME PublishersTyped, NEW p \in Publishers, NEW c \in Conns, SendStep(p, c)
  PROVE  /\ TargetsServed
         /\ publisher'[p].to = publisher[p].to \ {c}
         /\ \A o \in Publishers : publisher'[o].event = publisher[o].event
         /\ \A o \in Publishers : o # p => publisher'[o] = publisher[o]
<1>1. publisher' = [publisher EXCEPT ![p].to = publisher[p].to \ {c}] /\ count' = count
  BY DEF SendStep
<1> QED
  BY <1>1 DEF PublishersTyped, TargetsServed

LEMMA InvFromParts ==
  ASSUME ConnsTyped', RoutesTyped', QueuesTyped', PublishersTyped',
         SessionsSound', RunsSound', BoundAreOpen', NothingWaits'
  PROVE  RelayInv'
BY IndexesSoundPartsNext DEF RelayInv, Typed

LEMMA InvParts ==
  ASSUME RelayInv
  PROVE  /\ ConnsTyped /\ RoutesTyped /\ QueuesTyped /\ PublishersTyped
         /\ SessionsSound /\ RunsSound /\ BoundAreOpen /\ NothingWaits
BY IndexesSoundParts DEF RelayInv, Typed

LEMMA OpenIsKept ==
  ASSUME NEW c \in Conns, ConnsKeep
  PROVE  Open(c)' <=> Open(c)
BY DEF ConnsKeep, Open

LEMMA RouteKeeps ==
  ASSUME RelayInv, RouteStep
  PROVE  RelayInv'
<1>1. ConnsTyped' /\ RoutesTyped' /\ SessionsSound' /\ RunsSound'
  BY DEF RouteStep, ConnsKeep, RoutesMove
<1>2. QueuesTyped' /\ PublishersTyped'
  BY InvParts DEF RouteStep, QueuesTyped, PublishersTyped
<1>3. BoundAreOpen'
  BY InvParts, OpenIsKept DEF RouteStep, RoutesMove, BoundAreOpen
<1>4. NothingWaits'
  BY InvParts, OpenIsKept DEF RouteStep, NothingWaits, ConnsKeep
<1> QED
  BY <1>1, <1>2, <1>3, <1>4, InvFromParts

LEMMA BeginKeeps ==
  ASSUME RelayInv, NEW c \in Conns, BeginStep(c)
  PROVE  RelayInv'
<1>1. ConnsTyped' /\ UNCHANGED routes /\ UNCHANGED <<queue, publisher, count>>
  BY DEF BeginStep, Begins
<1>2. RoutesTyped' /\ SessionsSound' /\ RunsSound' /\ bindings' = bindings
  BY <1>1, InvParts, RoutesKept DEF RoutesMove, routes
<1>3. QueuesTyped' /\ PublishersTyped'
  BY <1>1, InvParts DEF QueuesTyped, PublishersTyped
<1>4. \A d \in Conns : Open(d) => Open(d)'
  BY DEF BeginStep, Begins, Open
<1>5. BoundAreOpen'
  BY <1>2, <1>4, InvParts DEF BoundAreOpen
<1>6. NothingWaits'
  BY <1>1, <1>4, InvParts DEF NothingWaits, BeginStep, Begins
<1> QED
  BY <1>1, <1>2, <1>3, <1>5, <1>6, InvFromParts

LEMMA EndKeeps ==
  ASSUME RelayInv, NEW c \in Conns, EndStep(c), TargetsServed
  PROVE  RelayInv'
<1>1. ConnsTyped' /\ PublishersTyped' /\ Unrouted(c) /\ queue' = [queue EXCEPT ![c] = <<>>]
  BY DEF EndStep, Ends, TargetsServed
<1>2. RoutesMove /\ bindings'[c] = NoBindings /\ \A d \in Conns : d # c => bindings'[d] = bindings[d]
  BY <1>1, InvParts, UnroutedMoves
<1>3. QueuesTyped' /\ queue'[c] = <<>> /\ \A d \in Conns : d # c => queue'[d] = queue[d]
  <2>1. QueueSize \in Nat
    BY RelayAssumption
  <2> QED
    BY <1>1, <2>1, InvParts DEF QueuesTyped
<1>4. conn'[c].at = "gone" /\ \A d \in Conns : d # c => conn'[d] = conn[d]
  BY DEF EndStep, Ends
<1>5. \A d \in Conns : d # c => (Open(d)' <=> Open(d))
  BY <1>4 DEF Open
<1>6. BoundAreOpen'
  BY <1>2, <1>5, InvParts DEF BoundAreOpen
<1>7. NothingWaits'
  BY <1>3, <1>4, <1>5, InvParts DEF NothingWaits, TargetsServed
<1> QED
  BY <1>1, <1>2, <1>3, <1>6, <1>7, InvFromParts DEF RoutesMove

LEMMA TakeKeeps ==
  ASSUME RelayInv, NEW c \in Conns, NEW m \in Messages, TakeStep(c, m), TargetsServed
  PROVE  RelayInv'
<1>1. ConnsTyped' /\ PublishersTyped' /\ UNCHANGED routes
  BY DEF TakeStep, ConnsKeep, TargetsServed
<1>2. RoutesTyped' /\ SessionsSound' /\ RunsSound' /\ bindings' = bindings
  BY <1>1, InvParts, RoutesKept DEF RoutesMove, routes
<1>3. \A d \in Conns : Open(d)' <=> Open(d)
  BY OpenIsKept DEF TakeStep
<1>4. QueuesTyped' /\ \A d \in Conns : d # c => queue'[d] = queue[d]
  <2>1. queue[c] \in Seq(Messages) /\ Len(queue[c]) \in Nat /\ Len(queue[c]) < QueueSize /\ QueueSize \in Nat
    BY InvParts, RelayAssumption DEF QueuesTyped, TakeStep
  <2> DEFINE q == Append(queue[c], m)
  <2>2. q \in Seq(Messages) /\ Len(q) = Len(queue[c]) + 1
    BY <2>1, AppendProperties
  <2>3. Len(q) <= QueueSize
    BY <2>1, <2>2
  <2>4. queue' = [queue EXCEPT ![c] = q]
    BY DEF TakeStep
  <2> HIDE DEF q
  <2> QED
    BY <2>2, <2>3, <2>4, InvParts DEF QueuesTyped
<1>5. BoundAreOpen'
  BY <1>2, <1>3, InvParts DEF BoundAreOpen
<1>6. NothingWaits'
  <2>1. Open(c) /\ ConnsKeep
    BY DEF TakeStep
  <2> QED
    BY <1>3, <1>4, <2>1, InvParts DEF NothingWaits, ConnsKeep, TargetsServed
<1> QED
  BY <1>1, <1>2, <1>4, <1>5, <1>6, InvFromParts

LEMMA WriteKeeps ==
  ASSUME RelayInv, NEW c \in Conns, WriteStep(c)
  PROVE  RelayInv'
<1>1. ConnsTyped' /\ UNCHANGED routes /\ publisher' = publisher /\ count' = count
  BY DEF WriteStep, ConnsKeep
<1>2. RoutesTyped' /\ SessionsSound' /\ RunsSound' /\ bindings' = bindings
  BY <1>1, InvParts, RoutesKept DEF RoutesMove, routes
<1>3. \A d \in Conns : Open(d)' <=> Open(d)
  BY OpenIsKept DEF WriteStep
<1>4. QueuesTyped' /\ \A d \in Conns : d # c => queue'[d] = queue[d]
  <2>1. queue[c] \in Seq(Messages) /\ queue[c] # <<>> /\ Len(queue[c]) \in Nat
        /\ Len(queue[c]) <= QueueSize /\ QueueSize \in Nat
    BY InvParts, RelayAssumption DEF QueuesTyped, WriteStep
  <2> DEFINE q == Tail(queue[c])
  <2>2. q \in Seq(Messages) /\ Len(q) = Len(queue[c]) - 1
    BY <2>1, HeadTailProperties
  <2>3. Len(q) <= QueueSize
    BY <2>1, <2>2
  <2>4. queue' = [queue EXCEPT ![c] = q]
    BY DEF WriteStep
  <2> HIDE DEF q
  <2> QED
    BY <2>2, <2>3, <2>4, InvParts DEF QueuesTyped
<1>5. BoundAreOpen'
  BY <1>2, <1>3, InvParts DEF BoundAreOpen
<1>6. NothingWaits'
  <2>1. Open(c) /\ ConnsKeep
    BY DEF WriteStep
  <2> QED
    BY <1>1, <1>3, <1>4, <2>1, InvParts DEF NothingWaits, ConnsKeep
<1>7. PublishersTyped'
  BY <1>1, InvParts DEF PublishersTyped
<1> QED
  BY <1>1, <1>2, <1>4, <1>5, <1>6, <1>7, InvFromParts

LEMMA PublishSends ==
  ASSUME RelayInv, NEW p \in Publishers, NEW s \in Sessions, NEW r \in Runs \cup {None}, Publish(p, s, r)
  PROVE  /\ PublishersTyped' /\ count' = count + 1
         /\ publisher[p].to = {} /\ Matched(s, r) \subseteq Conns
         /\ publisher'[p].to = Matched(s, r) /\ publisher'[p].event = count'
         /\ \A o \in Publishers : o # p => publisher'[o] = publisher[o]
<1> DEFINE sent == [event |-> count', to |-> Matched(s, r)]
<1>1. /\ publisher[p].to = {} /\ count < MaxEvents /\ count' = count + 1
      /\ publisher' = [publisher EXCEPT ![p] = sent]
  BY DEF Publish
<1>2. sessionIndex[s] \subseteq Conns
  BY InvParts DEF RoutesTyped
<1>3. r # None => runIndex[[session |-> s, run |-> r]] \subseteq Conns
  BY InvParts DEF RoutesTyped, RunKeys
<1>4. Matched(s, r) \subseteq Conns
  BY <1>2, <1>3 DEF Matched, Candidates
<1>5. count' \in 0 .. MaxEvents
  BY <1>1, InvParts, RelayAssumption DEF PublishersTyped
<1>6. sent \in [event : 0 .. MaxEvents, to : SUBSET Conns] /\ sent.to = Matched(s, r) /\ sent.event = count'
  BY <1>4, <1>5
<1> HIDE DEF sent
<1>7. publisher \in [Publishers -> [event : 0 .. MaxEvents, to : SUBSET Conns]]
  BY InvParts DEF PublishersTyped
<1>8. PublishersTyped'
  BY <1>1, <1>5, <1>6, <1>7 DEF PublishersTyped
<1> QED
  BY <1>1, <1>4, <1>6, <1>7, <1>8

LEMMA PublishKeeps ==
  ASSUME RelayInv, NEW p \in Publishers, NEW s \in Sessions, NEW r \in Runs \cup {None}, Publish(p, s, r)
  PROVE  RelayInv'
<1>1. conn' = conn /\ queue' = queue /\ UNCHANGED routes
  BY DEF Publish
<1>2. RoutesTyped' /\ SessionsSound' /\ RunsSound' /\ bindings' = bindings
  BY <1>1, InvParts, RoutesKept DEF RoutesMove, routes
<1>3. ConnsTyped' /\ QueuesTyped'
  BY <1>1, InvParts DEF ConnsTyped, QueuesTyped
<1>4. \A d \in Conns : Open(d)' <=> Open(d)
  BY <1>1 DEF Open
<1>5. BoundAreOpen'
  BY <1>2, <1>4, InvParts DEF BoundAreOpen
<1>6. NothingWaits'
  <2>1. \A d \in Conns, o \in Publishers : d \in publisher'[o].to => d \in publisher[o].to \/ Open(d)
    BY PublishSends DEF Matched
  <2>2. \A d \in Conns : Open(d) => conn[d].at # "new"
    BY DEF Open
  <2> QED
    BY <1>1, <1>4, <2>1, <2>2, InvParts DEF NothingWaits
<1> QED
  BY <1>2, <1>3, <1>5, <1>6, PublishSends, InvFromParts

LEMMA MessagesTyped ==
  ASSUME PublishersTyped
  PROVE  /\ Other \in Messages
         /\ \A p \in Publishers : [by |-> p, event |-> publisher[p].event] \in Messages
<1>1. 0 \in 0 .. MaxEvents
  BY RelayAssumption
<1> QED
  BY <1>1 DEF PublishersTyped, Messages, Other

LEMMA SendKeeps ==
  ASSUME RelayInv, NEW p \in Publishers, NEW c \in Conns, SendStep(p, c)
  PROVE  RelayInv'
<1> DEFINE m == [by |-> p, event |-> publisher[p].event]
<1>1. m \in Messages /\ TargetsServed
  BY InvParts, MessagesTyped, SendServes
<1> HIDE DEF m
<1>2. CASE TakeStep(c, m)
  BY <1>1, <1>2, TakeKeeps
<1>3. CASE EndStep(c)
  BY <1>1, <1>3, EndKeeps
<1>4. CASE ~Open(c) /\ UNCHANGED <<conn, routes, queue>>
  <2>1. conn' = conn /\ queue' = queue /\ UNCHANGED routes
    BY <1>4
  <2>2. RoutesTyped' /\ SessionsSound' /\ RunsSound' /\ bindings' = bindings
    BY <2>1, InvParts, RoutesKept DEF RoutesMove, routes
  <2>3. ConnsTyped' /\ QueuesTyped' /\ PublishersTyped'
    BY <2>1, <1>1, InvParts DEF ConnsTyped, QueuesTyped, TargetsServed
  <2>4. \A d \in Conns : Open(d)' <=> Open(d)
    BY <2>1 DEF Open
  <2>5. BoundAreOpen' /\ NothingWaits'
    BY <2>1, <2>2, <2>4, <1>1, InvParts DEF BoundAreOpen, NothingWaits, TargetsServed
  <2> QED
    BY <2>2, <2>3, <2>5, InvFromParts
<1> QED
  BY <1>2, <1>3, <1>4 DEF SendStep, m

LEMMA InvStep ==
  ASSUME RelayInv, Next
  PROVE  RelayInv'
<1>1. ASSUME NEW c \in Conns, TakeStep(c, Other), Kept PROVE RelayInv'
  BY <1>1, InvParts, MessagesTyped, KeptServes, TakeKeeps
<1>2. ASSUME NEW c \in Conns, EndStep(c), Kept PROVE RelayInv'
  BY <1>2, InvParts, KeptServes, EndKeeps
<1>3. ASSUME NEW c \in Conns, BeginStep(c) \/ WriteStep(c) PROVE RelayInv'
  BY <1>3, BeginKeeps, WriteKeeps
<1>4. ASSUME NEW p \in Publishers, NEW s \in Sessions, NEW r \in Runs \cup {None}, Publish(p, s, r)
      PROVE  RelayInv'
  BY <1>4, PublishKeeps
<1>5. ASSUME NEW p \in Publishers, NEW c \in Conns, SendStep(p, c) PROVE RelayInv'
  BY <1>5, SendKeeps
<1>6. CASE RouteStep
  BY <1>6, RouteKeeps
<1> QED
  BY <1>1, <1>2, <1>3, <1>4, <1>5, <1>6, StepKinds

LEMMA InvInit ==
  ASSUME Init
  PROVE  RelayInv
<1>1. /\ conn = [c \in Conns |-> [at |-> "new", sock |-> "open", closing |-> FALSE, reader |-> "none"]]
      /\ bindings = [c \in Conns |-> NoBindings]
      /\ sessionIndex = [s \in Sessions |-> {}]
      /\ runIndex = [k \in RunKeys |-> {}]
      /\ queue = [c \in Conns |-> <<>>]
      /\ publisher = [p \in Publishers |-> [event |-> 0, to |-> {}]]
      /\ count = 0
  BY DEF Init, RunKeys
<1>2. QueueSize \in Nat /\ MaxEvents \in Nat /\ Len(<<>>) = 0 /\ <<>> \in Seq(Messages)
  BY RelayAssumption
<1>3. ConnsTyped
  BY <1>1 DEF ConnsTyped, ConnStates
<1>4. RoutesTyped
  BY <1>1, NothingBound DEF RoutesTyped
<1>5. QueuesTyped
  BY <1>1, <1>2 DEF QueuesTyped
<1>6. PublishersTyped
  BY <1>1, <1>2 DEF PublishersTyped
<1>7. SessionsSound /\ BoundAreOpen
  BY <1>1 DEF SessionsSound, BoundAreOpen
<1>8. RunsSound
  BY <1>1, NothingBound DEF RunsSound
<1>9. NothingWaits
  BY <1>1 DEF NothingWaits
<1> QED
  BY <1>3, <1>4, <1>5, <1>6, <1>7, <1>8, <1>9, IndexesSoundParts DEF RelayInv, Typed

LEMMA InvStutter ==
  ASSUME RelayInv, UNCHANGED vars
  PROVE  RelayInv'
<1>1. /\ conn' = conn /\ queue' = queue /\ publisher' = publisher /\ count' = count
      /\ UNCHANGED routes
  BY DEF vars
<1>2. RouteStep
  BY <1>1, InvParts, ConnsKept, RoutesKept DEF RouteStep
<1> QED
  BY <1>2, RouteKeeps

THEOREM InvAlways == Spec => []RelayInv
<1>1. Init => RelayInv
  BY InvInit
<1>2. RelayInv /\ [Next]_vars => RelayInv'
  BY InvStep, InvStutter
<1> QED
  BY <1>1, <1>2, PTL DEF Spec

\* The state is what the relay's tables can hold: a queue within its size, no
\* connection with more bindings than are allowed (stream_relay.go).
THEOREM TypeCorrect == Spec => []TypeOK
<1>1. RelayInv => TypeOK
  <2> SUFFICES ASSUME RelayInv PROVE TypeOK
    OBVIOUS
  <2>1. ConnsTyped /\ RoutesTyped /\ QueuesTyped /\ PublishersTyped
    BY InvParts
  <2> QED
    BY <2>1 DEF ConnsTyped, ConnStates, RoutesTyped, RunKeys, Bound, QueuesTyped, PublishersTyped, TypeOK
<1> QED
  BY <1>1, InvAlways, PTL

\* Whatever the order of binds, pings, expiries and closings, an index names only
\* connections that are bound and registered, and finds each binding to a run.
THEOREM IndexesAlwaysSound == Spec => []IndexesSound
<1>1. RelayInv => IndexesSound
  BY DEF RelayInv
<1> QED
  BY <1>1, InvAlways, PTL

-----------------------------------------------------------------------------
(* The relay implements the feed. *)

\* What waits for a connection; the row of Stream.
Row(c) == [p \in Publishers |-> Events(c, p)]

LEMMA StreamRows ==
  /\ Stream = [c \in Conns |-> Stream[c]]
  /\ \A c \in Conns : Stream[c] = IF Open(c) THEN Row(c) ELSE Feed!Empty
<1>1. Stream = [c \in Conns |-> Stream[c]]
  BY DEF Stream
<1>2. ASSUME NEW c \in Conns PROVE Stream[c] = IF Open(c) THEN Row(c) ELSE Feed!Empty
  <2>1. Stream[c] = [p \in Publishers |-> IF Open(c) THEN Events(c, p) ELSE <<>>]
    BY DEF Stream
  <2>2. CASE Open(c)
    BY <2>1, <2>2 DEF Row
  <2>3. CASE ~Open(c)
    BY <2>1, <2>3 DEF Feed!Empty
  <2> QED
    BY <2>2, <2>3
<1> QED
  BY <1>1, <1>2

LEMMA StreamRowsNext ==
  /\ Stream' = [c \in Conns |-> Stream'[c]]
  /\ \A c \in Conns : Stream'[c] = IF Open(c)' THEN Row(c)' ELSE Feed!Empty
<1>1. Stream' = [c \in Conns |-> Stream'[c]]
  BY DEF Stream
<1>2. ASSUME NEW c \in Conns PROVE Stream'[c] = IF Open(c)' THEN Row(c)' ELSE Feed!Empty
  <2>1. Stream'[c] = [p \in Publishers |-> IF Open(c)' THEN Events(c, p)' ELSE <<>>]
    BY DEF Stream
  <2>2. CASE Open(c)'
    BY <2>1, <2>2 DEF Row
  <2>3. CASE ~Open(c)'
    BY <2>1, <2>3 DEF Feed!Empty
  <2> QED
    BY <2>2, <2>3
<1> QED
  BY <1>1, <1>2

Sent(c, p) == IF c \in publisher[p].to THEN <<publisher[p].event>> ELSE <<>>

LEMMA EventsOf ==
  ASSUME NEW c, NEW p
  PROVE  /\ Events(c, p) = Picked(queue[c], p) \o Sent(c, p)
         /\ Events(c, p)' = Picked(queue'[c], p) \o Sent(c, p)'
BY DEF Events, Sent

LEMMA EventsTyped ==
  ASSUME QueuesTyped, PublishersTyped, NEW c \in Conns, NEW p \in Publishers
  PROVE  /\ Picked(queue[c], p) \in Seq(0 .. MaxEvents)
         /\ Sent(c, p) \in Seq(0 .. MaxEvents)
         /\ Events(c, p) \in Seq(0 .. MaxEvents)
<1>1. Picked(queue[c], p) \in Seq(0 .. MaxEvents)
  BY PickedTyped DEF QueuesTyped
<1>2. publisher[p].event \in 0 .. MaxEvents
  BY DEF PublishersTyped
<1>3. Sent(c, p) \in Seq(0 .. MaxEvents)
  <2> DEFINE E == 0 .. MaxEvents
  <2> DEFINE e == publisher[p].event
  <2>1. e \in E
    BY <1>2
  <2> HIDE DEF E, e
  <2>2. <<e>> \in Seq(E) /\ <<>> \in Seq(E)
    BY <2>1
  <2>3. Sent(c, p) = <<e>> \/ Sent(c, p) = <<>>
    BY DEF Sent, e
  <2>4. Sent(c, p) \in Seq(E)
    BY <2>2, <2>3
  <2> QED
    BY <2>4 DEF E
<1>4. Events(c, p) \in Seq(0 .. MaxEvents)
  BY <1>1, <1>3, EventsOf, ConcatProperties
<1> QED
  BY <1>1, <1>3, <1>4

\* The publishers owe c what they owed it.
SentSame(c) == \A p \in Publishers : Sent(c, p)' = Sent(c, p)

LEMMA RowSame ==
  ASSUME NEW c \in Conns, \A p \in Publishers : Events(c, p)' = Events(c, p), Open(c)' <=> Open(c)
  PROVE  Stream'[c] = Stream[c]
<1>1. Row(c)' = Row(c)
  BY DEF Row
<1> QED
  BY <1>1, StreamRows, StreamRowsNext

LEMMA RowUntouched ==
  ASSUME NEW c \in Conns, queue'[c] = queue[c], SentSame(c), Open(c)' <=> Open(c)
  PROVE  Stream'[c] = Stream[c]
<1>1. \A p \in Publishers : Events(c, p)' = Events(c, p)
  BY EventsOf DEF SentSame
<1> QED
  BY <1>1, RowSame

LEMMA RowClosed ==
  ASSUME NEW c \in Conns, ~Open(c)', ~Open(c)
  PROVE  Stream'[c] = Stream[c]
BY StreamRows, StreamRowsNext

LEMMA SentKept ==
  ASSUME publisher' = publisher
  PROVE  \A c \in Conns : SentSame(c)
BY DEF SentSame, Sent

Gone == {c \in Conns : conn[c].at = "gone"}

Subs == [c \in Conns |-> Live(c)]

LEMMA LiveNext ==
  ASSUME NEW c
  PROVE  /\ bindings'[c] = bindings[c] => Live(c)' = Live(c)
         /\ bindings'[c] = NoBindings => Live(c)' = {}
BY NothingBound DEF Live

\* Whatever becomes of subscriptions, one that has ended has none.
LEMMA Subscribes ==
  ASSUME RelayInv', count' = count, Gone' = Gone, \A c \in Conns : Stream'[c] = Stream[c]
  PROVE  Feed!Subscribe
<1>1. Stream' = Stream
  BY StreamRows, StreamRowsNext
<1>2. ASSUME NEW c \in Gone PROVE Subs'[c] = {}
  <2>1. c \in Conns /\ c \in Gone'
    BY DEF Gone
  <2>2. ~Open(c)'
    BY <2>1 DEF Gone, Open
  <2>3. BoundAreOpen'
    BY IndexesSoundPartsNext DEF RelayInv, Typed
  <2>4. bindings'[c] = NoBindings
    BY <2>1, <2>2, <2>3 DEF BoundAreOpen
  <2> QED
    BY <2>1, <2>4, LiveNext DEF Subs
<1> QED
  BY <1>1, <1>2 DEF Feed!Subscribe, Gone, Subs

LEMMA GoneKept ==
  ASSUME \A c \in Conns : conn'[c].at = conn[c].at
  PROVE  Gone' = Gone
BY DEF Gone

LEMMA RouteFeeds ==
  ASSUME RelayInv, RelayInv', RouteStep
  PROVE  Feed!Subscribe
<1>1. /\ ConnsKeep /\ queue' = queue /\ publisher' = publisher /\ count' = count
  BY DEF RouteStep
<1>2. \A c \in Conns : Stream'[c] = Stream[c]
  BY <1>1, SentKept, OpenIsKept, RowUntouched
<1> QED
  BY <1>1, <1>2, GoneKept, Subscribes DEF ConnsKeep

LEMMA BeginFeeds ==
  ASSUME RelayInv, RelayInv', NEW c \in Conns, BeginStep(c)
  PROVE  Feed!Subscribe
<1>1. /\ Begins(c) /\ queue' = queue /\ publisher' = publisher /\ count' = count
  BY DEF BeginStep
<1>2. /\ conn[c].at = "new" /\ conn'[c].at = "open" /\ \A d \in Conns : d # c => conn'[d] = conn[d]
  BY <1>1 DEF Begins
<1>3. \A d \in Conns : d # c => Stream'[d] = Stream[d]
  <2>1. \A d \in Conns : d # c => (Open(d)' <=> Open(d))
    BY <1>2 DEF Open
  <2> QED
    BY <1>1, <2>1, SentKept, RowUntouched
<1>4. Stream'[c] = Stream[c]
  <2>1. ~Open(c) /\ Open(c)'
    BY <1>2 DEF Open
  <2>2. queue'[c] = <<>> /\ \A p \in Publishers : c \notin publisher'[p].to
    BY <1>1, <1>2, <2>1, InvParts DEF NothingWaits
  <2>3. ASSUME NEW p \in Publishers PROVE Events(c, p)' = <<>>
    <3>1. Sent(c, p)' = <<>>
      BY <2>2 DEF Sent
    <3>2. Picked(queue'[c], p) = <<>>
      BY <2>2, PickedOfNone
    <3>3. <<>> \o <<>> = <<>>
      BY EmptySeq, ConcatEmptySeq
    <3> QED
      BY <3>1, <3>2, <3>3, EventsOf
  <2>4. Row(c)' = Feed!Empty
    BY <2>3 DEF Row, Feed!Empty
  <2> QED
    BY <2>1, <2>4, StreamRows, StreamRowsNext
<1>5. Gone' = Gone
  <2>1. \A d \in Conns : conn'[d].at = "gone" <=> conn[d].at = "gone"
    BY <1>2
  <2> QED
    BY <2>1 DEF Gone
<1> QED
  BY <1>1, <1>3, <1>4, <1>5, Subscribes

\* A connection that ends leaves, unless it has ended before.
LEMMA EndFeeds ==
  ASSUME RelayInv, RelayInv', NEW c \in Conns, EndStep(c), count' = count,
         \A d \in Conns : d # c => SentSame(d)
  PROVE  Feed!Subscribe \/ Feed!Leave(c)
<1>1. /\ Ends(c) /\ queue' = [queue EXCEPT ![c] = <<>>] /\ Unrouted(c)
  BY DEF EndStep
<1>2. conn[c].at # "new" /\ conn'[c].at = "gone" /\ \A d \in Conns : d # c => conn'[d] = conn[d]
  BY <1>1 DEF Ends
<1>3. /\ bindings'[c] = NoBindings /\ \A d \in Conns : d # c => bindings'[d] = bindings[d]
  BY <1>1, InvParts, UnroutedMoves
<1>4. \A d \in Conns : d # c => Stream'[d] = Stream[d]
  <2>1. \A d \in Conns : d # c => (Open(d)' <=> Open(d))
    BY <1>2 DEF Open
  <2>2. \A d \in Conns : d # c => queue'[d] = queue[d]
    BY <1>1, InvParts DEF QueuesTyped
  <2> QED
    BY <2>1, <2>2, RowUntouched
<1>5. ~Open(c)'
  BY <1>2 DEF Open
<1>6. Stream'[c] = Feed!Empty
  BY <1>5, StreamRowsNext
<1>7. CASE conn[c].at = "gone"
  <2>1. Stream'[c] = Stream[c]
    BY <1>5, <1>7, RowClosed DEF Open
  <2>2. \A d \in Conns : conn'[d].at = "gone" <=> conn[d].at = "gone"
    BY <1>2, <1>7
  <2>3. Gone' = Gone
    BY <2>2 DEF Gone
  <2> QED
    BY <2>1, <2>3, <1>4, Subscribes
<1>8. CASE conn[c].at # "gone"
  <2>1. c \notin Gone /\ Gone' = Gone \cup {c}
    BY <1>2, <1>8 DEF Gone
  <2>2. Stream' = [Stream EXCEPT ![c] = Feed!Empty]
    <3> DEFINE new == [Stream EXCEPT ![c] = Feed!Empty]
    <3>1. new = [d \in Conns |-> new[d]] /\ \A d \in Conns : new[d] = IF d = c THEN Feed!Empty ELSE Stream[d]
      BY StreamRows
    <3> HIDE DEF new
    <3>2. Stream' = [d \in Conns |-> Stream'[d]] /\ \A d \in Conns : Stream'[d] = new[d]
      BY <3>1, <1>4, <1>6, StreamRowsNext
    <3>3. Stream' = new
      BY <3>1, <3>2
    <3> QED
      BY <3>3 DEF new
  <2>3. Subs' = [Subs EXCEPT ![c] = {}]
    BY <1>3, LiveNext DEF Subs
  <2> QED
    BY <2>1, <2>2, <2>3 DEF Feed!Leave, Gone, Subs
<1> QED
  BY <1>7, <1>8

\* Taking a message changes what waits for c by what it holds for p.
LEMMA TakeEvents ==
  ASSUME RelayInv, NEW c \in Conns, NEW m \in Messages, TakeStep(c, m), NEW p
  PROVE  Picked(queue'[c], p) = IF m.by = p THEN Append(Picked(queue[c], p), m.event)
                                ELSE Picked(queue[c], p)
<1> DEFINE q == queue[c]
<1>1. q \in Seq(Messages)
  BY InvParts DEF QueuesTyped
<1>2. queue'[c] = Append(q, m)
  BY InvParts DEF QueuesTyped, TakeStep
<1> HIDE DEF q
<1>3. Picked(Append(q, m), p) = IF m.by = p THEN Append(Picked(q, p), m.event) ELSE Picked(q, p)
  BY <1>1, PickedOfAppend
<1>4. Picked(queue'[c], p) = Picked(Append(q, m), p)
  BY <1>2
<1> QED
  BY <1>3, <1>4 DEF q

LEMMA TakeOthers ==
  ASSUME RelayInv, NEW c \in Conns, NEW m, TakeStep(c, m), NEW d \in Conns, d # c
  PROVE  queue'[d] = queue[d]
BY InvParts DEF QueuesTyped, TakeStep

LEMMA TakeFeeds ==
  ASSUME RelayInv, RelayInv', NEW c \in Conns, TakeStep(c, Other), Kept
  PROVE  Feed!Subscribe
<1>1. ConnsKeep /\ publisher' = publisher /\ count' = count
  BY DEF TakeStep, Kept
<1>2. \A d \in Conns : SentSame(d) /\ (Open(d)' <=> Open(d))
  BY <1>1, SentKept, OpenIsKept
<1>3. \A d \in Conns : d # c => Stream'[d] = Stream[d]
  BY <1>2, TakeOthers, RowUntouched
<1>4. Stream'[c] = Stream[c]
  <2>1. ASSUME NEW p \in Publishers PROVE Events(c, p)' = Events(c, p)
    <3>1. Other \in Messages /\ Other.by # p
      BY InvParts, MessagesTyped, RelayAssumption DEF Other
    <3>2. Picked(queue'[c], p) = Picked(queue[c], p)
      BY <3>1, TakeEvents
    <3> QED
      BY <3>2, <1>2, EventsOf DEF SentSame
  <2> QED
    BY <2>1, <1>2, RowSame
<1> QED
  BY <1>1, <1>3, <1>4, GoneKept, Subscribes DEF ConnsKeep

\* One event less waits for c.
LEMMA GetsOne ==
  ASSUME NEW c \in Conns, NEW p \in Publishers, Open(c), Open(c)',
         Events(c, p) # <<>>, Events(c, p)' = Tail(Events(c, p)),
         \A o \in Publishers : o # p => Events(c, o)' = Events(c, o),
         \A d \in Conns : d # c => Stream'[d] = Stream[d],
         count' = count, Gone' = Gone, UNCHANGED bindings
  PROVE  Feed!Get(c, p)
<1>1. Stream[c] = Row(c) /\ Stream'[c] = Row(c)'
  BY StreamRows, StreamRowsNext
<1>2. Row(c)[p] = Events(c, p)
  BY DEF Row
<1>3. Row(c)' = [Row(c) EXCEPT ![p] = Tail(Events(c, p))]
  <2> DEFINE new == [Row(c) EXCEPT ![p] = Tail(Events(c, p))]
  <2>1. new = [o \in Publishers |-> new[o]]
        /\ \A o \in Publishers : new[o] = IF o = p THEN Tail(Events(c, p)) ELSE Events(c, o)
    BY DEF Row
  <2> HIDE DEF new
  <2>2. Row(c)' = [o \in Publishers |-> Events(c, o)']
    BY DEF Row
  <2>3. \A o \in Publishers : new[o] = Events(c, o)'
    BY <2>1
  <2>4. Row(c)' = new
    BY <2>1, <2>2, <2>3
  <2> QED
    BY <2>4 DEF new
<1>4. Stream' = [Stream EXCEPT ![c] = Row(c)']
  <2> DEFINE new == [Stream EXCEPT ![c] = Row(c)']
  <2>1. new = [d \in Conns |-> new[d]] /\ \A d \in Conns : new[d] = IF d = c THEN Row(c)' ELSE Stream[d]
    BY StreamRows
  <2> HIDE DEF new
  <2>2. Stream' = [d \in Conns |-> Stream'[d]] /\ \A d \in Conns : Stream'[d] = new[d]
    BY <2>1, <1>1, StreamRowsNext
  <2>3. Stream' = new
    BY <2>1, <2>2
  <2> QED
    BY <2>3 DEF new
<1>5. Stream' = [Stream EXCEPT ![c] = [Stream[c] EXCEPT ![p] = Tail(Stream[c][p])]]
  BY <1>1, <1>2, <1>3, <1>4
<1>6. Stream[c][p] # <<>>
  BY <1>1, <1>2
<1>7. Subs' = Subs
  BY DEF Subs, Live
<1>8. Stream' = [Stream EXCEPT ![c][p] = Tail(@)]
  BY <1>5
<1> QED
  BY <1>6, <1>7, <1>8 DEF Feed!Get, Gone, Subs

LEMMA WriteFeeds ==
  ASSUME RelayInv, RelayInv', NEW c \in Conns, WriteStep(c)
  PROVE  Feed!Subscribe \/ \E p \in Publishers : Feed!Get(c, p)
<1> DEFINE q == queue[c]
<1> DEFINE E == 0 .. MaxEvents
<1>1. /\ ConnsKeep /\ publisher' = publisher /\ count' = count /\ bindings' = bindings
      /\ Open(c) /\ q # <<>> /\ q \in Seq(Messages)
      /\ queue'[c] = Tail(q) /\ \A d \in Conns : d # c => queue'[d] = queue[d]
  BY InvParts DEF WriteStep, routes, QueuesTyped
<1>2. \A d \in Conns : SentSame(d) /\ (Open(d)' <=> Open(d))
  BY <1>1, SentKept, OpenIsKept
<1>3. \A d \in Conns : d # c => Stream'[d] = Stream[d]
  BY <1>1, <1>2, RowUntouched
<1>4. Gone' = Gone
  BY <1>1, GoneKept DEF ConnsKeep
<1>5. Head(q) \in Messages /\ Tail(q) \in Seq(Messages)
  BY <1>1, HeadTailProperties
<1>6. \A p \in Publishers : Events(c, p) = Picked(q, p) \o Sent(c, p)
                            /\ Events(c, p)' = Picked(Tail(q), p) \o Sent(c, p)
  BY <1>1, <1>2, EventsOf DEF SentSame
<1> HIDE DEF q
<1>7. \A p \in Publishers : Picked(q, p) = First(q, p) \o Picked(Tail(q), p)
  BY <1>1, PickedOfTail
<1>8. \A p \in Publishers : Picked(Tail(q), p) \in Seq(E) /\ Sent(c, p) \in Seq(E)
  BY <1>5, PickedTyped, InvParts, EventsTyped
<1>9. \A p \in Publishers : Head(q).by # p => Events(c, p)' = Events(c, p)
  <2> SUFFICES ASSUME NEW p \in Publishers, Head(q).by # p PROVE Events(c, p)' = Events(c, p)
    OBVIOUS
  <2>1. First(q, p) = <<>>
    BY DEF First
  <2>2. Picked(q, p) = Picked(Tail(q), p)
    <3> DEFINE t == Picked(Tail(q), p)
    <3>1. t \in Seq(E)
      BY <1>8
    <3>2. Picked(q, p) = <<>> \o t
      BY <1>7, <2>1
    <3> HIDE DEF t, E
    <3>3. <<>> \o t = t
      BY <3>1, ConcatEmptySeq
    <3> QED
      BY <3>2, <3>3 DEF t
  <2> QED
    BY <2>2, <1>6
<1>10. CASE Head(q).by = None
  <2>1. \A p \in Publishers : Head(q).by # p
    BY <1>10, RelayAssumption
  <2>2. Stream'[c] = Stream[c]
    BY <2>1, <1>2, <1>9, RowSame
  <2> QED
    BY <2>2, <1>1, <1>3, <1>4, Subscribes
<1>11. CASE Head(q).by # None
  <2>1. PICK p \in Publishers : p = Head(q).by
    BY <1>5, <1>11 DEF Messages
  <2> DEFINE e == Head(q).event
  <2> DEFINE t == Picked(Tail(q), p)
  <2> DEFINE u == Sent(c, p)
  <2>2. e \in E /\ First(q, p) = <<e>>
    BY <2>1, <1>5 DEF First, Messages
  <2>3. t \in Seq(E) /\ u \in Seq(E)
    BY <1>8
  <2>a. Events(c, p) = Picked(q, p) \o u /\ Events(c, p)' = t \o u
    BY <1>6
  <2>b. Picked(q, p) = First(q, p) \o t
    BY <1>7
  <2> HIDE DEF e, t, u, E
  <2>4. Events(c, p) = (<<e>> \o t) \o u /\ Events(c, p)' = t \o u
    BY <2>2, <2>a, <2>b
  <2>5. <<e>> \in Seq(E) /\ <<e>> # <<>> /\ Len(<<e>>) = 1 /\ Head(<<e>>) = e
    BY <2>2
  <2>6. (<<e>> \o t) \o u = <<e>> \o (t \o u) /\ t \o u \in Seq(E)
    BY <2>3, <2>5, ConcatAssociative, ConcatProperties
  <2> DEFINE w == t \o u
  <2>7. w \in Seq(E) /\ Events(c, p) = <<e>> \o w /\ Events(c, p)' = w
    BY <2>4, <2>6
  <2> HIDE DEF w
  <2>8. Events(c, p) # <<>> /\ Tail(Events(c, p)) = w
    <3> DEFINE s == <<e>> \o w
    <3>1. s \in Seq(E) /\ Len(s) = 1 + Len(w) /\ Len(w) \in Nat
          /\ \A i \in 1 .. 1 + Len(w) : s[i] = IF i <= 1 THEN <<e>>[i] ELSE w[i - 1]
      BY <2>5, <2>7, ConcatProperties
    <3> HIDE DEF s
    <3>2. s # <<>>
      BY <3>1, EmptySeq
    <3>3. Tail(s) \in Seq(E) /\ Len(Tail(s)) = Len(s) - 1 /\ \A i \in 1 .. Len(Tail(s)) : Tail(s)[i] = s[i + 1]
      BY <3>1, <3>2, HeadTailProperties
    <3>4. Len(Tail(s)) = Len(w)
      BY <3>1, <3>3
    <3>5. ASSUME NEW i \in 1 .. Len(w) PROVE Tail(s)[i] = w[i]
      <4>1. i + 1 \in 1 .. 1 + Len(w) /\ ~(i + 1 <= 1) /\ (i + 1) - 1 = i
        BY <3>1
      <4>2. s[i + 1] = w[(i + 1) - 1]
        BY <3>1, <4>1
      <4> QED
        BY <3>3, <3>4, <4>1, <4>2
    <3>6. Tail(s) = w
      BY <3>3, <3>4, <3>5, <2>7, SeqEqual
    <3> QED
      BY <3>2, <3>6, <2>7 DEF s
  <2>9. \A o \in Publishers : o # p => Events(c, o)' = Events(c, o)
    BY <1>9, <2>1
  <2>10. Open(c) /\ Open(c)' /\ Events(c, p)' = Tail(Events(c, p))
    BY <2>7, <2>8, <1>1, <1>2
  <2>11. Feed!Get(c, p)
    BY <2>8, <2>9, <2>10, <1>1, <1>3, <1>4, GetsOne
  <2> QED
    BY <2>11
<1> QED
  BY <1>10, <1>11

LEMMA PublishFeeds ==
  ASSUME RelayInv, NEW p \in Publishers, NEW s \in Sessions, NEW r \in Runs \cup {None}, Publish(p, s, r)
  PROVE  Feed!Publish(p, s, r)
<1> DEFINE to == Matched(s, r)
<1>1. /\ conn' = conn /\ queue' = queue /\ bindings' = bindings
      /\ count' = count + 1 /\ publisher[p].to = {}
      /\ publisher'[p].to = to /\ publisher'[p].event = count'
      /\ \A o \in Publishers : o # p => publisher'[o] = publisher[o]
  BY PublishSends DEF Publish, routes
<1>2. to \in SUBSET {c \in Conns : \E topic \in Subs[c] : topic.session = s /\ topic.run \in {None, r}}
  <2>1. to \subseteq Conns /\ \A c \in to : Hears(c, s, r)
    BY PublishSends DEF Matched
  <2> QED
    BY <2>1 DEF Hears, Subs
<1>3. \A c \in Conns : Open(c)' <=> Open(c)
  BY <1>1 DEF Open
<1>4. \A c \in Conns, o \in Publishers : o # p => Sent(c, o)' = Sent(c, o)
  BY <1>1 DEF Sent
<1>5. ASSUME NEW c \in Conns, c \notin to PROVE Stream'[c] = Stream[c]
  <2>1. Sent(c, p)' = Sent(c, p)
    BY <1>1, <1>5 DEF Sent
  <2>2. SentSame(c)
    BY <1>4, <2>1 DEF SentSame
  <2> QED
    BY <1>1, <1>3, <2>2, RowUntouched
<1>6. ASSUME NEW c \in Conns, c \in to
      PROVE  Stream'[c] = [Stream[c] EXCEPT ![p] = Append(Stream[c][p], count')]
  <2> DEFINE old == Picked(queue[c], p)
  <2>1. Open(c) /\ Open(c)'
    BY <1>3, <1>6 DEF Matched
  <2>2. Stream[c] = Row(c) /\ Stream'[c] = Row(c)'
    BY <2>1, StreamRows, StreamRowsNext
  <2>3. Sent(c, p) = <<>> /\ Sent(c, p)' = <<count'>>
    BY <1>1, <1>6 DEF Sent
  <2>4. Events(c, p) = old \o <<>> /\ Events(c, p)' = old \o <<count'>>
    BY <1>1, <2>3, EventsOf
  <2>5. old \in Seq(0 .. MaxEvents) /\ count' \in 0 .. MaxEvents
    <3>1. count' \in 0 .. MaxEvents
      BY PublishSends DEF PublishersTyped
    <3> QED
      BY <3>1, InvParts, EventsTyped
  <2> HIDE DEF old
  <2>6. old \o <<>> = old /\ Append(old, count') = old \o <<count'>>
    BY <2>5, ConcatEmptySeq, AppendIsConcat
  <2>7. Events(c, p)' = Append(Events(c, p), count')
    BY <2>4, <2>6
  <2>8. \A o \in Publishers : o # p => Events(c, o)' = Events(c, o)
    <3> SUFFICES ASSUME NEW o \in Publishers, o # p PROVE Events(c, o)' = Events(c, o)
      OBVIOUS
    <3>1. Sent(c, o)' = Sent(c, o) /\ Picked(queue'[c], o) = Picked(queue[c], o)
      BY <1>1, <1>4
    <3> QED
      BY <3>1, EventsOf
  <2> DEFINE new == [Row(c) EXCEPT ![p] = Append(Events(c, p), count')]
  <2>9. new = [o \in Publishers |-> new[o]]
        /\ \A o \in Publishers : new[o] = IF o = p THEN Append(Events(c, p), count') ELSE Events(c, o)
    BY DEF Row
  <2> HIDE DEF new
  <2>10. Row(c)' = [o \in Publishers |-> Events(c, o)']
    BY DEF Row
  <2>11. \A o \in Publishers : new[o] = Events(c, o)'
    BY <2>7, <2>8, <2>9
  <2>12. Row(c)' = new
    BY <2>9, <2>10, <2>11
  <2>13. Row(c)[p] = Events(c, p)
    BY DEF Row
  <2> QED
    BY <2>2, <2>12, <2>13 DEF new
<1>7. Stream' = [c \in Conns |-> IF c \in to THEN [Stream[c] EXCEPT ![p] = Append(Stream[c][p], count')]
                                 ELSE Stream[c]]
  <2>1. \A c \in Conns : Stream'[c] = IF c \in to THEN [Stream[c] EXCEPT ![p] = Append(Stream[c][p], count')]
                                      ELSE Stream[c]
    BY <1>5, <1>6
  <2> HIDE DEF to
  <2> QED
    BY <2>1, StreamRowsNext
<1>8. Subs' = Subs /\ Gone' = Gone
  BY <1>1 DEF Subs, Live, Gone
<1>9. to \in SUBSET {c \in Conns : Feed!Hears(c, s, r)}
  BY <1>2 DEF Feed!Hears, Subs
<1> HIDE DEF to
<1>10. \E t \in SUBSET {c \in Conns : Feed!Hears(c, s, r)} :
         Stream' = [c \in Conns |-> IF c \in t THEN [Stream[c] EXCEPT ![p] = Append(@, count')]
                                    ELSE Stream[c]]
  BY <1>7, <1>9
<1> QED
  BY <1>1, <1>8, <1>10 DEF Feed!Publish, Subs, Gone

LEMMA SendFeeds ==
  ASSUME RelayInv, RelayInv', NEW p \in Publishers, NEW c \in Conns, SendStep(p, c)
  PROVE  Feed!Subscribe \/ Feed!Leave(c)
<1> DEFINE m == [by |-> p, event |-> publisher[p].event]
<1>1. /\ c \in publisher[p].to /\ count' = count
      /\ publisher'[p].to = publisher[p].to \ {c}
      /\ \A o \in Publishers : publisher'[o].event = publisher[o].event
      /\ \A o \in Publishers : o # p => publisher'[o] = publisher[o]
  BY InvParts, SendServes DEF SendStep
<1>2. \A d \in Conns, o \in Publishers : (d # c \/ o # p) => Sent(d, o)' = Sent(d, o)
  BY <1>1 DEF Sent
<1>3. \A d \in Conns : d # c => SentSame(d)
  BY <1>2 DEF SentSame
<1>4. m \in Messages /\ m.by = p /\ m.event = publisher[p].event
  BY InvParts, MessagesTyped
<1> HIDE DEF m
<1>5. CASE TakeStep(c, m)
  <2>1. ConnsKeep /\ \A d \in Conns : Open(d)' <=> Open(d)
    BY <1>5, OpenIsKept DEF TakeStep
  <2>2. \A d \in Conns : d # c => Stream'[d] = Stream[d]
    BY <1>3, <1>4, <1>5, <2>1, TakeOthers, RowUntouched
  <2>3. ASSUME NEW o \in Publishers, o # p PROVE Events(c, o)' = Events(c, o)
    <3>1. Picked(queue'[c], o) = Picked(queue[c], o)
      BY <1>4, <1>5, <2>3, TakeEvents
    <3>2. Sent(c, o)' = Sent(c, o)
      BY <1>2, <2>3
    <3> QED
      BY <3>1, <3>2, EventsOf
  <2>4. Events(c, p)' = Events(c, p)
    <3> DEFINE old == Picked(queue[c], p)
    <3> DEFINE e == publisher[p].event
    <3>1. Picked(queue'[c], p) = Append(old, e)
      BY <1>4, <1>5, TakeEvents
    <3>2. Sent(c, p) = <<e>> /\ Sent(c, p)' = <<>>
      BY <1>1 DEF Sent
    <3>3. old \in Seq(0 .. MaxEvents) /\ e \in 0 .. MaxEvents
      BY InvParts, EventsTyped DEF PublishersTyped
    <3>4. Events(c, p) = old \o <<e>> /\ Events(c, p)' = Append(old, e) \o <<>>
      BY <3>1, <3>2, EventsOf
    <3> HIDE DEF old, e
    <3>5. Append(old, e) = old \o <<e>> /\ Append(old, e) \in Seq(0 .. MaxEvents)
      BY <3>3, AppendIsConcat, AppendProperties
    <3>6. Append(old, e) \o <<>> = Append(old, e)
      BY <3>5, ConcatEmptySeq
    <3> QED
      BY <3>4, <3>5, <3>6
  <2>5. Stream'[c] = Stream[c]
    BY <2>1, <2>3, <2>4, RowSame
  <2> QED
    BY <1>1, <2>1, <2>2, <2>5, GoneKept, Subscribes DEF ConnsKeep
<1>6. CASE EndStep(c)
  BY <1>1, <1>3, <1>6, EndFeeds
<1>7. CASE ~Open(c) /\ UNCHANGED <<conn, routes, queue>>
  <2>1. conn' = conn /\ queue' = queue
    BY <1>7
  <2>2. \A d \in Conns : Open(d)' <=> Open(d)
    BY <2>1 DEF Open
  <2>3. \A d \in Conns : d # c => Stream'[d] = Stream[d]
    BY <1>3, <2>1, <2>2, RowUntouched
  <2>4. Stream'[c] = Stream[c]
    BY <1>7, <2>2, RowClosed
  <2>5. Gone' = Gone
    BY <2>1 DEF Gone
  <2> QED
    BY <1>1, <2>3, <2>4, <2>5, Subscribes
<1> QED
  BY <1>5, <1>6, <1>7 DEF SendStep, m

LEMMA FeedInit ==
  ASSUME Init
  PROVE  Feed!Init
<1>1. RelayInv /\ count = 0 /\ \A c \in Conns : conn[c].at = "new" /\ bindings[c] = NoBindings
  BY InvInit DEF Init
<1>2. \A c \in Conns : ~Open(c)
  BY <1>1 DEF Open
<1>3. Stream = [c \in Conns |-> Feed!Empty]
  BY <1>2, StreamRows
<1>4. Subs = [c \in Conns |-> {}]
  BY <1>1, NothingBound DEF Subs, Live
<1>5. Gone = {}
  BY <1>1 DEF Gone
<1> QED
  BY <1>1, <1>3, <1>4, <1>5 DEF Feed!Init, Subs, Gone

LEMMA FeedStutter ==
  ASSUME UNCHANGED vars
  PROVE  UNCHANGED Feed!vars
<1>1. conn' = conn /\ bindings' = bindings /\ queue' = queue /\ publisher' = publisher /\ count' = count
  BY DEF vars, routes
<1>2. \A c \in Conns : SentSame(c) /\ (Open(c)' <=> Open(c))
  BY <1>1, SentKept DEF Open
<1>3. \A c \in Conns : Stream'[c] = Stream[c]
  BY <1>1, <1>2, RowUntouched
<1>4. Stream' = Stream
  BY <1>3, StreamRows, StreamRowsNext
<1>5. Subs' = Subs /\ Gone' = Gone
  BY <1>1 DEF Subs, Live, Gone
<1> QED
  BY <1>1, <1>4, <1>5 DEF Feed!vars, Subs, Gone

LEMMA FeedStep ==
  ASSUME RelayInv, RelayInv', Next
  PROVE  Feed!Next
<1>1. ASSUME Feed!Subscribe PROVE Feed!Next
  BY <1>1 DEF Feed!Next
<1>2. ASSUME NEW c \in Conns, Feed!Leave(c) PROVE Feed!Next
  BY <1>2 DEF Feed!Next
<1>3. ASSUME NEW c \in Conns, NEW p \in Publishers, Feed!Get(c, p) PROVE Feed!Next
  BY <1>3 DEF Feed!Next
<1>4. CASE RouteStep
  BY <1>1, <1>4, RouteFeeds
<1>5. ASSUME NEW c \in Conns, BeginStep(c) PROVE Feed!Next
  BY <1>1, <1>5, BeginFeeds
<1>6. ASSUME NEW c \in Conns, WriteStep(c) PROVE Feed!Next
  BY <1>1, <1>3, <1>6, WriteFeeds
<1>7. ASSUME NEW c \in Conns, TakeStep(c, Other), Kept PROVE Feed!Next
  BY <1>1, <1>7, TakeFeeds
<1>8. ASSUME NEW c \in Conns, EndStep(c), Kept PROVE Feed!Next
  <2>1. count' = count /\ publisher' = publisher
    BY <1>8 DEF Kept
  <2> QED
    BY <1>1, <1>2, <1>8, <2>1, SentKept, EndFeeds
<1>9. ASSUME NEW p \in Publishers, NEW s \in Sessions, NEW r \in Runs \cup {None}, Publish(p, s, r)
      PROVE  Feed!Next
  <2>1. Feed!Publish(p, s, r)
    BY <1>9, PublishFeeds
  <2> QED
    BY <2>1 DEF Feed!Next
<1>10. ASSUME NEW p \in Publishers, NEW c \in Conns, SendStep(p, c) PROVE Feed!Next
  BY <1>1, <1>2, <1>10, SendFeeds
<1> QED
  BY <1>4, <1>5, <1>6, <1>7, <1>8, <1>9, <1>10, StepKinds

\* The relay promises its clients what EventFeed says: each gets the events of a
\* publisher that were matched to it in their order, each of them once and none
\* left out, until it ends, for any number of connections, publishers and events
\* and any size of a queue.
THEOREM RelayImplementsFeed == Spec => ImplementsFeed
<1>1. Init => Feed!Init
  BY FeedInit
<1>2. RelayInv /\ RelayInv' /\ [Next]_vars => [Feed!Next]_Feed!vars
  BY FeedStep, FeedStutter
<1> QED
  BY <1>1, <1>2, InvAlways, PTL DEF Spec, ImplementsFeed, Feed!Spec
=============================================================================
