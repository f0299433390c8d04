----------------------------- MODULE StreamRelay -----------------------------
(* The stream relay of the gateway: connections of clients, the sessions and  *)
(* runs they are bound to for a limited time, the indexes that find them, and *)
(* the events of the runtime sent to each of them through a bounded queue.    *)
(*                                                                            *)
(* A binding is a key with the time it has left, in ticks of a clock. What a  *)
(* connection gets besides events (responses, heartbeats) only takes room in  *)
(* its queue. A connection whose context is canceled is closed by the same    *)
(* caller, so sock stands for both.                                           *)
EXTENDS Naturals, Sequences, FiniteSets

CONSTANTS
  Conns,        \* connection ids, never used twice
  Sessions, Runs, None,
  Publishers,   \* goroutines that publish: the event loop and failed requests
  TTL,          \* bindingTTL in ticks
  MaxBindings,  \* maxBindings
  QueueSize,    \* queueSize
  MaxEvents     \* bound: events ever published

ASSUME RelayAssumption ==
  /\ {TTL, MaxBindings, QueueSize} \subseteq Nat \ {0} /\ MaxEvents \in Nat
  /\ None \notin Runs \cup Publishers

Keys == [session : Sessions, run : Runs \cup {None}]

VARIABLES
  conn,          \* connections, with the socket and the reader of each
  bindings,      \* connectionBindings: the time left of each key
  sessionIndex,  \* connections by session
  runIndex,      \* connections by session and run
  queue,         \* messages to each connection
  publisher,     \* the event each publisher sends, and to whom it still must
  count          \* events published

routes == <<bindings, sessionIndex, runIndex>>
vars == <<conn, routes, queue, publisher, count>>

Other == [by |-> None, event |-> 0]

TypeOK ==
  /\ conn \in [Conns -> [at : {"new", "open", "gone"}, sock : {"open", "closed"},
                         closing : BOOLEAN, reader : {"none", "reading", "replying", "ended"}]]
  /\ \A c \in Conns :
       /\ DOMAIN bindings[c] \subseteq Keys /\ Cardinality(DOMAIN bindings[c]) <= MaxBindings
       /\ \A k \in DOMAIN bindings[c] : bindings[c][k] \in 0 .. TTL
  /\ sessionIndex \in [Sessions -> SUBSET Conns]
  /\ runIndex \in [[session : Sessions, run : Runs] -> SUBSET Conns]
  /\ \A c \in Conns : Len(queue[c]) <= QueueSize
  /\ publisher \in [Publishers -> [event : 0 .. MaxEvents, to : SUBSET Conns]]
  /\ count \in 0 .. MaxEvents

NoBindings == [k \in {} |-> 0]

Init ==
  /\ conn = [c \in Conns |-> [at |-> "new", sock |-> "open", closing |-> FALSE, reader |-> "none"]]
  /\ bindings = [c \in Conns |-> NoBindings]
  /\ sessionIndex = [s \in Sessions |-> {}]
  /\ runIndex = [k \in [session : Sessions, run : Runs] |-> {}]
  /\ queue = [c \in Conns |-> <<>>]
  /\ publisher = [p \in Publishers |-> [event |-> 0, to |-> {}]]
  /\ count = 0

Open(c) == conn[c].at = "open"

-----------------------------------------------------------------------------
(* Routes. *)

Live(c) == {k \in DOMAIN bindings[c] : bindings[c][k] > 0}
Expired(c) == DOMAIN bindings[c] \ Live(c)

\* removeConnectionFromIndexesLocked, for the keys gone[c] of each connection.
Unindexed(gone) ==
  [s \in Sessions |-> sessionIndex[s] \ {c \in Conns : \E k \in gone[c] : k.session = s}]

RunUnindexed(gone) == [k \in DOMAIN runIndex |-> runIndex[k] \ {c \in Conns : k \in gone[c]}]

\* Of one connection only.
Of(c, keys) == [d \in Conns |-> IF d = c THEN keys ELSE {}]

\* A mutant: the indexes keep a connection that ends.
UnroutedKeepsIndexes(c) ==
  /\ bindings' = [bindings EXCEPT ![c] = NoBindings]
  /\ UNCHANGED <<sessionIndex, runIndex>>

Unrouted(c) ==
  /\ bindings' = [bindings EXCEPT ![c] = NoBindings]
  /\ sessionIndex' = Unindexed(Of(c, DOMAIN bindings[c]))
  /\ runIndex' = RunUnindexed(Of(c, DOMAIN bindings[c]))

\* BindConnection drops what has expired, then binds or refreshes the key if
\* there is room; binding a key again keeps nothing of the old binding.
Bind(c, k) ==
  LET bound == k \in Live(c) \/ Cardinality(Live(c)) < MaxBindings
      sessions == Unindexed(Of(c, Expired(c)))
      runs == RunUnindexed(Of(c, Expired(c)))
  IN /\ bindings' = [bindings EXCEPT ![c] =
          [l \in IF bound THEN Live(c) \cup {k} ELSE Live(c) |->
             IF bound /\ l = k THEN TTL ELSE bindings[c][l]]]
     /\ sessionIndex' = IF bound THEN [sessions EXCEPT ![k.session] = @ \cup {c}] ELSE sessions
     /\ runIndex' = IF bound /\ k.run # None THEN [runs EXCEPT ![k] = @ \cup {c}] ELSE runs

\* RefreshConnectionBindings: a ping gives every binding its full time again.
Refresh(c) ==
  /\ bindings' = [bindings EXCEPT ![c] = [k \in Live(c) |-> TTL]]
  /\ sessionIndex' = Unindexed(Of(c, Expired(c)))
  /\ runIndex' = RunUnindexed(Of(c, Expired(c)))

\* cleanupExpiredBindings, in a loop of its own.
CleanUp ==
  /\ bindings' = [c \in Conns |-> [k \in Live(c) |-> bindings[c][k]]]
  /\ sessionIndex' = Unindexed([c \in Conns |-> Expired(c)])
  /\ runIndex' = RunUnindexed([c \in Conns |-> Expired(c)])
  /\ UNCHANGED <<conn, queue, publisher, count>>

Tick ==
  /\ bindings' = [c \in Conns |-> [k \in DOMAIN bindings[c] |->
                    IF bindings[c][k] > 0 THEN bindings[c][k] - 1 ELSE 0]]
  /\ UNCHANGED <<conn, sessionIndex, runIndex, queue, publisher, count>>

-----------------------------------------------------------------------------
(* Connections. *)

\* A mutant: nobody closes a connection that is dropped.
DroppedUnclosed(c) ==
  /\ conn' = [conn EXCEPT ![c].at = "gone"]
  /\ queue' = [queue EXCEPT ![c] = <<>>]
  /\ Unrouted(c)

\* dropConnection: the connection leaves the tables, then it is closed. What
\* its queue still holds may be written or not, which nobody can rely on.
Dropped(c) ==
  /\ conn' = [conn EXCEPT ![c].at = "gone", ![c].closing = TRUE]
  /\ queue' = [queue EXCEPT ![c] = <<>>]
  /\ Unrouted(c)

\* A mutant: a message that finds no room is dropped instead of the connection.
EnqueuedOrLost(c, m) ==
  /\ queue' = IF Len(queue[c]) < QueueSize THEN [queue EXCEPT ![c] = Append(@, m)] ELSE queue
  /\ UNCHANGED <<conn, routes>>

\* A mutant: one message too many.
EnqueuedOffByOne(c, m) ==
  IF Len(queue[c]) <= QueueSize
  THEN queue' = [queue EXCEPT ![c] = Append(@, m)] /\ UNCHANGED <<conn, routes>>
  ELSE Dropped(c)

\* enqueueMessage: a connection too slow to empty its queue is dropped.
Enqueued(c, m) ==
  IF Len(queue[c]) < QueueSize
  THEN queue' = [queue EXCEPT ![c] = Append(@, m)] /\ UNCHANGED <<conn, routes>>
  ELSE Dropped(c)

Connect(c) ==
  /\ conn[c].at = "new"
  /\ conn' = [conn EXCEPT ![c].at = "open", ![c].reader = "reading"]
  /\ UNCHANGED <<routes, queue, publisher, count>>

\* A request of the client: bindStream or any other that names a session binds
\* the connection, ping refreshes, a switch of the workspace clears.
Request(c) ==
  /\ conn[c].reader = "reading" /\ conn[c].sock = "open"
  /\ conn' = [conn EXCEPT ![c].reader = "replying"]
  /\ \/ Open(c) /\ \E k \in Keys : Bind(c, k)
     \/ Refresh(c)
     \/ Unrouted(c)
     \/ UNCHANGED routes
  /\ UNCHANGED <<queue, publisher, count>>

Reply(c) ==
  /\ conn[c].reader = "replying"
  /\ IF Open(c) /\ Len(queue[c]) < QueueSize
     THEN /\ conn' = [conn EXCEPT ![c].reader = "reading"]
          /\ queue' = [queue EXCEPT ![c] = Append(@, Other)]
          /\ UNCHANGED routes
     ELSE /\ conn' = [conn EXCEPT ![c].at = "gone", ![c].closing = TRUE, ![c].reader = "ended"]
          /\ queue' = [queue EXCEPT ![c] = <<>>]
          /\ Unrouted(c)
  /\ UNCHANGED <<publisher, count>>

\* The socket is closed, the client gone or silent for too long: the handler
\* returns.
ReadFails(c) ==
  /\ conn[c].reader = "reading"
  /\ conn' = [conn EXCEPT ![c].at = "gone", ![c].closing = TRUE, ![c].reader = "ended"]
  /\ queue' = [queue EXCEPT ![c] = <<>>]
  /\ Unrouted(c)
  /\ UNCHANGED <<publisher, count>>

Heartbeat(c) ==
  /\ Open(c)
  /\ Enqueued(c, Other)
  /\ UNCHANGED <<publisher, count>>

\* The writer of the connection; a write fails when the socket is closed, the
\* client is gone or does not take it in time.
Write(c) ==
  /\ Open(c) /\ queue[c] # <<>>
  /\ \/ /\ conn[c].sock = "open"
        /\ queue' = [queue EXCEPT ![c] = Tail(@)]
        /\ UNCHANGED <<conn, routes>>
     \/ Dropped(c)
  /\ UNCHANGED <<publisher, count>>

\* The writer finds the context canceled.
WriterDone(c) ==
  /\ Open(c) /\ conn[c].sock = "closed"
  /\ conn' = [conn EXCEPT ![c].at = "gone"]
  /\ queue' = [queue EXCEPT ![c] = <<>>]
  /\ Unrouted(c)
  /\ UNCHANGED <<publisher, count>>

Close(c) ==
  /\ conn[c].closing
  /\ conn' = [conn EXCEPT ![c].sock = "closed", ![c].closing = FALSE]
  /\ UNCHANGED <<routes, queue, publisher, count>>

\* The guard of connections that do not authenticate, or the server that shuts
\* down, closes the connection.
CloseEarly(c) ==
  /\ Open(c) /\ conn[c].sock = "open"
  /\ conn' = [conn EXCEPT ![c].sock = "closed"]
  /\ UNCHANGED <<routes, queue, publisher, count>>

\* Stop lists the connections and drops them one by one, each at any later
\* moment; an id never comes back.
StopDrops(c) ==
  /\ Open(c)
  /\ Dropped(c)
  /\ UNCHANGED <<publisher, count>>

-----------------------------------------------------------------------------
(* Events. *)

\* matchConnectionsForEvent: the indexes name candidates, the bindings decide.
Candidates(s, r) ==
  sessionIndex[s] \cup (IF r = None THEN {} ELSE runIndex[[session |-> s, run |-> r]])

Hears(c, s, r) == \E k \in Live(c) : k.session = s /\ k.run \in {None, r}

Matched(s, r) == {c \in Candidates(s, r) : Open(c) /\ Hears(c, s, r)}

Publish(p, s, r) ==
  /\ publisher[p].to = {} /\ count < MaxEvents
  /\ count' = count + 1
  /\ publisher' = [publisher EXCEPT ![p] = [event |-> count', to |-> Matched(s, r)]]
  /\ UNCHANGED <<conn, routes, queue>>

\* The targets are served one by one, in any order; one that has ended since
\* it was matched gets nothing.
Send(p, c) ==
  /\ c \in publisher[p].to
  /\ publisher' = [publisher EXCEPT ![p].to = @ \ {c}]
  /\ IF Open(c) THEN Enqueued(c, [by |-> p, event |-> publisher[p].event])
     ELSE UNCHANGED <<conn, routes, queue>>
  /\ UNCHANGED count

-----------------------------------------------------------------------------
WriterStep(c) == Write(c) \/ WriterDone(c)

\* A reader that waits for the next request may wait forever.
ReaderStep(c) == Reply(c) \/ (conn[c].sock # "open" /\ ReadFails(c))

Next ==
  \/ Tick \/ CleanUp
  \/ \E c \in Conns :
       \/ Connect(c) \/ Request(c) \/ Reply(c) \/ ReadFails(c) \/ Heartbeat(c)
       \/ Write(c) \/ WriterDone(c) \/ Close(c) \/ CloseEarly(c) \/ StopDrops(c)
  \/ \E p \in Publishers, s \in Sessions, r \in Runs \cup {None} : Publish(p, s, r)
  \/ \E p \in Publishers, c \in Conns : Send(p, c)

Spec == Init /\ [][Next]_vars

\* Goroutines of the gateway go on; a write has a deadline and a closed socket
\* wakes its reader. Nothing is assumed of clients.
Fairness ==
  /\ \A c \in Conns : WF_vars(WriterStep(c)) /\ WF_vars(ReaderStep(c)) /\ WF_vars(Close(c))
  /\ \A p \in Publishers : WF_vars(\E c \in Conns : Send(p, c))

FairSpec == Spec /\ Fairness

-----------------------------------------------------------------------------
\* Nothing is found that is not there: an index names a connection only for a
\* session or run it is bound to, and only while it is registered; and every
\* binding to a run can be found under its run.
IndexesSound ==
  /\ \A s \in Sessions : \A c \in sessionIndex[s] : \E k \in DOMAIN bindings[c] : k.session = s
  /\ \A k \in DOMAIN runIndex : runIndex[k] = {c \in Conns : k \in DOMAIN bindings[c]}
  /\ \A c \in Conns : bindings[c] # NoBindings => Open(c)

\* docs/reference/gateway-rpc-api.md:260: a connection bound to a session gets the
\* events of every run of it, one bound to a run those of the run.
RoutesComplete ==
  \A c \in Conns, s \in Sessions, r \in Runs \cup {None} : Hears(c, s, r) => c \in Matched(s, r)

\* The events of publisher p among the messages of a queue, in their order (a
\* function and not SelectSeq, of which the provers know nothing).
Picked(q, p) ==
  LET upTo[i \in 0 .. Len(q)] ==
        IF i = 0 THEN <<>>
        ELSE IF q[i].by = p THEN Append(upTo[i - 1], q[i].event) ELSE upTo[i - 1]
  IN upTo[Len(q)]

\* What is on its way from a publisher to a connection.
Events(c, p) ==
  Picked(queue[c], p) \o (IF c \in publisher[p].to THEN <<publisher[p].event>> ELSE <<>>)

Stream == [c \in Conns |-> [p \in Publishers |-> IF Open(c) THEN Events(c, p) ELSE <<>>]]

Feed == INSTANCE EventFeed WITH
  stream <- Stream, subs <- [c \in Conns |-> Live(c)],
  gone <- {c \in Conns : conn[c].at = "gone"}

\* The relay sends an event to one connection after the other; to its clients
\* this is one step (EventFeed), whatever happens to other connections.
ImplementsFeed == Feed!Spec

\* What is published is written or its connection ends, and a connection that
\* ends is closed and its reader returns, at whatever end the failure began.
Settled(c) ==
  /\ \A p \in Publishers : c \notin publisher[p].to
  /\ \A i \in DOMAIN queue[c] : queue[c][i] = Other
  /\ conn[c].at = "gone" => conn[c].sock = "closed" /\ conn[c].reader = "ended"

RelayDrains == \A c \in Conns : []<>Settled(c)
=============================================================================
