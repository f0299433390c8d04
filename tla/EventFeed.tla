----------------------------- MODULE EventFeed ------------------------------
(* What the relay of the gateway promises to the clients that listen: an      *)
(* event is matched at once to a set of connections, each of them subscribed  *)
(* to it, and every connection gets the events of a publisher matched to it   *)
(* in the order they were published, each of them once and none missing,      *)
(* until the connection ends.  That every subscriber is matched is not        *)
(* promised here (RoutesComplete of StreamRelay says so, and is violated).    *)
EXTENDS Naturals, Sequences

CONSTANTS Conns, Publishers, Sessions, Runs, None

VARIABLES
  count,   \* events published
  stream,  \* what each connection is still to get from each publisher
  subs,    \* the topics each connection listens to
  gone     \* connections that have ended

vars == <<count, stream, subs, gone>>

\* A topic is a session and a run; None stands for the session as a whole.
Hears(c, session, run) ==
  \E topic \in subs[c] : topic.session = session /\ topic.run \in {None, run}

Empty == [p \in Publishers |-> <<>>]

Init ==
  /\ count = 0
  /\ stream = [c \in Conns |-> Empty]
  /\ subs = [c \in Conns |-> {}]
  /\ gone = {}

Publish(p, session, run) ==
  /\ count' = count + 1
  /\ \E to \in SUBSET {c \in Conns : Hears(c, session, run)} :
       stream' = [c \in Conns |-> IF c \in to THEN [stream[c] EXCEPT ![p] = Append(@, count')]
                                ELSE stream[c]]
  /\ UNCHANGED <<subs, gone>>

Get(c, p) ==
  /\ stream[c][p] # <<>>
  /\ stream' = [stream EXCEPT ![c][p] = Tail(@)]
  /\ UNCHANGED <<count, subs, gone>>

\* Connections subscribe, unsubscribe, or let a subscription run out.
Subscribe ==
  /\ \A c \in gone : subs'[c] = {}
  /\ UNCHANGED <<count, stream, gone>>

Leave(c) ==
  /\ c \notin gone
  /\ gone' = gone \cup {c}
  /\ stream' = [stream EXCEPT ![c] = Empty]
  /\ subs' = [subs EXCEPT ![c] = {}]
  /\ UNCHANGED count

Next ==
  \/ Subscribe
  \/ \E p \in Publishers, s \in Sessions, r \in Runs \cup {None} : Publish(p, s, r)
  \/ \E c \in Conns, p \in Publishers : Get(c, p)
  \/ \E c \in Conns : Leave(c)

Spec == Init /\ [][Next]_vars
=============================================================================
