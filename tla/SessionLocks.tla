---------------------------- MODULE SessionLocks ----------------------------
(* The table of session locks of the runtime. A lock is an entry object that *)
(* exists as long as somebody refers to it: it is created by the first user  *)
(* of a session, counted while users wait for it or hold it, and dropped from *)
(* the table by the last one. Users are runs and management operations.      *)
(*                                                                            *)
(* acquireSessionLock, sessionMu.Lock, sessionMu.Unlock and releaseLockRef   *)
(* are four steps: the table is only protected by a mutex of its own, so      *)
(* other users come between any two of them.                                  *)
EXTENDS Naturals, FiniteSets

CONSTANTS Users, Sessions, Entries, None

ASSUME UsersFinite == IsFiniteSet(Users) /\ None \notin Users
ASSUME NoneIsNoEntry == None \notin Entries
ASSUME NoneIsNoSession == None \notin Sessions

VARIABLES
  lockOf,   \* sessionLocks: the entry of each session, None when it has none
  refs,     \* the reference count of each entry
  holder,   \* who holds the mutex of each entry
  place     \* where each user stands, for which session, with which entry

lockVars == <<lockOf, refs, holder, place>>

Idle == [at |-> "idle", session |-> None, entry |-> None]

LocksTypeOK ==
  /\ lockOf \in [Sessions -> Entries \cup {None}]
  /\ refs \in [Entries -> Nat]
  /\ holder \in [Entries -> Users \cup {None}]
  /\ place \in [Users -> {Idle} \cup
       [at : {"queued", "holding", "unlocked"}, session : Sessions, entry : Entries]]

LocksInit ==
  /\ lockOf = [s \in Sessions |-> None]
  /\ refs = [e \in Entries |-> 0]
  /\ holder = [e \in Entries |-> None]
  /\ place = [u \in Users |-> Idle]

UsersOf(e) == {u \in Users : place[u].entry = e}

Holds(u, s) == place[u].at = "holding" /\ place[u].session = s

\* An entry object nobody refers to stands for a newly allocated one.
Unreferenced(e) == UsersOf(e) = {} /\ \A s \in Sessions : lockOf[s] # e

\* Which object an allocation gives makes no difference.
Allocated == CHOOSE e \in Entries : Unreferenced(e)

Acquire(u, s) ==
  /\ place[u] = Idle
  /\ \E e \in Entries :
       /\ e = lockOf[s] \/ (lockOf[s] = None /\ Unreferenced(e) /\ e = Allocated)
       /\ lockOf' = [lockOf EXCEPT ![s] = e]
       /\ refs' = [refs EXCEPT ![e] = IF lockOf[s] = None THEN 1 ELSE @ + 1]
       /\ place' = [place EXCEPT ![u] = [at |-> "queued", session |-> s, entry |-> e]]
  /\ UNCHANGED holder

\* A mutant: the mutex is shared.
LockShared(u) ==
  /\ place[u].at = "queued"
  /\ holder' = [holder EXCEPT ![place[u].entry] = u]
  /\ place' = [place EXCEPT ![u].at = "holding"]
  /\ UNCHANGED <<lockOf, refs>>

Lock(u) ==
  /\ place[u].at = "queued"
  /\ holder[place[u].entry] = None
  /\ holder' = [holder EXCEPT ![place[u].entry] = u]
  /\ place' = [place EXCEPT ![u].at = "holding"]
  /\ UNCHANGED <<lockOf, refs>>

Unlock(u) ==
  /\ place[u].at = "holding"
  /\ holder' = [holder EXCEPT ![place[u].entry] = None]
  /\ place' = [place EXCEPT ![u].at = "unlocked"]
  /\ UNCHANGED <<lockOf, refs>>

\* A mutant: whoever leaves drops the entry.
DropsAlways(s, e) == lockOf[s] = e

\* The last reference drops the entry; an entry that is no longer the one of
\* the table is left alone.
Drops(s, e) == lockOf[s] = e /\ refs[e] <= 1

Release(u) ==
  /\ place[u].at = "unlocked"
  /\ LET s == place[u].session
         e == place[u].entry
     IN /\ lockOf' = [lockOf EXCEPT ![s] = IF Drops(s, e) THEN None ELSE @]
        /\ refs' = [refs EXCEPT ![e] = IF lockOf[s] = e THEN @ - 1 ELSE @]
  /\ place' = [place EXCEPT ![u] = Idle]
  /\ UNCHANGED holder

LocksLost ==
  /\ lockOf' = [s \in Sessions |-> None]
  /\ refs' = [e \in Entries |-> 0]
  /\ holder' = [e \in Entries |-> None]
  /\ place' = [u \in Users |-> Idle]

-----------------------------------------------------------------------------
\* Everybody at work on a session refers to the entry the table has for it, the
\* count of an entry is the number of its users, and whoever believes to hold
\* a session holds the mutex of its entry.
LocksConsistent ==
  /\ \A u \in Users : place[u] # Idle => lockOf[place[u].session] = place[u].entry
  /\ \A r, s \in Sessions : (lockOf[r] = lockOf[s] /\ lockOf[r] # None) => r = s
  /\ \A s \in Sessions, e \in Entries :
       lockOf[s] = e => refs[e] = Cardinality(UsersOf(e)) /\ UsersOf(e) # {}
  /\ \A e \in Entries, u \in Users :
       (holder[e] = u) <=> (place[u].at = "holding" /\ place[u].entry = e)

\* The owner of each session, as the abstract lock sees it.
OwnerOf == [s \in Sessions |-> IF \E u \in Users : Holds(u, s)
                               THEN CHOOSE u \in Users : Holds(u, s) ELSE None]

Mutex == INSTANCE SessionMutex WITH owner <- OwnerOf

\* The four steps on entries that come and go are a lock for each session.
ImplementsMutex == Mutex!Spec
=============================================================================
