------------------------- MODULE SessionRunsProofs --------------------------
(* The session locks, the registry of active runs, the phases and the resume *)
(* records, proved for any number of runs, ids, sessions, lock entries and   *)
(* management operations.                                                    *)
EXTENDS SessionRuns, FiniteSetTheorems, TLAPS

-----------------------------------------------------------------------------
(* The lock table. *)

LocksInv == LocksTypeOK /\ LocksConsistent

LocksStep ==
  \/ \E u \in Users, s \in Sessions : Acquire(u, s)
  \/ \E u \in Users : Lock(u) \/ Unlock(u) \/ Release(u)
  \/ LocksLost
  \/ UNCHANGED lockVars

\* A user is idle, or stands somewhere for a session with an entry.
LEMMA PlaceFacts ==
  ASSUME LocksTypeOK, NEW u \in Users
  PROVE  /\ place[u] = Idle \/ (place[u].session \in Sessions /\ place[u].entry \in Entries)
         /\ place[u].at \in {"idle", "queued", "holding", "unlocked"}
         /\ place[u].at = "idle" <=> place[u] = Idle
         /\ place[u] = Idle => place[u].entry = None /\ place[u].entry \notin Entries
BY NoneIsNoEntry DEF LocksTypeOK, Idle

\* The users of an entry are finitely many.
LEMMA UsersOfFinite ==
  ASSUME NEW e
  PROVE  IsFiniteSet(UsersOf(e)) /\ Cardinality(UsersOf(e)) \in Nat
<1>1. UsersOf(e) \subseteq Users
  BY DEF UsersOf
<1>2. IsFiniteSet(UsersOf(e))
  BY <1>1, UsersFinite, FS_Subset
<1> QED
  BY <1>2, FS_CardinalityType

LEMMA AcquireKeepsLocks ==
  ASSUME LocksInv, NEW u \in Users, NEW s \in Sessions, Acquire(u, s)
  PROVE  LocksInv'
<1> DEFINE taken(e) == [at |-> "queued", session |-> s, entry |-> e]
<1>1. PICK e \in Entries :
        /\ e = lockOf[s] \/ (lockOf[s] = None /\ Unreferenced(e))
        /\ lockOf' = [lockOf EXCEPT ![s] = e]
        /\ refs' = [refs EXCEPT ![e] = IF lockOf[s] = None THEN 1 ELSE @ + 1]
        /\ place' = [place EXCEPT ![u] = taken(e)]
  BY DEF Acquire
<1>2. place[u] = Idle /\ holder' = holder
  BY DEF Acquire
<1>3. LocksTypeOK /\ LocksConsistent
  BY DEF LocksInv
<1>4. \A v \in Users : place'[v] = IF v = u THEN taken(e) ELSE place[v]
  BY <1>1, <1>3 DEF LocksTypeOK
<1>5. \A r \in Sessions : lockOf'[r] = IF r = s THEN e ELSE lockOf[r]
  BY <1>1, <1>3 DEF LocksTypeOK
<1>6. LocksTypeOK'
  <2>1. lockOf' \in [Sessions -> Entries \cup {None}]
    BY <1>1, <1>3 DEF LocksTypeOK
  <2>2. refs' \in [Entries -> Nat]
    BY <1>1, <1>3 DEF LocksTypeOK
  <2>3. taken(e) \in [at : {"queued", "holding", "unlocked"}, session : Sessions, entry : Entries]
    OBVIOUS
  <2>4. place' \in [Users -> {Idle} \cup
          [at : {"queued", "holding", "unlocked"}, session : Sessions, entry : Entries]]
    BY <1>1, <1>3, <2>3 DEF LocksTypeOK
  <2> QED
    BY <2>1, <2>2, <2>4, <1>2, <1>3 DEF LocksTypeOK
<1>7. u \notin UsersOf(e)
  BY <1>2, NoneIsNoEntry DEF UsersOf, Idle
<1>8. UsersOf(e)' = UsersOf(e) \cup {u}
  BY <1>4 DEF UsersOf
<1>9. \A f \in Entries : f # e => UsersOf(f)' = UsersOf(f)
  BY <1>4, <1>2, NoneIsNoEntry DEF UsersOf, Idle
<1>10. Cardinality(UsersOf(e)') = Cardinality(UsersOf(e)) + 1
  BY <1>7, <1>8, UsersOfFinite, FS_AddElement
<1>11. \A v \in Users : place'[v] # Idle => lockOf'[place'[v].session] = place'[v].entry
  <2> SUFFICES ASSUME NEW v \in Users, place'[v] # Idle
               PROVE  lockOf'[place'[v].session] = place'[v].entry
    OBVIOUS
  <2>1. CASE v = u
    BY <2>1, <1>4, <1>5
  <2>2. CASE v # u
    <3>1. place'[v] = place[v] /\ place[v] # Idle
      BY <2>2, <1>4
    <3>2. place[v].session \in Sessions /\ place[v].entry \in Entries
      BY <3>1, <1>3, PlaceFacts
    <3>3. lockOf[place[v].session] = place[v].entry
      BY <3>1, <1>3 DEF LocksConsistent
    <3>4. lockOf[s] = None => place[v].session # s
      BY <3>2, <3>3, NoneIsNoEntry
    <3> QED
      BY <3>1, <3>2, <3>3, <3>4, <1>1, <1>5
  <2> QED
    BY <2>1, <2>2
<1>12. \A r, q \in Sessions : (lockOf'[r] = lockOf'[q] /\ lockOf'[r] # None) => r = q
  <2>1. \A r \in Sessions : lockOf[r] = e => r = s
    <3>1. CASE e = lockOf[s]
      BY <3>1, <1>3, NoneIsNoEntry DEF LocksConsistent
    <3>2. CASE Unreferenced(e)
      BY <3>2 DEF Unreferenced
    <3> QED
      BY <3>1, <3>2, <1>1
  <2> QED
    BY <2>1, <1>3, <1>5 DEF LocksConsistent
<1>13. \A r \in Sessions, f \in Entries :
         lockOf'[r] = f => refs'[f] = Cardinality(UsersOf(f)') /\ UsersOf(f)' # {}
  <2> SUFFICES ASSUME NEW r \in Sessions, NEW f \in Entries, lockOf'[r] = f
               PROVE  refs'[f] = Cardinality(UsersOf(f)') /\ UsersOf(f)' # {}
    OBVIOUS
  <2>1. CASE r = s
    <3>1. f = e
      BY <2>1, <1>5
    <3>2. CASE lockOf[s] = None
      <4>1. UsersOf(e) = {}
        BY <3>2, <1>1, NoneIsNoEntry DEF Unreferenced
      <4>2. refs'[e] = 1
        BY <3>2, <1>1, <1>3 DEF LocksTypeOK
      <4>3. Cardinality(UsersOf(e)') = 1
        BY <4>1, <1>10, FS_EmptySet
      <4> QED
        BY <3>1, <4>2, <4>3, <1>8
    <3>3. CASE lockOf[s] # None
      <4>1. e = lockOf[s]
        BY <3>3, <1>1
      <4>2. refs[e] = Cardinality(UsersOf(e))
        BY <4>1, <1>3 DEF LocksConsistent
      <4>3. refs'[e] = refs[e] + 1
        BY <3>3, <1>1, <1>3 DEF LocksTypeOK
      <4> QED
        BY <3>1, <4>2, <4>3, <1>8, <1>10
    <3> QED
      BY <3>2, <3>3
  <2>2. CASE r # s
    <3>1. lockOf[r] = f
      BY <2>2, <1>5
    <3>2. f # e
      BY <2>2, <3>1, <1>5, <1>12, NoneIsNoEntry
    <3>3. refs'[f] = refs[f]
      BY <3>2, <1>1, <1>3 DEF LocksTypeOK
    <3>4. refs[f] = Cardinality(UsersOf(f)) /\ UsersOf(f) # {}
      BY <3>1, <1>3 DEF LocksConsistent
    <3> QED
      BY <3>2, <3>3, <3>4, <1>9
  <2> QED
    BY <2>1, <2>2
<1>14. \A f \in Entries, v \in Users :
         (holder'[f] = v) <=> (place'[v].at = "holding" /\ place'[v].entry = f)
  <2> SUFFICES ASSUME NEW f \in Entries, NEW v \in Users
               PROVE  (holder'[f] = v) <=> (place'[v].at = "holding" /\ place'[v].entry = f)
    OBVIOUS
  <2>1. (holder[f] = v) <=> (place[v].at = "holding" /\ place[v].entry = f)
    BY <1>3 DEF LocksConsistent
  <2>2. CASE v = u
    BY <2>1, <2>2, <1>2, <1>4 DEF Idle
  <2>3. CASE v # u
    BY <2>1, <2>3, <1>2, <1>4
  <2> QED
    BY <2>2, <2>3
<1> QED
  BY <1>6, <1>11, <1>12, <1>13, <1>14 DEF LocksInv, LocksConsistent

LEMMA MutexKeepsLocks ==
  ASSUME LocksInv, NEW u \in Users, Lock(u) \/ Unlock(u)
  PROVE  LocksInv'
<1> DEFINE e == place[u].entry
<1> DEFINE to == IF place[u].at = "queued" THEN "holding" ELSE "unlocked"
<1>1. LocksTypeOK /\ LocksConsistent
  BY DEF LocksInv
<1>2. /\ place[u].at \in {"queued", "holding"}
      /\ place[u].at = "queued" => holder[e] = None
      /\ holder' = [holder EXCEPT ![e] = IF place[u].at = "queued" THEN u ELSE None]
      /\ place' = [place EXCEPT ![u].at = to]
      /\ lockOf' = lockOf /\ refs' = refs
  BY DEF Lock, Unlock
<1>3. place[u] # Idle /\ place[u].session \in Sessions /\ e \in Entries
  BY <1>1, <1>2, PlaceFacts DEF Idle
<1>4. /\ place'[u].at = to /\ place'[u].session = place[u].session /\ place'[u].entry = e
      /\ place'[u] # Idle
      /\ \A v \in Users : v # u => place'[v] = place[v]
  BY <1>1, <1>2, <1>3 DEF LocksTypeOK, Idle
<1>5. \A v \in Users : /\ place'[v].session = place[v].session
                       /\ place'[v].entry = place[v].entry
                       /\ place'[v] = Idle <=> place[v] = Idle
  BY <1>3, <1>4
<1>6. LocksTypeOK'
  <2>1. holder' \in [Entries -> Users \cup {None}]
    BY <1>1, <1>2 DEF LocksTypeOK
  <2>2. place[u] \in [at : {"queued", "holding", "unlocked"}, session : Sessions, entry : Entries]
    BY <1>1, <1>3 DEF LocksTypeOK
  <2>3. [place[u] EXCEPT !.at = to]
          \in [at : {"queued", "holding", "unlocked"}, session : Sessions, entry : Entries]
    BY <2>2
  <2>4. place' = [place EXCEPT ![u] = [place[u] EXCEPT !.at = to]]
    BY <1>2
  <2>5. place' \in [Users -> {Idle} \cup
          [at : {"queued", "holding", "unlocked"}, session : Sessions, entry : Entries]]
    BY <2>3, <2>4, <1>1 DEF LocksTypeOK
  <2> QED
    BY <2>1, <2>5, <1>1, <1>2 DEF LocksTypeOK
<1>7. \A f : UsersOf(f)' = UsersOf(f)
  BY <1>5 DEF UsersOf
<1>8. \A f \in Entries, v \in Users :
        (holder'[f] = v) <=> (place'[v].at = "holding" /\ place'[v].entry = f)
  <2> SUFFICES ASSUME NEW f \in Entries, NEW v \in Users
               PROVE  (holder'[f] = v) <=> (place'[v].at = "holding" /\ place'[v].entry = f)
    OBVIOUS
  <2>1. (holder[f] = v) <=> (place[v].at = "holding" /\ place[v].entry = f)
    BY <1>1 DEF LocksConsistent
  <2>2. None # v /\ None # u
    BY UsersFinite
  <2>3. holder'[f] = IF f = e THEN (IF place[u].at = "queued" THEN u ELSE None) ELSE holder[f]
    BY <1>1, <1>2 DEF LocksTypeOK
  <2>4. CASE v = u
    BY <2>1, <2>2, <2>3, <2>4, <1>2, <1>3, <1>4
  <2>5. CASE v # u
    <3>1. place'[v] = place[v]
      BY <2>5, <1>4
    <3>2. CASE f # e
      BY <3>1, <3>2, <2>1, <2>3
    <3>3. CASE f = e
      <4>1. (holder[e] = u) <=> (place[u].at = "holding")
        BY <1>1, <1>3 DEF LocksConsistent
      <4>2. holder[e] # v
        BY <4>1, <1>2, <2>2, <2>5
      <4> QED
        BY <3>1, <3>3, <4>2, <2>1, <2>2, <2>3, <2>5
    <3> QED
      BY <3>2, <3>3
  <2> QED
    BY <2>4, <2>5
<1> QED
  BY <1>1, <1>2, <1>5, <1>6, <1>7, <1>8 DEF LocksInv, LocksConsistent

LEMMA ReleaseKeepsLocks ==
  ASSUME LocksInv, NEW u \in Users, Release(u)
  PROVE  LocksInv'
<1>1. LocksTypeOK /\ LocksConsistent
  BY DEF LocksInv
<1>0. PICK s \in Sessions, e \in Entries :
        place[u].session = s /\ place[u].entry = e /\ place[u] # Idle
  BY <1>1, PlaceFacts DEF Release, Idle
<1>2. /\ place[u].at = "unlocked"
      /\ lockOf' = [lockOf EXCEPT ![s] = IF Drops(s, e) THEN None ELSE @]
      /\ refs' = [refs EXCEPT ![e] = IF lockOf[s] = e THEN @ - 1 ELSE @]
      /\ place' = [place EXCEPT ![u] = Idle]
      /\ holder' = holder
  BY <1>0 DEF Release
<1>3. place[u] # Idle /\ place[u].session = s /\ place[u].entry = e
  BY <1>0
<1>4. lockOf[s] = e
  BY <1>1, <1>3 DEF LocksConsistent
<1>5. u \in UsersOf(e) /\ refs[e] = Cardinality(UsersOf(e)) /\ refs[e] \in Nat
  BY <1>1, <1>3, <1>4 DEF LocksConsistent, LocksTypeOK, UsersOf
<1>6. \A v \in Users : place'[v] = IF v = u THEN Idle ELSE place[v]
  BY <1>1, <1>2 DEF LocksTypeOK
<1>7. UsersOf(e)' = UsersOf(e) \ {u}
  BY <1>3, <1>6, NoneIsNoEntry DEF UsersOf, Idle
<1>8. \A f \in Entries : f # e => UsersOf(f)' = UsersOf(f)
  BY <1>3, <1>6, NoneIsNoEntry DEF UsersOf, Idle
<1>9. Cardinality(UsersOf(e)') = refs[e] - 1 /\ Cardinality(UsersOf(e)') \in Nat
  <2>1. IsFiniteSet(UsersOf(e))
    BY UsersOfFinite
  <2>2. Cardinality(UsersOf(e) \ {u}) = Cardinality(UsersOf(e)) - 1 /\ IsFiniteSet(UsersOf(e) \ {u})
    BY <2>1, <1>5, FS_RemoveElement
  <2>3. Cardinality(UsersOf(e) \ {u}) \in Nat
    BY <2>2, FS_CardinalityType
  <2> QED
    BY <2>2, <2>3, <1>5, <1>7
<1>10. refs'[e] = refs[e] - 1 /\ \A f \in Entries : f # e => refs'[f] = refs[f]
  BY <1>1, <1>2, <1>3, <1>4 DEF LocksTypeOK
<1>11. Drops(s, e) <=> UsersOf(e)' = {}
  <2>1. Drops(s, e) <=> refs[e] - 1 = 0
    BY <1>4, <1>5, <1>9 DEF Drops
  <2>2. IsFiniteSet(UsersOf(e) \ {u})
    BY UsersOfFinite, FS_RemoveElement
  <2>3. Cardinality(UsersOf(e) \ {u}) = 0 <=> UsersOf(e) \ {u} = {}
    BY <2>2, FS_EmptySet
  <2> QED
    BY <2>1, <2>3, <1>7, <1>9
<1>12. \A r \in Sessions :
         lockOf'[r] = IF r = s /\ UsersOf(e)' = {} THEN None ELSE lockOf[r]
  BY <1>1, <1>2, <1>3, <1>11 DEF LocksTypeOK
<1>13. LocksTypeOK'
  <2>1. lockOf' \in [Sessions -> Entries \cup {None}]
    BY <1>1, <1>2 DEF LocksTypeOK
  <2>2. refs' \in [Entries -> Nat]
    BY <1>1, <1>2, <1>4, <1>5, <1>9 DEF LocksTypeOK
  <2>3. place' \in [Users -> {Idle} \cup
          [at : {"queued", "holding", "unlocked"}, session : Sessions, entry : Entries]]
    BY <1>1, <1>2 DEF LocksTypeOK
  <2> QED
    BY <2>1, <2>2, <2>3, <1>1, <1>2 DEF LocksTypeOK
<1>14. \A v \in Users : place'[v] # Idle => lockOf'[place'[v].session] = place'[v].entry
  <2> SUFFICES ASSUME NEW v \in Users, place'[v] # Idle
               PROVE  lockOf'[place'[v].session] = place'[v].entry
    OBVIOUS
  <2>1. v # u /\ place'[v] = place[v] /\ place[v] # Idle
    BY <1>6
  <2>2. place[v].session \in Sessions /\ lockOf[place[v].session] = place[v].entry
    BY <2>1, <1>1, PlaceFacts DEF LocksConsistent
  <2>3. place[v].session = s => v \in UsersOf(e)'
    BY <2>1, <2>2, <1>4, <1>7 DEF UsersOf
  <2> QED
    BY <2>1, <2>2, <2>3, <1>12
<1>15. \A r, q \in Sessions : (lockOf'[r] = lockOf'[q] /\ lockOf'[r] # None) => r = q
  BY <1>1, <1>12 DEF LocksConsistent
<1>16. \A r \in Sessions, f \in Entries :
         lockOf'[r] = f => refs'[f] = Cardinality(UsersOf(f)') /\ UsersOf(f)' # {}
  <2> SUFFICES ASSUME NEW r \in Sessions, NEW f \in Entries, lockOf'[r] = f
               PROVE  refs'[f] = Cardinality(UsersOf(f)') /\ UsersOf(f)' # {}
    OBVIOUS
  <2>1. lockOf[r] = f /\ (f = e => UsersOf(e)' # {})
    BY <1>1, <1>3, <1>4, <1>12, NoneIsNoEntry DEF LocksConsistent
  <2>2. CASE f = e
    BY <2>1, <2>2, <1>9, <1>10
  <2>3. CASE f # e
    BY <2>1, <2>3, <1>1, <1>8, <1>10 DEF LocksConsistent
  <2> QED
    BY <2>2, <2>3
<1>17. \A f \in Entries, v \in Users :
         (holder'[f] = v) <=> (place'[v].at = "holding" /\ place'[v].entry = f)
  <2> SUFFICES ASSUME NEW f \in Entries, NEW v \in Users
               PROVE  (holder'[f] = v) <=> (place'[v].at = "holding" /\ place'[v].entry = f)
    OBVIOUS
  <2>1. (holder[f] = v) <=> (place[v].at = "holding" /\ place[v].entry = f)
    BY <1>1 DEF LocksConsistent
  <2>2. CASE v = u
    BY <2>1, <2>2, <1>2, <1>6 DEF Idle
  <2>3. CASE v # u
    BY <2>1, <2>3, <1>2, <1>6
  <2> QED
    BY <2>2, <2>3
<1> QED
  BY <1>13, <1>14, <1>15, <1>16, <1>17 DEF LocksInv, LocksConsistent

LEMMA LostKeepsLocks ==
  ASSUME LocksLost
  PROVE  LocksInv'
<1>1. \A u \in Users : place'[u] = Idle
  BY DEF LocksLost
<1>2. LocksTypeOK'
  BY DEF LocksLost, LocksTypeOK
<1>3. \A s \in Sessions : lockOf'[s] = None
  BY DEF LocksLost
<1>4. \A f \in Entries, v \in Users : holder'[f] # v /\ place'[v].at # "holding"
  BY <1>1, UsersFinite DEF LocksLost, Idle
<1> QED
  BY <1>1, <1>2, <1>3, <1>4, NoneIsNoEntry DEF LocksInv, LocksConsistent

LEMMA LocksInitially ==
  ASSUME LocksInit
  PROVE  LocksInv
<1>1. LocksTypeOK
  BY DEF LocksInit, LocksTypeOK
<1>2. LocksConsistent
  BY UsersFinite, NoneIsNoEntry DEF LocksInit, LocksConsistent, Idle
<1> QED
  BY <1>1, <1>2 DEF LocksInv

\* Every step on the lock table keeps it consistent.
LEMMA LocksStepKeeps ==
  ASSUME LocksInv, LocksStep
  PROVE  LocksInv'
<1>1. CASE \E u \in Users, s \in Sessions : Acquire(u, s)
  BY <1>1, AcquireKeepsLocks
<1>2. CASE \E u \in Users : Lock(u) \/ Unlock(u)
  BY <1>2, MutexKeepsLocks
<1>3. CASE \E u \in Users : Release(u)
  BY <1>3, ReleaseKeepsLocks
<1>4. CASE LocksLost
  BY <1>4, LostKeepsLocks
<1>5. CASE UNCHANGED lockVars
  BY <1>5 DEF lockVars, LocksInv, LocksTypeOK, LocksConsistent, UsersOf
<1> QED
  BY <1>1, <1>2, <1>3, <1>4, <1>5 DEF LocksStep

\* Two holders of one session hold the mutex of the same entry.
LEMMA ConsistentIsExclusive ==
  ASSUME LocksInv
  PROVE  MutualExclusion
<1> SUFFICES ASSUME NEW u \in Users, NEW v \in Users, NEW s \in Sessions,
                    Holds(u, s), Holds(v, s)
             PROVE  u = v
  BY DEF MutualExclusion
<1>1. LocksTypeOK /\ LocksConsistent
  BY DEF LocksInv
<1>2. place[u] # Idle /\ place[v] # Idle
  BY DEF Holds, Idle
<1>3. place[u].entry = lockOf[s] /\ place[v].entry = lockOf[s] /\ lockOf[s] \in Entries
  BY <1>1, <1>2, PlaceFacts DEF LocksConsistent, Holds
<1>4. holder[lockOf[s]] = u /\ holder[lockOf[s]] = v
  BY <1>1, <1>3 DEF LocksConsistent, Holds
<1> QED
  BY <1>4

-----------------------------------------------------------------------------
(* Types. A run has a session as soon as it has started, it waits for the    *)
(* record only before tools or the gate, and a turn is within the limit.     *)

Held == Loop \cup {"load"}

RunOK(r) ==
  /\ r \in RunState
  /\ IF r.pc = "off" THEN r = NotStarted ELSE r.session \in Sessions
  /\ r.pc # "mark" => r.then = "turn"
  /\ (r.pc \in {"attempt", "provider", "tools", "gate"} \/ (r.pc = "mark" /\ r.then # "turn"))
       => r.turn < MaxTurns

RunsTyped == run \in [Tokens -> RunState] /\ \A t \in Tokens : RunOK(run[t])

StoreTyped ==
  /\ copy \in [Tokens -> {"none", "current", "bypassed", "stale"}]
  /\ exists \in [Sessions -> BOOLEAN]
  /\ resume \in [Sessions -> Record]

\* Runs get their tokens one after the other, so that among some that have
\* started there is a newest one.
RegistryTyped ==
  /\ started \in 0 .. MaxRuns
  /\ \A t \in Tokens : run[t].pc = "off" <=> t > started
  /\ \A ts \in SUBSET (1 .. started) : ts # {} => \E t \in ts : \A u \in ts : u <= t
  /\ active \subseteq 1 .. started
  /\ byID \in [RunIds \ {None} -> 0 .. MaxRuns]
  /\ newest \in 0 .. MaxRuns
  /\ op \in [Ops -> {"none", "asked", "done"}]

TypeInv == LocksInv /\ RunsTyped /\ StoreTyped /\ RegistryTyped

\* A run at work in its loop goes on there, or leaves it.
Advances(r, n) ==
  /\ RunOK(n) /\ n.id = r.id /\ n.session = r.session
  /\ r.pc \in Held /\ n.pc \in Held \cup {"end"}
  /\ n.pc \in Loop => r.pc \in Loop \cup {"load"}

LEMMA PcTyped ==
  ASSUME NEW r \in RunState, NEW pc \in Places
  PROVE  /\ [r EXCEPT !.pc = pc] \in RunState
         /\ LET n == [r EXCEPT !.pc = pc]
            IN /\ n.pc = pc /\ n.id = r.id /\ n.session = r.session /\ n.canceled = r.canceled
               /\ n.phase = r.phase /\ n.override = r.override /\ n.then = r.then
               /\ n.turn = r.turn /\ n.compacted = r.compacted /\ n.lost = r.lost
               /\ n.reactive = r.reactive /\ n.continues = r.continues
BY DEF RunState

LEMMA NotStartedTyped == NotStarted \in RunState
<1>1. 0 \in 0 .. MaxTurns /\ 0 \in 0 .. MaxReactive /\ 0 \in 0 .. MaxContinues
  BY BoundsAreNumbers
<1>2. "off" \in Places
  BY DEF Places
<1> QED
  BY <1>1, <1>2 DEF NotStarted, RunState

LEMMA LeftTyped ==
  ASSUME NEW t \in Tokens, run[t] \in RunState, NEW pc \in Places
  PROVE  /\ Left(t, pc) \in RunState
         /\ Left(t, pc).pc = pc /\ Left(t, pc).id = run[t].id
         /\ Left(t, pc).session = run[t].session /\ Left(t, pc).then = "turn"
         /\ Left(t, pc).turn = 0 /\ Left(t, pc).canceled = run[t].canceled
<1>1. /\ run[t].id \in RunIds \cup {None} /\ run[t].session \in Sessions \cup {None}
      /\ run[t].canceled \in BOOLEAN
  BY DEF RunState
<1>2. ASSUME NEW n \in RunState, NEW id \in RunIds \cup {None},
             NEW s \in Sessions \cup {None}, NEW c \in BOOLEAN
      PROVE  [n EXCEPT !.pc = pc, !.id = id, !.session = s, !.canceled = c] \in RunState
  BY DEF RunState
<1>3. Left(t, pc) \in RunState
  BY <1>1, <1>2, NotStartedTyped DEF Left
<1> QED
  BY <1>3 DEF Left, NotStarted

\* The loop is left for the end of the run.
LEMMA LeftAdvances ==
  ASSUME NEW t \in Tokens, RunOK(run[t]), run[t].pc \in Held
  PROVE  Advances(run[t], Left(t, "end"))
<1>1. "end" \in Places /\ "off" \notin Held
  BY DEF Places, Held, Loop
<1>2. run[t] \in RunState /\ run[t].session \in Sessions
  BY <1>1 DEF RunOK
<1>3. RunOK(Left(t, "end"))
  BY <1>1, <1>2, LeftTyped DEF RunOK
<1>4. "end" \notin Loop
  BY DEF Loop
<1> QED
  BY <1>1, <1>2, <1>3, <1>4, LeftTyped DEF Advances

LEMMA StaleTyped ==
  ASSUME StoreTyped, NEW s, NEW t
  PROVE  /\ Stale(s, t) \in [Tokens -> {"none", "current", "bypassed", "stale"}]
         /\ Bypassed(s) \in [Tokens -> {"none", "current", "bypassed", "stale"}]
BY DEF Stale, Bypassed, StoreTyped

LEMMA MarkedTyped ==
  ASSUME StoreTyped, NEW t \in Tokens, NEW phase \in Phases \cup {"stopped"}, Marked(t, phase)
  PROVE  resume' \in [Sessions -> Record]
<1>1. t \in 0 .. MaxRuns
  BY BoundsAreNumbers DEF Tokens
<1>2. [phase |-> phase, run |-> t] \in Record
  BY <1>1 DEF Record
<1> QED
  BY <1>2 DEF Marked, StoreTyped

-----------------------------------------------------------------------------
(* The steps of the loop. *)

\* Which steps leave the store's types alone, and how the copies may change.
Advanced(t) ==
  /\ \E n : run' = [run EXCEPT ![t] = n] /\ Advances(run[t], n)
  /\ UNCHANGED <<lockVars, Registry, Others>>
  /\ resume' \in [Sessions -> Record]
  /\ \/ copy' = copy /\ (run[t].pc # "load" \/ run'[t].pc = "end")
     \/ copy' = Stale(run[t].session, t) /\ run[t].pc # "load"
     \/ copy' = [copy EXCEPT ![t] = "current"] /\ run[t].pc = "load"

LEMMA LoopPlaces ==
  /\ Loop \subseteq Places /\ Loop \subseteq Held /\ Held \subseteq Places
  /\ "end" \in Places /\ "end" \notin Held /\ "off" \notin Held
  /\ Failing \subseteq Held /\ "load" \notin Loop /\ "load" \in Held
BY DEF Loop, Places, Held, Failing

LEMMA LoopNames ==
  {"resume", "begin", "mark", "turn", "attempt", "provider", "tools", "gate", "append"} \subseteq Loop
BY DEF Loop

\* To another place of the loop.
LEMMA ToAdvances ==
  ASSUME NEW r, RunOK(r), r.pc \in Held, NEW n \in RunState, n.pc \in Loop,
         n.id = r.id, n.session = r.session,
         n.then = "turn" \/ (n.pc = "mark" /\ n.turn < MaxTurns),
         n.pc \in {"attempt", "provider", "tools", "gate"} => n.turn < MaxTurns
  PROVE  Advances(r, n)
<1>1. r.session \in Sessions
  BY LoopPlaces DEF RunOK
<1>2. n.pc # "off"
  BY LoopPlaces
<1>3. RunOK(n)
  BY <1>1, <1>2 DEF RunOK
<1> QED
  BY <1>3, LoopPlaces DEF Advances, Held

LEMMA EnterAdvances ==
  ASSUME NEW t \in Tokens, RunOK(run[t]), run[t].pc \in Held,
         NEW state \in RunState, NEW phase \in Phases, NEW next \in {"attempt", "mark"},
         state.id = run[t].id, state.session = run[t].session, state.turn < MaxTurns \/ state.then = "turn",
         next = "attempt" => state.then = "turn" /\ state.turn < MaxTurns
  PROVE  Advances(run[t], Enter(t, state, phase, next))
<1> DEFINE n == [state EXCEPT !.phase = phase, !.pc = next]
<1>1. CASE Allowed(state.phase, phase)
  <2>1. next \in Places /\ next \in Loop
    BY LoopPlaces, LoopNames
  <2>2. n \in RunState
    BY <2>1 DEF RunState
  <2>3. n.pc = next /\ n.id = state.id /\ n.session = state.session
        /\ n.then = state.then /\ n.turn = state.turn
    BY DEF RunState
  <2>4. n.then = "turn" \/ (n.pc = "mark" /\ n.turn < MaxTurns)
    BY <2>3
  <2>5. n.pc \in {"attempt", "provider", "tools", "gate"} => n.turn < MaxTurns
    BY <2>3
  <2>6. Advances(run[t], n)
    BY <2>1, <2>2, <2>3, <2>4, <2>5, ToAdvances
  <2> QED
    BY <1>1, <2>6 DEF Enter
<1>2. CASE ~Allowed(state.phase, phase)
  BY <1>2, LeftAdvances DEF Enter
<1> QED
  BY <1>1, <1>2

LEMMA StepAdvances ==
  ASSUME RunsTyped, NEW t \in Tokens, NEW n, Step(t, n), Advances(run[t], n), UNCHANGED lockVars,
         resume' \in [Sessions -> Record],
         \/ copy' = copy /\ (run[t].pc # "load" \/ n.pc = "end")
         \/ copy' = Stale(run[t].session, t) /\ run[t].pc # "load"
         \/ copy' = [copy EXCEPT ![t] = "current"] /\ run[t].pc = "load"
  PROVE  Advanced(t)
<1>1. run' = [run EXCEPT ![t] = n] /\ UNCHANGED <<Registry, Others>>
  BY DEF Step
<1>2. run'[t] = n
  BY <1>1 DEF RunsTyped
<1> QED
  BY <1>1, <1>2 DEF Advanced

\* A run at work in its loop has typed fields; what it has not used up is bounded.
LEMMA RunFacts ==
  ASSUME RunsTyped, NEW t \in Tokens
  PROVE  /\ run[t] \in RunState /\ RunOK(run[t])
         /\ run[t].turn \in 0 .. MaxTurns /\ run[t].reactive \in 0 .. MaxReactive
         /\ run[t].continues \in 0 .. MaxContinues /\ run[t].phase \in Phases \cup {"none"}
         /\ run[t].override \in {"none", "plan", "verify"}
         /\ run[t].then \in {"turn", "tools", "gate"}
BY DEF RunsTyped, RunState

LEMMA ToFacts ==
  ASSUME RunsTyped, NEW t \in Tokens, NEW pc \in Places
  PROVE  /\ To(t, pc) \in RunState /\ To(t, pc).pc = pc
         /\ To(t, pc).id = run[t].id /\ To(t, pc).session = run[t].session
         /\ To(t, pc).then = run[t].then /\ To(t, pc).turn = run[t].turn
         /\ To(t, pc).reactive = run[t].reactive /\ To(t, pc).continues = run[t].continues
<1>1. run[t] \in RunState
  BY RunFacts
<1> QED
  BY <1>1, PcTyped DEF To

\* What is left of the turn's state when its attempts are over.
LEMMA AttemptedFacts ==
  ASSUME NEW t \in Tokens, run[t] \in RunState, NEW then \in {"turn", "tools", "gate"}
  PROVE  LET n == Attempted(t, then)
         IN /\ n \in RunState /\ n.then = then /\ n.id = run[t].id /\ n.session = run[t].session
            /\ n.turn = run[t].turn /\ n.canceled = run[t].canceled /\ n.phase = run[t].phase
            /\ n.override = run[t].override /\ n.lost = run[t].lost
<1> DEFINE m == [run[t] EXCEPT !.then = then]
<1>1. /\ m \in RunState /\ m.then = then /\ m.id = run[t].id /\ m.session = run[t].session
      /\ m.turn = run[t].turn /\ m.canceled = run[t].canceled /\ m.phase = run[t].phase
      /\ m.override = run[t].override /\ m.lost = run[t].lost
  BY DEF RunState
<1>2. Attempted(t, then) = [m EXCEPT !.compacted = FALSE]
  BY DEF Attempted
<1> HIDE DEF m
<1> QED
  BY <1>1, <1>2 DEF RunState

LEMMA SavedTyped ==
  ASSUME StoreTyped, NEW s, NEW t, Saved(s, t)
  PROVE  copy' = Stale(s, t) /\ resume' \in [Sessions -> Record]
BY DEF Saved, StoreTyped

LEMMA LoadAdvances ==
  ASSUME TypeInv, NEW t \in Tokens, Load(t)
  PROVE  Advanced(t)
<1>1. RunsTyped /\ StoreTyped
  BY DEF TypeInv
<1>2. run[t].pc = "load" /\ Step(t, To(t, "resume")) /\ UNCHANGED lockVars
      /\ copy' = [copy EXCEPT ![t] = "current"]
  BY DEF Load, Works, At
<1>3. resume' \in [Sessions -> Record]
  BY <1>1 DEF Load, StoreTyped
<1>4. Advances(run[t], To(t, "resume"))
  BY <1>1, <1>2, RunFacts, ToFacts, ToAdvances, LoopPlaces, LoopNames DEF RunOK
<1> QED
  BY <1>1, <1>2, <1>3, <1>4, StepAdvances

LEMMA ResumeAdvances ==
  ASSUME TypeInv, NEW t \in Tokens, Resume(t)
  PROVE  Advanced(t)
<1>1. RunsTyped /\ StoreTyped
  BY DEF TypeInv
<1>2. PICK x \in {"none", "plan", "verify"} :
        /\ run[t].pc = "resume" /\ UNCHANGED <<lockVars, copy, resume>>
        /\ Step(t, [To(t, "begin") EXCEPT !.override = x])
  BY DEF Resume, At, Override, Kept
<1> DEFINE n == [To(t, "begin") EXCEPT !.override = x]
<1>3. To(t, "begin") \in RunState /\ To(t, "begin").pc = "begin"
  BY <1>1, ToFacts, LoopPlaces, LoopNames
<1>4. n \in RunState
  BY <1>3 DEF RunState
<1>5. n.pc = "begin" /\ n.id = run[t].id /\ n.session = run[t].session /\ n.then = run[t].then
  BY <1>1, <1>3, ToFacts, LoopPlaces, LoopNames DEF RunState
<1>6. Advances(run[t], n)
  BY <1>1, <1>2, <1>4, <1>5, RunFacts, ToAdvances, LoopPlaces, LoopNames DEF RunOK
<1> QED
  BY <1>1, <1>2, <1>6, StepAdvances DEF StoreTyped

LEMMA BeginAdvances ==
  ASSUME TypeInv, NEW t \in Tokens, Begin(t)
  PROVE  Advanced(t)
<1>1. RunsTyped /\ StoreTyped
  BY DEF TypeInv
<1>2. run[t].pc = "begin" /\ Step(t, To(t, "mark")) /\ UNCHANGED lockVars
      /\ Saved(run[t].session, t)
  BY DEF Begin, Works, At
<1>3. Advances(run[t], To(t, "mark"))
  BY <1>1, <1>2, RunFacts, ToFacts, ToAdvances, LoopPlaces, LoopNames DEF RunOK
<1> QED
  BY <1>1, <1>2, <1>3, SavedTyped, StepAdvances

LEMMA MarkAdvances ==
  ASSUME TypeInv, NEW t \in Tokens, Mark(t)
  PROVE  Advanced(t)
<1>1. RunsTyped /\ StoreTyped
  BY DEF TypeInv
<1> DEFINE m == [run[t] EXCEPT !.pc = run[t].then, !.then = "turn"]
<1>2. PICK l \in BOOLEAN :
        /\ run[t].pc = "mark" /\ UNCHANGED <<lockVars, copy>>
        /\ resume' = resume \/ \E p \in Phases : Marked(t, p)
        /\ Step(t, [m EXCEPT !.lost = l])
  BY <1>1, RunFacts DEF Mark, At, Phases
<1> DEFINE n == [m EXCEPT !.lost = l]
<1>3. run[t].then \in Places /\ run[t].then \in Loop
  BY <1>1, RunFacts, LoopPlaces, LoopNames
<1>4. m \in RunState /\ m.pc = run[t].then /\ m.id = run[t].id /\ m.session = run[t].session
      /\ m.then = "turn" /\ m.turn = run[t].turn
  BY <1>1, <1>3, RunFacts DEF RunState
<1> HIDE DEF m
<1>5. n \in RunState /\ n.pc = run[t].then /\ n.id = run[t].id /\ n.session = run[t].session
      /\ n.then = "turn" /\ n.turn = run[t].turn
  BY <1>4 DEF RunState
<1>6. run[t].then # "turn" => run[t].turn < MaxTurns
  BY <1>1, <1>2, RunFacts DEF RunOK
<1>7. run[t].pc \in Held
  BY <1>2, LoopPlaces, LoopNames
<1>8. Advances(run[t], n)
  BY <1>1, <1>3, <1>5, <1>6, <1>7, RunFacts, ToAdvances
<1>9. resume' \in [Sessions -> Record]
  BY <1>1, <1>2, MarkedTyped DEF StoreTyped
<1> QED
  BY <1>1, <1>2, <1>8, <1>9, StepAdvances

LEMMA TurnAdvances ==
  ASSUME TypeInv, NEW t \in Tokens, Turn(t)
  PROVE  Advanced(t)
<1> DEFINE state == [run[t] EXCEPT !.override = "none"]
<1> DEFINE phase == TurnPhase(run[t])
<1> DEFINE n == IF run[t].turn >= MaxTurns
                THEN Left(t, "end")
                ELSE Enter(t, Bootstrapped(state, phase), phase, "attempt")
<1>1. RunsTyped /\ StoreTyped
  BY DEF TypeInv
<1>2. run[t].pc = "turn" /\ Step(t, n) /\ UNCHANGED <<lockVars, copy, resume>>
  BY DEF Turn, At, Kept
<1>3. run[t].pc \in Held /\ RunOK(run[t]) /\ run[t].then = "turn"
  BY <1>1, <1>2, RunFacts, LoopPlaces, LoopNames DEF RunOK
<1>4. phase \in Phases
  BY <1>1, RunFacts DEF TurnPhase, Phases
<1>5. Advances(run[t], n)
  <2>1. CASE run[t].turn >= MaxTurns
    BY <2>1, <1>3, LeftAdvances
  <2>2. CASE ~(run[t].turn >= MaxTurns)
    <3>1. run[t].turn < MaxTurns
      BY <2>2, <1>1, RunFacts, BoundsAreNumbers
    <3>2. state \in RunState /\ state.id = run[t].id /\ state.session = run[t].session
          /\ state.turn = run[t].turn /\ state.then = run[t].then
      BY <1>1, RunFacts DEF RunState
    <3>3. [state EXCEPT !.phase = "plan"] \in RunState
      BY <3>2 DEF RunState, Phases
    <3>4. /\ Bootstrapped(state, phase) \in RunState
          /\ Bootstrapped(state, phase).id = run[t].id
          /\ Bootstrapped(state, phase).session = run[t].session
          /\ Bootstrapped(state, phase).turn = run[t].turn
          /\ Bootstrapped(state, phase).then = run[t].then
      <4>1. CASE state.phase = "none" /\ phase = "verify"
        <5>1. Bootstrapped(state, phase) = [state EXCEPT !.phase = "plan"]
          BY <4>1 DEF Bootstrapped
        <5>2. /\ [state EXCEPT !.phase = "plan"].id = state.id
              /\ [state EXCEPT !.phase = "plan"].session = state.session
              /\ [state EXCEPT !.phase = "plan"].turn = state.turn
              /\ [state EXCEPT !.phase = "plan"].then = state.then
          BY <3>2 DEF RunState
        <5> QED
          BY <5>1, <5>2, <3>2, <3>3
      <4>2. CASE ~(state.phase = "none" /\ phase = "verify")
        BY <4>2, <3>2 DEF Bootstrapped
      <4> QED
        BY <4>1, <4>2
    <3>5. Advances(run[t], Enter(t, Bootstrapped(state, phase), phase, "attempt"))
      BY <3>1, <3>4, <1>3, <1>4, EnterAdvances
    <3> QED
      BY <2>2, <3>5
  <2> QED
    BY <2>1, <2>2
<1>6. resume' \in [Sessions -> Record]
  BY <1>1, <1>2 DEF StoreTyped
<1> QED
  BY <1>1, <1>2, <1>5, <1>6, StepAdvances

LEMMA MoveAdvances ==
  ASSUME TypeInv, NEW t \in Tokens, Allow(t) \/ Accept(t)
  PROVE  Advanced(t)
<1>1. RunsTyped /\ StoreTyped
  BY DEF TypeInv
<1>2. PICK p \in {"provider", "append"} :
        /\ run[t].pc = IF p = "provider" THEN "attempt" ELSE "gate"
        /\ Step(t, To(t, p)) /\ UNCHANGED <<lockVars, copy, resume>>
  BY DEF Allow, Accept, Works, At, Kept
<1>3. Advances(run[t], To(t, p))
  BY <1>1, <1>2, RunFacts, ToFacts, ToAdvances, LoopPlaces, LoopNames DEF RunOK
<1>4. resume' \in [Sessions -> Record]
  BY <1>1, <1>2 DEF StoreTyped
<1> QED
  BY <1>1, <1>2, <1>3, <1>4, StepAdvances

LEMMA CompactFirstAdvances ==
  ASSUME TypeInv, NEW t \in Tokens, CompactFirst(t)
  PROVE  Advanced(t)
<1> DEFINE n == [run[t] EXCEPT !.compacted = TRUE]
<1>1. RunsTyped /\ StoreTyped
  BY DEF TypeInv
<1>2. /\ run[t].pc = "attempt" /\ Step(t, n) /\ UNCHANGED lockVars
      /\ Saved(run[t].session, t) \/ UNCHANGED <<copy, resume>>
  BY DEF CompactFirst, Works, At, Kept
<1>3. n \in RunState /\ n.pc = run[t].pc /\ n.id = run[t].id /\ n.session = run[t].session
      /\ n.then = run[t].then /\ n.turn = run[t].turn
  BY <1>1, RunFacts DEF RunState
<1>4. run[t].pc \in Held /\ RunOK(run[t]) /\ run[t].turn < MaxTurns /\ run[t].then = "turn"
  BY <1>1, <1>2, RunFacts, LoopPlaces, LoopNames DEF RunOK
<1>5. Advances(run[t], n)
  BY <1>2, <1>3, <1>4, ToAdvances, LoopNames
<1>6. resume' \in [Sessions -> Record] /\ (copy' = copy \/ copy' = Stale(run[t].session, t))
  BY <1>1, <1>2, SavedTyped DEF StoreTyped
<1> QED
  BY <1>1, <1>2, <1>5, <1>6, StepAdvances

LEMMA CompactReactiveAdvances ==
  ASSUME TypeInv, NEW t \in Tokens, CompactReactive(t)
  PROVE  Advanced(t)
<1> DEFINE next == [To(t, "attempt") EXCEPT !.reactive = @ + 1]
<1> DEFINE again == [next EXCEPT !.compacted = TRUE]
<1>1. RunsTyped /\ StoreTyped
  BY DEF TypeInv
<1>2. /\ run[t].pc = "provider" /\ run[t].reactive < MaxReactive /\ UNCHANGED lockVars
      /\ \/ Step(t, again) /\ Saved(run[t].session, t)
         \/ Step(t, next) /\ UNCHANGED <<copy, resume>>
  BY DEF CompactReactive, Works, At, Kept
<1>3. run[t].reactive + 1 \in 0 .. MaxReactive
  BY <1>1, <1>2, RunFacts, BoundsAreNumbers
<1>4. To(t, "attempt") \in RunState /\ To(t, "attempt").pc = "attempt"
      /\ To(t, "attempt").id = run[t].id /\ To(t, "attempt").session = run[t].session
      /\ To(t, "attempt").then = run[t].then /\ To(t, "attempt").turn = run[t].turn
      /\ To(t, "attempt").reactive = run[t].reactive
  BY <1>1, ToFacts, LoopPlaces, LoopNames
<1>5. next \in RunState
  BY <1>3, <1>4 DEF RunState
<1>6. next.pc = "attempt" /\ next.id = run[t].id /\ next.session = run[t].session
      /\ next.then = run[t].then /\ next.turn = run[t].turn
  BY <1>4 DEF RunState
<1>7. again \in RunState /\ again.pc = next.pc /\ again.id = next.id
      /\ again.session = next.session /\ again.then = next.then /\ again.turn = next.turn
  BY <1>5 DEF RunState
<1>8. run[t].pc \in Held /\ RunOK(run[t]) /\ run[t].then = "turn" /\ run[t].turn < MaxTurns
  BY <1>1, <1>2, RunFacts, LoopPlaces, LoopNames DEF RunOK
<1>9. Advances(run[t], next) /\ Advances(run[t], again)
  BY <1>5, <1>6, <1>7, <1>8, ToAdvances, LoopNames
<1>10. resume' \in [Sessions -> Record] /\ (copy' = copy \/ copy' = Stale(run[t].session, t))
  BY <1>1, <1>2, SavedTyped DEF StoreTyped
<1> QED
  BY <1>1, <1>2, <1>9, <1>10, StepAdvances

\* The model calls tools, or gives an answer the gate has to see.
LEMMA AnswerAdvances ==
  ASSUME TypeInv, NEW t \in Tokens, CallTools(t) \/ Answer(t)
  PROVE  Advanced(t)
<1>1. RunsTyped /\ StoreTyped
  BY DEF TypeInv
<1>2. PICK then \in {"tools", "gate"}, phase \in Phases :
        /\ run[t].pc = "provider" /\ UNCHANGED lockVars
        /\ Step(t, Enter(t, Attempted(t, then), phase, "mark"))
        /\ Saved(run[t].session, t) \/ UNCHANGED <<copy, resume>>
  BY DEF CallTools, Answer, Works, At, Phases, Kept
<1> DEFINE state == Attempted(t, then)
<1>3. state \in RunState /\ state.id = run[t].id /\ state.session = run[t].session
      /\ state.turn = run[t].turn
  BY <1>1, RunFacts, AttemptedFacts
<1>4. run[t].pc \in Held /\ RunOK(run[t]) /\ run[t].turn < MaxTurns
  BY <1>1, <1>2, RunFacts, LoopPlaces, LoopNames DEF RunOK
<1>5. Advances(run[t], Enter(t, state, phase, "mark"))
  BY <1>3, <1>4, EnterAdvances
<1>6. resume' \in [Sessions -> Record] /\ (copy' = copy \/ copy' = Stale(run[t].session, t))
  BY <1>1, <1>2, SavedTyped DEF StoreTyped
<1> QED
  BY <1>1, <1>2, <1>5, <1>6, StepAdvances

LEMMA ToolsDoneAdvances ==
  ASSUME TypeInv, NEW t \in Tokens, ToolsDone(t)
  PROVE  Advanced(t)
<1> DEFINE state == [run[t] EXCEPT !.turn = @ + 1]
<1>1. RunsTyped /\ StoreTyped
  BY DEF TypeInv
<1>2. /\ run[t].pc = "tools" /\ UNCHANGED lockVars /\ Saved(run[t].session, t)
      /\ Step(t, Enter(t, state, "verify", "mark")) \/ Step(t, Left(t, "end"))
  BY DEF ToolsDone, Works, At
<1>3. run[t].pc \in Held /\ RunOK(run[t]) /\ run[t].turn < MaxTurns /\ run[t].then = "turn"
  BY <1>1, <1>2, RunFacts, LoopPlaces, LoopNames DEF RunOK
<1>4. run[t].turn + 1 \in 0 .. MaxTurns
  BY <1>1, <1>3, RunFacts, BoundsAreNumbers
<1>5. state \in RunState /\ state.id = run[t].id /\ state.session = run[t].session
      /\ state.then = run[t].then
  BY <1>1, <1>4, RunFacts DEF RunState
<1>6. Advances(run[t], Enter(t, state, "verify", "mark"))
  BY <1>3, <1>5, EnterAdvances DEF Phases
<1>7. Advances(run[t], Left(t, "end"))
  BY <1>3, LeftAdvances
<1> QED
  BY <1>1, <1>2, <1>6, <1>7, SavedTyped, StepAdvances

LEMMA ContinueAdvances ==
  ASSUME TypeInv, NEW t \in Tokens, Continue(t)
  PROVE  Advanced(t)
<1> DEFINE n == [To(t, "turn") EXCEPT !.continues = @ + 1, !.turn = @ + 1]
<1>1. RunsTyped /\ StoreTyped
  BY DEF TypeInv
<1>2. /\ run[t].pc = "gate" /\ run[t].continues < MaxContinues
      /\ Step(t, n) /\ UNCHANGED <<lockVars, copy, resume>>
  BY DEF Continue, At, Kept
<1>3. run[t].pc \in Held /\ RunOK(run[t]) /\ run[t].turn < MaxTurns /\ run[t].then = "turn"
  BY <1>1, <1>2, RunFacts, LoopPlaces, LoopNames DEF RunOK
<1>4. run[t].turn + 1 \in 0 .. MaxTurns /\ run[t].continues + 1 \in 0 .. MaxContinues
  BY <1>1, <1>2, <1>3, RunFacts, BoundsAreNumbers
<1>5. To(t, "turn") \in RunState /\ To(t, "turn").pc = "turn"
      /\ To(t, "turn").id = run[t].id /\ To(t, "turn").session = run[t].session
      /\ To(t, "turn").then = run[t].then /\ To(t, "turn").turn = run[t].turn
      /\ To(t, "turn").continues = run[t].continues
  BY <1>1, ToFacts, LoopPlaces, LoopNames
<1>6. n \in RunState
  BY <1>4, <1>5 DEF RunState
<1>7. n.pc = "turn" /\ n.id = run[t].id /\ n.session = run[t].session /\ n.then = run[t].then
  BY <1>5 DEF RunState
<1>8. Advances(run[t], n)
  BY <1>3, <1>6, <1>7, ToAdvances, LoopNames
<1>9. resume' \in [Sessions -> Record]
  BY <1>1, <1>2 DEF StoreTyped
<1> QED
  BY <1>1, <1>2, <1>8, <1>9, StepAdvances

\* The loop is left: with an error, an answer, or because the budget is used up.
LEMMA LeavingAdvances ==
  ASSUME TypeInv, NEW t \in Tokens, OverBudget(t) \/ PlanAnswer(t) \/ AppendAnswer(t) \/ Fail(t)
  PROVE  Advanced(t)
<1>1. RunsTyped /\ StoreTyped
  BY DEF TypeInv
<1>2. /\ run[t].pc \in Held /\ Step(t, Left(t, "end")) /\ UNCHANGED lockVars
      /\ \/ Saved(run[t].session, t) /\ run[t].pc # "load"
         \/ UNCHANGED <<copy, resume>>
  BY LoopPlaces, LoopNames DEF OverBudget, PlanAnswer, AppendAnswer, Fail, Works, At, Kept
<1>3. Advances(run[t], Left(t, "end"))
  BY <1>1, <1>2, RunFacts, LeftAdvances
<1>4. "end" \in Places /\ run[t] \in RunState
  BY <1>1, RunFacts, LoopPlaces
<1>5. Left(t, "end").pc = "end"
  BY <1>4, LeftTyped
<1>6. resume' \in [Sessions -> Record]
      /\ (copy' = copy \/ (copy' = Stale(run[t].session, t) /\ run[t].pc # "load"))
  BY <1>1, <1>2, SavedTyped DEF StoreTyped
<1> QED
  BY <1>1, <1>2, <1>3, <1>5, <1>6, StepAdvances

LEMMA LoopAdvances ==
  ASSUME TypeInv, NEW t \in Tokens, LoopStep(t)
  PROVE  Advanced(t)
BY LoadAdvances, ResumeAdvances, BeginAdvances, MarkAdvances, TurnAdvances, MoveAdvances,
   CompactFirstAdvances, CompactReactiveAdvances, AnswerAdvances, ToolsDoneAdvances,
   ContinueAdvances, LeavingAdvances
   DEF LoopStep

-----------------------------------------------------------------------------
(* The other steps keep the types. *)

Same(r, n) == n.id = r.id /\ n.session = r.session

\* The run keeps all but its place, the flag of its context and that of its record.
KeepsRest(r, n) ==
  n.session = r.session /\ n.phase = r.phase /\ n.override = r.override /\ n.then = r.then

LEMMA UserFacts ==
  /\ Tokens \subseteq Users /\ Ops \subseteq Users
  /\ \A o \in Ops : o \notin Tokens
BY UsersAreRunsAndOps

LEMMA OneRunTyped ==
  ASSUME RunsTyped, NEW t \in Tokens, NEW n, RunOK(n), run' = [run EXCEPT ![t] = n]
  PROVE  RunsTyped' /\ run'[t] = n /\ \A u \in Tokens \ {t} : run'[u] = run[u]
<1>1. n \in RunState
  BY DEF RunOK
<1>2. run' \in [Tokens -> RunState]
  BY <1>1 DEF RunsTyped
<1>3. \A u \in Tokens : run'[u] = IF u = t THEN n ELSE run[u]
  BY DEF RunsTyped
<1>4. \A u \in Tokens : RunOK(run'[u])
  BY <1>3 DEF RunsTyped
<1> QED
  BY <1>2, <1>3, <1>4 DEF RunsTyped, RunOK

\* A step that leaves the registry alone, and no run unstarted.
LEMMA RegistryStaysTyped ==
  ASSUME RegistryTyped, UNCHANGED Registry,
         op' \in [Ops -> {"none", "asked", "done"}],
         \A u \in Tokens : run'[u].pc = "off" <=> run[u].pc = "off"
  PROVE  RegistryTyped'
BY DEF RegistryTyped, Registry

\* A run that has started goes on to another place.
LEMMA ToTyped ==
  ASSUME RunsTyped, NEW t \in Tokens, run[t].pc \notin {"off", "mark"},
         NEW pc \in {"load", "finish", "closing", "done"}
  PROVE  RunOK(To(t, pc)) /\ To(t, pc).pc = pc /\ Same(run[t], To(t, pc))
<1>1. pc \in Places /\ pc \notin {"mark", "attempt", "provider", "tools", "gate", "off"}
  BY DEF Places
<1>2. RunOK(run[t])
  BY RunFacts
<1> QED
  BY <1>1, <1>2, ToFacts DEF RunOK, Same

LEMMA AdvancedTyped ==
  ASSUME TypeInv, NEW t \in Tokens, Advanced(t)
  PROVE  TypeInv'
<1>1. LocksInv /\ RunsTyped /\ StoreTyped /\ RegistryTyped
  BY DEF TypeInv
<1>2. PICK n : run' = [run EXCEPT ![t] = n] /\ Advances(run[t], n)
  BY DEF Advanced
<1>3. UNCHANGED <<lockVars, Registry, Others>> /\ resume' \in [Sessions -> Record]
  BY DEF Advanced
<1>4. LocksInv'
  BY <1>1, <1>3, LocksStepKeeps DEF LocksStep
<1>5. RunsTyped' /\ run'[t] = n /\ \A u \in Tokens \ {t} : run'[u] = run[u]
  BY <1>1, <1>2, OneRunTyped DEF Advances
<1>6. copy' \in [Tokens -> {"none", "current", "bypassed", "stale"}]
  BY <1>1, StaleTyped DEF Advanced, StoreTyped
<1>7. StoreTyped'
  BY <1>1, <1>3, <1>6 DEF StoreTyped, Others
<1>8. run[t].pc # "off" /\ n.pc # "off"
  BY <1>2, LoopPlaces DEF Advances
<1>9. RegistryTyped'
  BY <1>1, <1>3, <1>5, <1>8, RegistryStaysTyped DEF Others, RegistryTyped
<1> QED
  BY <1>4, <1>5, <1>7, <1>9 DEF TypeInv

LEMMA StartTyped ==
  ASSUME TypeInv, NEW id \in RunIds, NEW s \in Sessions, StartRun(id, s)
  PROVE  /\ TypeInv'
         /\ run[started + 1] = NotStarted /\ run'[started + 1].id = id
         /\ run'[started + 1].pc = "init" /\ run'[started + 1].session = s
         /\ \A u \in Tokens \ {started + 1} : run'[u] = run[u]
<1>1. LocksInv /\ RunsTyped /\ StoreTyped /\ RegistryTyped
  BY DEF TypeInv
<1>2. PICK t \in Tokens :
        /\ t = started + 1 /\ started' = t /\ newest' = t /\ active' = active \cup {t}
        /\ byID' = IF id = None THEN byID ELSE [byID EXCEPT ![id] = t]
        /\ run' = [run EXCEPT ![t] = [run[t] EXCEPT !.pc = "init", !.id = id, !.session = s]]
        /\ UNCHANGED <<lockVars, Stored, op>>
  BY DEF StartRun
<1> DEFINE n == [run[t] EXCEPT !.pc = "init", !.id = id, !.session = s]
<1>3. run[t] = NotStarted
  <2>1. t > started
    BY <1>1, <1>2 DEF RegistryTyped
  <2> QED
    BY <1>1, <2>1, RunFacts DEF RegistryTyped, RunOK
<1>4. n \in RunState /\ n.pc = "init" /\ n.id = id /\ n.session = s /\ n.then = "turn"
  <2>1. "init" \in Places
    BY DEF Places
  <2>2. run[t] \in RunState /\ run[t].then = "turn"
    BY <1>3, NotStartedTyped DEF NotStarted
  <2> QED
    BY <2>1, <2>2 DEF RunState
<1>5. RunOK(n)
  BY <1>4 DEF RunOK
<1>6. RunsTyped' /\ run'[t] = n /\ \A u \in Tokens \ {t} : run'[u] = run[u]
  BY <1>1, <1>2, <1>5, OneRunTyped
<1>7. RegistryTyped'
  <2>1. started' \in 0 .. MaxRuns /\ newest' \in 0 .. MaxRuns /\ active' \subseteq 1 .. started'
    BY <1>1, <1>2, BoundsAreNumbers DEF RegistryTyped, Tokens
  <2>2. \A u \in Tokens : run'[u].pc = "off" <=> u > started'
    <3>1. \A u \in Tokens : u \in Int /\ started \in Int
      BY <1>1, BoundsAreNumbers DEF RegistryTyped, Tokens
    <3>2. \A u \in Tokens : run[u].pc = "off" <=> u > started
      BY <1>1 DEF RegistryTyped
    <3>3. run'[t].pc # "off" /\ ~(t > started')
      <4>1. run'[t].pc # "off"
        BY <1>4, <1>6
      <4>2. started' = t /\ t \in Int
        BY <1>2, <3>1
      <4>3. ~(t > started')
        BY <4>2
      <4> QED
        BY <4>1, <4>3
    <3>4. ASSUME NEW u \in Tokens \ {t}
          PROVE  run'[u].pc = "off" <=> u > started'
      <4>1. run'[u].pc = "off" <=> u > started
        BY <1>6, <3>2
      <4>2. u > started <=> u > started + 1
        BY <3>1, <1>2
      <4> QED
        BY <4>1, <4>2, <1>2
    <3> QED
      BY <3>3, <3>4
  <2>3. ASSUME NEW ts \in SUBSET (1 .. started'), ts # {}
        PROVE  \E m \in ts : \A u \in ts : u <= m
    <3>1. CASE t \in ts
      BY <3>1, <1>1, <1>2 DEF RegistryTyped
    <3>2. CASE t \notin ts
      <4>1. ts \in SUBSET (1 .. started)
        BY <3>2, <1>1, <1>2 DEF RegistryTyped
      <4> QED
        BY <4>1, <2>3, <1>1 DEF RegistryTyped
    <3> QED
      BY <3>1, <3>2
  <2>4. byID' \in [RunIds \ {None} -> 0 .. MaxRuns]
    BY <1>1, <1>2, <2>1 DEF RegistryTyped
  <2>5. op' \in [Ops -> {"none", "asked", "done"}]
    BY <1>1, <1>2 DEF RegistryTyped
  <2> QED
    BY <2>1, <2>2, <2>3, <2>4, <2>5 DEF RegistryTyped
<1>8. LocksInv' /\ StoreTyped'
  BY <1>1, <1>2, LocksStepKeeps DEF LocksStep, StoreTyped, Stored
<1> QED
  BY <1>2, <1>3, <1>4, <1>6, <1>7, <1>8 DEF TypeInv

LEMMA CanceledTyped ==
  ASSUME TypeInv, NEW t, Canceled(t)
  PROVE  /\ TypeInv' /\ t \in Tokens /\ run[t].pc # "off"
         /\ Same(run[t], run'[t]) /\ run'[t].pc = run[t].pc
         /\ \A u \in Tokens \ {t} : run'[u] = run[u]
<1> DEFINE n == [run[t] EXCEPT !.canceled = TRUE]
<1>1. LocksInv /\ RunsTyped /\ StoreTyped /\ RegistryTyped
  BY DEF TypeInv
<1>2. t \in 1 .. started /\ run' = [run EXCEPT ![t] = n]
      /\ UNCHANGED <<lockVars, Registry, Stored, op>>
  BY <1>1 DEF Canceled, RegistryTyped
<1>3. t \in Tokens /\ ~(t > started)
  BY <1>1, <1>2, BoundsAreNumbers DEF RegistryTyped, Tokens
<1>4. run[t].pc # "off" /\ RunOK(run[t]) /\ run[t] \in RunState
  BY <1>1, <1>3, RunFacts DEF RegistryTyped
<1>5. n \in RunState /\ n.pc = run[t].pc /\ Same(run[t], n) /\ n.then = run[t].then
      /\ n.turn = run[t].turn
  BY <1>4 DEF RunState, Same
<1>6. RunOK(n)
  BY <1>4, <1>5 DEF RunOK, Same
<1>7. RunsTyped' /\ run'[t] = n /\ \A u \in Tokens \ {t} : run'[u] = run[u]
  BY <1>1, <1>2, <1>3, <1>6, OneRunTyped
<1>8. LocksInv' /\ StoreTyped' /\ op' \in [Ops -> {"none", "asked", "done"}]
  BY <1>1, <1>2, LocksStepKeeps DEF LocksStep, StoreTyped, Stored, RegistryTyped
<1>9. RegistryTyped'
  BY <1>1, <1>2, <1>3, <1>4, <1>5, <1>7, <1>8, RegistryStaysTyped
<1> QED
  BY <1>3, <1>4, <1>5, <1>7, <1>8, <1>9 DEF TypeInv

\* The steps that only touch the lock table.
LEMMA LockingTyped ==
  ASSUME TypeInv, LocksStep, UNCHANGED runVars
  PROVE  TypeInv'
<1>1. LocksInv /\ RunsTyped /\ StoreTyped /\ RegistryTyped
  BY DEF TypeInv
<1>2. LocksInv'
  BY <1>1, LocksStepKeeps
<1>3. RunsTyped' /\ StoreTyped' /\ RegistryTyped'
  BY <1>1 DEF runVars, RunsTyped, StoreTyped, RegistryTyped
<1> QED
  BY <1>2, <1>3 DEF TypeInv

\* The last record of a run that had a copy is written, or known to be lost.
Stops(t, n) ==
  /\ RunOK(n) /\ n.pc = "finish" /\ Same(run[t], n)
  /\ KeepsRest(run[t], n) /\ n.canceled = run[t].canceled
  /\ \/ Markable(t) /\ Marked(t, "stopped")
     \/ resume' = resume /\ (n.lost \/ copy[t] = "none")

LEMMA MarkStoppedStops ==
  ASSUME RunsTyped, NEW t \in Tokens, MarkStopped(t)
  PROVE  \E n : Step(t, n) /\ Stops(t, n)
<1>1. run[t].pc = "closing" /\ run[t] \in RunState /\ "finish" \in Places
  BY RunFacts DEF MarkStopped, Places
<1>2. RunOK(To(t, "finish")) /\ To(t, "finish").pc = "finish" /\ Same(run[t], To(t, "finish"))
  BY <1>1, ToTyped
<1>3. /\ To(t, "finish") \in RunState /\ KeepsRest(run[t], To(t, "finish"))
      /\ To(t, "finish").canceled = run[t].canceled
  BY <1>1, PcTyped DEF To, KeepsRest
<1>4. CASE Step(t, To(t, "finish")) /\ Markable(t) /\ Marked(t, "stopped")
  BY <1>2, <1>3, <1>4 DEF Stops
<1>5. CASE Step(t, [To(t, "finish") EXCEPT !.lost = copy[t] # "none"]) /\ resume' = resume
  <2> DEFINE l == copy[t] # "none"
             m == To(t, "finish")
             n == [m EXCEPT !.lost = l]
  <2>1. l \in BOOLEAN /\ m \in RunState
    BY <1>3
  <2>2. n \in RunState /\ n.lost = l /\ n.pc = m.pc /\ n.id = m.id /\ n.session = m.session
        /\ n.phase = m.phase /\ n.override = m.override /\ n.then = m.then /\ n.turn = m.turn
        /\ n.canceled = m.canceled
    <3> HIDE DEF l, m
    <3> QED
      BY <2>1 DEF RunState
  <2>3. Step(t, n)
    BY <1>5
  <2> HIDE DEF n, m
  <2>4. m.pc = "finish" /\ Same(run[t], m) /\ KeepsRest(run[t], m) /\ m.canceled = run[t].canceled
        /\ RunOK(m)
    BY <1>2, <1>3 DEF m
  <2>5. RunOK(n)
    BY <2>2, <2>4 DEF RunOK
  <2>6. Stops(t, n)
    BY <1>5, <2>2, <2>4, <2>5 DEF Stops, Same, KeepsRest
  <2> QED
    BY <2>3, <2>6
<1> QED
  BY <1>4, <1>5 DEF MarkStopped

\* The steps of a run before and after its loop.
Moved(t, pc) ==
  /\ run[t].pc \in {"init", "end", "closing"} /\ pc \in {"load", "finish", "closing"}
  /\ \E n : Step(t, n) /\ RunOK(n) /\ n.pc = pc /\ Same(run[t], n)
  /\ LocksStep
  /\ copy' = copy /\ resume' \in [Sessions -> Record]

LEMMA MovedTyped ==
  ASSUME TypeInv, NEW t \in Tokens, NEW pc, Moved(t, pc)
  PROVE  /\ TypeInv' /\ UNCHANGED Registry
         /\ Same(run[t], run'[t]) /\ run'[t].pc = pc
         /\ \A u \in Tokens \ {t} : run'[u] = run[u]
<1>1. LocksInv /\ RunsTyped /\ StoreTyped /\ RegistryTyped
  BY DEF TypeInv
<1>2. PICK n : /\ run' = [run EXCEPT ![t] = n] /\ UNCHANGED <<Registry, Others>>
               /\ RunOK(n) /\ n.pc = pc /\ Same(run[t], n)
  BY DEF Moved, Step
<1>4. RunsTyped' /\ run'[t] = n /\ \A u \in Tokens \ {t} : run'[u] = run[u]
  BY <1>1, <1>2, OneRunTyped
<1>5. LocksInv' /\ StoreTyped' /\ op' \in [Ops -> {"none", "asked", "done"}]
  BY <1>1, <1>2, LocksStepKeeps DEF Moved, StoreTyped, Others, RegistryTyped
<1>6. run[t].pc # "off" /\ pc # "off"
  BY DEF Moved
<1>7. RegistryTyped'
  BY <1>1, <1>2, <1>4, <1>5, <1>6, RegistryStaysTyped
<1> QED
  BY <1>2, <1>4, <1>5, <1>7 DEF TypeInv

\* The steps of the management operations, and of a tool that saves.
Changed ==
  /\ LocksStep /\ UNCHANGED <<Registry, run>>
  /\ StoreTyped' /\ op' \in [Ops -> {"none", "asked", "done"}]

LEMMA ChangedTyped ==
  ASSUME TypeInv, Changed
  PROVE  TypeInv'
<1>1. LocksInv /\ RunsTyped /\ RegistryTyped
  BY DEF TypeInv
<1>2. LocksInv' /\ RunsTyped'
  BY <1>1, LocksStepKeeps DEF Changed, RunsTyped
<1>3. RegistryTyped'
  BY <1>1, RegistryStaysTyped DEF Changed
<1> QED
  BY <1>2, <1>3 DEF TypeInv, Changed

LEMMA FinishTyped ==
  ASSUME TypeInv, NEW t \in Tokens, FinishRun(t)
  PROVE  /\ TypeInv'
         /\ Same(run[t], run'[t]) /\ run'[t].pc = "done"
         /\ \A u \in Tokens \ {t} : run'[u] = run[u]
<1> DEFINE n == To(t, "done")
<1>1. LocksInv /\ RunsTyped /\ StoreTyped /\ RegistryTyped
  BY DEF TypeInv
<1>2. /\ run[t].pc = "finish" /\ run' = [run EXCEPT ![t] = n]
      /\ active' = active \ {t} /\ byID' = Unregistered(t)
      /\ newest' = IF newest = t THEN Newest(active \ {t}) ELSE newest
      /\ copy' = [copy EXCEPT ![t] = "none"]
      /\ UNCHANGED <<lockVars, started, exists, resume, op>>
  BY DEF FinishRun, To
<1>3. RunOK(n) /\ n.pc = "done" /\ Same(run[t], n)
  BY <1>1, <1>2, ToTyped
<1>4. RunsTyped' /\ run'[t] = n /\ \A u \in Tokens \ {t} : run'[u] = run[u]
  BY <1>1, <1>2, <1>3, OneRunTyped
<1>5. LocksInv' /\ StoreTyped'
  BY <1>1, <1>2, LocksStepKeeps DEF LocksStep, StoreTyped
<1>6. Newest(active \ {t}) \in 0 .. MaxRuns
  <2>1. active \ {t} \in SUBSET (1 .. started) /\ started \in 0 .. MaxRuns
    BY <1>1 DEF RegistryTyped
  <2>2. active \ {t} # {} => Newest(active \ {t}) \in active \ {t}
    BY <1>1, <2>1 DEF Newest, RegistryTyped
  <2>3. active \ {t} = {} => Newest(active \ {t}) = 0
    BY DEF Newest
  <2>4. 1 .. started \subseteq 0 .. MaxRuns /\ 0 \in 0 .. MaxRuns
    BY <2>1, BoundsAreNumbers
  <2> QED
    BY <2>1, <2>2, <2>3, <2>4
<1>7. RegistryTyped'
  <2>1. byID' \in [RunIds \ {None} -> 0 .. MaxRuns]
    BY <1>1, <1>2, BoundsAreNumbers DEF Unregistered, RegistryTyped
  <2>2. \A u \in Tokens : run'[u].pc = "off" <=> run[u].pc = "off"
    BY <1>2, <1>3, <1>4
  <2> QED
    BY <2>1, <2>2, <1>1, <1>2, <1>6 DEF RegistryTyped
<1> QED
  BY <1>3, <1>4, <1>5, <1>7 DEF TypeInv

LEMMA CrashTyped ==
  ASSUME TypeInv, Crash
  PROVE  /\ TypeInv'
         /\ \A t \in Tokens : /\ run'[t].pc \in {"off", "done", "crashed"}
                              /\ run'[t].id = run[t].id
<1>1. LocksInv /\ RunsTyped /\ StoreTyped /\ RegistryTyped
  BY DEF TypeInv
<1> DEFINE next(t) == IF run[t].pc \in {"off", "done"} THEN run[t]
                      ELSE [Left(t, "crashed") EXCEPT !.canceled = FALSE]
<1>2. run' = [t \in Tokens |-> next(t)]
  BY DEF Crash
<1>3. ASSUME NEW t \in Tokens
      PROVE  /\ RunOK(next(t)) /\ next(t).pc \in {"off", "done", "crashed"}
             /\ next(t).id = run[t].id /\ (next(t).pc = "off" <=> run[t].pc = "off")
  <2>1. run[t] \in RunState /\ RunOK(run[t])
    BY <1>1, RunFacts
  <2>2. CASE run[t].pc \in {"off", "done"}
    BY <2>1, <2>2
  <2>3. CASE run[t].pc \notin {"off", "done"}
    <3> DEFINE l == Left(t, "crashed")
    <3> DEFINE n == [l EXCEPT !.canceled = FALSE]
    <3>1. "crashed" \in Places
      BY DEF Places
    <3>2. /\ l \in RunState /\ l.pc = "crashed" /\ l.id = run[t].id
          /\ l.session = run[t].session /\ l.then = "turn"
      BY <2>1, <3>1, LeftTyped
    <3>3. n \in RunState /\ n.pc = l.pc /\ n.id = l.id /\ n.session = l.session /\ n.then = l.then
      BY <3>2 DEF RunState
    <3>4. RunOK(n)
      BY <2>1, <2>3, <3>2, <3>3 DEF RunOK
    <3>5. next(t) = n
      BY <2>3
    <3> QED
      BY <2>3, <3>2, <3>3, <3>4, <3>5
  <2> QED
    BY <2>2, <2>3
<1>4. run' \in [Tokens -> RunState]
  BY <1>2, <1>3 DEF RunOK
<1>5. \A t \in Tokens : run'[t] = next(t)
  BY <1>2
<1>6. RunsTyped'
  BY <1>3, <1>4, <1>5 DEF RunsTyped, RunOK
<1>7. LocksInv'
  BY <1>1, LocksStepKeeps DEF LocksStep, Crash
<1>8. StoreTyped'
  BY <1>1 DEF Crash, StoreTyped
<1>9. \A t \in Tokens : run'[t].pc = "off" <=> run[t].pc = "off"
  BY <1>3, <1>5
<1>10. RegistryTyped'
  <2>1. started' = started /\ active' = {} /\ newest' = 0 /\ op' = [o \in Ops |-> "none"]
        /\ byID' = [i \in RunIds \ {None} |-> 0] /\ 0 \in 0 .. MaxRuns
    BY BoundsAreNumbers DEF Crash
  <2> QED
    BY <1>1, <1>9, <2>1 DEF RegistryTyped
<1> HIDE DEF next
<1>11. \A t \in Tokens : /\ run'[t].pc \in {"off", "done", "crashed"}
                          /\ run'[t].id = run[t].id
  BY <1>3, <1>5
<1> QED
  BY <1>6, <1>7, <1>8, <1>10, <1>11 DEF TypeInv

LEMMA InitTyped ==
  ASSUME Init
  PROVE  TypeInv
<1>1. LocksInv
  BY LocksInitially DEF Init
<1>2. \A t \in Tokens : run[t] = NotStarted
  BY DEF Init
<1>3. RunOK(NotStarted)
  BY NotStartedTyped DEF RunOK, NotStarted
<1>4. RunsTyped
  BY <1>2, <1>3, NotStartedTyped DEF Init, RunsTyped
<1>5. NoRecord \in Record
  BY BoundsAreNumbers DEF NoRecord, Record
<1>6. StoreTyped
  BY <1>5 DEF Init, StoreTyped
<1>7. \A t \in Tokens : run[t].pc = "off" /\ t > 0
  BY <1>2, BoundsAreNumbers DEF NotStarted, Tokens
<1>8. 1 .. 0 = {} /\ 0 \in 0 .. MaxRuns
  BY BoundsAreNumbers
<1>9. RegistryTyped
  BY <1>7, <1>8 DEF Init, RegistryTyped
<1> QED
  BY <1>1, <1>4, <1>6, <1>9 DEF TypeInv

\* The types state what they should.
LEMMA TypedIsTypeOK ==
  ASSUME TypeInv
  PROVE  TypeOK
<1>1. active \subseteq Tokens
  BY BoundsAreNumbers DEF TypeInv, RegistryTyped, Tokens
<1> QED
  BY <1>1 DEF TypeInv, TypeOK, LocksInv, RunsTyped, StoreTyped, RegistryTyped

-----------------------------------------------------------------------------
(* Every step is one of these. *)

Steps ==
  \/ LocksStep /\ UNCHANGED runVars
  \/ \E t \in Tokens : Advanced(t)
  \/ \E t \in Tokens, pc \in {"load", "finish", "closing"} : Moved(t, pc)
  \/ Changed
  \/ \E t \in Tokens : FinishRun(t)
  \/ \E t : Canceled(t)
  \/ \E id \in RunIds, s \in Sessions : StartRun(id, s)
  \/ Crash

LEMMA RunStepIsOne ==
  ASSUME TypeInv, NEW t \in Tokens, RunStep(t) \/ EnterSession(t) \/ ToolSaves(t)
  PROVE  Steps
<1>1. LocksInv /\ RunsTyped /\ StoreTyped /\ RegistryTyped /\ t \in Users
  BY UserFacts DEF TypeInv
<1>2. CASE WaitForSession(t)
  <2>1. run[t].session \in Sessions
    BY <1>1, <1>2, RunFacts DEF WaitForSession, RunOK
  <2>2. LocksStep /\ UNCHANGED runVars
    BY <1>1, <1>2, <2>1 DEF WaitForSession, LocksStep
  <2> QED
    BY <2>2 DEF Steps
<1>3. CASE FailEarly(t)
  <2>1. Moved(t, "finish")
    BY <1>1, <1>3, ToTyped DEF FailEarly, Moved, LocksStep, StoreTyped, Kept
  <2> QED
    BY <2>1 DEF Steps
<1>4. CASE LoopStep(t)
  BY <1>4, LoopAdvances DEF Steps
<1>5. CASE LeaveSession(t)
  <2>1. LocksStep /\ UNCHANGED runVars
    BY <1>1, <1>5 DEF LeaveSession, LocksStep
  <2> QED
    BY <2>1 DEF Steps
<1>6. CASE DropLock(t)
  <2>1. Moved(t, "closing")
    BY <1>1, <1>6, ToTyped DEF DropLock, Moved, LocksStep, StoreTyped, Kept
  <2> QED
    BY <2>1 DEF Steps
<1>7. CASE MarkStopped(t)
  <2>1. PICK n : Step(t, n) /\ Stops(t, n)
    BY <1>1, <1>7, MarkStoppedStops
  <2>2. resume' \in [Sessions -> Record]
    BY <1>1, <2>1, MarkedTyped DEF Stops, StoreTyped
  <2>3. run[t].pc = "closing" /\ copy' = copy /\ LocksStep
    BY <1>7 DEF MarkStopped, LocksStep
  <2>4. Moved(t, "finish")
    BY <2>1, <2>2, <2>3 DEF Moved, Stops
  <2> QED
    BY <2>4 DEF Steps
<1>8. CASE FinishRun(t)
  BY <1>8 DEF Steps
<1>9. CASE EnterSession(t)
  <2>1. Moved(t, "load")
    BY <1>1, <1>9, ToTyped DEF EnterSession, Moved, LocksStep, StoreTyped, Kept
  <2> QED
    BY <2>1 DEF Steps
<1>10. CASE ToolSaves(t)
  <2>1. Saved(run[t].session, t) /\ UNCHANGED <<lockVars, run, Registry, Others>>
    BY <1>10 DEF ToolSaves
  <2>2. Changed
    BY <1>1, <2>1, SavedTyped, StaleTyped DEF Changed, LocksStep, StoreTyped, Others, RegistryTyped
  <2> QED
    BY <2>2 DEF Steps
<1> QED
  BY <1>2, <1>3, <1>4, <1>5, <1>6, <1>7, <1>8, <1>9, <1>10 DEF RunStep

LEMMA EffectTyped ==
  ASSUME StoreTyped, NEW s \in Sessions, Effect(s)
  PROVE  /\ StoreTyped'
         /\ copy' = copy \/ copy' = Stale(s, 0)
<1>1. NoRecord \in Record
  BY BoundsAreNumbers DEF NoRecord, Record
<1>2. CASE UNCHANGED Stored
  BY <1>2 DEF Stored, StoreTyped
<1>3. CASE Edit(s)
  BY <1>3, StaleTyped DEF Edit, StoreTyped
<1>4. CASE Delete(s)
  BY <1>1, <1>4, StaleTyped DEF Delete, StoreTyped
<1> QED
  BY <1>2, <1>3, <1>4 DEF Effect

LEMMA OpStepIsOne ==
  ASSUME TypeInv, NEW o \in Ops,
         OpStep(o) \/ GetSession(o) \/ \E s \in Sessions : Request(o, s)
  PROVE  Steps
<1>1. LocksInv /\ RunsTyped /\ StoreTyped /\ RegistryTyped /\ o \in Users
  BY UserFacts DEF TypeInv
<1>2. CASE Apply(o)
  <2>1. place[o].session \in Sessions
    BY <1>1, <1>2, PlaceFacts DEF Apply, LocksInv, Idle
  <2>2. StoreTyped'
    BY <1>1, <1>2, <2>1, EffectTyped DEF Apply
  <2>3. Changed
    BY <1>1, <1>2, <2>2 DEF Apply, Changed, LocksStep, RegistryTyped
  <2> QED
    BY <2>3 DEF Steps
<1>3. CASE ReturnSession(o) \/ GetSession(o)
  <2>1. LocksStep /\ UNCHANGED runVars
    BY <1>1, <1>3 DEF ReturnSession, GetSession, LocksStep
  <2> QED
    BY <2>1 DEF Steps
<1>4. CASE EndRequest(o)
  <2>1. Changed
    BY <1>1, <1>4 DEF EndRequest, Changed, LocksStep, RegistryTyped, StoreTyped, Stored
  <2> QED
    BY <2>1 DEF Steps
<1>5. CASE \E s \in Sessions : Request(o, s)
  <2>1. Changed
    BY <1>1, <1>5 DEF Request, Changed, LocksStep, RegistryTyped, StoreTyped, Stored
  <2> QED
    BY <2>1 DEF Steps
<1> QED
  BY <1>2, <1>3, <1>4, <1>5 DEF OpStep

LEMMA NextIsOne ==
  ASSUME TypeInv, Next
  PROVE  Steps
<1>1. CASE \E id \in RunIds, s \in Sessions : StartRun(id, s)
  BY <1>1 DEF Steps
<1>2. CASE \/ \E id \in RunIds \ {None} : CancelRun(id)
           \/ CancelActiveRun
           \/ \E t \in Tokens : RequestEnds(t)
  <2>1. \E t : Canceled(t)
    BY <1>2 DEF CancelRun, CancelActiveRun, RequestEnds
  <2> QED
    BY <2>1 DEF Steps
<1>3. CASE \E t \in Tokens : RunStep(t) \/ EnterSession(t) \/ ToolSaves(t)
  BY <1>3, RunStepIsOne
<1>4. CASE \/ \E o \in Ops : OpStep(o) \/ GetSession(o)
           \/ \E o \in Ops, s \in Sessions : Request(o, s)
  BY <1>4, OpStepIsOne
<1>5. CASE \E s \in Sessions : CreateSession(s)
  <2>1. Changed
    BY <1>5 DEF CreateSession, Changed, LocksStep, TypeInv, StoreTyped, RegistryTyped, Kept
  <2> QED
    BY <2>1 DEF Steps
<1>6. CASE Crash
  BY <1>6 DEF Steps
<1>7. CASE \E s \in Sessions : WriteUnlocked(s)
  <2>1. StoreTyped /\ op \in [Ops -> {"none", "asked", "done"}]
    BY DEF TypeInv, RegistryTyped
  <2>2. PICK s \in Sessions : copy' = Bypassed(s)
                              /\ UNCHANGED <<lockVars, Registry, run, exists, resume, op>>
    BY <1>7 DEF WriteUnlocked
  <2>3. StoreTyped'
    BY <2>1, <2>2, StaleTyped DEF StoreTyped
  <2>4. Changed
    BY <2>1, <2>2, <2>3 DEF Changed, LocksStep
  <2> QED
    BY <2>4 DEF Steps
<1> QED
  BY <1>1, <1>2, <1>3, <1>4, <1>5, <1>6, <1>7 DEF Next, LockedNext

LEMMA NextTyped ==
  ASSUME TypeInv, [Next]_vars
  PROVE  TypeInv'
<1>1. CASE Next
  <2>1. Steps
    BY <1>1, NextIsOne
  <2>2. CASE Changed
    BY <2>2, ChangedTyped
  <2> QED
    BY <2>1, <2>2, LockingTyped, AdvancedTyped, MovedTyped, FinishTyped, CanceledTyped,
       StartTyped, CrashTyped DEF Steps
<1>2. CASE UNCHANGED vars
  BY <1>2, LockingTyped DEF vars, LocksStep
<1> QED
  BY <1>1, <1>2

\* The types of the locks, the runs, the store and the registry
\* (session_scheduler.go, run.go, checkpoint_resume.go).
THEOREM Typed == Spec => []TypeOK
<1>1. Init => TypeInv
  BY InitTyped
<1>2. TypeInv /\ [Next]_vars => TypeInv'
  BY NextTyped
<1>3. TypeInv => TypeOK
  BY TypedIsTypeOK
<1> QED
  BY <1>1, <1>2, <1>3, PTL DEF Spec

\* The entry a user of a session works with is the one of the table, its count
\* is the number of its users, and its holder is known (session_scheduler.go).
THEOREM ConsistentLocks == Spec => []LocksConsistent
<1>1. Init => TypeInv
  BY InitTyped
<1>2. TypeInv /\ [Next]_vars => TypeInv'
  BY NextTyped
<1>3. TypeInv => LocksConsistent
  BY DEF TypeInv, LocksInv
<1> QED
  BY <1>1, <1>2, <1>3, PTL DEF Spec

\* Entries come and go, and still a session has one run or operation at work
\* at a time (run.go, session_scheduler.go).
THEOREM Exclusive == Spec => []MutualExclusion
<1>1. Init => TypeInv
  BY InitTyped
<1>2. TypeInv /\ [Next]_vars => TypeInv'
  BY NextTyped
<1>3. TypeInv => MutualExclusion
  BY ConsistentIsExclusive DEF TypeInv
<1> QED
  BY <1>1, <1>2, <1>3, PTL DEF Spec

-----------------------------------------------------------------------------
(* The registry. *)

Out == {"off", "done", "crashed"}

\* What the registry knows about an id.
Finds(i) ==
  /\ byID[i] # 0 => byID[i] \in active /\ run[byID[i]].id = i
  /\ \A t \in active :
       (run[t].id = i /\ \A u \in Tokens : (u > t => run[u].id # i)) => byID[i] = t

LEMMA RegistryParts ==
  RegistryConsistent <=>
    /\ active = {t \in Tokens : run[t].pc \notin Out}
    /\ newest = Newest(active)
    /\ \A i \in RunIds \ {None} : Finds(i)
BY DEF RegistryConsistent, Out, Finds

\* There is one newest run in a set of runs.
LEMMA NewestFacts ==
  ASSUME TypeInv, NEW ts \in SUBSET (1 .. started)
  PROVE  /\ ts = {} => Newest(ts) = 0
         /\ ts # {} => Newest(ts) \in ts /\ \A u \in ts : u <= Newest(ts)
         /\ \A m \in ts : (\A u \in ts : u <= m) => Newest(ts) = m
<1>1. started \in Int /\ \A u \in ts : u \in Int
  BY DEF TypeInv, RegistryTyped
<1>2. ts # {} => \E t \in ts : \A u \in ts : u <= t
  BY DEF TypeInv, RegistryTyped
<1>3. ts # {} => Newest(ts) \in ts /\ \A u \in ts : u <= Newest(ts)
  BY <1>2 DEF Newest
<1>4. ASSUME NEW m \in ts, \A u \in ts : u <= m
      PROVE  Newest(ts) = m
  <2>1. Newest(ts) \in ts /\ m <= Newest(ts) /\ Newest(ts) <= m
    BY <1>3, <1>4
  <2>2. Newest(ts) \in Int /\ m \in Int
    BY <2>1, <1>1
  <2> QED
    BY <2>1, <2>2
<1> QED
  BY <1>3, <1>4 DEF Newest

\* A step that moves runs on, and leaves the registry alone.
LEMMA RegistryKept ==
  ASSUME TypeInv, RegistryConsistent, UNCHANGED Registry,
         \A u \in Tokens : run'[u].id = run[u].id /\ (run'[u].pc \in Out <=> run[u].pc \in Out)
  PROVE  RegistryConsistent'
<1>1. active' = active /\ byID' = byID /\ newest' = newest /\ active \subseteq Tokens
  BY TypedIsTypeOK DEF Registry, TypeOK
<1>2. active' = {t \in Tokens : run'[t].pc \notin Out}
  BY <1>1, RegistryParts
<1>3. newest' = Newest(active')
  BY <1>1, RegistryParts
<1>4. ASSUME NEW i \in RunIds \ {None}
      PROVE  Finds(i)'
  <2>1. Finds(i)
    BY RegistryParts
  <2> QED
    BY <1>1, <2>1 DEF Finds
<1> QED
  BY <1>2, <1>3, <1>4 DEF RegistryConsistent, Out, Finds, Newest

LEMMA FinishKeepsRegistry ==
  ASSUME TypeInv, RegistryConsistent, NEW t \in Tokens, FinishRun(t)
  PROVE  RegistryConsistent'
<1>1. /\ run'[t].id = run[t].id /\ run'[t].pc = "done"
      /\ \A u \in Tokens \ {t} : run'[u] = run[u]
  BY FinishTyped DEF Same
<1>2. run[t].pc = "finish" /\ active' = active \ {t} /\ byID' = Unregistered(t)
      /\ newest' = IF newest = t THEN Newest(active \ {t}) ELSE newest
  BY DEF FinishRun
<1>3. active = {u \in Tokens : run[u].pc \notin Out} /\ newest = Newest(active)
      /\ \A i \in RunIds \ {None} : Finds(i)
  BY RegistryParts
<1>4. active' = {u \in Tokens : run'[u].pc \notin Out}
  BY <1>1, <1>2, <1>3 DEF Out
<1>5. newest' = Newest(active \ {t})
  <2>1. CASE newest = t
    BY <2>1, <1>2
  <2>2. CASE newest # t
    <3>1. active \in SUBSET (1 .. started) /\ active \ {t} \in SUBSET (1 .. started)
      BY DEF TypeInv, RegistryTyped
    <3>2. t \in active
      BY <1>2, <1>3 DEF Out
    <3>3. newest \in active /\ \A u \in active : u <= newest
      BY <3>1, <3>2, <1>3, NewestFacts
    <3>4. Newest(active \ {t}) = newest
      BY <3>1, <3>3, <2>2, NewestFacts
    <3> QED
      BY <3>4, <2>2, <1>2
  <2> QED
    BY <2>1, <2>2
<1>6. ASSUME NEW i \in RunIds \ {None}
      PROVE  Finds(i)'
  <2>1. Finds(i) /\ byID'[i] = IF i = run[t].id /\ byID[i] = t THEN 0 ELSE byID[i]
    BY <1>2, <1>3 DEF Unregistered
  <2>2. \A u \in Tokens : run'[u].id = run[u].id
    BY <1>1
  <2>3. active \subseteq Tokens /\ active \subseteq Int /\ t \in Int
    BY <1>3, BoundsAreNumbers DEF Tokens
  <2>4. byID'[i] # 0 => byID'[i] \in active' /\ run'[byID'[i]].id = i
    BY <2>1, <2>2, <2>3, <1>2 DEF Finds
  <2>5. ASSUME NEW v \in active', run'[v].id = i, \A u \in Tokens : (u > v => run'[u].id # i)
        PROVE  byID'[i] = v
    <3>1. v \in active /\ v # t /\ run[v].id = i /\ \A u \in Tokens : (u > v => run[u].id # i)
      BY <2>2, <2>3, <2>5, <1>2
    <3>2. byID[i] = v
      BY <3>1, <2>1 DEF Finds
    <3> QED
      BY <3>1, <3>2, <2>1
  <2> QED
    BY <2>4, <2>5 DEF Finds
<1>7. newest' = Newest(active')
  BY <1>2, <1>5
<1> QED
  BY <1>4, <1>6, <1>7 DEF RegistryConsistent, Out, Finds, Newest

LEMMA StartKeepsRegistry ==
  ASSUME TypeInv, RegistryConsistent, NEW id \in RunIds, NEW s \in Sessions, StartRun(id, s)
  PROVE  RegistryConsistent'
<1>1. PICK t \in Tokens :
        /\ t = started + 1 /\ started' = t /\ newest' = t /\ active' = active \cup {t}
        /\ byID' = IF id = None THEN byID ELSE [byID EXCEPT ![id] = t]
  BY DEF StartRun
<1>2. /\ run[t] = NotStarted /\ run'[t].id = id /\ run'[t].pc = "init"
      /\ \A u \in Tokens \ {t} : run'[u] = run[u]
      /\ TypeInv'
  BY <1>1, StartTyped
<1>3. active = {u \in Tokens : run[u].pc \notin Out} /\ newest = Newest(active)
      /\ \A i \in RunIds \ {None} : Finds(i)
  BY RegistryParts
<1>4. active' = {u \in Tokens : run'[u].pc \notin Out}
  BY <1>1, <1>2, <1>3 DEF Out
<1>5. started \in 0 .. MaxRuns /\ active \subseteq 1 .. started
      /\ \A u \in Tokens : u \in Int
  BY BoundsAreNumbers DEF TypeInv, RegistryTyped, Tokens
<1>6. \A u \in active : u < t
  BY <1>1, <1>5
<1>7. newest' = Newest(active \cup {t})
  <2>1. CASE \A m \in active \cup {t} : (\A u \in active \cup {t} : u <= m) => m = t
    <3>1. \A u \in active \cup {t} : u <= t
      BY <1>5, <1>6
    <3>2. Newest(active \cup {t}) = t
      BY <2>1, <3>1 DEF Newest
    <3> QED
      BY <3>2, <1>1
  <2>2. \A m \in active \cup {t} : (\A u \in active \cup {t} : u <= m) => m = t
    BY <1>5, <1>6
  <2> QED
    BY <2>1, <2>2
<1>8. ASSUME NEW i \in RunIds \ {None}
      PROVE  Finds(i)'
  <2>1. Finds(i) /\ byID'[i] = IF i = id THEN t ELSE byID[i]
    BY <1>1, <1>3 DEF TypeInv, RegistryTyped
  <2>2. active \subseteq Tokens /\ t \notin active /\ t # 0
    BY <1>1, <1>3, <1>5, <1>6
  <2>3. byID'[i] # 0 => byID'[i] \in active' /\ run'[byID'[i]].id = i
    <3>1. CASE i = id
      BY <3>1, <2>1, <1>1, <1>2
    <3>2. CASE i # id /\ byID[i] # 0
      <4>1. byID'[i] = byID[i] /\ byID[i] \in active /\ run[byID[i]].id = i
        BY <3>2, <2>1 DEF Finds
      <4>2. run'[byID[i]] = run[byID[i]]
        BY <4>1, <2>2, <1>2
      <4> QED
        BY <4>1, <4>2, <1>1
    <3> QED
      BY <3>1, <3>2, <2>1
  <2>4. ASSUME NEW v \in active', run'[v].id = i, \A u \in Tokens : (u > v => run'[u].id # i)
        PROVE  byID'[i] = v
    <3>1. CASE v = t
      BY <3>1, <2>1, <2>4, <1>2
    <3>2. CASE v # t
      <4>1. v \in active /\ run[v].id = i
        BY <3>2, <2>2, <2>4, <1>1, <1>2
      <4>2. i # id
        BY <4>1, <2>4, <1>2, <1>6, <1>5
      <4>3. NotStarted.id = None
        BY DEF NotStarted
      <4>4. \A u \in Tokens : (u > v => run[u].id # i)
        BY <4>3, <2>4, <1>2
      <4> QED
        BY <4>1, <4>2, <4>4, <2>1 DEF Finds
    <3> QED
      BY <3>1, <3>2
  <2> QED
    BY <2>3, <2>4 DEF Finds
<1>9. newest' = Newest(active')
  BY <1>1, <1>7
<1> QED
  BY <1>4, <1>8, <1>9 DEF RegistryConsistent, Out, Finds, Newest

LEMMA CrashKeepsRegistry ==
  ASSUME TypeInv, Crash
  PROVE  RegistryConsistent'
<1>1. active' = {} /\ newest' = 0 /\ byID' = [i \in RunIds \ {None} |-> 0]
  BY DEF Crash
<1>2. \A t \in Tokens : run'[t].pc \in Out
  BY CrashTyped DEF Out
<1> QED
  BY <1>1, <1>2 DEF RegistryConsistent, Out, Newest

\* The registry is kept by every step.
LEMMA NextKeepsRegistry ==
  ASSUME TypeInv, RegistryConsistent, [Next]_vars
  PROVE  RegistryConsistent'
<1>1. CASE UNCHANGED runVars
  BY <1>1, RegistryKept DEF runVars, Registry
<1>2. CASE \E t \in Tokens : Advanced(t)
  <2>0. PICK t \in Tokens : Advanced(t)
    BY <1>2
  <2>1. PICK n : run' = [run EXCEPT ![t] = n] /\ Advances(run[t], n) /\ UNCHANGED Registry
    BY <2>0 DEF Advanced
  <2>2. \A u \in Tokens : run'[u] = IF u = t THEN n ELSE run[u]
    BY <2>1 DEF TypeInv, RunsTyped
  <2>3. n.id = run[t].id /\ n.pc \notin Out /\ run[t].pc \notin Out
    BY <2>1 DEF Advances, Held, Loop, Out
  <2>4. \A u \in Tokens : run'[u].id = run[u].id /\ (run'[u].pc \in Out <=> run[u].pc \in Out)
    BY <2>2, <2>3
  <2> QED
    BY <2>1, <2>4, RegistryKept
<1>3. CASE \E t \in Tokens, pc \in {"load", "finish", "closing"} : Moved(t, pc)
  <2>1. PICK t \in Tokens, pc \in {"load", "finish", "closing"} : Moved(t, pc)
    BY <1>3
  <2>2. Same(run[t], run'[t]) /\ run'[t].pc = pc /\ \A u \in Tokens \ {t} : run'[u] = run[u]
    BY <2>1, MovedTyped
  <2>3. UNCHANGED Registry
    BY <2>1, MovedTyped
  <2>4. \A u \in Tokens : run'[u].id = run[u].id /\ (run'[u].pc \in Out <=> run[u].pc \in Out)
    BY <2>1, <2>2 DEF Moved, Same, Out
  <2> QED
    BY <2>3, <2>4, RegistryKept
<1>4. CASE Changed
  BY <1>4, RegistryKept DEF Changed
<1>5. CASE \E t : Canceled(t)
  <2>1. PICK t : Canceled(t)
    BY <1>5
  <2>2. UNCHANGED Registry
    BY <2>1 DEF Canceled
  <2> QED
    BY <2>1, <2>2, CanceledTyped, RegistryKept DEF Same
<1>6. CASE UNCHANGED vars
  BY <1>6, <1>1 DEF vars
<1> QED
  BY <1>1, <1>2, <1>3, <1>4, <1>5, <1>6, NextIsOne, FinishKeepsRegistry, StartKeepsRegistry,
     CrashKeepsRegistry DEF Steps

\* CancelActiveRun finds the newest active run, CancelRun an active run of its
\* id, and the newest run of an id can be found, whatever ids clients give and
\* in whatever order their runs end (runtime.go, session_scheduler.go).
THEOREM ConsistentRegistry == Spec => []RegistryConsistent
<1>1. Init => TypeInv
  BY InitTyped
<1>2. Init => RegistryConsistent
  <2> SUFFICES ASSUME Init PROVE RegistryConsistent
    OBVIOUS
  <2>1. \A t \in Tokens : run[t].pc = "off"
    BY DEF Init, NotStarted
  <2> QED
    BY <2>1 DEF Init, RegistryConsistent, Newest
<1>3. TypeInv /\ [Next]_vars => TypeInv'
  BY NextTyped
<1>4. TypeInv /\ RegistryConsistent /\ [Next]_vars => RegistryConsistent'
  BY NextKeepsRegistry
<1> QED
  BY <1>1, <1>2, <1>3, <1>4, PTL DEF Spec

-----------------------------------------------------------------------------
(* The copies. A run in its loop holds its session, so that nobody else saves *)
(* it under the lock.                                                          *)

SeatedAt(t) ==
  /\ run[t].pc \in Held => Holds(t, run[t].session)
  /\ (run[t].pc = "init" /\ place[t] # Idle) => place[t].session = run[t].session
  /\ run[t].pc \in {"off", "closing", "finish", "done", "crashed"} => place[t] = Idle
  /\ run[t].pc \in Loop => copy[t] \in {"current", "bypassed"}

Seated == \A t \in Tokens : SeatedAt(t)

\* Nobody but its holder has a session in hand.
LEMMA StaleNobody ==
  ASSUME TypeInv, Seated, NEW v \in Users, NEW s \in Sessions, Holds(v, s),
         NEW w, v \in Tokens => w = v
  PROVE  Stale(s, w) = copy
<1>1. MutualExclusion /\ copy \in [Tokens -> {"none", "current", "bypassed", "stale"}]
  BY ConsistentIsExclusive DEF TypeInv, StoreTyped
<1>2. ASSUME NEW u \in Tokens, u # w, run[u].session = s, run[u].pc \in Loop
      PROVE  FALSE
  <2>1. Holds(u, s)
    BY <1>2, LoopPlaces DEF Seated, SeatedAt
  <2>2. u = v
    BY <1>1, <2>1, UserFacts DEF MutualExclusion
  <2> QED
    BY <1>2, <2>2
<1>3. Stale(s, w) = [u \in Tokens |-> copy[u]]
  BY <1>2 DEF Stale
<1> QED
  BY <1>1, <1>3

\* Who does not move, and whose copy stays or is only bypassed, stays seated.
LEMMA StaysSeated ==
  ASSUME NEW u \in Tokens, SeatedAt(u), place'[u] = place[u],
         copy'[u] = copy[u] \/ copy'[u] = "bypassed",
         run'[u].pc = run[u].pc, run'[u].session = run[u].session
  PROVE  SeatedAt(u)'
BY DEF SeatedAt, Holds

\* A step on the lock table moves one user.
LEMMA OneUserMoves ==
  ASSUME TypeInv, NEW u \in Users,
         (\E s \in Sessions : Acquire(u, s)) \/ Lock(u) \/ Unlock(u) \/ Release(u)
  PROVE  \A v \in Users \ {u} : place'[v] = place[v]
<1>1. LocksTypeOK
  BY DEF TypeInv, LocksInv
<1>2. PICK p : place' = [place EXCEPT ![u] = p]
  BY DEF Acquire, Lock, Unlock, Release
<1> QED
  BY <1>1, <1>2 DEF LocksTypeOK

LEMMA AdvancedSeated ==
  ASSUME TypeInv, Seated, NEW t \in Tokens, Advanced(t)
  PROVE  Seated'
<1>1. PICK n : run' = [run EXCEPT ![t] = n] /\ Advances(run[t], n)
  BY DEF Advanced
<1>2. run'[t] = n /\ \A u \in Tokens \ {t} : run'[u] = run[u]
  BY <1>1 DEF TypeInv, RunsTyped
<1>3. SeatedAt(t) /\ run[t].pc \in Held /\ n.pc \in Held \cup {"end"} /\ n.session = run[t].session
      /\ place' = place
  BY <1>1 DEF Seated, Advances, Advanced, lockVars
<1>4. Holds(t, run[t].session) /\ run[t].session \in Sessions
  BY <1>3, RunFacts, LoopPlaces DEF SeatedAt, TypeInv, RunOK
<1>5. Stale(run[t].session, t) = copy
  BY <1>4, UserFacts, StaleNobody
<1>6. \/ copy' = copy /\ (run[t].pc # "load" \/ n.pc = "end")
      \/ copy' = [copy EXCEPT ![t] = "current"]
  BY <1>2, <1>5 DEF Advanced
<1>7. \A u \in Tokens \ {t} : copy'[u] = copy[u]
  BY <1>6 DEF TypeInv, StoreTyped
<1>8. n.pc \in Loop => copy'[t] \in {"current", "bypassed"}
  <2>1. CASE copy' = [copy EXCEPT ![t] = "current"]
    BY <2>1 DEF TypeInv, StoreTyped
  <2>2. CASE copy' = copy /\ (run[t].pc # "load" \/ n.pc = "end")
    <3>1. n.pc \in Loop => run[t].pc \in Loop
      BY <2>2, <1>3, LoopPlaces DEF Held
    <3> QED
      BY <2>2, <3>1, <1>3 DEF SeatedAt
  <2> QED
    BY <1>6, <2>1, <2>2
<1>9. SeatedAt(t)'
  <2>1. Holds(t, run[t].session)'
    BY <1>2, <1>3, <1>4 DEF Holds
  <2>2. n.pc \notin {"init", "off", "closing", "finish", "done", "crashed"}
    BY <1>3 DEF Held, Loop
  <2> QED
    BY <1>2, <1>8, <2>1, <2>2 DEF SeatedAt
<1>10. ASSUME NEW u \in Tokens \ {t} PROVE SeatedAt(u)'
  BY <1>2, <1>3, <1>7, StaysSeated DEF Seated
<1> QED
  BY <1>9, <1>10 DEF Seated

\* The steps of a run on its lock, and to the end.
LEMMA RunStepSeated ==
  ASSUME TypeInv, Seated, NEW t \in Tokens,
         \/ WaitForSession(t) \/ EnterSession(t) \/ FailEarly(t) \/ LeaveSession(t)
         \/ DropLock(t) \/ MarkStopped(t) \/ FinishRun(t)
  PROVE  Seated'
<1>1. RunsTyped /\ LocksTypeOK /\ SeatedAt(t) /\ t \in Users
  BY UserFacts DEF TypeInv, LocksInv, Seated
<1>2. \A u \in Tokens \ {t} : run'[u] = run[u]
  BY <1>1 DEF WaitForSession, EnterSession, FailEarly, LeaveSession, DropLock, MarkStopped,
              FinishRun, Step, runVars, RunsTyped
<1>3. \A u \in Tokens \ {t} : copy'[u] = copy[u]
  BY DEF WaitForSession, EnterSession, FailEarly, LeaveSession, DropLock, MarkStopped,
              FinishRun, Step, runVars, Kept, TypeInv, StoreTyped
<1>4. \A u \in Tokens \ {t} : place'[u] = place[u]
  <2>1. CASE WaitForSession(t) \/ EnterSession(t) \/ LeaveSession(t) \/ DropLock(t)
    <3>1. run[t].pc = "init" => run[t].session \in Sessions
      BY <1>1, RunFacts DEF RunOK
    <3>2. (\E s \in Sessions : Acquire(t, s)) \/ Lock(t) \/ Unlock(t) \/ Release(t)
      BY <2>1, <3>1 DEF WaitForSession, EnterSession, LeaveSession, DropLock
    <3> QED
      BY <1>1, <3>2, OneUserMoves, UserFacts
  <2>2. CASE FailEarly(t) \/ MarkStopped(t) \/ FinishRun(t)
    BY <2>2 DEF FailEarly, MarkStopped, FinishRun, lockVars
  <2> QED
    BY <2>1, <2>2
<1>5. ASSUME NEW u \in Tokens \ {t} PROVE SeatedAt(u)'
  BY <1>2, <1>3, <1>4, StaysSeated DEF Seated
<1>6. \A pc : run' = [run EXCEPT ![t] = To(t, pc)]
               => run'[t].pc = pc /\ run'[t].session = run[t].session
  BY <1>1, RunFacts DEF To, RunsTyped, RunState
<1>7. SeatedAt(t)'
  <2>1. CASE WaitForSession(t)
    <3>1. PICK e : place' = [place EXCEPT ![t] = [at |-> "queued", session |-> run[t].session, entry |-> e]]
      BY <2>1 DEF WaitForSession, Acquire
    <3>2. run' = run /\ run[t].pc = "init" /\ place'[t].session = run[t].session
      BY <1>1, <2>1, <3>1 DEF WaitForSession, runVars, LocksTypeOK
    <3> QED
      BY <3>2 DEF SeatedAt, Held, Loop
  <2>2. CASE EnterSession(t)
    <3>1. run[t].pc = "init" /\ place[t].at = "queued" /\ run' = [run EXCEPT ![t] = To(t, "load")]
          /\ place' = [place EXCEPT ![t].at = "holding"]
      BY <2>2 DEF EnterSession, Lock, Step
    <3>2. place[t] # Idle /\ place[t].session = run[t].session
      BY <1>1, <3>1 DEF SeatedAt, Idle
    <3>3. place'[t].at = "holding" /\ place'[t].session = run[t].session
      BY <1>1, <3>1, <3>2 DEF LocksTypeOK
    <3>4. run'[t].pc = "load" /\ run'[t].session = run[t].session
      BY <1>6, <3>1
    <3> QED
      BY <3>3, <3>4, LoopPlaces DEF SeatedAt, Holds
  <2>3. CASE FailEarly(t) \/ MarkStopped(t) \/ FinishRun(t)
    <3>1. place' = place /\ place[t] = Idle
      BY <1>1, <2>3 DEF FailEarly, MarkStopped, FinishRun, lockVars, SeatedAt
    <3>2. CASE MarkStopped(t)
      <4>1. PICK n : Step(t, n) /\ Stops(t, n)
        BY <1>1, <3>2, MarkStoppedStops
      <4>2. run'[t] = n
        BY <1>1, <4>1 DEF Step, RunsTyped
      <4> QED
        BY <3>1, <4>1, <4>2 DEF Stops, SeatedAt, Held, Loop
    <3>3. CASE FailEarly(t) \/ FinishRun(t)
      <4>1. run' = [run EXCEPT ![t] = To(t, "finish")] \/ run' = [run EXCEPT ![t] = To(t, "done")]
        BY <3>3 DEF FailEarly, FinishRun, Step, To
      <4>2. run'[t].pc \in {"finish", "done"}
        BY <1>6, <4>1
      <4> QED
        BY <3>1, <4>2 DEF SeatedAt, Held, Loop
    <3> QED
      BY <2>3, <3>2, <3>3
  <2>4. CASE LeaveSession(t)
    <3>1. run' = run /\ run[t].pc = "end"
      BY <2>4 DEF LeaveSession, runVars
    <3> QED
      BY <3>1 DEF SeatedAt, Held, Loop
  <2>5. CASE DropLock(t)
    <3>1. place' = [place EXCEPT ![t] = Idle] /\ run' = [run EXCEPT ![t] = To(t, "closing")]
      BY <2>5 DEF DropLock, Release, Step
    <3>2. place'[t] = Idle /\ run'[t].pc = "closing"
      BY <1>1, <1>6, <3>1 DEF LocksTypeOK
    <3> QED
      BY <3>2 DEF SeatedAt, Held, Loop
  <2> QED
    BY <2>1, <2>2, <2>3, <2>4, <2>5
<1> QED
  BY <1>5, <1>7 DEF Seated

\* The steps of others: whoever changes a session holds it.
LEMMA OpStepSeated ==
  ASSUME TypeInv, Seated, NEW o \in Ops,
         OpStep(o) \/ GetSession(o) \/ \E s \in Sessions : Request(o, s)
  PROVE  Seated'
<1>1. o \in Users /\ o \notin Tokens /\ StoreTyped /\ LocksTypeOK
  BY UserFacts DEF TypeInv, LocksInv
<1>2. run' = run
  BY DEF OpStep, Apply, ReturnSession, EndRequest, GetSession, Request, runVars
<1>3. \A u \in Tokens : place'[u] = place[u]
  <2>1. CASE Apply(o)
    BY <2>1 DEF Apply, lockVars
  <2>2. CASE ~Apply(o)
    <3>1. (\E s \in Sessions : Acquire(o, s)) \/ Lock(o) \/ Unlock(o) \/ Release(o)
      BY <2>2 DEF OpStep, ReturnSession, EndRequest, GetSession, Request
    <3>2. \A v \in Users \ {o} : place'[v] = place[v]
      BY <1>1, <3>1, OneUserMoves
    <3> QED
      BY <1>1, <3>2, UserFacts
  <2> QED
    BY <2>1, <2>2
<1>4. copy' = copy
  <2>1. CASE Apply(o)
    <3>1. PICK s \in Sessions : s = place[o].session /\ Holds(o, s)
      BY <1>1, <2>1, PlaceFacts DEF Apply, Holds, Idle
    <3>2. copy' = copy \/ copy' = Stale(s, 0)
      BY <1>1, <2>1, <3>1, EffectTyped DEF Apply
    <3>3. Stale(s, 0) = copy
      BY <1>1, <3>1, StaleNobody
    <3> QED
      BY <3>2, <3>3
  <2>2. CASE ~Apply(o)
    BY <2>2 DEF OpStep, ReturnSession, EndRequest, GetSession, Request, runVars, Stored
  <2> QED
    BY <2>1, <2>2
<1> QED
  BY <1>2, <1>3, <1>4, StaysSeated DEF Seated

LEMMA ToolSavesSeated ==
  ASSUME TypeInv, Seated, NEW t \in Tokens, ToolSaves(t)
  PROVE  Seated'
<1>1. /\ run[t].pc = "tools" /\ copy' = Stale(run[t].session, t)
      /\ UNCHANGED <<lockVars, run, Registry, Others>>
  BY DEF ToolSaves, Works, At, Saved
<1>2. Holds(t, run[t].session) /\ run[t].session \in Sessions
  BY <1>1, RunFacts, LoopPlaces, LoopNames DEF Seated, SeatedAt, TypeInv, RunOK
<1>3. copy' = copy
  BY <1>1, <1>2, UserFacts, StaleNobody
<1> QED
  BY <1>1, <1>3, StaysSeated DEF Seated, lockVars

LEMMA CanceledSeated ==
  ASSUME TypeInv, Seated, NEW t, Canceled(t)
  PROVE  Seated'
<1>1. place' = place /\ copy' = copy
  BY DEF Canceled, lockVars, Stored
<1>2. \A u \in Tokens : run'[u].pc = run[u].pc /\ run'[u].session = run[u].session
  BY CanceledTyped DEF Same
<1> QED
  BY <1>1, <1>2, StaysSeated DEF Seated

LEMMA StartSeated ==
  ASSUME TypeInv, Seated, NEW id \in RunIds, NEW s \in Sessions, StartRun(id, s)
  PROVE  Seated'
<1>1. PICK t \in Tokens : t = started + 1 /\ place' = place /\ copy' = copy
  BY DEF StartRun, lockVars, Stored
<1>2. /\ run[t] = NotStarted /\ run'[t].pc = "init"
      /\ \A u \in Tokens \ {t} : run'[u] = run[u]
  BY <1>1, StartTyped
<1>3. place'[t] = Idle
  BY <1>1, <1>2 DEF Seated, SeatedAt, NotStarted
<1>4. SeatedAt(t)'
  BY <1>2, <1>3 DEF SeatedAt, Held, Loop
<1>5. ASSUME NEW u \in Tokens \ {t} PROVE SeatedAt(u)'
  BY <1>1, <1>2, StaysSeated DEF Seated
<1> QED
  BY <1>4, <1>5 DEF Seated

LEMMA NextSeated ==
  ASSUME TypeInv, Seated, [Next]_vars
  PROVE  Seated'
<1>1. CASE \E id \in RunIds, s \in Sessions : StartRun(id, s)
  BY <1>1, StartSeated
<1>2. CASE \/ \E id \in RunIds \ {None} : CancelRun(id)
           \/ CancelActiveRun
           \/ \E t \in Tokens : RequestEnds(t)
  BY <1>2, CanceledSeated DEF CancelRun, CancelActiveRun, RequestEnds
<1>3. CASE \E t \in Tokens : RunStep(t) \/ EnterSession(t) \/ ToolSaves(t)
  BY <1>3, RunStepSeated, LoopAdvances, AdvancedSeated, ToolSavesSeated DEF RunStep
<1>4. CASE \/ \E o \in Ops : OpStep(o) \/ GetSession(o)
           \/ \E o \in Ops, s \in Sessions : Request(o, s)
  BY <1>4, OpStepSeated
<1>5. CASE \E s \in Sessions : CreateSession(s)
  BY <1>5, StaysSeated DEF CreateSession, Seated, lockVars, Kept
<1>6. CASE Crash
  <2>1. \A t \in Tokens : run'[t].pc \in {"off", "done", "crashed"}
    BY <1>6, CrashTyped
  <2>2. \A t \in Tokens : place'[t] = Idle
    BY <1>6, UserFacts DEF Crash, LocksLost
  <2> QED
    BY <2>1, <2>2 DEF Seated, SeatedAt, Held, Loop
<1>7. CASE UNCHANGED vars
  BY <1>7, StaysSeated DEF vars, runVars, lockVars, Seated
<1>8. CASE \E s \in Sessions : WriteUnlocked(s)
  <2>1. place' = place /\ run' = run
        /\ \A u \in Tokens : copy'[u] = copy[u] \/ copy'[u] = "bypassed"
    BY <1>8 DEF WriteUnlocked, Bypassed, lockVars
  <2> QED
    BY <2>1, StaysSeated DEF Seated
<1> QED
  BY <1>1, <1>2, <1>3, <1>4, <1>5, <1>6, <1>7, <1>8 DEF Next, LockedNext

\* While a run works on the copy it has loaded, no other run and no operation
\* under the lock saves the session, whatever calls that take no lock write
\* meanwhile (run.go, runtime.go). RestoreCheckpoint is not a step of Spec.
THEOREM NeverOvertaken == Spec => []NotOvertaken
<1>1. Init => TypeInv
  BY InitTyped
<1>2. Init => Seated
  <2> SUFFICES ASSUME Init PROVE Seated
    OBVIOUS
  <2>1. \A t \in Tokens : run[t].pc = "off" /\ place[t] = Idle
    BY UserFacts DEF Init, LocksInit, NotStarted
  <2> QED
    BY <2>1 DEF Seated, SeatedAt, Held, Loop
<1>3. TypeInv /\ [Next]_vars => TypeInv'
  BY NextTyped
<1>4. TypeInv /\ Seated /\ [Next]_vars => Seated'
  BY NextSeated
<1>5. Seated => NotOvertaken
  BY DEF Seated, SeatedAt, NotOvertaken
<1> QED
  BY <1>1, <1>2, <1>3, <1>4, <1>5, PTL DEF Spec

-----------------------------------------------------------------------------
(* The phases of a run. At the start of a turn a run has no phase, or has     *)
(* verified; it comes to the gate to verify.                                  *)

PhaseAt(r) ==
  /\ r.pc \in {"init", "load", "resume", "begin"} => r.phase = "none"
  /\ (r.pc = "turn" \/ (r.pc = "mark" /\ r.then = "turn")) => r.phase \in {"none", "verify"}
  /\ (r.pc = "gate" \/ (r.pc = "mark" /\ r.then = "gate")) => r.phase = "verify"

PhasesKept == \A t \in Tokens : PhaseAt(run[t])

\* Where a run is between the record of its phase and the end of its turn.
Recorded == {"turn", "attempt", "provider", "tools", "gate"}

\* A run writes the record of its phase, or knows that it is lost.
MarkEffect(t) ==
  \/ \E p \in Phases : Markable(t) /\ Marked(t, p)
  \/ resume' = resume /\ run'[t].lost

\* A run may resume from the record of its session.
Resumable(t) == ~run[t].canceled /\ Override(resume[run[t].session]) # "none"

\* What a step of the loop does with the run and with the records.
LoopRun(r, n) ==
  /\ n.canceled = r.canceled
  /\ PhaseAt(r) => PhaseAt(n)
  /\ (r.pc = "turn" /\ PhaseAt(r) /\ n.pc = "end") => r.turn >= MaxTurns
  /\ n.pc \in Recorded => r.pc \in Recorded \cup {"mark"}
  /\ (n.pc \in Recorded /\ r.pc # "mark") => n.lost = r.lost
  /\ n.pc # "load" /\ (n.pc = "resume" => r.pc = "load")
  /\ (r.override = "none" /\ n.override # "none") => r.pc = "resume"

LoopEffect(t) ==
  /\ LoopRun(run[t], run'[t])
  /\ \A u \in Tokens \ {t} : run'[u] = run[u]
  /\ (run[t].override = "none" /\ run'[t].override # "none")
       => Resumable(t)
  /\ (run[t].pc = "load" /\ run'[t].pc # "end") => exists[run[t].session]
  /\ IF run[t].pc = "mark" THEN MarkEffect(t) ELSE resume' = resume
  /\ exists' = exists

\* A step of the loop moves one run.
LEMMA LoopEffectOf ==
  ASSUME RunsTyped, NEW t \in Tokens, NEW n, Step(t, n), LoopRun(run[t], n),
         (run[t].override = "none" /\ n.override # "none") => Resumable(t),
         (run[t].pc = "load" /\ n.pc # "end") => exists[run[t].session],
         IF run[t].pc = "mark"
         THEN (\E p \in Phases : Markable(t) /\ Marked(t, p)) \/ (resume' = resume /\ n.lost)
         ELSE resume' = resume
  PROVE  LoopEffect(t)
<1>1. run' = [run EXCEPT ![t] = n] /\ exists' = exists
  BY DEF Step, Others
<1>2. run'[t] = n /\ \A u \in Tokens \ {t} : run'[u] = run[u]
  BY <1>1 DEF RunsTyped
<1>3. IF run[t].pc = "mark" THEN MarkEffect(t) ELSE resume' = resume
  BY <1>2 DEF MarkEffect
<1> QED
  BY <1>1, <1>2, <1>3 DEF LoopEffect

\* The loop is left without an override.
LEMMA LeavingRun ==
  ASSUME RunsTyped, NEW t \in Tokens,
         (run[t].pc = "turn" /\ PhaseAt(run[t])) => run[t].turn >= MaxTurns
  PROVE  LoopRun(run[t], Left(t, "end")) /\ Left(t, "end").override = "none"
         /\ Left(t, "end").pc = "end"
<1>1. run[t] \in RunState /\ "end" \in Places
  BY RunFacts, LoopPlaces
<1>2. Left(t, "end").pc = "end" /\ Left(t, "end").canceled = run[t].canceled
  BY <1>1, LeftTyped
<1>3. Left(t, "end").override = "none"
  BY DEF Left, NotStarted
<1> QED
  BY <1>2, <1>3 DEF LoopRun, PhaseAt, Recorded

\* A phase is entered, or the run is ended because it may not enter it.
LEMMA EnteringRun ==
  ASSUME RunsTyped, NEW t \in Tokens, NEW state \in RunState, NEW phase \in Phases,
         NEW next \in {"attempt", "mark"},
         state.canceled = run[t].canceled, state.lost = run[t].lost,
         state.override # "none" => run[t].override # "none",
         next = "attempt" => run[t].pc \in Recorded,
         (next = "mark" /\ state.then = "turn") => phase = "verify",
         (next = "mark" /\ state.then = "gate") => phase = "verify",
         (run[t].pc = "turn" /\ PhaseAt(run[t])) => Allowed(state.phase, phase)
  PROVE  LoopRun(run[t], Enter(t, state, phase, next))
         /\ (run[t].override = "none" => Enter(t, state, phase, next).override = "none")
<1> DEFINE n == [state EXCEPT !.phase = phase, !.pc = next]
<1>1. CASE Allowed(state.phase, phase)
  <2>1. n.pc = next /\ n.phase = phase /\ n.then = state.then /\ n.canceled = state.canceled
        /\ n.override = state.override /\ n.lost = state.lost
    BY DEF RunState
  <2>2. LoopRun(run[t], n)
    BY <2>1 DEF LoopRun, PhaseAt, Recorded
  <2> QED
    BY <1>1, <2>1, <2>2 DEF Enter
<1>2. CASE ~Allowed(state.phase, phase)
  BY <1>2, LeavingRun DEF Enter
<1> QED
  BY <1>1, <1>2

LEMMA SavedKeeps ==
  ASSUME NEW s, NEW t, Saved(s, t)
  PROVE  resume' = resume
BY DEF Saved

LEMMA EarlyEffect ==
  ASSUME TypeInv, NEW t \in Tokens, Load(t) \/ Resume(t) \/ Begin(t) \/ Mark(t)
  PROVE  LoopEffect(t)
<1>1. RunsTyped /\ StoreTyped /\ run[t] \in RunState
  BY RunFacts DEF TypeInv
<1>2. \A pc \in {"resume", "begin", "mark"} :
        LET n == To(t, pc)
        IN n \in RunState /\ n.pc = pc /\ n.canceled = run[t].canceled /\ n.phase = run[t].phase
           /\ n.then = run[t].then /\ n.override = run[t].override /\ n.lost = run[t].lost
  BY <1>1, LoopPlaces, LoopNames, PcTyped DEF To
<1>3. CASE Load(t)
  <2>1. run[t].pc = "load" /\ exists[run[t].session] /\ Step(t, To(t, "resume"))
    BY <1>3 DEF Load, Works, At
  <2>2. resume' = resume
    BY <1>3 DEF Load
  <2>3. LoopRun(run[t], To(t, "resume"))
    BY <1>2, <2>1 DEF LoopRun, PhaseAt, Recorded
  <2> QED
    BY <1>1, <1>2, <2>1, <2>2, <2>3, LoopEffectOf
<1>4. CASE Resume(t)
  <2>1. PICK x \in {"none", Override(resume[run[t].session])} :
          /\ run[t].canceled => x = "none"
          /\ Step(t, [To(t, "begin") EXCEPT !.override = x])
    BY <1>4 DEF Resume
  <2> DEFINE n == [To(t, "begin") EXCEPT !.override = x]
  <2>2. run[t].pc = "resume" /\ Step(t, n) /\ resume' = resume
    BY <1>4, <2>1 DEF Resume, At, Kept
  <2>3. n.pc = "begin" /\ n.canceled = run[t].canceled /\ n.phase = run[t].phase
        /\ n.then = run[t].then /\ n.override = x /\ n.lost = run[t].lost
    BY <1>2 DEF RunState
  <2>4. LoopRun(run[t], n)
    BY <2>2, <2>3 DEF LoopRun, PhaseAt, Recorded
  <2>5. n.override # "none" => Resumable(t)
    BY <2>1, <2>3 DEF Resumable
  <2> HIDE DEF n
  <2> QED
    BY <1>1, <2>2, <2>3, <2>4, <2>5, LoopEffectOf
<1>5. CASE Begin(t)
  <2>1. run[t].pc = "begin" /\ Saved(run[t].session, t) /\ Step(t, To(t, "mark"))
    BY <1>5 DEF Begin, Works, At
  <2>2. run[t].then = "turn"
    BY <1>1, <2>1, RunFacts DEF RunOK
  <2>3. LoopRun(run[t], To(t, "mark"))
    BY <1>2, <2>1, <2>2 DEF LoopRun, PhaseAt, Recorded
  <2> QED
    BY <1>1, <1>2, <2>1, <2>3, SavedKeeps, LoopEffectOf
<1>6. CASE Mark(t)
  <2> DEFINE m == [run[t] EXCEPT !.pc = run[t].then, !.then = "turn"]
             p == IF run[t].phase = "none" THEN "plan" ELSE run[t].phase
  <2>1. PICK l \in BOOLEAN :
          /\ run[t].pc = "mark" /\ Step(t, [m EXCEPT !.lost = l])
          /\ (Markable(t) /\ Marked(t, p)) \/ (resume' = resume /\ l)
    BY <1>6 DEF Mark, At
  <2>2. p \in Phases
    BY <1>1, RunFacts DEF Phases
  <2>3. run[t].then \in {"turn", "tools", "gate"} /\ run[t].then \in Places
    BY <1>1, RunFacts DEF Places, Loop
  <2> DEFINE k == [run[t] EXCEPT !.pc = run[t].then]
             n == [m EXCEPT !.lost = l]
  <2>4. k \in RunState /\ k.pc = run[t].then /\ k.canceled = run[t].canceled
        /\ k.phase = run[t].phase /\ k.override = run[t].override
    BY <1>1, <2>3, PcTyped
  <2>5. m = [k EXCEPT !.then = "turn"]
    OBVIOUS
  <2> HIDE DEF k
  <2>6. m \in RunState /\ m.pc = run[t].then /\ m.canceled = run[t].canceled
        /\ m.phase = run[t].phase /\ m.override = run[t].override /\ m.then = "turn"
    BY <2>4, <2>5 DEF RunState
  <2> HIDE DEF m
  <2>7. n.pc = run[t].then /\ n.canceled = run[t].canceled /\ n.phase = run[t].phase
        /\ n.override = run[t].override /\ n.then = "turn" /\ n.lost = l
    BY <2>6 DEF RunState
  <2>8. LoopRun(run[t], n)
    BY <2>1, <2>3, <2>7 DEF LoopRun, PhaseAt, Recorded
  <2>9. Step(t, n)
    BY <2>1
  <2> HIDE DEF n, p
  <2> QED
    BY <1>1, <2>1, <2>2, <2>7, <2>8, <2>9, LoopEffectOf
<1> QED
  BY <1>3, <1>4, <1>5, <1>6

\* At the start of a turn the phase may be entered.
LEMMA TurnEffect ==
  ASSUME TypeInv, NEW t \in Tokens, Turn(t)
  PROVE  LoopEffect(t)
<1> DEFINE state == [run[t] EXCEPT !.override = "none"]
           phase == TurnPhase(run[t])
           from == Bootstrapped(state, phase)
           n == IF run[t].turn >= MaxTurns THEN Left(t, "end") ELSE Enter(t, from, phase, "attempt")
<1>1. RunsTyped /\ run[t] \in RunState
  BY RunFacts DEF TypeInv
<1>2. run[t].pc = "turn" /\ Step(t, n) /\ resume' = resume
  BY DEF Turn, At, Kept
<1>3. phase \in {"plan", "verify"}
  BY <1>1, RunFacts DEF TurnPhase
<1>4. LoopRun(run[t], n) /\ (run[t].override = "none" => n.override = "none")
  <2>1. CASE run[t].turn >= MaxTurns
    BY <2>1, <1>1, LeavingRun
  <2>2. CASE ~(run[t].turn >= MaxTurns)
    <3>1. state \in RunState /\ state.phase = run[t].phase /\ state.canceled = run[t].canceled
          /\ state.override = "none" /\ state.lost = run[t].lost
      BY <1>1 DEF RunState
    <3> HIDE DEF state
    <3>2. [state EXCEPT !.phase = "plan"] \in RunState
          /\ [state EXCEPT !.phase = "plan"].canceled = state.canceled
          /\ [state EXCEPT !.phase = "plan"].override = state.override
          /\ [state EXCEPT !.phase = "plan"].phase = "plan"
          /\ [state EXCEPT !.phase = "plan"].lost = state.lost
      BY <3>1 DEF RunState, Phases
    <3>3. from \in RunState /\ from.canceled = state.canceled /\ from.override = state.override
          /\ from.lost = state.lost
          /\ from.phase = IF state.phase = "none" /\ phase = "verify" THEN "plan" ELSE state.phase
      BY <3>1, <3>2 DEF Bootstrapped
    <3>4. PhaseAt(run[t]) => Allowed(from.phase, phase)
      BY <1>2, <1>3, <3>1, <3>3 DEF PhaseAt, Allowed
    <3>5. run[t].pc \in Recorded /\ phase \in Phases
      BY <1>2, <1>3 DEF Recorded, Phases
    <3> HIDE DEF from, phase
    <3>6. LoopRun(run[t], Enter(t, from, phase, "attempt"))
          /\ (run[t].override = "none" => Enter(t, from, phase, "attempt").override = "none")
      BY <1>1, <3>1, <3>3, <3>4, <3>5, EnteringRun
    <3> QED
      BY <2>2, <3>6
  <2> QED
    BY <2>1, <2>2
<1> HIDE DEF n
<1> QED
  BY <1>1, <1>2, <1>4, LoopEffectOf

\* Before and after the provider's answer.
LEMMA MoveEffect ==
  ASSUME TypeInv, NEW t \in Tokens, Allow(t) \/ Accept(t) \/ CompactFirst(t) \/ Continue(t)
  PROVE  LoopEffect(t)
<1>1. RunsTyped /\ StoreTyped /\ run[t] \in RunState
  BY RunFacts DEF TypeInv
<1>2. ASSUME NEW pc \in {"provider", "append", "turn"}
      PROVE  LET n == To(t, pc)
             IN n \in RunState /\ n.pc = pc /\ n.canceled = run[t].canceled /\ n.phase = run[t].phase
                /\ n.then = run[t].then /\ n.override = run[t].override /\ n.lost = run[t].lost
  BY <1>1, LoopPlaces, LoopNames, PcTyped DEF To
<1>3. CASE Allow(t)
  <2>1. run[t].pc = "attempt" /\ Step(t, To(t, "provider")) /\ resume' = resume
    BY <1>3 DEF Allow, Works, At, Kept
  <2>2. LoopRun(run[t], To(t, "provider"))
    BY <1>2, <2>1 DEF LoopRun, PhaseAt, Recorded
  <2> QED
    BY <1>1, <1>2, <2>1, <2>2, LoopEffectOf
<1>4. CASE Accept(t)
  <2>1. run[t].pc = "gate" /\ Step(t, To(t, "append")) /\ resume' = resume
    BY <1>4 DEF Accept, At, Kept
  <2>2. LoopRun(run[t], To(t, "append"))
    BY <1>2, <2>1 DEF LoopRun, PhaseAt, Recorded
  <2> QED
    BY <1>1, <1>2, <2>1, <2>2, LoopEffectOf
<1>5. CASE CompactFirst(t)
  <2> DEFINE n == [run[t] EXCEPT !.compacted = TRUE]
  <2>1. run[t].pc = "attempt" /\ Step(t, n)
        /\ (Saved(run[t].session, t) \/ UNCHANGED <<copy, resume>>)
    BY <1>5 DEF CompactFirst, Works, At, Kept
  <2>2. n.pc = run[t].pc /\ n.canceled = run[t].canceled /\ n.phase = run[t].phase
        /\ n.then = run[t].then /\ n.override = run[t].override /\ n.lost = run[t].lost
    BY <1>1 DEF RunState
  <2>3. LoopRun(run[t], n)
    BY <2>1, <2>2 DEF LoopRun, PhaseAt, Recorded
  <2> HIDE DEF n
  <2> QED
    BY <1>1, <2>1, <2>2, <2>3, SavedKeeps, LoopEffectOf
<1>6. CASE Continue(t)
  <2> DEFINE m == To(t, "turn")
             n == [m EXCEPT !.continues = @ + 1, !.turn = @ + 1]
  <2>1. run[t].pc = "gate" /\ Step(t, n) /\ resume' = resume
    BY <1>6 DEF Continue, At, Kept
  <2>2. m \in RunState /\ m.pc = "turn" /\ m.canceled = run[t].canceled /\ m.phase = run[t].phase
        /\ m.then = run[t].then /\ m.override = run[t].override /\ m.lost = run[t].lost
    BY <1>2
  <2> HIDE DEF m
  <2>3. n.pc = "turn" /\ n.canceled = run[t].canceled /\ n.phase = run[t].phase
        /\ n.then = run[t].then /\ n.override = run[t].override /\ n.lost = run[t].lost
    BY <2>2 DEF RunState
  <2>4. LoopRun(run[t], n)
    BY <2>1, <2>3 DEF LoopRun, PhaseAt, Recorded
  <2> HIDE DEF n
  <2> QED
    BY <1>1, <2>1, <2>3, <2>4, LoopEffectOf
<1> QED
  BY <1>3, <1>4, <1>5, <1>6

LEMMA AnswerEffect ==
  ASSUME TypeInv, NEW t \in Tokens,
         CompactReactive(t) \/ CallTools(t) \/ Answer(t) \/ ToolsDone(t)
  PROVE  LoopEffect(t)
<1>1. RunsTyped /\ StoreTyped /\ run[t] \in RunState
  BY RunFacts DEF TypeInv
<1>2. CASE CompactReactive(t)
  <2> DEFINE m == To(t, "attempt")
             next == [m EXCEPT !.reactive = @ + 1]
             again == [next EXCEPT !.compacted = TRUE]
  <2>1. run[t].pc = "provider" /\ run[t].reactive < MaxReactive
        /\ ((Step(t, again) /\ Saved(run[t].session, t)) \/ (Step(t, next) /\ UNCHANGED <<copy, resume>>))
    BY <1>2 DEF CompactReactive, Works, At, Kept
  <2>2. m \in RunState /\ m.pc = "attempt" /\ m.canceled = run[t].canceled
        /\ m.phase = run[t].phase /\ m.then = run[t].then /\ m.override = run[t].override
        /\ m.lost = run[t].lost
    BY <1>1, LoopPlaces, LoopNames, PcTyped DEF To
  <2> HIDE DEF m
  <2>3. next.pc = "attempt" /\ next.canceled = run[t].canceled
        /\ next.phase = run[t].phase /\ next.then = run[t].then /\ next.override = run[t].override
        /\ next.lost = run[t].lost
    BY <2>2 DEF RunState
  <2>4. again.pc = next.pc /\ again.canceled = next.canceled
        /\ again.phase = next.phase /\ again.then = next.then /\ again.override = next.override
        /\ again.lost = next.lost
    BY <2>2 DEF RunState
  <2> HIDE DEF next, again
  <2>5. LoopRun(run[t], next) /\ LoopRun(run[t], again)
    BY <2>1, <2>3, <2>4 DEF LoopRun, PhaseAt, Recorded
  <2> QED
    BY <1>1, <2>1, <2>3, <2>4, <2>5, SavedKeeps, LoopEffectOf
<1>3. CASE CallTools(t) \/ Answer(t)
  <2>1. PICK then \in {"tools", "gate"}, phase \in Phases :
          /\ run[t].pc = "provider" /\ (then = "gate" => phase = "verify")
          /\ Step(t, Enter(t, Attempted(t, then), phase, "mark"))
          /\ Saved(run[t].session, t) \/ UNCHANGED <<copy, resume>>
    BY <1>3 DEF CallTools, Answer, Works, At, Phases, Kept
  <2> DEFINE state == Attempted(t, then)
  <2>2. state \in RunState /\ state.canceled = run[t].canceled /\ state.then = then
        /\ state.override = run[t].override /\ state.lost = run[t].lost
    BY <1>1, AttemptedFacts
  <2>3. run[t].pc \in Recorded
    BY <2>1 DEF Recorded
  <2> HIDE DEF state
  <2>4. LoopRun(run[t], Enter(t, state, phase, "mark"))
        /\ (run[t].override = "none" => Enter(t, state, phase, "mark").override = "none")
    BY <1>1, <2>1, <2>2, <2>3, EnteringRun
  <2>5. Step(t, Enter(t, state, phase, "mark"))
    BY <2>1 DEF state
  <2> QED
    BY <1>1, <2>1, <2>4, <2>5, SavedKeeps, LoopEffectOf
<1>4. CASE ToolsDone(t)
  <2> DEFINE state == [run[t] EXCEPT !.turn = @ + 1]
  <2>1. /\ run[t].pc = "tools" /\ Saved(run[t].session, t)
        /\ Step(t, Enter(t, state, "verify", "mark")) \/ Step(t, Left(t, "end"))
    BY <1>4 DEF ToolsDone, Works, At
  <2>2. run[t].turn + 1 \in 0 .. MaxTurns
    <3>1. run[t].turn < MaxTurns
      BY <1>1, <2>1, RunFacts DEF RunOK
    <3> QED
      BY <1>1, <3>1, RunFacts, BoundsAreNumbers
  <2>3. state \in RunState /\ state.canceled = run[t].canceled /\ state.override = run[t].override
        /\ state.lost = run[t].lost
    BY <1>1, <2>2 DEF RunState
  <2>4. run[t].pc \in Recorded /\ "verify" \in Phases
    BY <2>1 DEF Recorded, Phases
  <2> HIDE DEF state
  <2>5. LoopRun(run[t], Enter(t, state, "verify", "mark"))
        /\ (run[t].override = "none" => Enter(t, state, "verify", "mark").override = "none")
    BY <1>1, <2>1, <2>3, <2>4, EnteringRun
  <2>6. LoopRun(run[t], Left(t, "end")) /\ Left(t, "end").override = "none"
    BY <1>1, <2>1, LeavingRun
  <2> QED
    BY <1>1, <2>1, <2>5, <2>6, SavedKeeps, LoopEffectOf
<1> QED
  BY <1>2, <1>3, <1>4

LEMMA LeavingEffect ==
  ASSUME TypeInv, NEW t \in Tokens, OverBudget(t) \/ PlanAnswer(t) \/ AppendAnswer(t) \/ Fail(t)
  PROVE  LoopEffect(t)
<1>1. RunsTyped /\ StoreTyped
  BY DEF TypeInv
<1>2. /\ run[t].pc \notin {"turn", "mark"} /\ Step(t, Left(t, "end"))
      /\ Saved(run[t].session, t) \/ UNCHANGED <<copy, resume>>
  BY DEF OverBudget, PlanAnswer, AppendAnswer, Fail, Works, At, Failing, Kept
<1>3. LoopRun(run[t], Left(t, "end")) /\ Left(t, "end").override = "none"
      /\ Left(t, "end").pc = "end"
  BY <1>1, <1>2, LeavingRun
<1> QED
  BY <1>1, <1>2, <1>3, SavedKeeps, LoopEffectOf

LEMMA LoopEffects ==
  ASSUME TypeInv, NEW t \in Tokens, LoopStep(t)
  PROVE  LoopEffect(t)
BY EarlyEffect, TurnEffect, MoveEffect, AnswerEffect, LeavingEffect DEF LoopStep

-----------------------------------------------------------------------------
(* What the other steps do with a run, with the copies and with the records.  *)

GoesOn(t, r, n) ==
  /\ KeepsRest(r, n) /\ n.canceled = r.canceled
  /\ \/ r.pc = "init" /\ n.pc \in {"load", "finish"} /\ n.lost = r.lost
     \/ r.pc = "end" /\ n.pc = "closing" /\ n.lost = r.lost
     \/ r.pc = "closing" /\ Stops(t, n)
     \/ r.pc = "finish" /\ n.pc = "done" /\ n.lost = r.lost

Idles(t, r, n) ==
  \/ n = r
  \/ r = NotStarted /\ n.pc = "init" /\ n.phase = "none" /\ n.override = "none"
  \/ n.pc = r.pc /\ n.canceled /\ KeepsRest(r, n)
  \/ GoesOn(t, r, n)
  \/ r.pc \notin {"off", "done"} /\ n.pc = "crashed" /\ n.override = "none" /\ n.session = r.session

LEMMA GoingOn ==
  ASSUME TypeInv, NEW t \in Tokens,
         \/ EnterSession(t) \/ FailEarly(t) \/ DropLock(t) \/ MarkStopped(t) \/ FinishRun(t)
  PROVE  GoesOn(t, run[t], run'[t]) /\ \A u \in Tokens \ {t} : run'[u] = run[u]
<1>1. RunsTyped /\ run[t] \in RunState
  BY RunFacts DEF TypeInv
<1>2. CASE MarkStopped(t)
  <2>1. PICK n : Step(t, n) /\ Stops(t, n)
    BY <1>1, <1>2, MarkStoppedStops
  <2>2. run'[t] = n /\ \A u \in Tokens \ {t} : run'[u] = run[u]
    BY <1>1, <2>1 DEF Step, RunsTyped
  <2>3. run[t].pc = "closing"
    BY <1>2 DEF MarkStopped
  <2>4. GoesOn(t, run[t], n)
    BY <2>1, <2>3 DEF GoesOn, Stops
  <2> QED
    BY <2>2, <2>4
<1>3. CASE ~MarkStopped(t)
  <2>1. PICK pc \in {"load", "finish", "closing", "done"} :
          /\ run' = [run EXCEPT ![t] = To(t, pc)]
          /\ \/ run[t].pc = "init" /\ pc \in {"load", "finish"}
             \/ run[t].pc = "end" /\ pc = "closing"
             \/ run[t].pc = "finish" /\ pc = "done"
    BY <1>3 DEF EnterSession, FailEarly, DropLock, FinishRun, Step, To
  <2>2. pc \in Places
    BY DEF Places
  <2>3. To(t, pc).pc = pc /\ To(t, pc).canceled = run[t].canceled
        /\ To(t, pc).lost = run[t].lost /\ KeepsRest(run[t], To(t, pc))
    BY <1>1, <2>2, PcTyped DEF To, KeepsRest
  <2>4. run'[t] = To(t, pc) /\ \A u \in Tokens \ {t} : run'[u] = run[u]
    BY <1>1, <2>1 DEF RunsTyped
  <2> QED
    BY <2>1, <2>3, <2>4 DEF GoesOn
<1> QED
  BY <1>2, <1>3

LEMMA CrashGoes ==
  ASSUME TypeInv, Crash, NEW t \in Tokens
  PROVE  Idles(t, run[t], run'[t])
<1> DEFINE l == Left(t, "crashed")
<1>1. run'[t] = IF run[t].pc \in {"off", "done"} THEN run[t] ELSE [l EXCEPT !.canceled = FALSE]
  BY DEF Crash
<1>2. run[t] \in RunState /\ "crashed" \in Places
  BY RunFacts DEF TypeInv, Places
<1>3. l \in RunState /\ l.pc = "crashed" /\ l.session = run[t].session
  BY <1>2, LeftTyped
<1>4. l.override = "none"
  BY DEF Left, NotStarted
<1> HIDE DEF l
<1>5. [l EXCEPT !.canceled = FALSE].pc = "crashed" /\ [l EXCEPT !.canceled = FALSE].override = "none"
      /\ [l EXCEPT !.canceled = FALSE].session = run[t].session
  BY <1>3, <1>4 DEF RunState
<1> QED
  BY <1>1, <1>5 DEF Idles

LEMMA CanceledGoes ==
  ASSUME TypeInv, NEW t, Canceled(t), NEW u \in Tokens
  PROVE  Idles(u, run[u], run'[u])
<1>1. t \in Tokens /\ \A v \in Tokens \ {t} : run'[v] = run[v]
  BY CanceledTyped
<1>2. run'[t] = [run[t] EXCEPT !.canceled = TRUE] /\ run[t] \in RunState
  BY <1>1, RunFacts DEF Canceled, TypeInv, RunsTyped
<1>3. run'[t].pc = run[t].pc /\ run'[t].canceled /\ KeepsRest(run[t], run'[t])
  BY <1>2 DEF RunState, KeepsRest
<1> QED
  BY <1>1, <1>3 DEF Idles

LEMMA StartGoes ==
  ASSUME TypeInv, NEW id \in RunIds, NEW s \in Sessions, StartRun(id, s), NEW u \in Tokens
  PROVE  Idles(u, run[u], run'[u])
<1>1. PICK t \in Tokens :
        t = started + 1 /\ run' = [run EXCEPT ![t] = [@ EXCEPT !.pc = "init", !.id = id, !.session = s]]
  BY DEF StartRun
<1>2. run[t] = NotStarted /\ run'[t].pc = "init" /\ \A v \in Tokens \ {t} : run'[v] = run[v]
  BY <1>1, StartTyped
<1>3. run'[t] = [run[t] EXCEPT !.pc = "init", !.id = id, !.session = s]
  BY <1>1 DEF TypeInv, RunsTyped
<1>4. run'[t].phase = "none" /\ run'[t].override = "none"
  BY <1>2, <1>3 DEF NotStarted
<1> QED
  BY <1>2, <1>4 DEF Idles

\* A run takes a step of its loop, or keeps what the loop has given it.
LEMMA RunsGo ==
  ASSUME TypeInv, [Next]_vars, NEW u \in Tokens
  PROVE  LoopStep(u) \/ Idles(u, run[u], run'[u])
<1>1. CASE \E id \in RunIds, s \in Sessions : StartRun(id, s)
  BY <1>1, StartGoes
<1>2. CASE \/ \E id \in RunIds \ {None} : CancelRun(id)
           \/ CancelActiveRun
           \/ \E t \in Tokens : RequestEnds(t)
  BY <1>2, CanceledGoes DEF CancelRun, CancelActiveRun, RequestEnds
<1>3. ASSUME NEW t \in Tokens, RunStep(t) \/ EnterSession(t) \/ ToolSaves(t)
      PROVE  LoopStep(u) \/ Idles(u, run[u], run'[u])
  <2>1. CASE LoopStep(t)
    BY <2>1, LoopEffects DEF LoopEffect, Idles
  <2>2. CASE WaitForSession(t) \/ LeaveSession(t) \/ ToolSaves(t)
    BY <2>2 DEF WaitForSession, LeaveSession, ToolSaves, runVars, Idles
  <2>3. CASE EnterSession(t) \/ FailEarly(t) \/ DropLock(t) \/ MarkStopped(t) \/ FinishRun(t)
    BY <2>3, GoingOn DEF Idles
  <2> QED
    BY <1>3, <2>1, <2>2, <2>3 DEF RunStep
<1>4. CASE \/ \E o \in Ops : OpStep(o) \/ GetSession(o)
           \/ \E o \in Ops, s \in Sessions : Request(o, s)
           \/ \E s \in Sessions : CreateSession(s) \/ WriteUnlocked(s)
           \/ UNCHANGED vars
  <2>1. run' = run
    BY <1>4 DEF OpStep, Apply, ReturnSession, EndRequest, GetSession, Request, CreateSession,
                WriteUnlocked, runVars, vars
  <2> QED
    BY <2>1 DEF Idles
<1>5. CASE Crash
  BY <1>5, CrashGoes
<1> QED
  BY <1>1, <1>2, <1>3, <1>4, <1>5 DEF Next, LockedNext

\* A run that leaves its session keeps its copy until it is done.
CopiesKept ==
  \A u \in Tokens :
    (run'[u].pc \in {"end", "closing"} /\ copy[u] # "none") => copy'[u] # "none"

LEMMA CopiesGo ==
  ASSUME TypeInv, [Next]_vars
  PROVE  CopiesKept
<1>1. copy \in [Tokens -> {"none", "current", "bypassed", "stale"}]
  BY DEF TypeInv, StoreTyped
<1>2. ASSUME NEW s, NEW t, copy' = Stale(s, t) PROVE CopiesKept
  BY <1>2 DEF Stale, CopiesKept
<1>8. CASE \E s \in Sessions : WriteUnlocked(s)
  BY <1>8 DEF WriteUnlocked, Bypassed, CopiesKept
<1>3. ASSUME copy' = copy PROVE CopiesKept
  BY <1>3 DEF CopiesKept
<1>4. CASE \E t \in Tokens : RunStep(t) \/ EnterSession(t) \/ ToolSaves(t)
  <2> SUFFICES ASSUME NEW t \in Tokens, RunStep(t) \/ EnterSession(t) \/ ToolSaves(t)
               PROVE  CopiesKept
    BY <1>4
  <2>1. CASE LoopStep(t)
    <3>1. \/ copy' = copy \/ copy' = Stale(run[t].session, t)
          \/ copy' = [copy EXCEPT ![t] = "current"]
      BY <2>1, LoopAdvances DEF Advanced
    <3> QED
      BY <1>1, <1>2, <1>3, <3>1 DEF CopiesKept
  <2>2. CASE FinishRun(t)
    <3>1. copy' = [copy EXCEPT ![t] = "none"] /\ run'[t].pc = "done"
      BY <2>2, FinishTyped DEF FinishRun
    <3> QED
      BY <1>1, <3>1 DEF CopiesKept
  <2>3. CASE ToolSaves(t)
    BY <2>3, <1>2 DEF ToolSaves, Saved
  <2>4. CASE WaitForSession(t) \/ EnterSession(t) \/ FailEarly(t) \/ LeaveSession(t)
             \/ DropLock(t) \/ MarkStopped(t)
    BY <2>4, <1>3 DEF WaitForSession, EnterSession, FailEarly, LeaveSession, DropLock, MarkStopped,
                      runVars, Kept
  <2> QED
    BY <2>1, <2>2, <2>3, <2>4 DEF RunStep
<1>5. CASE \E o \in Ops : OpStep(o) \/ GetSession(o)
  <2> SUFFICES ASSUME NEW o \in Ops, OpStep(o) \/ GetSession(o) PROVE CopiesKept
    BY <1>5
  <2>1. CASE Apply(o)
    BY <2>1, <1>2, <1>3 DEF Apply, Effect, Edit, Delete, Stored
  <2>2. CASE ReturnSession(o) \/ EndRequest(o) \/ GetSession(o)
    BY <2>2, <1>3 DEF ReturnSession, EndRequest, GetSession, runVars, Stored
  <2> QED
    BY <2>1, <2>2 DEF OpStep
<1>6. CASE \/ \E id \in RunIds, s \in Sessions : StartRun(id, s)
           \/ \E id \in RunIds \ {None} : CancelRun(id)
           \/ CancelActiveRun
           \/ \E t \in Tokens : RequestEnds(t)
           \/ \E o \in Ops, s \in Sessions : Request(o, s)
           \/ \E s \in Sessions : CreateSession(s)
           \/ UNCHANGED vars
  BY <1>6, <1>3 DEF StartRun, CancelRun, CancelActiveRun, RequestEnds, Canceled, Request,
                    CreateSession, Stored, Kept, vars, runVars
<1>7. CASE Crash
  <2>1. \A t \in Tokens : run'[t].pc \in {"off", "done", "crashed"}
    BY <1>7, CrashTyped
  <2> QED
    BY <2>1 DEF CopiesKept
<1> QED
  BY <1>4, <1>5, <1>6, <1>7, <1>8 DEF Next, LockedNext

\* Records change when a run marks its phase, when it has ended, and when a
\* session is deleted by who holds it.
RecordsChange ==
  \/ resume' = resume /\ (exists' = exists \/ \E s \in Sessions : exists' = [exists EXCEPT ![s] = TRUE])
  \/ \E t \in Tokens : run[t].pc = "mark" /\ LoopEffect(t)
  \/ \E t \in Tokens : MarkStopped(t)
  \/ \E o \in Ops, s \in Sessions : Holds(o, s) /\ Delete(s)

LEMMA RecordsGo ==
  ASSUME TypeInv, [Next]_vars
  PROVE  RecordsChange
<1>1. RunsTyped /\ StoreTyped /\ LocksTypeOK
  BY DEF TypeInv, LocksInv
<1>2. CASE \E t \in Tokens : RunStep(t) \/ EnterSession(t) \/ ToolSaves(t)
  <2> SUFFICES ASSUME NEW t \in Tokens, RunStep(t) \/ EnterSession(t) \/ ToolSaves(t)
               PROVE  RecordsChange
    BY <1>2
  <2>1. CASE LoopStep(t)
    BY <2>1, LoopEffects DEF LoopEffect, RecordsChange
  <2>2. CASE ToolSaves(t)
    BY <2>2, SavedKeeps DEF ToolSaves, Others, RecordsChange
  <2>3. CASE MarkStopped(t)
    BY <2>3 DEF RecordsChange
  <2>4. CASE WaitForSession(t) \/ EnterSession(t) \/ FailEarly(t) \/ LeaveSession(t)
             \/ DropLock(t) \/ FinishRun(t)
    <3>1. resume' = resume /\ exists' = exists
      BY <2>4 DEF WaitForSession, EnterSession, FailEarly, LeaveSession, DropLock, FinishRun,
                  Step, Others, Kept, runVars
    <3> QED
      BY <3>1 DEF RecordsChange
  <2> QED
    BY <2>1, <2>2, <2>3, <2>4 DEF RunStep
<1>3. CASE \E o \in Ops : OpStep(o) \/ GetSession(o)
  <2> SUFFICES ASSUME NEW o \in Ops, OpStep(o) \/ GetSession(o) PROVE RecordsChange
    BY <1>3
  <2>1. CASE Apply(o)
    <3>1. PICK s \in Sessions : s = place[o].session /\ Holds(o, s)
      BY <1>1, <2>1, UserFacts, PlaceFacts DEF Apply, Holds, Idle
    <3>2. Effect(s)
      BY <2>1, <3>1 DEF Apply
    <3>3. CASE Delete(s)
      BY <3>1, <3>3 DEF RecordsChange
    <3>4. CASE Edit(s) \/ UNCHANGED Stored
      <4>1. exists' = exists /\ resume' = resume
        BY <3>4 DEF Edit, Stored
      <4> QED
        BY <4>1 DEF RecordsChange
    <3> QED
      BY <3>2, <3>3, <3>4 DEF Effect
  <2>2. CASE ReturnSession(o) \/ EndRequest(o) \/ GetSession(o)
    <3>1. resume' = resume /\ exists' = exists
      BY <2>2 DEF ReturnSession, EndRequest, GetSession, runVars, Stored
    <3> QED
      BY <3>1 DEF RecordsChange
  <2> QED
    BY <2>1, <2>2 DEF OpStep
<1>4. CASE \/ \E id \in RunIds, s \in Sessions : StartRun(id, s)
           \/ \E id \in RunIds \ {None} : CancelRun(id)
           \/ CancelActiveRun
           \/ \E t \in Tokens : RequestEnds(t)
           \/ \E o \in Ops, s \in Sessions : Request(o, s)
           \/ \E s \in Sessions : WriteUnlocked(s)
           \/ Crash
           \/ UNCHANGED vars
  <2>1. resume' = resume /\ exists' = exists
    BY <1>4 DEF StartRun, CancelRun, CancelActiveRun, RequestEnds, Canceled, Request, Crash,
                WriteUnlocked, Stored, vars, runVars
  <2> QED
    BY <2>1 DEF RecordsChange
<1>5. CASE \E s \in Sessions : CreateSession(s)
  BY <1>5 DEF CreateSession, Kept, RecordsChange
<1> QED
  BY <1>2, <1>3, <1>4, <1>5 DEF Next, LockedNext

-----------------------------------------------------------------------------
(* Phases and records. *)

LEMMA NextKeepsPhases ==
  ASSUME TypeInv, PhasesKept, [Next]_vars
  PROVE  PhasesKept'
<1> SUFFICES ASSUME NEW t \in Tokens PROVE PhaseAt(run'[t])
  BY DEF PhasesKept
<1>1. PhaseAt(run[t])
  BY DEF PhasesKept
<1>2. CASE LoopStep(t)
  BY <1>1, <1>2, LoopEffects DEF LoopEffect, LoopRun
<1>3. CASE Idles(t, run[t], run'[t])
  BY <1>1, <1>3 DEF Idles, GoesOn, Stops, KeepsRest, PhaseAt
<1> QED
  BY <1>2, <1>3, RunsGo

LEMMA StepAllowsPhases ==
  ASSUME TypeInv, PhasesKept, [Next]_vars, NEW t \in Tokens,
         run[t].pc = "turn", run'[t].pc = "end"
  PROVE  run[t].turn >= MaxTurns
<1>1. CASE LoopStep(t)
  BY <1>1, LoopEffects DEF LoopEffect, LoopRun, PhasesKept
<1>2. CASE Idles(t, run[t], run'[t])
  BY <1>2 DEF Idles, GoesOn
<1> QED
  BY <1>1, <1>2, RunsGo

\* No run is ended by its own phase machine: at the start of a turn the table of
\* transitions allows the phase the run enters (run_lifecycle.go).
THEOREM PhaseMachineNeverStops == Spec => PhasesAllowed
<1>1. Init => TypeInv /\ PhasesKept
  BY InitTyped DEF Init, NotStarted, PhasesKept, PhaseAt
<1>2. TypeInv /\ [Next]_vars => TypeInv'
  BY NextTyped
<1>3. TypeInv /\ PhasesKept /\ [Next]_vars => PhasesKept'
  BY NextKeepsPhases
<1>4. TypeInv /\ PhasesKept /\ [Next]_vars
        => [\A t \in Tokens : (run[t].pc = "turn" /\ run'[t].pc = "end") => run[t].turn >= MaxTurns]_vars
  BY StepAllowsPhases
<1> QED
  BY <1>1, <1>2, <1>3, <1>4, PTL DEF Spec, PhasesAllowed

\* The session of a run in its loop is stored, and a deleted one has no record.
StoredWhileHeld == \A t \in Tokens : run[t].pc \in Loop => exists[run[t].session]

GoneWithRecord == \A s \in Sessions : ~exists[s] => resume[s].phase = "none"

\* A record that starts something belongs to a run that is still at work on the
\* session, that was cut short, that is about to replace it, or could not.
RecordHeldAt(s) ==
  LET r == resume[s].run
  IN /\ r \in Tokens /\ run[r].session = s
     /\ \/ run[r].canceled
        \/ run[r].lost /\ run[r].pc \in {"finish", "done"}
        \/ run[r].pc \in (Loop \ {"resume"}) \cup {"end", "closing", "crashed"}
     /\ (~run[r].canceled /\ run[r].pc \in {"end", "closing"}) => copy[r] # "none"

RecordsHeld == \A s \in Sessions : resume[s].phase \in Phases => RecordHeldAt(s)

RecordInv == StoredWhileHeld /\ GoneWithRecord /\ RecordIsOwn /\ RecordsHeld

\* A run holds the session of its loop, and no one else does.
LEMMA HolderIsOne ==
  ASSUME TypeInv, Seated, NEW t \in Tokens, run[t].pc \in Loop, NEW v \in Users,
         Holds(v, run[t].session)
  PROVE  v = t
<1>1. Holds(t, run[t].session) /\ run[t].session \in Sessions
  BY RunFacts, LoopPlaces DEF Seated, SeatedAt, TypeInv, RunOK
<1>2. MutualExclusion
  BY ConsistentIsExclusive DEF TypeInv
<1> QED
  BY <1>1, <1>2, UserFacts DEF MutualExclusion

LEMMA MarkedEffect ==
  ASSUME StoreTyped, NEW t \in Tokens, NEW p \in Phases \cup {"stopped"}, Marked(t, p),
         run[t].session \in Sessions
  PROVE  /\ \A s \in Sessions : s # run[t].session => resume'[s] = resume[s]
         /\ resume'[run[t].session].run = t /\ resume'[run[t].session].phase = p
BY DEF Marked, StoreTyped

\* Where a run in its loop comes from.
LEMMA LoopFrom ==
  ASSUME TypeInv, NEW t \in Tokens, LoopStep(t)
  PROVE  /\ run'[t].session = run[t].session /\ run[t].session \in Sessions
         /\ run[t].pc \in Held /\ run'[t].pc \in Held \cup {"end"}
         /\ run'[t].pc \in Loop => run[t].pc \in Loop \cup {"load"}
<1>1. PICK n : run' = [run EXCEPT ![t] = n] /\ Advances(run[t], n)
  BY LoopAdvances DEF Advanced
<1>2. run'[t] = n
  BY <1>1 DEF TypeInv, RunsTyped
<1>3. run[t].session \in Sessions
  BY <1>1, RunFacts, LoopPlaces DEF TypeInv, RunOK, Advances
<1> QED
  BY <1>1, <1>2, <1>3 DEF Advances

\* How the record of a session changes.
RecordGoes(s) ==
  \/ resume'[s].run = resume[s].run /\ resume'[s].phase = resume[s].phase
  \/ \E t \in Tokens, p \in Phases :
       /\ run[t].pc = "mark" /\ LoopEffect(t) /\ run[t].session = s /\ ~run[t].canceled
       /\ exists[s] /\ resume'[s].run = t /\ resume'[s].phase = p
  \/ resume'[s].phase = "stopped"
  \/ \E o \in Ops : Holds(o, s) /\ resume'[s].phase = "none"

LEMMA RecordMoves ==
  ASSUME TypeInv, [Next]_vars, NEW s \in Sessions
  PROVE  RecordGoes(s)
<1>1. StoreTyped /\ RunsTyped
  BY DEF TypeInv
<1>2. CASE resume' = resume
  BY <1>2 DEF RecordGoes
<1>3. ASSUME NEW t \in Tokens, run[t].pc = "mark", LoopEffect(t) PROVE RecordGoes(s)
  <2>1. PICK p \in Phases : (Markable(t) /\ Marked(t, p)) \/ resume' = resume
    BY <1>3 DEF LoopEffect, MarkEffect, Phases
  <2>2. run[t].session \in Sessions
    BY <1>1, <1>3, RunFacts DEF RunOK
  <2>3. CASE Markable(t) /\ Marked(t, p)
    <3>1. /\ s # run[t].session => resume'[s] = resume[s]
          /\ resume'[run[t].session].run = t /\ resume'[run[t].session].phase = p
      BY <1>1, <2>2, <2>3, MarkedEffect
    <3> QED
      BY <1>3, <2>3, <3>1 DEF RecordGoes, Markable
  <2> QED
    BY <2>1, <2>3, <1>2
<1>4. ASSUME NEW t \in Tokens, MarkStopped(t) PROVE RecordGoes(s)
  <2>1. run[t].session \in Sessions
    BY <1>1, <1>4, RunFacts DEF RunOK, MarkStopped
  <2>2. CASE resume' = resume
    BY <2>2 DEF RecordGoes
  <2>3. CASE Marked(t, "stopped")
    BY <1>1, <2>1, <2>3, MarkedEffect DEF RecordGoes
  <2> QED
    BY <1>4, <2>2, <2>3 DEF MarkStopped
<1>5. ASSUME NEW o \in Ops, NEW d \in Sessions, Holds(o, d), Delete(d) PROVE RecordGoes(s)
  <2>1. resume'[s] = IF s = d THEN NoRecord ELSE resume[s]
    BY <1>1, <1>5 DEF Delete, StoreTyped
  <2> QED
    BY <1>5, <2>1 DEF NoRecord, RecordGoes
<1> QED
  BY <1>2, <1>3, <1>4, <1>5, RecordsGo DEF RecordsChange

\* A session that is stored stays so, unless who holds it deletes it.
LEMMA StoreMoves ==
  ASSUME TypeInv, [Next]_vars, NEW s \in Sessions
  PROVE  /\ exists[s] => exists'[s] \/ \E o \in Ops : Holds(o, s)
         /\ ~exists'[s] => \/ ~exists[s] /\ resume'[s].phase = resume[s].phase
                           \/ resume'[s].phase = "none"
<1>1. StoreTyped /\ RunsTyped
  BY DEF TypeInv
<1>2. CASE resume' = resume /\ (exists' = exists \/ \E r \in Sessions : exists' = [exists EXCEPT ![r] = TRUE])
  BY <1>1, <1>2 DEF StoreTyped
<1>3. ASSUME NEW t \in Tokens, run[t].session \in Sessions, NEW p \in Phases \cup {"stopped"},
             (Markable(t) /\ Marked(t, p)) \/ resume' = resume, exists' = exists
      PROVE  ~exists'[s] => ~exists[s] /\ resume'[s].phase = resume[s].phase
  <2>1. CASE Markable(t) /\ Marked(t, p)
    <3>1. s # run[t].session => resume'[s] = resume[s]
      BY <1>1, <1>3, <2>1, MarkedEffect
    <3> QED
      BY <1>3, <2>1, <3>1 DEF Markable
  <2> QED
    BY <1>3, <2>1
<1>4. CASE \E t \in Tokens : run[t].pc = "mark" /\ LoopEffect(t)
  <2>1. PICK t \in Tokens : run[t].pc = "mark" /\ LoopEffect(t)
    BY <1>4
  <2>2. run[t].session \in Sessions
    BY <1>1, <2>1, RunFacts DEF RunOK
  <2>3. exists' = exists /\ \E p \in Phases : (Markable(t) /\ Marked(t, p)) \/ resume' = resume
    BY <2>1 DEF LoopEffect, MarkEffect, Phases
  <2> QED
    BY <1>3, <2>2, <2>3
<1>5. CASE \E t \in Tokens : MarkStopped(t)
  <2>1. PICK t \in Tokens : MarkStopped(t)
    BY <1>5
  <2>2. run[t].session \in Sessions
    BY <1>1, <2>1, RunFacts DEF RunOK, MarkStopped
  <2>3. exists' = exists /\ ((Markable(t) /\ Marked(t, "stopped")) \/ resume' = resume)
    BY <2>1 DEF MarkStopped, Step, Others
  <2> QED
    BY <1>3, <2>2, <2>3
<1>6. CASE \E o \in Ops, d \in Sessions : Holds(o, d) /\ Delete(d)
  <2>1. PICK o \in Ops, d \in Sessions : Holds(o, d) /\ Delete(d)
    BY <1>6
  <2>2. resume'[s] = IF s = d THEN NoRecord ELSE resume[s]
    BY <1>1, <2>1 DEF Delete, StoreTyped
  <2>3. exists'[s] = IF s = d THEN FALSE ELSE exists[s]
    BY <1>1, <2>1 DEF Delete, StoreTyped
  <2> QED
    BY <2>1, <2>2, <2>3 DEF NoRecord
<1> QED
  BY <1>2, <1>4, <1>5, <1>6, RecordsGo DEF RecordsChange

LEMMA NextKeepsStored ==
  ASSUME TypeInv, Seated, StoredWhileHeld, GoneWithRecord, [Next]_vars
  PROVE  StoredWhileHeld' /\ GoneWithRecord'
<1>1. GoneWithRecord'
  <2> SUFFICES ASSUME NEW s \in Sessions, ~exists'[s] PROVE resume'[s].phase = "none"
    BY DEF GoneWithRecord
  <2> QED
    BY StoreMoves DEF GoneWithRecord
<1>2. ASSUME NEW t \in Tokens, run'[t].pc \in Loop PROVE exists'[run'[t].session]
  <2> DEFINE s == run[t].session
  <2>1. run'[t].session = s /\ s \in Sessions /\ exists[s] /\ ~\E o \in Ops : Holds(o, s)
    <3>1. CASE LoopStep(t)
      <4>1. run'[t].session = s /\ s \in Sessions /\ run[t].pc \in Loop \cup {"load"}
            /\ Holds(t, s)
        BY <1>2, <3>1, LoopFrom, LoopPlaces DEF Seated, SeatedAt
      <4>2. run[t].pc = "load" => exists[s]
        BY <1>2, <3>1, LoopEffects, LoopPlaces DEF LoopEffect
      <4>3. MutualExclusion
        BY ConsistentIsExclusive DEF TypeInv
      <4>4. ~\E o \in Ops : Holds(o, s)
        BY <4>1, <4>3, UserFacts DEF MutualExclusion
      <4> QED
        BY <4>1, <4>2, <4>4 DEF StoredWhileHeld
    <3>2. CASE Idles(t, run[t], run'[t])
      <4>1. run[t].pc \in Loop /\ run'[t].session = s
        BY <1>2, <3>2 DEF Idles, GoesOn, Stops, KeepsRest, Loop
      <4>2. s \in Sessions
        BY <4>1, RunFacts, LoopPlaces DEF TypeInv, RunOK
      <4> QED
        BY <4>1, <4>2, HolderIsOne, UserFacts DEF StoredWhileHeld
    <3> QED
      BY <3>1, <3>2, RunsGo
  <2> QED
    BY <2>1, StoreMoves
<1> QED
  BY <1>1, <1>2 DEF StoredWhileHeld

LEMMA NextKeepsOwn ==
  ASSUME TypeInv, Seated, StoredWhileHeld, RecordIsOwn, [Next]_vars
  PROVE  RecordIsOwn'
<1> SUFFICES ASSUME NEW t \in Tokens, run'[t].pc \in Recorded, ~run'[t].canceled, ~run'[t].lost
             PROVE  \/ resume'[run'[t].session].run = t
                    \/ resume'[run'[t].session].phase = "stopped"
  BY DEF RecordIsOwn, Recorded
<1> DEFINE s == run[t].session
<1>1. Recorded \subseteq Loop /\ "mark" \in Loop
  BY DEF Recorded, Loop
<1>2. CASE LoopStep(t) /\ run[t].pc = "mark"
  <2>1. run'[t].session = s /\ s \in Sessions /\ LoopEffect(t)
    BY <1>2, LoopFrom, LoopEffects
  <2>2. PICK p \in Phases : Marked(t, p)
    BY <1>2, <2>1 DEF LoopEffect, MarkEffect
  <2> QED
    BY <2>1, <2>2, MarkedEffect DEF TypeInv
<1>3. CASE ~(LoopStep(t) /\ run[t].pc = "mark")
  <2>1. run[t].pc \in Recorded /\ ~run[t].canceled /\ ~run[t].lost /\ run'[t].session = s
    <3>1. CASE LoopStep(t)
      BY <1>3, <3>1, LoopFrom, LoopEffects DEF LoopEffect, LoopRun
    <3>2. CASE Idles(t, run[t], run'[t])
      BY <3>2 DEF Idles, GoesOn, Stops, KeepsRest, Recorded
    <3> QED
      BY <3>1, <3>2, RunsGo
  <2>2. s \in Sessions
    BY <1>1, <2>1, RunFacts, LoopPlaces DEF TypeInv, RunOK
  <2>3. resume[s].run = t \/ resume[s].phase = "stopped"
    BY <2>1 DEF RecordIsOwn, Recorded
  <2>4. ~\E o \in Ops : Holds(o, s)
    BY <1>1, <2>1, HolderIsOne, UserFacts
  <2>5. ~\E u \in Tokens : run[u].pc = "mark" /\ run[u].session = s
    <3> SUFFICES ASSUME NEW u \in Tokens, run[u].pc = "mark", run[u].session = s PROVE FALSE
      OBVIOUS
    <3>1. Holds(u, s)
      BY <1>1, LoopPlaces DEF Seated, SeatedAt
    <3>2. u = t
      BY <1>1, <2>1, <3>1, HolderIsOne, UserFacts
    <3> QED
      BY <2>1, <3>2 DEF Recorded
  <2> QED
    BY <2>1, <2>2, <2>3, <2>4, <2>5, RecordMoves DEF RecordGoes
<1> QED
  BY <1>2, <1>3

\* The run of a record stays what the record says of it.
LEMMA HeldOnward ==
  ASSUME TypeInv, Seated, GoneWithRecord, [Next]_vars, NEW s \in Sessions,
         resume'[s].phase = resume[s].phase, resume'[s].run = resume[s].run,
         resume[s].phase \in Phases, RecordHeldAt(s)
  PROVE  RecordHeldAt(s)'
<1> DEFINE r == resume[s].run
<1>1. r \in Tokens /\ run[r].session = s /\ exists[s]
      /\ \/ run[r].canceled
         \/ run[r].lost /\ run[r].pc \in {"finish", "done"}
         \/ run[r].pc \in (Loop \ {"resume"}) \cup {"end", "closing", "crashed"}
      /\ ((~run[r].canceled /\ run[r].pc \in {"end", "closing"}) => copy[r] # "none")
  BY DEF RecordHeldAt, GoneWithRecord, Phases
<1>2. CopiesKept
  BY CopiesGo
<1>3. CASE LoopStep(r)
  <2>1. run'[r].session = s /\ run[r].pc \in Held /\ run'[r].pc \in Held \cup {"end"}
        /\ (run'[r].pc \in Loop => run[r].pc \in Loop \cup {"load"})
    BY <1>1, <1>3, LoopFrom
  <2>2. run'[r].canceled = run[r].canceled /\ (run'[r].pc = "resume" => run[r].pc = "load")
    BY <1>1, <1>3, LoopEffects DEF LoopEffect, LoopRun
  <2>3. CASE run[r].canceled
    BY <1>1, <2>1, <2>2, <2>3 DEF RecordHeldAt
  <2>4. CASE ~run[r].canceled
    <3>1. run[r].pc \in Loop \ {"resume"}
      BY <1>1, <2>1, <2>4, LoopPlaces DEF Held, Loop
    <3>2. run'[r].pc \in (Loop \ {"resume"}) \cup {"end"}
      <4>1. run'[r].pc # "load"
        BY <1>1, <1>3, LoopEffects DEF LoopEffect, LoopRun
      <4> QED
        BY <2>1, <2>2, <3>1, <4>1, LoopPlaces DEF Held
    <3>3. copy[r] # "none"
      BY <1>1, <3>1 DEF Seated, SeatedAt
    <3>4. run'[r].pc \in {"end", "closing"} => copy'[r] # "none"
      BY <1>1, <1>2, <3>3 DEF CopiesKept
    <3> QED
      BY <1>1, <2>1, <3>2, <3>4 DEF RecordHeldAt
  <2> QED
    BY <2>3, <2>4
<1>4. CASE Idles(r, run[r], run'[r])
  <2>1. CASE run'[r] = run[r]
    BY <1>1, <1>2, <2>1 DEF RecordHeldAt, CopiesKept
  <2>2. CASE run[r] = NotStarted
    BY <1>1, <2>2 DEF NotStarted, Loop
  <2>3. CASE run'[r].pc = run[r].pc /\ run'[r].canceled /\ KeepsRest(run[r], run'[r])
    BY <1>1, <2>3 DEF RecordHeldAt, KeepsRest
  <2>4. CASE GoesOn(r, run[r], run'[r])
    <3>1. run'[r].session = s /\ run'[r].canceled = run[r].canceled
      BY <1>1, <2>4 DEF GoesOn, KeepsRest
    <3>2. CASE run[r].canceled
      BY <1>1, <3>1, <3>2 DEF RecordHeldAt
    <3>3. CASE ~run[r].canceled /\ run[r].pc = "end"
      <4>1. run'[r].pc = "closing"
        BY <2>4, <3>3 DEF GoesOn
      <4> QED
        BY <1>1, <1>2, <3>1, <3>3, <4>1 DEF RecordHeldAt, CopiesKept
    <3>4. CASE ~run[r].canceled /\ run[r].pc = "closing"
      <4>1. Stops(r, run'[r]) /\ copy[r] # "none"
        BY <1>1, <2>4, <3>4 DEF GoesOn
      <4>2. CASE Marked(r, "stopped")
        <5>1. resume'[s].phase = "stopped"
          BY <1>1, <4>2, MarkedEffect DEF TypeInv
        <5> QED
          BY <5>1 DEF Phases
      <4>3. CASE run'[r].lost
        BY <1>1, <3>1, <4>1, <4>3 DEF RecordHeldAt, Stops
      <4> QED
        BY <4>1, <4>2, <4>3 DEF Stops
    <3>5. CASE ~run[r].canceled /\ run[r].pc = "finish"
      <4>1. run[r].lost /\ run'[r].pc = "done" /\ run'[r].lost
        BY <1>1, <2>4, <3>5 DEF GoesOn, Loop
      <4> QED
        BY <1>1, <3>1, <4>1 DEF RecordHeldAt
    <3> QED
      BY <1>1, <2>4, <3>2, <3>3, <3>4, <3>5 DEF GoesOn, Loop
  <2>5. CASE run'[r].pc = "crashed" /\ run'[r].session = run[r].session
    BY <1>1, <2>5 DEF RecordHeldAt
  <2> QED
    BY <1>4, <2>1, <2>2, <2>3, <2>4, <2>5 DEF Idles
<1> QED
  BY <1>1, <1>3, <1>4, RunsGo

LEMMA NextKeepsHeld ==
  ASSUME TypeInv, Seated, GoneWithRecord, RecordsHeld, [Next]_vars
  PROVE  RecordsHeld'
<1> SUFFICES ASSUME NEW s \in Sessions, resume'[s].phase \in Phases PROVE RecordHeldAt(s)'
  BY DEF RecordsHeld
<1>1. CASE resume'[s].run = resume[s].run /\ resume'[s].phase = resume[s].phase
  BY <1>1, HeldOnward DEF RecordsHeld
<1>2. ASSUME NEW t \in Tokens, run[t].pc = "mark", LoopEffect(t), run[t].session = s,
             ~run[t].canceled, resume'[s].run = t
      PROVE  RecordHeldAt(s)'
  <2>1. run[t].pc \in Loop /\ copy[t] # "none"
    BY <1>2, LoopNames DEF Seated, SeatedAt
  <2>2. run'[t].session = s /\ run'[t].pc \in (Loop \ {"resume"}) \cup {"end", "closing", "crashed"}
    <3>1. CASE LoopStep(t)
      <4>1. run'[t].session = s /\ run'[t].pc \in Held \cup {"end"}
        BY <1>2, <3>1, LoopFrom
      <4>2. run'[t].pc # "resume" /\ run'[t].pc # "load"
        BY <1>2, <2>1, LoopPlaces DEF LoopEffect, LoopRun
      <4> QED
        BY <4>1, <4>2, LoopPlaces DEF Held
    <3>2. CASE Idles(t, run[t], run'[t])
      BY <1>2, <2>1, <3>2 DEF Idles, GoesOn, KeepsRest, NotStarted
    <3> QED
      BY <3>1, <3>2, RunsGo
  <2>3. run'[t].pc \in {"end", "closing"} => copy'[t] # "none"
    BY <2>1, CopiesGo DEF CopiesKept
  <2> QED
    BY <1>2, <2>2, <2>3 DEF RecordHeldAt
<1> QED
  BY <1>1, <1>2, RecordMoves DEF RecordGoes, Phases

LEMMA NextKeepsRecords ==
  ASSUME TypeInv, Seated, RecordInv, [Next]_vars
  PROVE  RecordInv'
BY NextKeepsStored, NextKeepsOwn, NextKeepsHeld DEF RecordInv

LEMMA RecordsInitially ==
  ASSUME Init
  PROVE  Seated /\ RecordInv
<1>1. \A t \in Tokens : run[t].pc = "off" /\ place[t] = Idle
  BY UserFacts DEF Init, LocksInit, NotStarted
<1>2. \A s \in Sessions : exists[s] /\ resume[s].phase = "none"
  BY DEF Init, NoRecord
<1>3. Seated
  BY <1>1 DEF Seated, SeatedAt, Held, Loop
<1>4. StoredWhileHeld /\ RecordIsOwn
  BY <1>1 DEF StoredWhileHeld, RecordIsOwn, Loop
<1>5. GoneWithRecord /\ RecordsHeld
  BY <1>2 DEF GoneWithRecord, RecordsHeld, Phases
<1> QED
  BY <1>3, <1>4, <1>5 DEF RecordInv

\* A crash in the middle of a turn finds the record of the run that was at work,
\* or one that starts nothing, when the run could write its last record: the
\* session lock keeps the records of others away (checkpoint_resume.go, run.go).
THEOREM OwnRecords == Spec => []RecordIsOwn
<1>1. Init => TypeInv /\ Seated /\ RecordInv
  BY InitTyped, RecordsInitially
<1>2. TypeInv /\ [Next]_vars => TypeInv'
  BY NextTyped
<1>3. TypeInv /\ Seated /\ [Next]_vars => Seated'
  BY NextSeated
<1>4. TypeInv /\ Seated /\ RecordInv /\ [Next]_vars => RecordInv'
  BY NextKeepsRecords
<1>5. RecordInv => RecordIsOwn
  BY DEF RecordInv
<1> QED
  BY <1>1, <1>2, <1>3, <1>4, <1>5, PTL DEF Spec

\* A run that starts from a record holds the session, so the run of the record
\* does not.
LEMMA ResumeInterrupted ==
  ASSUME TypeInv, Seated, RecordInv, [Next]_vars, NEW t \in Tokens,
         run[t].override = "none", run'[t].override # "none"
  PROVE  LET r == resume[run[t].session].run
         IN run[r].canceled \/ run[r].lost \/ run[r].pc \in {"crashed", "end", "closing"}
<1> DEFINE s == run[t].session
           r == resume[s].run
<1>1. CASE LoopStep(t)
  <2>1. run[t].pc = "resume" /\ Resumable(t)
    BY <1>1, LoopEffects DEF LoopEffect, LoopRun
  <2>2. s \in Sessions
    BY <1>1, LoopFrom
  <2>3. ~run[t].canceled /\ resume[s].phase \in Phases
    BY <2>1 DEF Resumable, Override, Phases
  <2>4. RecordHeldAt(s)
    BY <2>2, <2>3 DEF RecordInv, RecordsHeld
  <2>5. r \in Tokens /\ run[r].session = s
        /\ \/ run[r].canceled \/ run[r].lost
           \/ run[r].pc \in (Loop \ {"resume"}) \cup {"end", "closing", "crashed"}
    BY <2>4 DEF RecordHeldAt
  <2>6. run[r].pc \in Loop \ {"resume"} => FALSE
    <3> SUFFICES ASSUME run[r].pc \in Loop \ {"resume"} PROVE FALSE
      OBVIOUS
    <3>1. Holds(r, s)
      BY <2>5, LoopPlaces DEF Seated, SeatedAt
    <3>2. r = t
      BY <2>1, <2>5, <3>1, HolderIsOne, UserFacts, LoopNames
    <3> QED
      BY <2>1, <3>2
  <2> QED
    BY <2>5, <2>6
<1>2. CASE Idles(t, run[t], run'[t])
  BY <1>2 DEF Idles, GoesOn, KeepsRest
<1> QED
  BY <1>1, <1>2, RunsGo

\* A run resumes only where an earlier one was cut short, was about to write that
\* it had stopped, or could not write it (checkpoint_resume.go).
THEOREM OnlyInterruptedResume == Spec => ResumesInterrupted
<1>1. Init => TypeInv /\ Seated /\ RecordInv
  BY InitTyped, RecordsInitially
<1>2. TypeInv /\ [Next]_vars => TypeInv'
  BY NextTyped
<1>3. TypeInv /\ Seated /\ [Next]_vars => Seated'
  BY NextSeated
<1>4. TypeInv /\ Seated /\ RecordInv /\ [Next]_vars => RecordInv'
  BY NextKeepsRecords
<1>5. TypeInv /\ Seated /\ RecordInv /\ [Next]_vars
        => [\A t \in Tokens :
             (run[t].override = "none" /\ run'[t].override # "none")
               => LET r == resume[run[t].session].run
                  IN run[r].canceled \/ run[r].lost \/ run[r].pc \in {"crashed", "end", "closing"}]_vars
  BY ResumeInterrupted
<1> QED
  BY <1>1, <1>2, <1>3, <1>4, <1>5, PTL DEF Spec, ResumesInterrupted

-----------------------------------------------------------------------------
(* The lock table implements a mutex for each session. *)

\* The owner of a session is who holds it.
OwnerIsHolder ==
  /\ OwnerOf \in [Sessions -> Users \cup {None}]
  /\ \A s \in Sessions, u \in Users : Holds(u, s) <=> OwnerOf[s] = u

LEMMA OwnerFacts == TypeInv => OwnerIsHolder
<1> SUFFICES ASSUME TypeInv PROVE OwnerIsHolder
  OBVIOUS
<1>1. MutualExclusion
  BY ConsistentIsExclusive DEF TypeInv
<1>2. ASSUME NEW s \in Sessions
      PROVE  /\ OwnerOf[s] \in Users \cup {None}
             /\ \A u \in Users : Holds(u, s) <=> OwnerOf[s] = u
  <2>1. CASE \E u \in Users : Holds(u, s)
    <3>1. OwnerOf[s] \in Users /\ Holds(OwnerOf[s], s)
      BY <2>1 DEF OwnerOf
    <3> QED
      BY <3>1, <1>1 DEF MutualExclusion
  <2>2. CASE ~(\E u \in Users : Holds(u, s))
    BY <2>2, UsersFinite DEF OwnerOf
  <2> QED
    BY <2>1, <2>2
<1>3. OwnerOf = [s \in Sessions |-> OwnerOf[s]]
  BY DEF OwnerOf
<1> QED
  BY <1>2, <1>3 DEF OwnerIsHolder

\* When nobody takes or leaves a session, its owner stays.
LEMMA OwnerStays ==
  ASSUME OwnerIsHolder, OwnerIsHolder', NEW s \in Sessions,
         \A u \in Users : Holds(u, s)' <=> Holds(u, s)
  PROVE  OwnerOf'[s] = OwnerOf[s]
<1>1. OwnerOf[s] \in Users \cup {None} /\ OwnerOf'[s] \in Users \cup {None}
  BY DEF OwnerIsHolder
<1>2. \A u \in Users : OwnerOf'[s] = u <=> OwnerOf[s] = u
  BY DEF OwnerIsHolder
<1> QED
  BY <1>1, <1>2

LEMMA LocksStepImplements ==
  ASSUME TypeInv, TypeInv', OwnerIsHolder, OwnerIsHolder', LocksStep
  PROVE  Mutex!Next \/ OwnerOf' = OwnerOf
<1>1. LocksTypeOK /\ LocksConsistent
  BY DEF TypeInv, LocksInv
<1>2. OwnerOf \in [Sessions -> Users \cup {None}] /\ OwnerOf' \in [Sessions -> Users \cup {None}]
  BY DEF OwnerIsHolder
<1>3. CASE \E u \in Users : (\E s \in Sessions : Acquire(u, s)) \/ Release(u)
  <2>1. PICK u \in Users : (\E s \in Sessions : Acquire(u, s)) \/ Release(u)
    BY <1>3
  <2>2. \A v \in Users \ {u} : place'[v] = place[v]
    BY <2>1, OneUserMoves
  <2>3. place[u].at # "holding"
    BY <2>1 DEF Acquire, Release, Idle
  <2>4. place'[u].at # "holding"
    BY <1>1, <2>1 DEF Acquire, Release, Idle, LocksTypeOK
  <2>5. \A s \in Sessions, v \in Users : Holds(v, s)' <=> Holds(v, s)
    BY <2>2, <2>3, <2>4 DEF Holds
  <2>6. \A s \in Sessions : OwnerOf'[s] = OwnerOf[s]
    BY <2>5, OwnerStays
  <2> QED
    BY <1>2, <2>6
<1>4. CASE \E u \in Users : Lock(u) \/ Unlock(u)
  <2>1. PICK u \in Users, s \in Sessions :
          (Lock(u) \/ Unlock(u)) /\ place[u].session = s /\ place[u] # Idle
    BY <1>1, <1>4, PlaceFacts DEF Lock, Unlock, Idle
  <2>2. \A v \in Users \ {u} : place'[v] = place[v]
    BY <2>1, OneUserMoves
  <2>3. place'[u].session = s /\ place'[u].at = IF Lock(u) THEN "holding" ELSE "unlocked"
    BY <1>1, <2>1 DEF Lock, Unlock, LocksTypeOK, Idle
  <2>4. \A r \in Sessions \ {s}, v \in Users : Holds(v, r)' <=> Holds(v, r)
    BY <2>1, <2>2, <2>3 DEF Holds
  <2>5. \A r \in Sessions \ {s} : OwnerOf'[r] = OwnerOf[r]
    BY <2>4, OwnerStays
  <2>6. CASE Lock(u)
    <3>1. \A v \in Users : ~Holds(v, s)
      <4> SUFFICES ASSUME NEW v \in Users, Holds(v, s) PROVE FALSE
        OBVIOUS
      <4>1. place[v].entry = lockOf[s] /\ place[u].entry = lockOf[s] /\ lockOf[s] \in Entries
        BY <1>1, <2>1, PlaceFacts DEF Holds, LocksConsistent, Idle
      <4>2. holder[lockOf[s]] = v
        BY <1>1, <4>1 DEF Holds, LocksConsistent
      <4> QED
        BY <2>6, <4>1, <4>2, UsersFinite DEF Lock
    <3>2. OwnerOf[s] = None
      BY <1>2, <3>1 DEF OwnerIsHolder
    <3>3. OwnerOf'[s] = u
      BY <2>3, <2>6 DEF OwnerIsHolder, Holds
    <3>4. OwnerOf' = [OwnerOf EXCEPT ![s] = u]
      BY <1>2, <2>5, <3>3
    <3> QED
      BY <3>2, <3>4 DEF Mutex!Next, Mutex!Take
  <2>7. CASE ~Lock(u)
    <3>1. Holds(u, s)
      BY <2>1, <2>7 DEF Unlock, Holds
    <3>2. OwnerOf[s] = u
      BY <3>1 DEF OwnerIsHolder
    <3>3. \A v \in Users : ~Holds(v, s)'
      <4> SUFFICES ASSUME NEW v \in Users, Holds(v, s)' PROVE FALSE
        OBVIOUS
      <4>1. v # u
        BY <2>3, <2>7 DEF Holds
      <4>2. Holds(v, s)
        BY <2>2, <4>1 DEF Holds
      <4> QED
        BY <3>2, <4>1, <4>2 DEF OwnerIsHolder
    <3>4. OwnerOf'[s] = None
      BY <1>2, <3>3 DEF OwnerIsHolder
    <3>5. OwnerOf' = [OwnerOf EXCEPT ![s] = None]
      BY <1>2, <2>5, <3>4
    <3> QED
      BY <3>2, <3>5, UsersFinite DEF Mutex!Next, Mutex!Give
  <2> QED
    BY <2>6, <2>7
<1>5. CASE LocksLost
  <2>1. \A s \in Sessions, v \in Users : ~Holds(v, s)'
    BY <1>5 DEF LocksLost, Holds, Idle
  <2>2. \A s \in Sessions : OwnerOf'[s] = None
    BY <1>2, <2>1 DEF OwnerIsHolder
  <2>3. OwnerOf' = [s \in Sessions |-> None]
    BY <1>2, <2>2
  <2> QED
    BY <2>3 DEF Mutex!Next, Mutex!Crash
<1>6. CASE UNCHANGED lockVars
  <2>1. \A s \in Sessions, v \in Users : Holds(v, s)' <=> Holds(v, s)
    BY <1>6 DEF lockVars, Holds
  <2>2. \A s \in Sessions : OwnerOf'[s] = OwnerOf[s]
    BY <2>1, OwnerStays
  <2> QED
    BY <1>2, <2>2
<1> QED
  BY <1>3, <1>4, <1>5, <1>6 DEF LocksStep

\* Whatever a step does, to the lock table it is a lock's step.
LEMMA StepsAreLocksSteps ==
  ASSUME TypeInv, [Next]_vars
  PROVE  LocksStep
<1>1. CASE Next
  <2>1. CASE \E t : Canceled(t) \/ FinishRun(t)
    BY <2>1 DEF Canceled, FinishRun, LocksStep
  <2>2. CASE \E id \in RunIds, s \in Sessions : StartRun(id, s)
    BY <2>2 DEF StartRun, LocksStep
  <2>3. CASE Crash
    BY <2>3 DEF Crash, LocksStep
  <2>4. CASE \E t \in Tokens : Advanced(t)
    BY <2>4 DEF Advanced, LocksStep
  <2> QED
    BY <1>1, <2>1, <2>2, <2>3, <2>4, NextIsOne DEF Steps, Moved, Changed
<1>2. CASE UNCHANGED vars
  BY <1>2 DEF vars, LocksStep
<1> QED
  BY <1>1, <1>2

\* Acquire, lock, unlock and release on entries that come and go, with a crash
\* at any time, are a mutual exclusion lock for each session.
THEOREM LocksAreMutexes == Spec => ImplementsMutex
<1>1. Init => TypeInv
  BY InitTyped
<1>2. TypeInv /\ [Next]_vars => TypeInv'
  BY NextTyped
<1>3. TypeInv => OwnerIsHolder
  BY OwnerFacts
<1>4. Init => Mutex!Init
  <2> SUFFICES ASSUME Init PROVE Mutex!Init
    OBVIOUS
  <2>1. \A s \in Sessions, v \in Users : ~Holds(v, s)
    BY DEF Init, LocksInit, Holds, Idle
  <2>2. OwnerOf = [s \in Sessions |-> None]
    BY <2>1 DEF OwnerOf
  <2> QED
    BY <2>2 DEF Mutex!Init
<1>5. TypeInv /\ TypeInv' /\ OwnerIsHolder /\ OwnerIsHolder' /\ [Next]_vars => [Mutex!Next]_OwnerOf
  BY StepsAreLocksSteps, LocksStepImplements
<1> QED
  BY <1>1, <1>2, <1>3, <1>4, <1>5, PTL DEF Spec, ImplementsMutex, Mutex!Spec

=============================================================================
