SPECIFICATION FairSpec
CONSTANTS
  o1 = o1
  s1 = s1
  e1 = e1
  e2 = e2
  e3 = e3
  i1 = i1
  None = None
  Users <- MC_Users
  Sessions = {s1}
  Entries = {e1, e2, e3}
  RunIds = {i1}
  Ops = {o1}
  MaxRuns = 2
  MaxTurns = 1
  MaxContinues = 1
  MaxReactive = 1
INVARIANTS
  TypeOK
  NotOvertaken
  RegistryConsistent
  RecordIsOwn
PROPERTIES
  ResumesInterrupted
  PhasesAllowed
  RunEnds
  ImplementsMutex
