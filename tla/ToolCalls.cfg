SPECIFICATION FairSpec
CONSTANTS
  edit = edit
  write = write
  ask = ask
  k1 = k1
  e1 = e1
  e2 = e2
  e3 = e3
  run = run
  None = None
  NumCalls = 3
  Parallelism = 2
  AskUser = ask
  AskKey = run
  Keys = {k1}
  Entries = {e1, e2}
  ToolOf <- MC_ToolOf
  KeyOf <- MC_KeyOf
  Policy <- MC_Policy
INVARIANTS
  TypeOK
  OnceIsOnce
  OneRequestAtATime
  NothingLeftWaiting
  TurnComplete
PROPERTIES
  TurnEnds
