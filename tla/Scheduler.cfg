SPECIFICATION FairSpec
CONSTANTS
  a = a
  b = b
  c = c
  TodoIds = {a, b, c}
  NoTodo = NoTodo
  Order <- MC_Order
  InitialLists <- MC_Lists
  MaxConcurrency = 2
  MaxRetries = 1
  FailFastRuns = {1}
  RecoveryFail = FALSE
  DispatchOnce = FALSE
  MaxRuns = 2
  MaxEdits = 1
INVARIANTS
  TypeOK
  OutcomesAccounted
  OneExecutorEach
  NothingLeftInProgress
  OwnWritesAccepted
PROPERTIES
  RunEnds
CHECK_DEADLOCK FALSE
