SPECIFICATION SpecR
CONSTANTS
  f = f
  g = g
  r1 = r1
  s1 = s1
  Absent = Absent
  Tools = {"write", "delete"}
  Delete = "delete"
  Files = {f, g}
  Contents = {"x", "y"}
  Runs = {r1}
  Session <- MC_OneRun
  MaxCalls = 2
  MaxWrites = 1
  MaxRestores = 2
  MaxCompactions = 1
INVARIANTS
  TypeOK
  UndoReturns
  RestoredFilesMatch
SYMMETRY Symmetry
CHECK_DEADLOCK FALSE
