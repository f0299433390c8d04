SPECIFICATION SpecH
CONSTANTS
  f = f
  g = g
  r1 = r1
  r2 = r2
  s1 = s1
  Absent = Absent
  Tools = {"write", "delete"}
  Delete = "delete"
  Unknown = Unknown
  Files = {f, g}
  Contents = {"x"}
  Runs = {r1, r2}
  Session <- MC_OneSession
  MaxCalls = 2
  MaxWrites = 2
  MaxRestores = 0
  MaxCompactions = 1
INVARIANTS
  BaselineIsFirstTouch
  RunWritesCheckpointed
SYMMETRY Symmetry
CHECK_DEADLOCK FALSE
