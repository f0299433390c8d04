SPECIFICATION Spec
CONSTANTS
  a = a
  b = b
  TodoIds = {a, b}
  NoTodo = NoTodo
  ReplaceLists <- MC_ReplaceLists
  MaxRevision = 1
  MaxEdits = 2
INVARIANTS
  LeftoversNeverBlockRun
SYMMETRY Symmetry
