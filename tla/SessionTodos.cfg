SPECIFICATION Spec
CONSTANTS
  a = a
  b = b
  TodoIds = {a, b}
  NoTodo = NoTodo
  ReplaceLists <- MC_ReplaceLists
  MaxRevision = 3
  MaxEdits = 2
INVARIANTS
  TypeOK
  ApprovedIsSeen
  ListLoads
PROPERTIES
  DependenciesStayDone
  TerminalIsFinal
  CompletionConverged
  OwnedTodosSurvive
SYMMETRY Symmetry
