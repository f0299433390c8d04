SPECIFICATION Spec
CONSTANTS
  c1 = c1
  c2 = c2
  s1 = s1
  r1 = r1
  loop = loop
  None = None
  Conns = {c1}
  Sessions = {s1}
  Runs = {r1}
  Publishers = {loop}
  TTL = 2
  MaxBindings = 2
  QueueSize = 2
  MaxEvents = 1
INVARIANTS
  RoutesComplete
CHECK_DEADLOCK FALSE
