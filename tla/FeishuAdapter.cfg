SPECIFICATION Spec
CONSTANTS
  m1 = m1
  m2 = m2
  d1 = d1
  d2 = d2
  q1 = q1
  q2 = q2
  q3 = q3
  allow = allow
  reject = reject
  k1 = k1
  Loop = Loop
  None = None
  Messages = {m1, m2}
  Deliveries = {d1, d2}
  Requests = {q1, q2, q3}
  Decisions = {allow, reject}
  Clicks = {k1}
  RunOf <- MC_RunOf
CONSTRAINT MC_Bound
SYMMETRY MC_Symmetry
INVARIANTS
  TypeOK
  OneTrackedRun
  OneRunLeft
  RequestShown
CHECK_DEADLOCK FALSE
