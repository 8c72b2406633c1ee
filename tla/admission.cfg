SPECIFICATION FairSpec
CONSTANTS
  q1 = q1
  q2 = q2
  q3 = q3
  u1 = u1
  u2 = u2
  w1 = w1
  c1 = c1
  c2 = c2
  Call = {q1, q2, q3}
  User = {u1, u2}
  Workspace = {w1}
  Connection = {c1, c2}
  MaxUser = 2
  MaxWorkspace = 2
  MaxConn = 1
CHECK_DEADLOCK FALSE
INVARIANTS
  SlotsExact
PROPERTIES
  SlotsReturn
