SPECIFICATION Spec
CONSTANTS
  h1 = h1
  h2 = h2
  h3 = h3
  h4 = h4
  u1 = u1
  u2 = u2
  w1 = w1
  c1 = c1
  c2 = c2
  all = all
  Handle = {h1, h2, h3, h4}
  User = {u1, u2}
  Workspace = {w1}
  Connection = {c1, c2}
  Global = all
  Sizes = {1, 2, 4}
  TTL = 2
  MaxGlobal = 2
  MaxUser = 2
  MaxWS = 3
  MaxConn = 2
  MaxStateBytes = 3
  MaxGlobalBytes = 4
  MaxUserBytes = 3
  MaxWSBytes = 4
  MaxConnBytes = 3
  MaxClock = 3
SYMMETRY MCSymmetry
CHECK_DEADLOCK FALSE
INVARIANTS
  TypeOK
  QuotaKept
  ClaimedStaysClaimed
  OneTokenPerChain
  DeadlineAbsolute
PROPERTIES
  InFlightNotEvicted
