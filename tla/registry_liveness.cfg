SPECIFICATION FairSpec
CONSTANTS
  h1 = h1
  h2 = h2
  h3 = h3
  h4 = h4
  u1 = u1
  u2 = u2
  w1 = w1
  c1 = c1
  c2 = c2
  all = all
  Handle = {h1, h2, h3}
  User = {u1}
  Workspace = {w1}
  Connection = {c1}
  Global = all
  Sizes = {1, 2}
  TTL = 2
  MaxGlobal = 2
  MaxUser = 2
  MaxWS = 3
  MaxConn = 2
  MaxStateBytes = 3
  MaxGlobalBytes = 4
  MaxUserBytes = 3
  MaxWSBytes = 4
  MaxConnBytes = 3
  MaxClock = 3
CHECK_DEADLOCK FALSE
PROPERTIES
  NothingHangs
  ImplementsOneShot
