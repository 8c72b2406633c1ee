SPECIFICATION FairSpec
CONSTANTS
  q1 = q1
  l1 = l1
  k1 = k1
  s1 = s1
  Query = {q1}
  Catalog = {l1}
  Lookup = {k1}
  Session = {s1}
  MaxPermits = 2
  MaxFaults = 2
CHECK_DEADLOCK FALSE
INVARIANTS
  PooledSessionsAreClean
  RunsReadOnly
  RepliesAreHonest
  SessionsCovered
PROPERTIES
  SessionsReturn
