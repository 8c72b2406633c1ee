SPECIFICATION MCSpec
CONSTANTS
  p1 = p1
  p2 = p2
  p3 = p3
  k1 = k1
  k2 = k2
  Call = {p1, p2, p3}
  Config = {k1, k2}
  MaxRev = 2
CHECK_DEADLOCK FALSE
INVARIANTS
  TypeOK
  NoPoolLeaks
  HandleMatchesRequest
  OneServingPool
PROPERTIES
  GetReturns
  CloseReleasesPools
