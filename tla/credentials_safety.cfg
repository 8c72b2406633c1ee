\* Three requests on one credential and two connections; every statement and
\* commit may fail.
SPECIFICATION Spec
CONSTANTS
  t1 = t1
  t2 = t2
  t3 = t3
  c1 = c1
  c2 = c2
  Tx = {t1, t2, t3}
  Conn = {c1, c2}
  MaxVersion = 4
  MaxClock = 1
  WrapLimit = 3
  Faulty = {t1, t2, t3}
SYMMETRY Symmetry
CHECK_DEADLOCK FALSE
INVARIANT TypeOK
INVARIANT NoRetiredReference
INVARIANT OneRotationPerVersion
INVARIANT TrailIsComplete
PROPERTY RevisionGrows
