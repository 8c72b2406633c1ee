\* Two requests on one credential, and nothing fails.
SPECIFICATION Spec
CONSTANTS
  t1 = t1
  t2 = t2
  c1 = c1
  Tx = {t1, t2}
  Conn = {c1}
  MaxVersion = 3
  MaxClock = 1
  WrapLimit = 4
  Faulty = {}
SYMMETRY Symmetry
CHECK_DEADLOCK FALSE
INVARIANT RotateLoserIsConflict
