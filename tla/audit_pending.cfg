SPECIFICATION Spec
CONSTANTS
  First = {f1}
  Follow = {n1}
  MaxFaults = 0
  MaxChanges = 0
  MaxCrashes = 0
CHECK_DEADLOCK FALSE
INVARIANTS
  NoPermanentPending
