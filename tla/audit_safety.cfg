SPECIFICATION FairSpec
CONSTANTS
  First = {f1}
  Follow = {n1, n2}
  MaxFaults = 2
  MaxChanges = 2
  MaxCrashes = 1
CHECK_DEADLOCK FALSE
INVARIANTS
  ShownIsAudited
  TraceOrAlarm
  AuditAgrees
  TokenFollowsAudit
  AuthorizationIsFresh
PROPERTIES
  ExecutionEnds
