SPECIFICATION Spec
CONSTANTS
  r1 = r1
  r2 = r2
  r3 = r3
  Null = Null
  Row = {r1, r2, r3}
  Content <- MCContent
  Metadata <- MCMetadata
  Request <- MCRequest
  Cap = 3
  DefaultPage = 2
  MaxChanges = 2
SYMMETRY MCSymmetry
CHECK_DEADLOCK FALSE
INVARIANTS
  StableRowsOnce
  PagesInOrder
  TokensAreGood
