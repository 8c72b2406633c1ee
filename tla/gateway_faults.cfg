SPECIFICATION Spec
CONSTANTS
  Tree <- MCTree
  Height <- MCHeight
  Scenarios <- MCScenarios
  Conn <- MCConn
  ConnData <- MCConnData
  Entries = {e1, e2, e3}
  Results <- MCResults
  MaxConnections = 1
  MaxEntries = 2
  MaxChanges = 2
  MaxCellBytes = 40
  MaxRowBytes = 60
  MicrosPerSecond = 2
INVARIANT FaultsAreFolded
CHECK_DEADLOCK FALSE
