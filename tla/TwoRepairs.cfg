SPECIFICATION FairSpec
CONSTANTS
  Paths <- MCPaths
  Users <- MCUsers
  HistoryCap = 2
  SaveFailures = 1
  MaxStarts = 3
  MaxExits = 1
  MaxLaunches = 2
INVARIANTS
  BakIsLeft
CHECK_DEADLOCK FALSE
