SPECIFICATION LightSpec
CONSTANTS
  c1 = c1
  c2 = c2
  Clients = {c1, c2}
  NumDrives = 2
  MaxConnections = 2
  MaxElapses = 1
  MaxBreaks = 1
  MaxRounds = 2
INVARIANTS
  Watched
  OutstandingExact
  IssuedIfUnfinished
  QuietAfterExecution
PROPERTIES
  FirstResultCounts
  OnlyBrokenSetIntoError
  EveryOperationReturns
CHECK_DEADLOCK FALSE
