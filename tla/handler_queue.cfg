SPECIFICATION LightSpec
CONSTANTS
  p1 = p1
  p2 = p2
  p3 = p3
  s1 = s1
  s2 = s2
  s3 = s3
  Producers = {p1, p2}
  Slots = {s1, s2}
  Admin = Admin
  None = None
  Methods = {"run", "try_run"}
  WorkerThreads = 1
  QueueDepth = 1
  Configurations <- LargerOrNoQueue
  Destructible = TRUE
INVARIANTS
  NothingLostOrRepeated
  DestroyedRanAll
CHECK_DEADLOCK FALSE
PROPERTIES
  ImplementsExecutor
  AcceptedRuns
  
