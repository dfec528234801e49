SPECIFICATION FairSpec
CONSTANTS
  p1 = p1
  p2 = p2
  p3 = p3
  s1 = s1
  s2 = s2
  s3 = s3
  Producers = {p1}
  Slots = {s1}
  Admin = Admin
  None = None
  Methods = {"run"}
  WorkerThreads = 1
  QueueDepth = 1
  Configurations <- NoChange
  Destructible = TRUE
PROPERTIES
  DestructorReturns
CHECK_DEADLOCK FALSE
