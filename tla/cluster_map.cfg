SPECIFICATION LightSpec
CHECK_DEADLOCK FALSE
CONSTANTS
  Ids = {a}
  Files <- SomeFiles
  Threads = {t1, t2}
  First = t1
  NumWorkers = 2
  Drives = {d1}
  QueueCapacity = 3
  Modulus = 16
  MaxLoads = 2
  MaxCalls = 3
  MaxTraffic = 1
  MaxFaults = 1
  MaxElapse = 1
  None = None
INVARIANTS NoUseAfterDestruction 
PROPERTIES HandsOutCurrent PeriodExact 
