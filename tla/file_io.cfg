CONSTANTS
  p1 = p1
  p2 = p2
  Processes = {p1, p2}
  LastBlock = 1
  Capacity = 2
  Attributes = {1, 2}
  Existing = {3}
  PageSize = 2
  Drives <- ThreeDrives
  Holders <- EverywhereHeld
  Writes <- SmallWrites
  Reads <- SmallReads
  Truncations = {0, 1}
  Operations <- TwoMethods
  MaxCalls = 4
  MaxFaults = 1
  MaxElapse = 1
  MaxTasks = 1

SPECIFICATION LightSpec
INVARIANT UnflushedIsCached
PROPERTY SizeExact
PROPERTY ReturnsWhenStored
CHECK_DEADLOCK FALSE
