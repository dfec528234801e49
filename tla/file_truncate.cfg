CONSTANTS
  p1 = p1
  p2 = p2
  Processes = {p1}
  LastBlock = 1
  Capacity = 2
  Attributes = {1, 2}
  Existing = {1}
  PageSize = 2
  Drives <- ThreeDrives
  Holders <- EverywhereHeld
  Writes <- SmallWrites
  Reads <- SmallReads
  Truncations = {0}
  Operations <- ReopenMethods
  MaxCalls = 5
  MaxFaults = 0
  MaxElapse = 1
  MaxTasks = 1

SPECIFICATION Spec
PROPERTY TruncationReported
CHECK_DEADLOCK FALSE
