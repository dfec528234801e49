SPECIFICATION LightSpec
CONSTANTS
  Owners = {w1}
  Keys = {k1, k2, k3}
  Threads = {t1, t2}
  Size <- Equal
  Capacities = {1, 2}
  MaxObjects = 3
  ForcedDrops = {"unused"}
  None = None
SYMMETRY Symmetry
INVARIANTS
  Consistent
  HeldIsMine
  UnflushedIsCached
CHECK_DEADLOCK FALSE
