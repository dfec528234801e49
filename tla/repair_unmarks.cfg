SPECIFICATION RepairSpec
CHECK_DEADLOCK FALSE
CONSTANTS
  NumData = 2
  NumParity = 1
  Calls = {c1, r}
  AdminCall = r
  Kinds = {"put"}
  Modes = {"REQUIRE_SAME_VERSION"}
  AbsentPut = {"VERSION_MISMATCH"}
  Timely = TRUE
  MaxFaults = 1
  MaxCrashes = 0
  MaxOutages = 1
  Operations = {"REPAIR"}
  Targets = {"INDICATOR"}
  Empty = Empty
  NoVersion = NoVersion
  Initial = Initial
  AnyVersion = AnyVersion
PROPERTIES MisalignedStaysMarked
