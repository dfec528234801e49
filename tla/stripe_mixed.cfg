SPECIFICATION MixedSpec
SYMMETRY ClientSymmetry
CHECK_DEADLOCK FALSE
CONSTANTS
  NumData = 2
  NumParity = 1
  Calls = {c1, c2, r}
  AdminCall = r
  Kinds = {"put", "remove"}
  Modes = {"REQUIRE_SAME_VERSION"}
  AbsentPut = {"VERSION_MISMATCH"}
  Timely = TRUE
  MaxFaults = 1
  MaxCrashes = 1
  MaxOutages = 2
  Operations = {"SCAN", "REPAIR", "RESET"}
  Targets = {"INDICATOR", "KEY"}
  Empty = Empty
  NoVersion = NoVersion
  Initial = Initial
  AnyVersion = AnyVersion
INVARIANTS AcknowledgedIsRead
INVARIANTS RepairAligns  AcknowledgedSurvives
PROPERTIES RepairKeepsValue
