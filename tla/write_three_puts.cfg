SPECIFICATION Spec
SYMMETRY CallSymmetry
CHECK_DEADLOCK FALSE
CONSTANTS
  NumData = 2
  NumParity = 1
  Calls = {c1, c2, c3}
  Kinds = {"put"}
  Modes = {"REQUIRE_SAME_VERSION"}
  AbsentPut = {"VERSION_MISMATCH"}
  Timely = TRUE
  MaxFaults = 0
  MaxCrashes = 0
  Empty = Empty
  NoVersion = NoVersion
  Initial = Initial
  AnyVersion = AnyVersion
INVARIANT AtMostOneWinner
