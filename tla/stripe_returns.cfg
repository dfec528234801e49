SPECIFICATION FairLightSpec
CHECK_DEADLOCK FALSE
CONSTANTS
  NumData = 2
  NumParity = 1
  Calls = {c1, c2}
  First = c1
  Kinds = {"put", "remove"}
  Modes = {"REQUIRE_SAME_VERSION"}
  AbsentPut = {"VERSION_MISMATCH"}
  Timely = TRUE
  MaxFaults = 2
  MaxCrashes = 1
  MaxOutages = 2
  Empty = Empty
  NoVersion = NoVersion
  Initial = Initial
  AnyVersion = AnyVersion
INVARIANTS AtMostOneWinner RestAligned AcknowledgedReadable
INVARIANTS OneQuorumWinner WriteOnce NoStaleRead
PROPERTIES NoResurrection EveryoneReturns
