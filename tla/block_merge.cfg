SPECIFICATION LightSpec
CONSTANTS
  a = a
  b = b
  Capacity = 2
  Letters = {a, b}
  Mode = {"STANDARD", "CREATE"}
  MaxUpdates = 2
  MaxVersion = 2
SYMMETRY LetterSymmetry
INVARIANTS
  WritesKept
  ReadsPatched
PROPERTIES
  ReadsCurrent
  FlushMerges
CHECK_DEADLOCK FALSE
