SPECIFICATION HSFairSpec
CONSTANTS
  FullNodes = {f1, f2}
  Makers = {f1}
  Capacity = 1
  MaxHeight = 3
  MaxBreaks = 1
INVARIANT HeadersConsecutive
PROPERTY LightCatchesUp
CHECK_DEADLOCK FALSE
