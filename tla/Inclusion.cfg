SPECIFICATION Spec
CONSTANTS
  Names = {n1}
  NoName = NoName
  Sizes = {1, 2}
  SlotsPerEpoch = 2
  Confirmations = 1
  MaxBlocks = 3
  MaxSlot = 4
  MaxQueries = 2
INVARIANT ProofsVerifyInclusion
CHECK_DEADLOCK FALSE
