SPECIFICATION ERSpec
CONSTANTS
  SeedMax = 255
  Mantissa = 7
  Scale = 11
  Sizes = {1, 2, 3, 4}
  MaxStake = 3
  LastSlot = 2
INVARIANTS ShareFollowsStake NoStakeNoLead
