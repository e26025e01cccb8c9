SPECIFICATION MCSpec
CONSTANTS
  Keys = {"reg", "usr", "own"}
  TrustedRegistries = {"reg"}
  Domains = {"dom"}
  Salts = {"s1", "s2"}
  RecordSets = {"A", "B"}
  MinStakeThreshold = 2
  UnstakeDelaySlots = 2
  CommitMinDelay = 2
  CommitMaxWindow = 2
  GraceSlots = 3
  MaxU64 = 255
  Scenarios <- Unbonding
  Submitted <- Menu
  InitBal <- Tight
  MaxSlot = 5
  MaxBlocks = 4
  MaxBlockTxs = 2
PROPERTY CoinsConserved
CHECK_DEADLOCK FALSE
