SPECIFICATION Spec
CONSTANTS
  Keys = {"reg", "rex", "usr"}
  TrustedRegistries = {"reg", "rex"}
  Domains = {"dom"}
  Salts = {"s1"}
  RecordSets = {"A"}
  MinStakeThreshold = 2
  UnstakeDelaySlots = 2
  CommitMinDelay = 1
  CommitMaxWindow = 2
  GraceSlots = 1
  MaxU64 = 255
  SeedMax = 15
  Mantissa = 7
  Scale = 11
  RegistryKeys <- TwoNodes
  SlotsPerEpoch = 2
  BlockTxLimit = 2
  Submitted <- RaceTxs
  InitBal <- Seeded
  MaxSlot = 6
  Drift = 1
INVARIANT StateAlwaysReplay
CHECK_DEADLOCK FALSE
