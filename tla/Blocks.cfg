SPECIFICATION Spec
CONSTANTS
  Keys = {"reg", "rex", "usr"}
  TrustedRegistries = {"reg", "rex"}
  Domains = {"dom"}
  Salts = {"s1"}
  RecordSets = {"A"}
  MinStakeThreshold = 2
  UnstakeDelaySlots = 2
  CommitMinDelay = 1
  CommitMaxWindow = 2
  GraceSlots = 1
  MaxU64 = 255
  SeedMax = 15
  Mantissa = 7
  Scale = 11
  RegistryKeys <- TwoNodes
  SlotsPerEpoch = 2
  BlockTxLimit = 2
  Submitted <- StakingTxs
  InitBal <- Seeded
  MaxSlot = 5
  Drift = 2
INVARIANTS StateIsReplay HashesMatch RepeatsAreLate PoolNoncesDistinct
CHECK_DEADLOCK FALSE
