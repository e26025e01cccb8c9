SPECIFICATION MCSpec
CONSTANTS
  Keys = {"reg", "usr", "own"}
  TrustedRegistries = {"reg"}
  Domains = {"dom"}
  Salts = {"s1", "s2"}
  RecordSets = {"A", "B"}
  MinStakeThreshold = 2
  UnstakeDelaySlots = 2
  CommitMinDelay = 2
  CommitMaxWindow = 2
  GraceSlots = 3
  MaxU64 = 255
  Scenarios <- Validating
  Submitted <- Menu
  InitBal <- Tight
  MaxSlot = 9
  MaxBlocks = 5
  MaxBlockTxs = 3
INVARIANTS TypeOK DebitsCovered NoReplay OffencePunishedOnce StakeFloor
INVARIANTS BuyCovered MarketFindsDomain RevealTakesEffect
INVARIANTS CommitBeforeReveal HeadUnspent
PROPERTIES BlocksAreAtomic CoinsAccounted CoinsLeaveBySignature
PROPERTIES OwnerLosesByConsent
CHECK_DEADLOCK FALSE
