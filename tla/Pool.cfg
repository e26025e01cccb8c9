SPECIFICATION FairSpec
CONSTANTS
  NumPeers = 2
  Callers = {c1, c2}
  MaxChanges = 1
INVARIANTS GiveUpIsJustified
PROPERTIES EveryCallReturns FlaggedPeerReturns
CHECK_DEADLOCK FALSE
