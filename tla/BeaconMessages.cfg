SPECIFICATION Spec
CONSTANTS
  Peers = {p1}
  Values = {v1, v2}
  NoValue = NoValue
  SlotsPerEpoch = 2
  MaxSlot = 4
INVARIANTS RandomsOpenCommitments NoRevealLeftBehind
PROPERTY FirstCommitmentStands
CHECK_DEADLOCK FALSE
