SPECIFICATION FairSpec
CONSTANTS
  n1 = n1
  n2 = n2
  n3 = n3
  a1 = a1
  a2 = a2
  Nothing = Nothing
  Names <- MCNames
  Addrs <- MCAddrs
  Choices <- MCChoices
  Questions <- MCQuestions
  Callers = {c1, c2}
  CnameDepthLimit = 2
  TTL = 1
  SlotInterval = 1
  Word = 4
  CacheTTLs <- MCCacheTTLs
INVARIANTS WalkIsExact AnswersAreRecent ServedTTLBounded
PROPERTIES EveryWalkEnds CacheHeals
