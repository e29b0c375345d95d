CONSTANTS
  KeyLen = 3
  Node8Slots = 2
  BucketSlots = 2
  MaxType = 3
  RaceSlots = 2
  PageSize = 2
  hash <- MCHash
  Setups <- MCSetups
SPECIFICATION FairSpec
INVARIANTS  PhasesAreKept
PROPERTY EveryProcessEnds
