SPECIFICATION StreamFairSpec
CONSTANTS
  MaxRows = 3
  MaxOpens = 2
  NoCall = NoCall
INVARIANTS RelayInOrder PrunedWereDelivered CleanEndIsEarned
PROPERTIES ReachedCancelEnds
CHECK_DEADLOCK FALSE
