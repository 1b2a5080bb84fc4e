SPECIFICATION StreamFairSpec
CONSTANTS
  MaxRows = 1
  MaxOpens = 1
  NoCall = NoCall
PROPERTIES CancelEndsIteration
CHECK_DEADLOCK FALSE
