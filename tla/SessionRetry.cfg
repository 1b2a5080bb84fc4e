SPECIFICATION RetryFairSpec
CONSTANTS
  Budget = 40
  BaseDelay = 1
  MaxDelay = 8
  MaxAttempts = 7
  RngSteps = 4
  LeaseTTL = 30
  OutageHints <- MCOutageHints
INVARIANTS LoopIsBounded LeaseWaitedOut
PROPERTIES LoopEnds
CHECK_DEADLOCK FALSE
