SPECIFICATION RetrySpec
CONSTANTS
  Budget = 640
  BaseDelay = 4
  MaxDelay = 128
  MaxAttempts = 10
  RngSteps = 4
  LeaseTTL = 480
  OutageHints <- NoOutages
INVARIANTS DocumentedDelay
CHECK_DEADLOCK FALSE
