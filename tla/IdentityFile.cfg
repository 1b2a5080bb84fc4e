SPECIFICATION FileSpec
CONSTANTS
  Creators = {c1, c2}
  BodySize = 2
  MaxFiles = 3
  MaxPowerLoss = 1
SYMMETRY Symmetry
INVARIANTS NeverPartial SuccessIsDurable NoTempLeft
CHECK_DEADLOCK FALSE
