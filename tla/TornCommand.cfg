SPECIFICATION FairSpec
CONSTANTS
  NaN = NaN
  Commands <- NoLimits
  Measured <- Rest
  MaxVelocity = 32
  DefaultVelocity = 32
  DefaultAccel = NaN
  Slip = 40
  Pushes <- NoPush
  MaxPushes = 0
  MaxCommands = 2
  Range = 310
PROPERTIES
  MovesAreLimited
CHECK_DEADLOCK FALSE
