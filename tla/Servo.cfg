SPECIFICATION FairSpec
CONSTANTS
  NaN = NaN
  Commands <- SomeCommands
  Measured <- RestOrMotion
  MaxVelocity = 32
  DefaultVelocity = 32
  DefaultAccel = NaN
  Slip = 40
  Pushes <- Off
  MaxPushes = 1
  MaxCommands = 2
  Range = 310
INVARIANTS
  NoOvershoot
PROPERTIES
  LimitsHold
  StopHolds
  Arrives
CHECK_DEADLOCK FALSE
