SPECIFICATION FairSpec
CONSTANTS
  Runs <- OneRun
  Kinds <- OneKind
  SnapTarget = 1
  FramesPerPoll = 1
PROPERTIES
  FaultEndsPower
  LostHostStopsMotor
  DirtyIsPersisted
  BurstEnds
  IdleInterruptCloses
