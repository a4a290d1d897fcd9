SPECIFICATION FairSpec
CONSTANTS
  Settle = 1
  Sample = 2
  MinSamples = 2
  MaxPoints = 4
  PointRequests <- PointChoices
  Hold = 2
  StepTimeout = 2
  Cooldown = 2
  MaxTrials = 4
  TrialRequests <- TrialChoices
  CogBins = 4
  RecordRevs = 1
  MinCountPerBin = 1
  SettleTimeout = 2
  RecordTimeout = 6
  PhaseBins = 5
  FullSpeed = 3
  RevsEachWay = 2
  SenseTravel = 1
  AlignSettle = 3
  SenseTimeout = 8
  LockSettle = 3
  LockTotal = 6
  LockMin = 3
  MinPerBin = 2
  AlignSwing = 1
  FillBins = 12
  FillPasses = 4
INVARIANTS
  TypeOK
  SweepIsFitted
  CoggingWentRound
  SignIsWiring
  SpinIsSampled
  GapsAreFilled
PROPERTIES
  StepsAreApart
  SessionEnds
CHECK_DEADLOCK FALSE
