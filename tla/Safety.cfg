SPECIFICATION Spec
CONSTANTS
  Runs <- TwoRuns
  Kinds <- SpeedAndEncoderKinds
  SnapTarget = 2
  FramesPerPoll = 2
INVARIANTS
  TypeOK
  SupervisedPower
  SpiExclusive
  TrustedCommutation
  PowerOnlyInRun
  FlashWriteIsolated
  RecordFromRest
PROPERTIES
  RunEntry
  PowerUpIsHostStart
  TripStaysVisible
  ImplementsInterlock
