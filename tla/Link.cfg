SPECIFICATION Spec
CONSTANTS
  Chunks = 2
  DataFrames = 2
  TxDepth = 2
  FramesPerPoll = 2
  FramesPerBurst = 2
  MaxJobs = 2
  MaxTrouble = 1
INVARIANTS
  TableInUseIsWhole
PROPERTIES
  UploadIsInUse
  SeriesIsOneCapture
