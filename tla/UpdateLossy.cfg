SPECIFICATION UpdateSpec
CONSTANTS
  Pages <- ThreePages
  Offsets <- FiveOffsets
  Cells <- TwoCells
  Values <- OldAndNew
  Protected <- BootPages
  Vectors <- FirstWord
  GoodVectors <- GoodEntries
  Lines <- WordLines
  Shipped <- OldFlash
  FlashFails = TRUE
  Size <- LineSizes
  Frame = 61
  Capacity = 256
  AppPages <- Image
  Blocks <- WordBlocks
  Target <- NewImage
  PageAttempts = 3
  VerifyAttempts = 3
  PowerCuts = 3
INVARIANTS
  SuccessIsImage
  EarlierPagesAreWhole
CHECK_DEADLOCK FALSE
