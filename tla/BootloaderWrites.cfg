SPECIFICATION Spec
CONSTANTS
  Pages <- TwoPages
  Offsets <- TwoOffsets
  Cells <- TwoCells
  Values <- OneValue
  Protected <- BootPages
  Vectors <- FirstWord
  GoodVectors <- EntryVectors
  Lines <- SmallLines
  Shipped <- Delivered
  FlashFails = TRUE
  Size <- ShortLines
  Frame = 2
  Capacity = 2
INVARIANTS
  LockedIsWritten
PROPERTIES
  OnlyWrittenPagesChange
