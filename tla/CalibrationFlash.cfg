SPECIFICATION Spec
CONSTANTS
  Geometry <- EncoderAndComp
  Electrical <- OneParameter
  Measured <- TwoTables
  Readings <- OneReading
  Typed <- NothingTyped
  FlashFails = TRUE
INVARIANTS
  NoEmptyInUse
  PersistedIsInUse
PROPERTIES
  ImplementsDurableRecord
