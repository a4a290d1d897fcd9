SPECIFICATION Spec
CONSTANTS
  Currents <- Readings
  Ratings <- TwoRatings
  OvercurrentCount = 3
  Window = 4
  MaxSamples = 5
INVARIANTS
  PeakIsConsecutive
PROPERTIES
  TripsOnWorstWindow
