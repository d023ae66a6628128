SPECIFICATION Spec
CONSTANTS
  NumCodes = 2
  Jobs = {j1}
  Messages = {m1}
  j1 = j1
  m1 = m1
  MaxReceives = 2
  MaxRuntime = 1
  LeaseTime = 2
  Visibility = 2
  WithImage = TRUE
  Faults = {"crash", "outage", "contention"}
SYMMETRY Symmetry
INVARIANTS
  TypeOK
  FiledMeansCityHasAll
  ImageSentAtMostOnce
PROPERTIES
  OneRequestPerService
CHECK_DEADLOCK FALSE
