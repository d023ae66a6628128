SPECIFICATION Spec
CONSTANTS
  NumCodes = 1
  Jobs = {j1, j2}
  Messages = {m1, m2}
  j1 = j1
  j2 = j2
  m1 = m1
  m2 = m2
  MaxReceives = 2
  MaxRuntime = 1
  LeaseTime = 2
  Visibility = 2
  WithImage = FALSE
  Faults = {"crash"}
SYMMETRY Symmetry
INVARIANTS
  AtMostOneTicket
  CityWorkIsRecorded
PROPERTIES
  UserResolutionStands
CHECK_DEADLOCK FALSE
