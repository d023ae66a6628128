SPECIFICATION FairSpec
CONSTANTS
  NumCodes = 1
  Jobs = {j1, j2}
  Messages = {m1, m2}
  j1 = j1
  j2 = j2
  m1 = m1
  m2 = m2
  MaxReceives = 2
  MaxRuntime = 0
  LeaseTime = 1
  Visibility = 1
  WithImage = FALSE
  Faults = {}
PROPERTIES
  QueuedSettles
CHECK_DEADLOCK FALSE
