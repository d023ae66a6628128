SPECIFICATION FairSpec
CONSTANTS
  Requests = {r1}
  Deliveries = {d1, d2}
  r1 = r1
  d1 = d1
  d2 = d2
  MaxReceives = 2
  Silent = FALSE
  Faults = {}
PROPERTIES
  JobEnds
CHECK_DEADLOCK FALSE
