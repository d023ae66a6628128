SPECIFICATION Spec
CONSTANTS
  Requests = {r1}
  Deliveries = {d1, d2}
  r1 = r1
  d1 = d1
  d2 = d2
  MaxReceives = 2
  Silent = TRUE
  Faults = {"crash", "outage", "contention"}
SYMMETRY Symmetry
INVARIANTS
  TypeOK
  StatusIsTrue
  JobAnswersForNote
PROPERTIES
  NoteReachesCityOnce
  SettledStays
CHECK_DEADLOCK FALSE
