SPECIFICATION Spec
CONSTANTS
  Artifacts = {a1, a2}
  Calls = {c1, c2}
  Workers = {w1}
  a1 = a1
  a2 = a2
  c1 = c1
  c2 = c2
  w1 = w1
  MaxAttempts = 2
  MaxReceives = 2
  Faults = {"crash", "outage", "stale"}
SYMMETRY Symmetry
INVARIANTS
  CountedFilesAreKept
PROPERTIES
  MediaGoesFirst
CHECK_DEADLOCK FALSE
