SPECIFICATION FairSpec
CONSTANTS
  Artifacts = {}
  Calls = {c1, c2}
  Workers = {w1, w2}
  c1 = c1
  c2 = c2
  w1 = w1
  w2 = w2
  MaxAttempts = 2
  MaxReceives = 2
  Faults = {"send"}
INVARIANTS
  TypeOK
  ResultIsCurrent
PROPERTIES
  ReadyUntilDeleted
  AnalysisSettles
CHECK_DEADLOCK FALSE
