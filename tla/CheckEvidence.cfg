SPECIFICATION Spec
CONSTANTS
  p1 = p1
  p2 = p2
  Items = {p1, p2}
  MaxArtifacts = 2
  MaxReceives = 1
  MaxCalls = 2
  MaxMessages = 2
  MaxRestarts = 1
  MaxDays = 0
  MaxMishaps = 1
SYMMETRY Symmetry
INVARIANTS
  TypeOK
  ScorecardIsWhole
PROPERTIES
  LateEvidenceStaysOut
CHECK_DEADLOCK FALSE
