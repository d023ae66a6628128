SPECIFICATION Spec
CONSTANTS
  p1 = p1
  p2 = p2
  Items = {p1}
  MaxArtifacts = 2
  MaxReceives = 1
  MaxCalls = 2
  MaxMessages = 2
  MaxRestarts = 1
  MaxDays = 1
  MaxMishaps = 1
INVARIANTS
  DeletedIsGone
CHECK_DEADLOCK FALSE
