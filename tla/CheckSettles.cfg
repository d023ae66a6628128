SPECIFICATION FairSpec
CONSTANTS
  p1 = p1
  p2 = p2
  Items = {p1}
  MaxArtifacts = 2
  MaxReceives = 2
  MaxCalls = 2
  MaxMessages = 2
  MaxRestarts = 1
  MaxDays = 1
  MaxMishaps = 2
INVARIANTS
  ReservedOnce
  EvidenceOnce
  ResultOfItsGeneration
  WaitingIsDelivered
PROPERTIES
  FinishedIsScored
CHECK_DEADLOCK FALSE
