SPECIFICATION Spec
CONSTANTS
  c1 = c1
  c2 = c2
  Completers = {c1, c2}
  MaxReceives = 2
  MaxFaults = 1
SYMMETRY Symmetry
INVARIANTS
  TypeOK
  RetractedIsNotFiled
  OneAutomaticTicket
  OneOutcome
  ResultsComeBack
  ResolvedIsClosed
CHECK_DEADLOCK FALSE
