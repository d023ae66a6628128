SPECIFICATION Spec
CONSTANTS
  Slots = {h1, h2}
  Grants = {g1, g2}
  Calls = {c1, c2}
  h1 = h1
  h2 = h2
  g1 = g1
  g2 = g2
  c1 = c1
  c2 = c2
  SlotLimit = 1
  MaxJti = 3
  RereadLimit = 2
  MaxMishaps = 1
SYMMETRY Symmetry
INVARIANTS
  TypeOK
  OneSuccessor
  Renewable
  EndedTokensStayDead
PROPERTIES
  ReauthOnlyWhenOver
  GrantDiesWithItsSession
CHECK_DEADLOCK FALSE
