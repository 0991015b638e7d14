SPECIFICATION Spec
CONSTANTS
  u1 = u1
  u2 = u2
  h1 = h1
  h2 = h2
  r1 = r1
  r2 = r2
  Null = Null
  User <- MCUsers
  Handler <- TwoHandlers
  RunId <- TwoRuns
  MaxChildren = 2
  Level <- Levels
  UserMax = 3
  GlobalMax = 4
INVARIANT SlotLimits
