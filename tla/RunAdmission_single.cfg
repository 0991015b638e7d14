SPECIFICATION FairSpec
CONSTANTS
  u1 = u1
  u2 = u2
  h1 = h1
  h2 = h2
  r1 = r1
  r2 = r2
  Null = Null
  User <- MCUsers
  Handler <- OneHandler
  RunId <- TwoRuns
  MaxChildren = 2
  Level <- Levels
  UserMax = 2
  GlobalMax = 3
INVARIANTS
  SlotLimits
  AllWorkCounted
  RegistriesAgree
PROPERTIES
  ImplementsPool
  StopFreesSlots
  RunsReclaimed
