SPECIFICATION ScheduledSpec
CONSTANTS
  u1 = u1
  u2 = u2
  h1 = h1
  h2 = h2
  r1 = r1
  r2 = r2
  r3 = r3
  Null = Null
  User <- MCUsers
  Handler <- TwoHandlers
  RunId <- ThreeRuns
  MaxChildren = 1
  Level <- Levels
  UserMax = 2
  GlobalMax = 3
  RawLevels <- Raw
  MaxLevels = 2
  MaxLevel = 2
  MaxProfiles = 2
SYMMETRY Symmetry
INVARIANTS
  OvercommitBound
  PartialOnlyIfOvertaken
  EndsWithItsRuns
