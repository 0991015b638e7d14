SPECIFICATION FairSpec
CONSTANTS
  a = a
  b = b
  e1 = e1
  e2 = e2
  Null = Null
  Task <- OneTask
  Owner <- SameOwner
  Instance <- OneInstance
  Exec <- TwoExecs
  Interval = 2
  LockTime = 2
  Timeout = 2
  Grace = 0
  Cooldown = 0
  MaxGlobal = 1
  MaxPerUser = 1
  DueLimit = 2
  Dialect = "postgres"
  Requests = {"pause", "resume", "edit", "delete"}
  MaxRequests = 6
  Booted = FALSE
  MaxCrashes = 1
  MaxFaults = 1
PROPERTIES
  KeepsRunning
  FixedInterval
  PauseTakesEffect
