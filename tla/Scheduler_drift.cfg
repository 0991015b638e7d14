SPECIFICATION FairSpec
CONSTANTS
  a = a
  b = b
  e1 = e1
  e2 = e2
  Null = Null
  Task <- OneTask
  Owner <- SameOwner
  Instance <- OneInstance
  Exec <- TwoExecs
  Interval = 3
  LockTime = 5
  Timeout = 4
  Grace = 0
  Cooldown = 0
  MaxGlobal = 2
  MaxPerUser = 2
  DueLimit = 2
  Dialect = "sqlite"
  Requests = {}
  MaxRequests = 1
  Booted = TRUE
  MaxCrashes = 0
  MaxFaults = 0
PROPERTY FixedInterval
