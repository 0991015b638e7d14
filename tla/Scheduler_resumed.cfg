SPECIFICATION Spec
CONSTANTS
  a = a
  b = b
  e1 = e1
  e2 = e2
  Null = Null
  Task <- OneTask
  Owner <- SameOwner
  Instance <- OneInstance
  Exec <- TwoExecs
  Interval = 2
  LockTime = 2
  Timeout = 1
  Grace = 1
  Cooldown = 0
  MaxGlobal = 2
  MaxPerUser = 2
  DueLimit = 2
  Dialect = "sqlite"
  Requests = {"pause", "resume"}
  MaxRequests = 2
  Booted = TRUE
  MaxCrashes = 0
  MaxFaults = 0
INVARIANT OneBenchmark
