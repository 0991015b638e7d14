SPECIFICATION CarefulSpec
CONSTANTS
  a = a
  b = b
  e1 = e1
  e2 = e2
  Null = Null
  Task <- TwoTasks
  Owner <- SameOwner
  Instance <- TwoInstances
  Exec <- TwoExecs
  Interval = 1
  LockTime = 2
  Timeout = 1
  Grace = 1
  Cooldown = 0
  MaxGlobal = 1
  MaxPerUser = 1
  DueLimit = 2
  Dialect = "sqlite"
  Requests = {"create", "delete", "run-now"}
  MaxRequests = 1
  Booted = FALSE
  MaxCrashes = 1
  MaxFaults = 0
SYMMETRY Interchangeable
INVARIANTS
  MutualExclusion
  LockOutlivesExecution
  ExecutionLimits
  NeverStranded
