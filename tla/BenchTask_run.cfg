SPECIFICATION FairSpec
CONSTANTS
  t1 = t1
  t2 = t2
  Task <- TwoTasks
  ConcurrencyLevels <- ThreeLevels
  Configs <- AllConfigs
  Cap = 3
  Keep = 2
  MaxProgress = 2
INVARIANT CompletedRunIsComplete
PROPERTIES
  NoLevelAfterStop
  ImplementsEventLog
  TasksEnd
CHECK_DEADLOCK FALSE
