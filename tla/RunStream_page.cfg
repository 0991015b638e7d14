SPECIFICATION FairSpec
CONSTANTS
  Task <- Tasks
  Cap = 2
  Keep = 1
  Outcome <- AnyOutcome
  MaxEvents = 3
  MaxDrops = 1
INVARIANTS
  DeliveredInOrder
  OnlyCutEventsSkipped
  ClosesAfterAllUnlessStopped
PROPERTIES
  CatchesUp
  PageResolves
CHECK_DEADLOCK FALSE
