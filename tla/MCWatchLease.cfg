\* One lease, one command of the operator, two faults.
CONSTANTS
  watcher = watcher
  operator = operator
  c1 = c1
  c2 = c2
  q1 = q1
  Watcher <- watcher
  Operator <- operator
  NoProcess = NoProcess
  Consumers <- BothConsumers
  Plans <- OnePlan
  NoPlan = NoPlan
  MaxTime = 0
  Late <- c2
  BaseLog <- PublishedLog
  BaseProjection <- ReadyProjection
  BasePublication <- FirstPublication
  Commands <- AllCommands
  MaxLeases = 1
  MaxCommands = 1
  MaxFaults = 2
  MaxDocuments = 2
SPECIFICATION Spec
INVARIANTS
  TypeOK
  WatchIsDoneOnce
  ClaimedOnPublished
  UnchangedIsFresh
PROPERTIES
  ImplementsLease
  WatchEnds
CHECK_DEADLOCK FALSE
