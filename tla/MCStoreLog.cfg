\* Two callers, up to three events after the base.
CONSTANTS
  w1 = w1
  w2 = w2
  c1 = c1
  q1 = q1
  q2 = q2
  Callers <- TwoCallers
  Consumers <- OneConsumer
  Plans <- TwoPlans
  NoPlan = NoPlan
  NoCaller = NoCaller
  MaxTime = 0
  MaxEvents = 3
  Base <- AppliedBase
  Requests <- WorkflowRequests
SPECIFICATION Spec
INVARIANTS
  TypeOK
  DecisionsAreCurrent
  ProjectedIsCurrent
  CacheIsTrusted
PROPERTIES
  RetryIsAnswered
  CallsReturn
  LockIsFreed
CHECK_DEADLOCK FALSE
