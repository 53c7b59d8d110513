\* One test beside the model, one process; two faults, or moves of the owner.
CONSTANTS
  Tests = {t1}
  Model = model
  Other = other
  Processes = {w1}
  MaxCommits = 3
  MaxChecks = 2
  MaxFaults = 2
SPECIFICATION Spec
INVARIANTS
  TypeOK
  CurrentReceiptIsTrue
PROPERTIES
  OwnerCommitsAreKept
  PullRequestIsRecorded
CHECK_DEADLOCK FALSE
