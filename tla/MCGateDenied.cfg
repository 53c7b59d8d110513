\* One executor, one manifest, one change of the table: a lost reply.
CONSTANTS
  e1 = e1
  e2 = e2
  Executors <- OneExecutor
  MaxManifest = 1
  MaxDDL = 1
SPECIFICATION Spec
PROPERTY
  CommittedIsNeverDenied
CHECK_DEADLOCK FALSE
