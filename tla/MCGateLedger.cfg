\* Two executors, two manifests, one change of each part of the table.
CONSTANTS
  e1 = e1
  e2 = e2
  Executors <- TwoExecutors
  MaxManifest = 2
  MaxDDL = 1
SPECIFICATION Spec
INVARIANTS
  TypeOK
  ExecutedMeansDropped
PROPERTIES
  ImplementsLedger
  DropsOnlyAsPlanned
  IntentIsClosed
CHECK_DEADLOCK FALSE
