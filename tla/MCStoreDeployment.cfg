\* Two processes, two writers, one deployment and its backups.
CONSTANTS
  Processes = {p1, p2}
  Writers = {w1, w2}
  Active = Active
  Retained = Retained
  None = None
  SCHEMA_VERSION = 2
  MaxStores = 3
  MaxLocks = 2
  MaxEvents = 2
SPECIFICATION Spec
SYMMETRY Symmetry
INVARIANTS
  TypeOK
  OpenIsExclusive
PROPERTY
  RemovalDeletesOnlyPlanned
