\* The migrations of this release, from nothing and from the release before.
CONSTANTS
  Processes = {p1, p2}
  Writers = {w1, w2}
  Active = Active
  Retained = Retained
  None = None
  SCHEMA_VERSION = 4
  MaxStores = 3
  MaxLocks = 2
  MaxEvents = 2
SPECIFICATION Spec
SYMMETRY Symmetry
INVARIANT
  MigrationsAreTransactional
