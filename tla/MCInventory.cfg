\* Four entities on two degrees, two to a page; two changes of the graph.
CONSTANTS
  Entities = {e1, e2, e3, e4}
  MaxHops = 2
  PageSize = 2
  MaxChanges = 2
SPECIFICATION InventorySpec
INVARIANTS
  InventoryTypeOK
  CompleteReportsTheSteady
PROPERTY
  PagingEnds
CHECK_DEADLOCK FALSE
