\* One campaign, two datasets and a chart that one of them carries, one process.
CONSTANTS
  k1 = k1
  d1 = d1
  d2 = d2
  a = a
  b = b
  x1 = x1
  chart1 = chart1
  w1 = w1
  Consumers = {a, b, x1}
  Plans <- SupersetPlans
  NoPlan = NoPlan
  MaxTime = 0
  Campaigns <- OneCampaign
  NoCampaign = NoCampaign
  Parents = {a, b}
  Datasets <- TwoDatasets
  dataset <- DatasetOfBoth
  Charts = {chart1}
  parent <- ParentOfX
  Processes = {w1}
  Concurrent = FALSE
  MaxFaults = 2
SPECIFICATION Spec
INVARIANTS
  TypeOK
  GateRereadsEveryReceipt
  CoveredFollowParent
CHECK_DEADLOCK FALSE
