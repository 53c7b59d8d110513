CONSTANTS
  c1 = c1
  c2 = c2
  f1 = f1
  f2 = f2
  w1 = w1
  NoCampaign = NoCampaign
  Campaigns <- Pair
  Files <- Models
  Processes <- Process
  target <- FirstModel
  MaxCommits = 4
  MaxEdits = 1
SPECIFICATION Spec
SYMMETRY CampaignSymmetry
INVARIANTS
  TypeOK
  OneCampaignPerFile
  RecordIsExact
PROPERTIES
  EditsArePreserved
CHECK_DEADLOCK FALSE
