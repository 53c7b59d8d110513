\* One consumer, two plans, two instants: receipts and plans over time.
CONSTANTS
  c1 = c1
  q1 = q1
  q2 = q2
  Consumers <- OneConsumer
  Plans <- TwoPlans
  NoPlan = NoPlan
  MaxTime = 1
  Sightings <- SourceSightings
  Observations <- LiveObservations
SPECIFICATION Spec
SYMMETRY Symmetry
INVARIANTS
  TypeOK
  ClosureHasEvidence
  ReconciliationCoversMembership
  SightingsAreAccounted
PROPERTY
  ReadyOnlyByPolicy
