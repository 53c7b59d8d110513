------------------------------ MODULE MCKernel ------------------------------
(* CampaignKernel on a small instance; plans are interchangeable.            *)
EXTENDS CampaignKernel, TLC

CONSTANTS c1, q1, q2

OneConsumer == {c1}
TwoPlans == {q1, q2}
SourceSightings == {"OPAQUE", "IDENTIFIED"}

Live(complete) == [live |-> TRUE, complete |-> complete]
LiveObservations == {Live(TRUE), Live(FALSE)}

Symmetry == Permutations(Plans)
=============================================================================
