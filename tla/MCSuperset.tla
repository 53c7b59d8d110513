----------------------------- MODULE MCSuperset -----------------------------
(* SupersetMigration on small instances. *)
EXTENDS SupersetMigration

CONSTANTS k1, d1, d2, a, b, x1, chart1, w1

OneCampaign == {k1}
TwoDatasets == {d1, d2}
DatasetOfBoth == [y \in {a, b} |-> IF y = a THEN d1 ELSE d2]
ParentOfX == [y \in {x1} |-> a]
=============================================================================
