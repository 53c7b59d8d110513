------------------------------ MODULE MCStore ------------------------------
(* CampaignStore on a small instance: one consumer, applied under plan q1    *)
(* and reconciled, that its callers validate, stale, plan anew and evaluate. *)
EXTENDS CampaignStore

CONSTANTS w1, w2, c1, q1, q2

TwoCallers == {w1, w2}
OneConsumer == {c1}
TwoPlans == {q1, q2}

Complete == [live |-> TRUE, complete |-> TRUE]
Identified == [c \in Consumers |-> "IDENTIFIED"]

\* The projection of a log that took c1 through discovery, plan q1, its
\* migration and a reconciliation.
AppliedBase ==
  LET found == InventoryRecorded(Created, {c1}, Identified, Complete)
      planned == DispositionChanged(found, c1, "CHANGE_PROPOSED", q1)
      begun == MigrationStarted(ApprovalRecorded(planned, q1, 1))
      applied == DispositionChanged(begun, c1, "APPLIED", NoPlan)
  IN ReconciliationRecorded(applied, {c1}, Identified, Complete)

\* The keys are made as the workflows make them: from the digest of what each
\* call is about.
Disposition(d, q, about) ==
  [type |-> "CONSUMER_DISPOSITION_CHANGED", key |-> [of |-> about, op |-> d],
   payload |-> [consumer |-> c1, disposition |-> d, plan |-> q]]
Receipt(q) ==
  [type |-> "RECEIPT_ACCEPTED", key |-> [of |-> q, op |-> "receipt"],
   payload |-> [consumer |-> c1, plan |-> q]]
Reconciliation ==
  [type |-> "RECONCILIATION_RECORDED", key |-> [of |-> 0, op |-> "reconciliation"],
   payload |-> [observed |-> {c1}]]

WorkflowRequests ==
  {Disposition("STALE", NoPlan, q1), Disposition("CHANGE_PROPOSED", q2, q2),
   Disposition("APPLIED", NoPlan, q2), Receipt(q1), Receipt(q2), Reconciliation,
   EvaluateRequest, Inspect}
=============================================================================
