------------------------------- MODULE MCWatch -------------------------------
(* LeaseWatch on a small instance: a campaign with one validated consumer,   *)
(* ready and published, and one consumer that may appear.                    *)
EXTENDS LeaseWatch

CONSTANTS watcher, operator, c1, c2, q1

BothConsumers == {c1, c2}
OnePlan == {q1}

Complete == [live |-> TRUE, complete |-> TRUE]

\* The projection of a campaign that planned, applied, validated and reconciled c1.
ReadyProjection ==
  LET found == InventoryRecorded(Created, {c1}, [c \in Consumers |-> "IDENTIFIED"], Complete)
      planned == DispositionChanged(found, c1, "CHANGE_PROPOSED", q1)
      applied == DispositionChanged(MigrationStarted(planned), c1, "APPLIED", NoPlan)
      validated == ReceiptAccepted(applied, c1, [plan |-> q1, expires |-> Never])
  IN PolicyEvaluated(ReconciliationRecorded(validated, {c1}, [c \in Consumers |-> "IDENTIFIED"],
                                            Complete))

Event(type, of) == [type |-> type, by |-> 0, of |-> of, ready |-> TRUE]
EvaluatedLog == <<Event("EVALUATED", 0)>>
PublishedLog == EvaluatedLog \o <<Event("PUBLISHED", 1), Event("VERIFIED", 0)>>
FirstPublication == [of |-> 1, urn |-> 1, verified |-> TRUE]

AllCommands == {"reconciling", "evaluating", "publishing", "verifying"}
=============================================================================
