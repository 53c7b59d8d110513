--------------------------- MODULE CampaignKernel ---------------------------
(***************************************************************************)
(* One campaign driven through the operations of the campaign store, one  *)
(* operation at a time (store.py's public operations over the projector   *)
(* of events.py).  An action is one store call that commits an event at   *)
(* time t, with the validation the call makes before it appends; a refused*)
(* call leaves the campaign as it is and is no action.  Concurrent callers*)
(* are the subject of CampaignStore.                                      *)
(***************************************************************************)
EXTENDS CampaignProjection

CONSTANTS
  Sightings,   \* the dispositions sources report new consumers in
  Observations \* the envelopes sources produce

ASSUME SightingsAssumption == Sightings \subseteq InventoryDispositions
ASSUME ObservationsAssumption == Observations \subseteq Envelopes

VARIABLES
  p,          \* the projection
  claimed,    \* consumers whose native identity this campaign has claimed
  \* Ghosts, read by the properties only:
  moved,      \* the known membership changed since the last reconciliation
  sighted     \* consumers observed since the last baseline, baseline included

vars == <<p, claimed, moved, sighted>>

\* Every event leaves a well-formed projection.
TypeOK ==
  /\ p \in Projections
  /\ claimed \in SUBSET Consumers
  /\ moved \in BOOLEAN
  /\ sighted \in SUBSET Consumers

Init ==
  /\ p = Created
  /\ claimed = {}
  /\ moved = FALSE
  /\ sighted = {}

\* The projection after an event at time t; validate_event_stream refuses time
\* running backward.
Append(q, t) == t >= p.time /\ p' = [q EXCEPT !.time = t]

Quiet == UNCHANGED <<claimed, moved, sighted>>

-----------------------------------------------------------------------------
RecordInventory(found, d, env, t) ==
  /\ MayRecordInventory(p, found, d)
  /\ Append(InventoryRecorded(p, found, d, env), t)
  /\ moved' = (moved \/ found # p.known)
  /\ sighted' = found
  /\ UNCHANGED claimed

ExtendInventory(found, d, env, t) ==
  /\ MayExtendInventory(p, found, d)
  /\ Append(InventoryExtended(p, found, d, env), t)
  /\ moved' = (moved \/ ~(found \subseteq p.known))
  /\ sighted' = sighted \cup found
  /\ UNCHANGED claimed

\* change_consumer_disposition without a plan binding: identify, fail, mark
\* stale, and APPLIED for a consumer that another consumer's change covers.
ChangeDisposition(c, d, t) ==
  /\ d # "CHANGE_PROPOSED"
  /\ MayChangeDisposition(p, c, d)
  /\ Append(DispositionChanged(p, c, d, NoPlan), t)
  /\ Quiet

ProposeChange(c, q, t) ==
  /\ MayChangeDisposition(p, c, "CHANGE_PROPOSED")
  /\ Append(DispositionChanged(p, c, "CHANGE_PROPOSED", q), t)
  /\ Quiet

\* validate_approval: the approval is unexpired when it is recorded.
RecordApproval(q, expires, t) ==
  /\ t < expires
  /\ Append(ApprovalRecorded(p, q, expires), t)
  /\ Quiet

\* begin_migration_with_claim: a valid approval for the consumer's plan, then
\* the claim and MIGRATION_STARTED together.  A repeated claim appends nothing.
BeginMigration(c, t) ==
  /\ c \in p.known
  /\ p.plan[c] # NoPlan
  /\ t < p.approvals[p.plan[c]]
  /\ c \notin claimed
  /\ MayStartMigration(p)
  /\ Append(MigrationStarted(p), t)
  /\ claimed' = claimed \cup {c}
  /\ UNCHANGED <<moved, sighted>>

\* The tail of an adapter workflow's apply: the claim is held, the approval has
\* been validated again, the native change is made and APPLIED is recorded.  No
\* campaign state is asked for, and a claim held from before starts no migration.
ApplyChange(c, t) ==
  /\ c \in claimed
  /\ p.plan[c] # NoPlan
  /\ t < p.approvals[p.plan[c]]
  /\ MayChangeDisposition(p, c, "APPLIED")
  /\ Append(DispositionChanged(p, c, "APPLIED", NoPlan), t)
  /\ UNCHANGED <<claimed, moved, sighted>>

\* Mutation: the receipt is not compared with the consumer's plan.
AcceptReceipt_AnyPlan(c, expires, t) ==
  /\ MayAcceptReceipt(p, c)
  /\ p.plan[c] # NoPlan
  /\ t < expires
  /\ \E q \in Plans :
        Append(ReceiptAccepted(p, c, [plan |-> q, expires |-> expires]), t)
  /\ Quiet

\* accept_receipt: validate_consumer_receipt compares the receipt with the
\* consumer's current plan binding and the clock.
AcceptReceipt(c, expires, t) ==
  /\ MayAcceptReceipt(p, c)
  /\ p.plan[c] # NoPlan
  /\ t < expires
  /\ Append(ReceiptAccepted(p, c, [plan |-> p.plan[c], expires |-> expires]), t)
  /\ Quiet

RecordWaiver(c, t) ==
  /\ MayWaive(p, c)
  /\ Append(WaiverRecorded(p, c), t)
  /\ Quiet

RecordNonApplicability(c, t) ==
  /\ MayRecordNonApplicability(p, c)
  /\ Append(NonApplicabilityRecorded(p, c), t)
  /\ Quiet

RecordReviewRequirement(t) == Append(ReviewRequirementRecorded(p), t) /\ Quiet

RecordReconciliation(observed, d, env, t) ==
  /\ MayRecordReconciliation(p)
  /\ Append(ReconciliationRecorded(p, observed, d, env), t)
  /\ moved' = FALSE
  /\ sighted' = sighted \cup observed
  /\ UNCHANGED claimed

\* record_watch_observation: history grows, the projection does not change.
RecordWatchObservation(t) == MayRecordWatch(p) /\ Append(p, t) /\ Quiet

Evaluate(t) ==
  /\ MayEvaluate(p, Decision(p), t)
  /\ Append(PolicyEvaluated(p), t)
  /\ Quiet

\* Mutation: resume offers every state the transition table allows.
Resume_AnyState(s, t) ==
  /\ MayEnter(p, s)
  /\ Append(StateEntered(p, s), t)
  /\ Quiet

\* campaign resume offers three target states.
Resume(s, t) ==
  /\ s \in {"INVENTORIED", "MIGRATING", "RECONCILING"}
  /\ MayEnter(p, s)
  /\ Append(StateEntered(p, s), t)
  /\ Quiet

InventoryStep ==
  \E found \in SUBSET Consumers, d \in [Consumers -> Sightings],
     env \in Observations, t \in Time :
        \/ RecordInventory(found, d, env, t)
        \/ ExtendInventory(found, d, env, t)
        \/ RecordReconciliation(found, d, env, t)

ConsumerStep ==
  \E c \in Consumers, t \in Time :
        \/ \E d \in Dispositions : ChangeDisposition(c, d, t)
        \/ \E q \in Plans : ProposeChange(c, q, t)
        \/ BeginMigration(c, t)
        \/ ApplyChange(c, t)
        \/ \E e \in Expiries : AcceptReceipt(c, e, t)
        \/ RecordWaiver(c, t)
        \/ RecordNonApplicability(c, t)

CampaignStep ==
  \E t \in Time :
        \/ \E q \in Plans, e \in Expiries : RecordApproval(q, e, t)
        \/ RecordReviewRequirement(t)
        \/ RecordWatchObservation(t)
        \/ Evaluate(t)
        \/ \E s \in CampaignStates : Resume(s, t)

Next == InventoryStep \/ ConsumerStep \/ CampaignStep

Spec == Init /\ [][Next]_vars

-----------------------------------------------------------------------------
\* What the producer gate demands of a manifest (_require_ready_manifest).
GateReady == p.state = "READY" /\ Decision(p) = "READY_TO_RETIRE"

\* A consumer counts as validated only on a receipt for the plan it is bound to
\* now: no sequence of staling, re-planning, failing, waiving and re-applying
\* leaves it VALIDATED on the receipt of an earlier plan, or on none.
ClosureHasEvidence ==
  \A c \in p.known :
     p.disp[c] = "VALIDATED" =>
        /\ p.plan[c] \in Plans
        /\ p.receipt[c].plan = p.plan[c]

\* A reconciliation on record covers the membership of the campaign: whatever
\* baseline or extension changes the set of known consumers withdraws it, so a
\* gate-ready campaign was reconciled after its last change of membership.
ReconciliationCoversMembership == p.reconciled => ~moved

\* Disappearance is not closure (D-011): a consumer that some observation since
\* the last baseline saw still counts at the gate, with evidence of its own,
\* whether or not the latest observation saw it.
SightingsAreAccounted ==
  GateReady => \A c \in sighted : c \in p.known /\ p.disp[c] \in ACCEPTED_DISPOSITIONS

\* READY is entered by the policy alone: every step into READY finds a deciding
\* policy, a reconciliation on record and no expired receipt.
ReadyOnlyByPolicy ==
  [][p.state # "READY" /\ p'.state = "READY"
       => Decision(p') = "READY_TO_RETIRE" /\ p'.reconciled /\ Readable(p')]_vars
=============================================================================
