------------------------- MODULE CampaignProjection -------------------------
(***************************************************************************)
(* The campaign projector (events.py): what each event of a campaign's    *)
(* append-only stream does to the projection, and when the projector      *)
(* accepts it.  The projection is one record p; per event type there is   *)
(* a guard  May...(p, ...)  and an effect  ...(p, ...)  that returns the  *)
(* next projection.  Digests are model values: a member of Plans stands   *)
(* for a plan digest with the source version and targets it binds.        *)
(***************************************************************************)
EXTENDS Policy

CONSTANTS Consumers,  \* campaign consumer identities
          Plans,      \* native change plans
          NoPlan,     \* no plan bound
          MaxTime     \* bound on event time, in ticks

ASSUME MaxTimeAssumption == MaxTime \in Nat
ASSUME NoPlanAssumption == NoPlan \notin Plans

Time == 0 .. MaxTime
Never == MaxTime + 1       \* expiry of a receipt that declares none
Expiries == 0 .. Never     \* an approval with expiry 0 is no approval

NoReceipt == [plan |-> NoPlan, expires |-> Never]
Receipts == [plan : Plans \cup {NoPlan}, expires : Expiries]
Envelopes == [live : BOOLEAN, complete : BOOLEAN]

Projections ==
  [state : CampaignStates,
   known : SUBSET Consumers,                  \* DOMAIN projection.consumers
   disp : [Consumers -> Dispositions],        \* meaningful on known
   plan : [Consumers -> Plans \cup {NoPlan}], \* plan of the proposed change
   receipt : [Consumers -> Receipts],         \* last accepted receipt
   inventory : SUBSET Consumers,
   current : SUBSET Consumers,
   envelope : Envelopes,
   reconciled : BOOLEAN,
   review : BOOLEAN,                          \* some review requirement stands
   approvals : [Plans -> Expiries],
   time : Time]                               \* generated_at

\* CAMPAIGN_CREATED.
Created ==
  [state |-> "PROPOSED",
   known |-> {},
   disp |-> [c \in Consumers |-> "DISCOVERED"],
   plan |-> [c \in Consumers |-> NoPlan],
   receipt |-> [c \in Consumers |-> NoReceipt],
   inventory |-> {}, current |-> {},
   envelope |-> NoEnvelope,
   reconciled |-> FALSE, review |-> FALSE,
   approvals |-> [q \in Plans |-> 0],
   time |-> 0]

PolicyInputs(p) ==
  [disp |-> [c \in p.known |-> p.disp[c]],
   inventory |-> p.inventory, current |-> p.current,
   envelope |-> p.envelope, reconciled |-> p.reconciled, review |-> p.review]

Decision(p) == evaluate_policy(default_policy, PolicyInputs(p))

\* No receipt still attached to a known consumer has expired at time t.  The
\* check ignores the consumer's disposition: a receipt outlives the VALIDATED
\* it once justified, until a new receipt or a new inventory replaces it.
ReceiptsFresh(p, t) ==
  \A c \in p.known : p.receipt[c] # NoReceipt => t < p.receipt[c].expires

\* manifest_from_projection succeeds: it evaluates the policy at generated_at.
Readable(p) == ReceiptsFresh(p, p.time)

InventoryDispositions == {"DISCOVERED", "IDENTIFIED", "OPAQUE", "UNRESOLVED"}
EvidenceBound == {"VALIDATED", "REMOVED", "NOT_APPLICABLE", "WAIVED"}

-----------------------------------------------------------------------------
\* The consumers of `seen`, each entered fresh in the disposition d[c] that the
\* source reported it in.
Entered(p, seen, d) ==
  [p EXCEPT !.known = @ \cup seen,
            !.disp = [c \in Consumers |-> IF c \in seen THEN d[c] ELSE @[c]],
            !.plan = [c \in Consumers |-> IF c \in seen THEN NoPlan ELSE @[c]],
            !.receipt = [c \in Consumers |-> IF c \in seen THEN NoReceipt
                                             ELSE @[c]]]

MayRecordInventory(p, found, d) ==
  /\ p.state = "INVENTORIED" \/ CampaignMay(p.state, "INVENTORIED")
  /\ \A c \in found : d[c] \in InventoryDispositions

\* A new baseline replaces every consumer, plan and receipt.
InventoryRecorded(p, found, d, env) ==
  [p EXCEPT !.state = "INVENTORIED",
            !.known = found,
            !.disp = [c \in Consumers |-> IF c \in found THEN d[c]
                                          ELSE "DISCOVERED"],
            !.plan = [c \in Consumers |-> NoPlan],
            !.receipt = [c \in Consumers |-> NoReceipt],
            !.inventory = found, !.current = found,
            !.envelope = env, !.reconciled = FALSE]

MayExtendInventory(p, found, d) ==
  /\ p.state \in {"INVENTORIED", "MIGRATING", "BLOCKED"}
  /\ \A c \in found : d[c] \in InventoryDispositions

\* Mutation: an extension leaves the reconciliation on record.
InventoryExtended_KeepsReconciliation(p, found, d, env) ==
  [Entered(p, found \ p.known, d) EXCEPT
            !.inventory = @ \cup found, !.current = @ \cup found,
            !.envelope = env]

\* An extension adds unknown consumers and keeps the known ones as they are.
InventoryExtended(p, found, d, env) ==
  [Entered(p, found \ p.known, d) EXCEPT
            !.inventory = @ \cup found, !.current = @ \cup found,
            !.envelope = env, !.reconciled = FALSE]

ApprovalRecorded(p, q, expires) == [p EXCEPT !.approvals[q] = expires]

MayWaive(p, c) == c \in p.known /\ ConsumerMay(p.disp[c], "WAIVED")
WaiverRecorded(p, c) == [p EXCEPT !.disp[c] = "WAIVED"]

MayStartMigration(p) ==
  p.state = "MIGRATING" \/ CampaignMay(p.state, "MIGRATING")
MigrationStarted(p) == [p EXCEPT !.state = "MIGRATING"]

MayChangeDisposition(p, c, d) ==
  /\ c \in p.known
  /\ d \notin EvidenceBound
  /\ ConsumerMay(p.disp[c], d)

\* A proposed change binds its plan; every other change leaves the binding,
\* and no change touches the receipt.
DispositionChanged(p, c, d, q) ==
  [p EXCEPT !.disp[c] = d,
            !.plan[c] = IF d = "CHANGE_PROPOSED" THEN q ELSE @]

MayAcceptReceipt(p, c) == c \in p.known /\ ConsumerMay(p.disp[c], "VALIDATED")
ReceiptAccepted(p, c, r) == [p EXCEPT !.disp[c] = "VALIDATED", !.receipt[c] = r]

MayRecordNonApplicability(p, c) ==
  c \in p.known /\ ConsumerMay(p.disp[c], "NOT_APPLICABLE")
NonApplicabilityRecorded(p, c) == [p EXCEPT !.disp[c] = "NOT_APPLICABLE"]

ReviewRequirementRecorded(p) == [p EXCEPT !.review = TRUE]

MayRecordReconciliation(p) == CampaignMay(p.state, "RECONCILING")

\* The observed membership becomes current; the frozen inventory stays, a
\* known consumer that was not observed keeps its disposition and receipt.
ReconciliationRecorded(p, observed, d, env) ==
  [Entered(p, observed \ p.known, d) EXCEPT
            !.state = "RECONCILING",
            !.current = observed, !.envelope = env, !.reconciled = TRUE]

MayRecordWatch(p) == p.state = "READY" /\ Readable(p)

\* POLICY_EVALUATED at time t: the projector recomputes the decision.
EvaluatedState(p) ==
  IF Decision(p) = "READY_TO_RETIRE" THEN "READY" ELSE "BLOCKED"
\* Mutation: the caller's decision is recorded as it is.
MayEvaluate_TrustsCaller(p, decision, t) ==
  /\ ReceiptsFresh(p, t)
  /\ CampaignMay(p.state, IF decision = "READY_TO_RETIRE" THEN "READY" ELSE "BLOCKED")
MayEvaluate(p, decision, t) ==
  /\ ReceiptsFresh(p, t)
  /\ decision = Decision(p)
  /\ CampaignMay(p.state, EvaluatedState(p))
\* Mutation: the decision becomes the campaign state.
PolicyEvaluated_StoresDecision(p) == [p EXCEPT !.state = Decision(p)]
PolicyEvaluated(p) == [p EXCEPT !.state = EvaluatedState(p)]

MayEnter(p, s) == CampaignMay(p.state, s)
StateEntered(p, s) == [p EXCEPT !.state = s]
=============================================================================
