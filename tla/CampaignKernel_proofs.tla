----------------------- MODULE CampaignKernel_proofs -----------------------
(***************************************************************************)
(* Proofs about CampaignKernel, for every set of consumers and plans, every*)
(* bound on time and every sighting and envelope.                          *)
(***************************************************************************)
EXTENDS CampaignKernel, TLAPS

-----------------------------------------------------------------------------
(***************************************************************************)
(* What the projector's operators return: each event applied to a          *)
(* projection yields a projection.                                         *)
(***************************************************************************)

\* The receipt that stands for none has the shape of a receipt.
LEMMA NoReceiptTyped == NoReceipt \in Receipts
  BY MaxTimeAssumption DEF NoReceipt, Receipts, Expiries, Never

\* Entering consumers fresh yields a projection.
LEMMA EnteredTyped ==
  ASSUME NEW pp \in Projections, NEW seen \in SUBSET Consumers,
         NEW d \in [Consumers -> Dispositions]
  PROVE  Entered(pp, seen, d) \in Projections
  BY NoReceiptTyped DEF Entered, Projections

\* INVENTORY_RECORDED yields a projection.
LEMMA InventoryRecordedTyped ==
  ASSUME NEW pp \in Projections, NEW found \in SUBSET Consumers,
         NEW d \in [Consumers -> Dispositions], NEW env \in Envelopes
  PROVE  InventoryRecorded(pp, found, d, env) \in Projections
<1>1. "INVENTORIED" \in CampaignStates /\ "DISCOVERED" \in Dispositions
  BY DEF CampaignStates, Dispositions
<1>2. QED
  BY <1>1, NoReceiptTyped DEF InventoryRecorded, Projections

\* INVENTORY_EXTENDED yields a projection.
LEMMA InventoryExtendedTyped ==
  ASSUME NEW pp \in Projections, NEW found \in SUBSET Consumers,
         NEW d \in [Consumers -> Dispositions], NEW env \in Envelopes
  PROVE  InventoryExtended(pp, found, d, env) \in Projections
<1>1. Entered(pp, found \ pp.known, d) \in Projections
  BY EnteredTyped DEF Projections
<1>2. QED
  BY <1>1 DEF InventoryExtended, Projections

\* RECONCILIATION_RECORDED yields a projection.
LEMMA ReconciliationRecordedTyped ==
  ASSUME NEW pp \in Projections, NEW observed \in SUBSET Consumers,
         NEW d \in [Consumers -> Dispositions], NEW env \in Envelopes
  PROVE  ReconciliationRecorded(pp, observed, d, env) \in Projections
<1>1. Entered(pp, observed \ pp.known, d) \in Projections
  BY EnteredTyped DEF Projections
<1>2. "RECONCILING" \in CampaignStates
  BY DEF CampaignStates
<1>3. QED
  BY <1>1, <1>2 DEF ReconciliationRecorded, Projections

\* CONSUMER_DISPOSITION_CHANGED yields a projection.
LEMMA DispositionChangedTyped ==
  ASSUME NEW pp \in Projections, NEW c \in Consumers, NEW d \in Dispositions,
         NEW q \in Plans \cup {NoPlan}
  PROVE  DispositionChanged(pp, c, d, q) \in Projections
  BY DEF DispositionChanged, Projections

\* RECEIPT_ACCEPTED yields a projection.
LEMMA ReceiptAcceptedTyped ==
  ASSUME NEW pp \in Projections, NEW c \in Consumers, NEW r \in Receipts
  PROVE  ReceiptAccepted(pp, c, r) \in Projections
<1>1. "VALIDATED" \in Dispositions
  BY DEF Dispositions
<1>2. QED
  BY <1>1 DEF ReceiptAccepted, Projections

\* WAIVER_RECORDED and the non-applicability event yield projections.
LEMMA JudgementTyped ==
  ASSUME NEW pp \in Projections, NEW c \in Consumers
  PROVE  /\ WaiverRecorded(pp, c) \in Projections
         /\ NonApplicabilityRecorded(pp, c) \in Projections
<1>1. {"WAIVED", "NOT_APPLICABLE"} \subseteq Dispositions
  BY DEF Dispositions
<1>2. QED
  BY <1>1 DEF WaiverRecorded, NonApplicabilityRecorded, Projections

\* APPROVAL_RECORDED yields a projection.
LEMMA ApprovalRecordedTyped ==
  ASSUME NEW pp \in Projections, NEW q \in Plans, NEW e \in Expiries
  PROVE  ApprovalRecorded(pp, q, e) \in Projections
  BY DEF ApprovalRecorded, Projections

\* CAMPAIGN_RESUMED yields a projection.
LEMMA StateEnteredTyped ==
  ASSUME NEW pp \in Projections, NEW s \in CampaignStates
  PROVE  StateEntered(pp, s) \in Projections
  BY DEF StateEntered, Projections

\* The review requirement event yields a projection.
LEMMA ReviewTyped ==
  ASSUME NEW pp \in Projections
  PROVE  ReviewRequirementRecorded(pp) \in Projections
  BY DEF ReviewRequirementRecorded, Projections

\* MIGRATION_STARTED and POLICY_EVALUATED yield projections.
LEMMA MigrationStartedTyped ==
  ASSUME NEW pp \in Projections
  PROVE  MigrationStarted(pp) \in Projections /\ PolicyEvaluated(pp) \in Projections
<1>1. {"MIGRATING", "READY", "BLOCKED"} \subseteq CampaignStates
  BY DEF CampaignStates
<1>2. EvaluatedState(pp) \in CampaignStates
  BY <1>1 DEF EvaluatedState
<1>3. QED
  BY <1>1, <1>2 DEF MigrationStarted, PolicyEvaluated, Projections

-----------------------------------------------------------------------------
\* Appending an event keeps the projection one, with a time within bounds.
LEMMA TimeTyped ==
  ASSUME NEW q \in Projections, NEW t \in Time, Append(q, t)
  PROVE  p' \in Projections
  BY DEF Append, Projections

-----------------------------------------------------------------------------
\* What sources report is a disposition, and never a closure.
LEMMA SightingsTyped ==
  ASSUME NEW d \in [Consumers -> Sightings]
  PROVE  /\ d \in [Consumers -> Dispositions]
         /\ \A c \in Consumers : d[c] \in InventoryDispositions
<1>1. Sightings \subseteq InventoryDispositions /\ InventoryDispositions \subseteq Dispositions
  BY SightingsAssumption DEF InventoryDispositions, Dispositions
<1>2. QED
  BY <1>1

\* A created campaign is well typed.
LEMMA TypeInit == Init => TypeOK
<1>1. "PROPOSED" \in CampaignStates /\ "DISCOVERED" \in Dispositions
  BY DEF CampaignStates, Dispositions
<1>2. 0 \in Expiries /\ 0 \in Time /\ NoEnvelope \in Envelopes
  BY MaxTimeAssumption DEF Expiries, Never, Time, NoEnvelope, Envelopes
<1>3. Created \in Projections
  BY <1>1, <1>2, NoReceiptTyped DEF Created, Projections
<1>4. QED
  BY <1>3 DEF Init, TypeOK

\* Recording what sources observed keeps the types.
LEMMA TypeInventoryStep == TypeOK /\ InventoryStep => TypeOK'
<1> SUFFICES ASSUME TypeOK,
                    NEW found \in SUBSET Consumers,
                    NEW d \in [Consumers -> Sightings],
                    NEW env \in Observations, NEW t \in Time,
                    \/ RecordInventory(found, d, env, t)
                    \/ ExtendInventory(found, d, env, t)
                    \/ RecordReconciliation(found, d, env, t)
             PROVE  TypeOK'
  BY DEF InventoryStep
<1>1. p \in Projections /\ env \in Envelopes /\ d \in [Consumers -> Dispositions]
  BY SightingsTyped, ObservationsAssumption DEF TypeOK
<1>2. CASE RecordInventory(found, d, env, t)
  <2>1. p' \in Projections
    BY <1>1, <1>2, InventoryRecordedTyped, TimeTyped DEF RecordInventory
  <2>2. QED
    BY <1>2, <2>1 DEF TypeOK, RecordInventory
<1>3. CASE ExtendInventory(found, d, env, t)
  <2>1. p' \in Projections
    BY <1>1, <1>3, InventoryExtendedTyped, TimeTyped DEF ExtendInventory
  <2>2. QED
    BY <1>3, <2>1 DEF TypeOK, ExtendInventory
<1>4. CASE RecordReconciliation(found, d, env, t)
  <2>1. p' \in Projections
    BY <1>1, <1>4, ReconciliationRecordedTyped, TimeTyped DEF RecordReconciliation
  <2>2. QED
    BY <1>4, <2>1 DEF TypeOK, RecordReconciliation
<1>5. QED
  BY <1>2, <1>3, <1>4

\* Every operation on one consumer keeps the types.
LEMMA TypeConsumerStep == TypeOK /\ ConsumerStep => TypeOK'
<1> SUFFICES ASSUME TypeOK, NEW c \in Consumers, NEW t \in Time,
                    \/ \E d \in Dispositions : ChangeDisposition(c, d, t)
                    \/ \E q \in Plans : ProposeChange(c, q, t)
                    \/ BeginMigration(c, t)
                    \/ ApplyChange(c, t)
                    \/ \E e \in Expiries : AcceptReceipt(c, e, t)
                    \/ RecordWaiver(c, t)
                    \/ RecordNonApplicability(c, t)
             PROVE  TypeOK'
  BY DEF ConsumerStep
<1>1. p \in Projections
  BY DEF TypeOK
<1>2. CASE \E d \in Dispositions : ChangeDisposition(c, d, t)
  <2>1. PICK d \in Dispositions : ChangeDisposition(c, d, t)
    BY <1>2
  <2>2. p' \in Projections
    BY <1>1, <2>1, DispositionChangedTyped, TimeTyped DEF ChangeDisposition
  <2>3. QED
    BY <2>1, <2>2 DEF TypeOK, ChangeDisposition, Quiet
<1>3. CASE \E q \in Plans : ProposeChange(c, q, t)
  <2>1. PICK q \in Plans : ProposeChange(c, q, t)
    BY <1>3
  <2>2. "CHANGE_PROPOSED" \in Dispositions
    BY DEF Dispositions
  <2>3. p' \in Projections
    BY <1>1, <2>1, <2>2, DispositionChangedTyped, TimeTyped DEF ProposeChange
  <2>4. QED
    BY <2>1, <2>3 DEF TypeOK, ProposeChange, Quiet
<1>4. CASE BeginMigration(c, t)
  <2>1. p' \in Projections
    BY <1>1, <1>4, MigrationStartedTyped, TimeTyped DEF BeginMigration
  <2>2. QED
    BY <1>4, <2>1 DEF TypeOK, BeginMigration
<1>5. CASE ApplyChange(c, t)
  <2>1. "APPLIED" \in Dispositions
    BY DEF Dispositions
  <2>2. p' \in Projections
    BY <1>1, <1>5, <2>1, DispositionChangedTyped, TimeTyped DEF ApplyChange
  <2>3. QED
    BY <1>5, <2>2 DEF TypeOK, ApplyChange
<1>6. CASE \E e \in Expiries : AcceptReceipt(c, e, t)
  <2>1. PICK e \in Expiries : AcceptReceipt(c, e, t)
    BY <1>6
  <2>2. [plan |-> p.plan[c], expires |-> e] \in Receipts
    BY <1>1 DEF Receipts, Projections
  <2>3. p' \in Projections
    BY <1>1, <2>1, <2>2, ReceiptAcceptedTyped, TimeTyped DEF AcceptReceipt
  <2>4. QED
    BY <2>1, <2>3 DEF TypeOK, AcceptReceipt, Quiet
<1>7. CASE RecordWaiver(c, t)
  <2>1. p' \in Projections
    BY <1>1, <1>7, JudgementTyped, TimeTyped DEF RecordWaiver
  <2>2. QED
    BY <1>7, <2>1 DEF TypeOK, RecordWaiver, Quiet
<1>8. CASE RecordNonApplicability(c, t)
  <2>1. p' \in Projections
    BY <1>1, <1>8, JudgementTyped, TimeTyped DEF RecordNonApplicability
  <2>2. QED
    BY <1>8, <2>1 DEF TypeOK, RecordNonApplicability, Quiet
<1>9. QED
  BY <1>2, <1>3, <1>4, <1>5, <1>6, <1>7, <1>8

\* Every operation on the campaign as a whole keeps the types.
LEMMA TypeCampaignStep == TypeOK /\ CampaignStep => TypeOK'
<1> SUFFICES ASSUME TypeOK, NEW t \in Time,
                    \/ \E q \in Plans, e \in Expiries : RecordApproval(q, e, t)
                    \/ RecordReviewRequirement(t)
                    \/ RecordWatchObservation(t)
                    \/ Evaluate(t)
                    \/ \E s \in CampaignStates : Resume(s, t)
             PROVE  TypeOK'
  BY DEF CampaignStep
<1>1. p \in Projections
  BY DEF TypeOK
<1>2. CASE \E q \in Plans, e \in Expiries : RecordApproval(q, e, t)
  <2>1. PICK q \in Plans, e \in Expiries : RecordApproval(q, e, t)
    BY <1>2
  <2>2. p' \in Projections
    BY <1>1, <2>1, ApprovalRecordedTyped, TimeTyped DEF RecordApproval
  <2>3. QED
    BY <2>1, <2>2 DEF TypeOK, RecordApproval, Quiet
<1>3. CASE RecordReviewRequirement(t)
  <2>1. p' \in Projections
    BY <1>1, <1>3, ReviewTyped, TimeTyped DEF RecordReviewRequirement
  <2>2. QED
    BY <1>3, <2>1 DEF TypeOK, RecordReviewRequirement, Quiet
<1>4. CASE RecordWatchObservation(t)
  <2>1. p' \in Projections
    BY <1>1, <1>4, TimeTyped DEF RecordWatchObservation
  <2>2. QED
    BY <1>4, <2>1 DEF TypeOK, RecordWatchObservation, Quiet
<1>5. CASE Evaluate(t)
  <2>1. p' \in Projections
    BY <1>1, <1>5, MigrationStartedTyped, TimeTyped DEF Evaluate
  <2>2. QED
    BY <1>5, <2>1 DEF TypeOK, Evaluate, Quiet
<1>6. CASE \E s \in CampaignStates : Resume(s, t)
  <2>1. PICK s \in CampaignStates : Resume(s, t)
    BY <1>6
  <2>2. p' \in Projections
    BY <1>1, <2>1, StateEnteredTyped, TimeTyped DEF Resume
  <2>3. QED
    BY <2>1, <2>2 DEF TypeOK, Resume, Quiet
<1>7. QED
  BY <1>2, <1>3, <1>4, <1>5, <1>6

\* Every step keeps the types.
LEMMA TypeStep == TypeOK /\ [Next]_vars => TypeOK'
<1>1. TypeOK /\ UNCHANGED vars => TypeOK'
  BY DEF TypeOK, vars
<1>2. QED
  BY <1>1, TypeInventoryStep, TypeConsumerStep, TypeCampaignStep DEF Next

\* Whatever is recorded, the projection stays a projection and the history
\* variables stay what they are declared to be.
THEOREM TypeCorrect == Spec => []TypeOK
  BY TypeInit, TypeStep, PTL DEF Spec

-----------------------------------------------------------------------------
(***************************************************************************)
(* The inductive invariant.  ClosureHasEvidence is inductive given types:  *)
(* no event but a receipt makes a consumer VALIDATED, and no event changes *)
(* the plan or the receipt of one that is.  ReconciliationCoversMembership *)
(* is inductive because each event that changes membership sets or clears  *)
(* `reconciled`.  What observations have seen is exactly what is known.    *)
(***************************************************************************)
KernelInv ==
  /\ TypeOK
  /\ ClosureHasEvidence
  /\ ReconciliationCoversMembership
  /\ sighted = p.known

\* An event of one consumer that neither validates nor re-plans anyone else.
LEMMA DispositionKeepsEvidence ==
  ASSUME NEW c \in Consumers, NEW d \in Dispositions, NEW q \in Plans \cup {NoPlan},
         NEW t \in Time, KernelInv, MayChangeDisposition(p, c, d),
         Append(DispositionChanged(p, c, d, q), t)
  PROVE  /\ ClosureHasEvidence'
         /\ p'.reconciled = p.reconciled /\ p'.known = p.known
<1>1. d # "VALIDATED" /\ p \in Projections
  BY DEF KernelInv, TypeOK, MayChangeDisposition, EvidenceBound
<1>2. /\ p'.disp = [p.disp EXCEPT ![c] = d]
      /\ p'.plan = [p.plan EXCEPT ![c] = IF d = "CHANGE_PROPOSED" THEN q ELSE @]
      /\ p'.receipt = p.receipt /\ p'.known = p.known
      /\ p'.reconciled = p.reconciled
  BY <1>1 DEF Append, DispositionChanged, Projections
<1>3. ASSUME NEW k \in p.known, p'.disp[k] = "VALIDATED"
      PROVE  p'.plan[k] \in Plans /\ p'.receipt[k].plan = p'.plan[k]
  <2>1. k # c /\ k \in Consumers
    BY <1>1, <1>2, <1>3 DEF Projections
  <2>2. p.disp[k] = "VALIDATED" /\ p'.plan[k] = p.plan[k]
    BY <1>1, <1>2, <1>3, <2>1 DEF Projections
  <2>3. QED
    BY <1>2, <2>2 DEF KernelInv, ClosureHasEvidence
<1>4. QED
  BY <1>2, <1>3 DEF ClosureHasEvidence

\* Entering consumers in a source's disposition validates none.
LEMMA EnteredKeepsEvidence ==
  ASSUME NEW seen \in SUBSET Consumers, NEW d \in [Consumers -> Sightings],
         KernelInv, NEW pp \in Projections,
         pp.disp = Entered(p, seen, d).disp, pp.plan = Entered(p, seen, d).plan,
         pp.receipt = Entered(p, seen, d).receipt, pp.known = p.known \cup seen
  PROVE  \A c \in pp.known :
            pp.disp[c] = "VALIDATED" =>
               pp.plan[c] \in Plans /\ pp.receipt[c].plan = pp.plan[c]
<1>1. p \in Projections /\ \A c \in Consumers : d[c] # "VALIDATED"
  BY SightingsTyped DEF KernelInv, TypeOK, InventoryDispositions
<1>2. \A c \in Consumers :
         /\ pp.disp[c] = IF c \in seen THEN d[c] ELSE p.disp[c]
         /\ pp.plan[c] = IF c \in seen THEN NoPlan ELSE p.plan[c]
         /\ pp.receipt[c] = IF c \in seen THEN NoReceipt ELSE p.receipt[c]
  BY <1>1 DEF Entered, Projections
<1>3. TAKE c \in pp.known
<1>4. HAVE pp.disp[c] = "VALIDATED"
<1>5. c \in Consumers /\ c \notin seen
  BY <1>1, <1>2, <1>4 DEF Projections
<1>6. c \in p.known /\ p.disp[c] = "VALIDATED"
  BY <1>2, <1>4, <1>5
<1>7. QED
  BY <1>2, <1>5, <1>6 DEF KernelInv, ClosureHasEvidence

\* An event that leaves membership, plans, receipts, dispositions and the
\* reconciliation alone.
LEMMA StateEventKeepsEvidence ==
  ASSUME NEW q, NEW t \in Time, q \in Projections, KernelInv, Append(q, t),
         q.disp = p.disp, q.plan = p.plan, q.receipt = p.receipt,
         q.known = p.known, q.reconciled = p.reconciled, Quiet
  PROVE  ClosureHasEvidence' /\ ReconciliationCoversMembership' /\ sighted' = p'.known
<1>1. /\ p'.disp = p.disp /\ p'.plan = p.plan /\ p'.receipt = p.receipt
      /\ p'.known = p.known /\ p'.reconciled = p.reconciled
  BY DEF Append, Projections
<1>2. QED
  BY <1>1 DEF KernelInv, ClosureHasEvidence, ReconciliationCoversMembership, Quiet

\* Baselines, extensions and reconciliations keep the inductive invariant.
LEMMA InvInventoryStep == KernelInv /\ InventoryStep => KernelInv'
<1> SUFFICES ASSUME KernelInv,
                    NEW found \in SUBSET Consumers,
                    NEW d \in [Consumers -> Sightings],
                    NEW env \in Observations, NEW t \in Time,
                    \/ RecordInventory(found, d, env, t)
                    \/ ExtendInventory(found, d, env, t)
                    \/ RecordReconciliation(found, d, env, t)
             PROVE  /\ ClosureHasEvidence'
                    /\ ReconciliationCoversMembership'
                    /\ sighted' = p'.known
  BY TypeInventoryStep DEF InventoryStep, KernelInv
<1>1. /\ p \in Projections /\ env \in Envelopes
      /\ d \in [Consumers -> Dispositions] /\ sighted = p.known
      /\ \A c \in Consumers : d[c] # "VALIDATED"
  BY SightingsTyped, ObservationsAssumption
     DEF KernelInv, TypeOK, InventoryDispositions
<1>2. CASE RecordInventory(found, d, env, t)
  <2>1. /\ p'.known = found /\ ~p'.reconciled
        /\ p'.disp = [c \in Consumers |-> IF c \in found THEN d[c] ELSE "DISCOVERED"]
    BY <1>1, <1>2 DEF RecordInventory, Append, InventoryRecorded, Projections
  <2>2. \A c \in p'.known : p'.disp[c] # "VALIDATED"
    BY <1>1, <2>1
  <2>3. sighted' = found
    BY <1>2 DEF RecordInventory
  <2>4. QED
    BY <2>1, <2>2, <2>3 DEF ClosureHasEvidence, ReconciliationCoversMembership
<1>3. CASE ExtendInventory(found, d, env, t)
  <2> DEFINE new == found \ p.known
  <2>1. Entered(p, new, d) \in Projections /\ p' \in Projections
    BY <1>1, <1>3, EnteredTyped, InventoryExtendedTyped, TimeTyped
       DEF ExtendInventory, Projections
  <2>2. /\ p'.disp = Entered(p, new, d).disp /\ p'.plan = Entered(p, new, d).plan
        /\ p'.receipt = Entered(p, new, d).receipt
        /\ p'.known = Entered(p, new, d).known
        /\ ~p'.reconciled
    BY <1>1, <1>3, <2>1 DEF ExtendInventory, Append, InventoryExtended, Projections
  <2>3. Entered(p, new, d).known = p.known \cup new
    BY <1>1 DEF Entered, Projections
  <2>4. sighted' = p.known \cup new
    BY <1>1, <1>3 DEF ExtendInventory
  <2>5. ClosureHasEvidence'
    <3>1. new \in SUBSET Consumers
      OBVIOUS
    <3>2. QED
      BY <2>1, <2>2, <2>3, <3>1, EnteredKeepsEvidence DEF ClosureHasEvidence
  <2>6. QED
    BY <2>2, <2>3, <2>4, <2>5 DEF ReconciliationCoversMembership
<1>4. CASE RecordReconciliation(found, d, env, t)
  <2> DEFINE new == found \ p.known
  <2>1. Entered(p, new, d) \in Projections /\ p' \in Projections
    BY <1>1, <1>4, EnteredTyped, ReconciliationRecordedTyped, TimeTyped
       DEF RecordReconciliation, Projections
  <2>2. /\ p'.disp = Entered(p, new, d).disp /\ p'.plan = Entered(p, new, d).plan
        /\ p'.receipt = Entered(p, new, d).receipt
        /\ p'.known = Entered(p, new, d).known
    BY <1>1, <1>4, <2>1 DEF RecordReconciliation, Append, ReconciliationRecorded, Projections
  <2>3. Entered(p, new, d).known = p.known \cup new
    BY <1>1 DEF Entered, Projections
  <2>4. sighted' = p.known \cup new /\ ~moved'
    BY <1>1, <1>4 DEF RecordReconciliation
  <2>5. ClosureHasEvidence'
    <3>1. new \in SUBSET Consumers
      OBVIOUS
    <3>2. QED
      BY <2>1, <2>2, <2>3, <3>1, EnteredKeepsEvidence DEF ClosureHasEvidence
  <2>6. QED
    BY <2>2, <2>3, <2>4, <2>5 DEF ReconciliationCoversMembership
<1>5. QED
  BY <1>2, <1>3, <1>4

\* Every operation on one consumer keeps the inductive invariant.
LEMMA InvConsumerStep == KernelInv /\ ConsumerStep => KernelInv'
<1> SUFFICES ASSUME KernelInv, NEW c \in Consumers, NEW t \in Time,
                    \/ \E d \in Dispositions : ChangeDisposition(c, d, t)
                    \/ \E q \in Plans : ProposeChange(c, q, t)
                    \/ BeginMigration(c, t)
                    \/ ApplyChange(c, t)
                    \/ \E e \in Expiries : AcceptReceipt(c, e, t)
                    \/ RecordWaiver(c, t)
                    \/ RecordNonApplicability(c, t)
             PROVE  /\ ClosureHasEvidence'
                    /\ ReconciliationCoversMembership'
                    /\ sighted' = p'.known
  BY TypeConsumerStep DEF ConsumerStep, KernelInv
<1>1. p \in Projections /\ {"APPLIED", "CHANGE_PROPOSED"} \subseteq Dispositions
  BY DEF KernelInv, TypeOK, Dispositions
<1>2. CASE \E d \in Dispositions : ChangeDisposition(c, d, t)
  BY <1>2, DispositionKeepsEvidence
     DEF ChangeDisposition, Quiet, KernelInv, ReconciliationCoversMembership
<1>3. CASE \E q \in Plans : ProposeChange(c, q, t)
  BY <1>1, <1>3, DispositionKeepsEvidence
     DEF ProposeChange, Quiet, KernelInv, ReconciliationCoversMembership
<1>4. CASE BeginMigration(c, t)
  <2>1. /\ p'.disp = p.disp /\ p'.plan = p.plan /\ p'.receipt = p.receipt
        /\ p'.known = p.known /\ p'.reconciled = p.reconciled
    BY <1>1, <1>4 DEF BeginMigration, Append, MigrationStarted, Projections
  <2>2. QED
    BY <1>4, <2>1
       DEF BeginMigration, KernelInv, ClosureHasEvidence, ReconciliationCoversMembership
<1>5. CASE ApplyChange(c, t)
  BY <1>1, <1>5, DispositionKeepsEvidence
     DEF ApplyChange, KernelInv, ReconciliationCoversMembership
<1>6. CASE \E e \in Expiries : AcceptReceipt(c, e, t)
  <2>1. PICK e \in Expiries : AcceptReceipt(c, e, t)
    BY <1>6
  <2>2. /\ p'.disp = [p.disp EXCEPT ![c] = "VALIDATED"] /\ p'.plan = p.plan
        /\ p'.receipt = [p.receipt EXCEPT ![c] = [plan |-> p.plan[c], expires |-> e]]
        /\ p'.known = p.known /\ p'.reconciled = p.reconciled
    BY <1>1, <2>1 DEF AcceptReceipt, Append, ReceiptAccepted, Projections
  <2>3. p.plan[c] \in Plans
    BY <1>1, <2>1 DEF AcceptReceipt, Projections
  <2>4. ASSUME NEW k \in p.known, p'.disp[k] = "VALIDATED"
        PROVE  p'.plan[k] \in Plans /\ p'.receipt[k].plan = p'.plan[k]
    <3>1. CASE k = c
      BY <1>1, <2>2, <2>3, <3>1 DEF Projections
    <3>2. CASE k # c
      BY <1>1, <2>2, <2>4, <3>2 DEF Projections, KernelInv, ClosureHasEvidence
    <3>3. QED
      BY <3>1, <3>2
  <2>5. QED
    BY <2>1, <2>2, <2>4 DEF AcceptReceipt, Quiet, KernelInv, ClosureHasEvidence,
                            ReconciliationCoversMembership
<1>7. CASE RecordWaiver(c, t) \/ RecordNonApplicability(c, t)
  <2>1. PICK d \in {"WAIVED", "NOT_APPLICABLE"} : p'.disp = [p.disp EXCEPT ![c] = d]
    BY <1>1, <1>7 DEF RecordWaiver, RecordNonApplicability, Append,
                      WaiverRecorded, NonApplicabilityRecorded, Projections
  <2>2. /\ p'.plan = p.plan /\ p'.receipt = p.receipt
        /\ p'.known = p.known /\ p'.reconciled = p.reconciled
    BY <1>1, <1>7 DEF RecordWaiver, RecordNonApplicability, Append,
                      WaiverRecorded, NonApplicabilityRecorded, Projections
  <2>3. \A k \in p.known : p'.disp[k] = "VALIDATED" => p.disp[k] = "VALIDATED"
    BY <1>1, <2>1 DEF Projections
  <2>4. QED
    BY <1>7, <2>2, <2>3 DEF RecordWaiver, RecordNonApplicability, Quiet, KernelInv,
                            ClosureHasEvidence, ReconciliationCoversMembership
<1>8. QED
  BY <1>2, <1>3, <1>4, <1>5, <1>6, <1>7

\* Every operation on the campaign as a whole keeps the inductive invariant.
LEMMA InvCampaignStep == KernelInv /\ CampaignStep => KernelInv'
<1> SUFFICES ASSUME KernelInv, NEW t \in Time,
                    \/ \E q \in Plans, e \in Expiries : RecordApproval(q, e, t)
                    \/ RecordReviewRequirement(t)
                    \/ RecordWatchObservation(t)
                    \/ Evaluate(t)
                    \/ \E s \in CampaignStates : Resume(s, t)
             PROVE  /\ ClosureHasEvidence'
                    /\ ReconciliationCoversMembership'
                    /\ sighted' = p'.known
  BY TypeCampaignStep DEF CampaignStep, KernelInv
<1>1. p \in Projections
  BY DEF KernelInv, TypeOK
<1>2. CASE \E q \in Plans, e \in Expiries : RecordApproval(q, e, t)
  <2>1. PICK r \in Plans, e \in Expiries : RecordApproval(r, e, t)
    BY <1>2
  <2> DEFINE q == ApprovalRecorded(p, r, e)
  <2>2. /\ q.disp = p.disp /\ q.plan = p.plan /\ q.receipt = p.receipt
        /\ q.known = p.known /\ q.reconciled = p.reconciled
    BY <1>1 DEF ApprovalRecorded, Projections
  <2>3. q \in Projections /\ Append(q, t) /\ Quiet
    BY <1>1, <2>1, ApprovalRecordedTyped DEF RecordApproval
  <2> HIDE DEF q
  <2>4. QED
    BY <2>2, <2>3, StateEventKeepsEvidence
<1>3. CASE RecordReviewRequirement(t)
  <2> DEFINE q == ReviewRequirementRecorded(p)
  <2>1. /\ q.disp = p.disp /\ q.plan = p.plan /\ q.receipt = p.receipt
        /\ q.known = p.known /\ q.reconciled = p.reconciled
    BY <1>1 DEF ReviewRequirementRecorded, Projections
  <2>2. q \in Projections /\ Append(q, t) /\ Quiet
    BY <1>1, <1>3, ReviewTyped DEF RecordReviewRequirement
  <2> HIDE DEF q
  <2>3. QED
    BY <2>1, <2>2, StateEventKeepsEvidence
<1>4. CASE RecordWatchObservation(t)
  BY <1>1, <1>4, StateEventKeepsEvidence DEF RecordWatchObservation
<1>5. CASE Evaluate(t)
  BY <1>1, <1>5, MigrationStartedTyped, StateEventKeepsEvidence
     DEF Evaluate, PolicyEvaluated, Projections
<1>6. CASE \E s \in CampaignStates : Resume(s, t)
  <2>1. PICK s \in CampaignStates : Resume(s, t)
    BY <1>6
  <2>2. QED
    BY <1>1, <2>1, StateEnteredTyped, StateEventKeepsEvidence
       DEF Resume, StateEntered, Projections
<1>7. QED
  BY <1>2, <1>3, <1>4, <1>5, <1>6

\* A created campaign meets the inductive invariant.
LEMMA InvInit == Init => KernelInv
  BY TypeInit DEF Init, Created, KernelInv, ClosureHasEvidence, ReconciliationCoversMembership

\* Every step keeps the inductive invariant.
LEMMA InvStep == KernelInv /\ [Next]_vars => KernelInv'
<1>1. KernelInv /\ UNCHANGED vars => KernelInv'
  BY DEF KernelInv, TypeOK, ClosureHasEvidence, ReconciliationCoversMembership, vars
<1>2. QED
  BY <1>1, InvInventoryStep, InvConsumerStep, InvCampaignStep DEF Next

\* The inductive invariant holds throughout.
LEMMA Inductive == Spec => []KernelInv
  BY InvInit, InvStep, PTL DEF Spec

-----------------------------------------------------------------------------
\* The default policy as a condition: what READY_TO_RETIRE requires, and that
\* nothing else yields it.  policy.py's three lists of findings amount to this.
THEOREM ReadyToRetire ==
  ASSUME NEW pp \in Projections
  PROVE  Decision(pp) = "READY_TO_RETIRE" <=>
           /\ pp.known # {}
           /\ \A c \in pp.known : pp.disp[c] \in ACCEPTED_DISPOSITIONS
           /\ pp.current \subseteq pp.inventory
           /\ pp.envelope.live /\ pp.envelope.complete
           /\ pp.reconciled /\ ~pp.review
<1> DEFINE in == PolicyInputs(pp)
<1>1. /\ DOMAIN in.disp = pp.known
      /\ \A c \in pp.known : in.disp[c] = pp.disp[c] /\ pp.disp[c] \in Dispositions
      /\ in.current = pp.current /\ in.inventory = pp.inventory
      /\ in.envelope = pp.envelope
      /\ in.reconciled = pp.reconciled /\ in.review = pp.review
  BY DEF PolicyInputs, Projections
<1>2. HasUnsafe(in) <=>
        \/ \E c \in pp.known : pp.disp[c] \in UNSAFE_DISPOSITIONS
        \/ ~(pp.current \subseteq pp.inventory)
  BY <1>1 DEF HasUnsafe, new_consumers
<1>3. HasBlocker(default_policy, in) <=>
        \/ ~pp.envelope.live \/ ~pp.envelope.complete
        \/ pp.known = {}
        \/ \E c \in pp.known : pp.disp[c] \in {"WAIVED", "UNRESOLVED"}
        \/ ~pp.reconciled
  BY <1>1 DEF HasBlocker, default_policy
<1>4. HasReview(default_policy, in) <=> pp.review
  BY <1>1 DEF HasReview, default_policy
<1>5. \A d \in Dispositions :
         d \in ACCEPTED_DISPOSITIONS <=>
           d \notin UNSAFE_DISPOSITIONS /\ d \notin {"WAIVED", "UNRESOLVED"}
  BY DEF Dispositions, ACCEPTED_DISPOSITIONS, UNSAFE_DISPOSITIONS
<1>6. Decision(pp) = "READY_TO_RETIRE" <=>
        ~HasUnsafe(in) /\ ~HasBlocker(default_policy, in) /\ ~HasReview(default_policy, in)
  BY DEF Decision, evaluate_policy
<1> HIDE DEF in
<1>7. QED
  BY <1>1, <1>2, <1>3, <1>4, <1>5, <1>6

\* VALIDATED always rests on a receipt for the plan the consumer has now.
THEOREM EvidenceIsCurrent == Spec => []ClosureHasEvidence
  BY Inductive, PTL DEF KernelInv

\* A reconciliation on record was made after the last change of membership.
THEOREM MembershipIsReconciled == Spec => []ReconciliationCoversMembership
  BY Inductive, PTL DEF KernelInv

\* Whatever was observed since the last baseline is closed when the gate opens.
THEOREM DisappearanceIsNotClosure == Spec => []SightingsAreAccounted
<1>1. KernelInv => SightingsAreAccounted
  BY ReadyToRetire DEF KernelInv, TypeOK, SightingsAreAccounted, GateReady
<1>2. QED
  BY <1>1, Inductive, PTL

\* Only an evaluation enters READY, and it decides on what is then on record.
THEOREM ReadyIsDecided == Spec => ReadyOnlyByPolicy
<1> DEFINE Enters == p.state # "READY" /\ p'.state = "READY"
           Decided == Decision(p') = "READY_TO_RETIRE" /\ p'.reconciled /\ Readable(p')
<1>1. ASSUME TypeOK, NEW t \in Time, Evaluate(t), Enters
      PROVE  Decided
  <2>1. /\ p \in Projections
        /\ p' = [[p EXCEPT !.state = EvaluatedState(p)] EXCEPT !.time = t]
    BY <1>1 DEF TypeOK, Evaluate, Append, PolicyEvaluated
  <2>2. /\ p'.known = p.known /\ p'.disp = p.disp /\ p'.inventory = p.inventory
        /\ p'.current = p.current /\ p'.envelope = p.envelope
        /\ p'.reconciled = p.reconciled /\ p'.review = p.review
        /\ p'.receipt = p.receipt /\ p'.time = t
        /\ p'.state = EvaluatedState(p)
    BY <2>1 DEF Projections
  <2>3. Decision(p) = "READY_TO_RETIRE"
    BY <1>1, <2>2 DEF EvaluatedState
  <2>4. Decision(p') = Decision(p)
    BY <2>2 DEF Decision, PolicyInputs
  <2>5. ReceiptsFresh(p, t)
    BY <1>1 DEF Evaluate, MayEvaluate
  <2>6. Readable(p')
    BY <2>2, <2>5 DEF Readable, ReceiptsFresh
  <2>7. p.reconciled
    BY <2>1, <2>3, ReadyToRetire
  <2>8. QED
    BY <2>2, <2>3, <2>4, <2>6, <2>7
<1>2. ASSUME TypeOK, InventoryStep, Enters
      PROVE  FALSE
  <2>1. PICK found \in SUBSET Consumers, d \in [Consumers -> Sightings],
             env \in Observations, t \in Time :
               \/ RecordInventory(found, d, env, t)
               \/ ExtendInventory(found, d, env, t)
               \/ RecordReconciliation(found, d, env, t)
    BY <1>2 DEF InventoryStep
  <2>2. p \in Projections
    BY <1>2 DEF TypeOK
  <2>3. CASE RecordInventory(found, d, env, t)
    BY <1>2, <2>2, <2>3 DEF RecordInventory, Append, InventoryRecorded, Projections
  <2>4. CASE ExtendInventory(found, d, env, t)
    BY <1>2, <2>2, <2>4 DEF ExtendInventory, Append, InventoryExtended, Entered, Projections
  <2>5. CASE RecordReconciliation(found, d, env, t)
    BY <1>2, <2>2, <2>5
       DEF RecordReconciliation, Append, ReconciliationRecorded, Entered, Projections
  <2>6. QED
    BY <2>1, <2>3, <2>4, <2>5
<1>3. ASSUME TypeOK, ConsumerStep, Enters
      PROVE  FALSE
  <2>1. p \in Projections
    BY <1>3 DEF TypeOK
  <2>2. PICK c \in Consumers, t \in Time :
          \/ \E d \in Dispositions : ChangeDisposition(c, d, t)
          \/ \E q \in Plans : ProposeChange(c, q, t)
          \/ BeginMigration(c, t)
          \/ ApplyChange(c, t)
          \/ \E e \in Expiries : AcceptReceipt(c, e, t)
          \/ RecordWaiver(c, t)
          \/ RecordNonApplicability(c, t)
    BY <1>3 DEF ConsumerStep
  <2>3. CASE BeginMigration(c, t)
    BY <1>3, <2>1, <2>3 DEF BeginMigration, Append, MigrationStarted, Projections
  <2>4. CASE \E d \in Dispositions, q \in Plans \cup {NoPlan} :
               Append(DispositionChanged(p, c, d, q), t)
    <3>1. p'.state = p.state
      BY <2>1, <2>4 DEF Append, DispositionChanged, Projections
    <3>2. QED
      BY <1>3, <3>1
  <2>5. CASE \E e \in Expiries : AcceptReceipt(c, e, t)
    <3>1. p'.state = p.state
      BY <2>1, <2>5 DEF AcceptReceipt, Append, ReceiptAccepted, Projections
    <3>2. QED
      BY <1>3, <3>1
  <2>6. CASE RecordWaiver(c, t) \/ RecordNonApplicability(c, t)
    <3>1. p'.state = p.state
      BY <2>1, <2>6 DEF RecordWaiver, RecordNonApplicability, Append, WaiverRecorded,
                        NonApplicabilityRecorded, Projections
    <3>2. QED
      BY <1>3, <3>1
  <2>7. {"APPLIED", "CHANGE_PROPOSED"} \subseteq Dispositions
    BY DEF Dispositions
  <2>8. QED
    BY <2>2, <2>3, <2>4, <2>5, <2>6, <2>7 DEF ChangeDisposition, ProposeChange, ApplyChange
<1>4. ASSUME TypeOK, CampaignStep, Enters
      PROVE  Decided
  <2>1. PICK t \in Time :
          \/ \E q \in Plans, e \in Expiries : RecordApproval(q, e, t)
          \/ RecordReviewRequirement(t)
          \/ RecordWatchObservation(t)
          \/ Evaluate(t)
          \/ \E s \in CampaignStates : Resume(s, t)
    BY <1>4 DEF CampaignStep
  <2>2. p \in Projections
    BY <1>4 DEF TypeOK
  <2>3. CASE \E q \in Plans, e \in Expiries : RecordApproval(q, e, t)
    BY <1>4, <2>2, <2>3 DEF RecordApproval, Append, ApprovalRecorded, Projections
  <2>4. CASE RecordReviewRequirement(t)
    <3>1. p' = [[p EXCEPT !.review = TRUE] EXCEPT !.time = t]
      BY <2>4 DEF RecordReviewRequirement, Append, ReviewRequirementRecorded
    <3>2. p'.state = p.state
      BY <2>2, <3>1 DEF Projections
    <3>3. QED
      BY <1>4, <3>2
  <2>5. CASE RecordWatchObservation(t)
    BY <1>4, <2>2, <2>5 DEF RecordWatchObservation, Append, Projections
  <2>6. CASE Evaluate(t)
    BY <1>1, <1>4, <2>6
  <2>7. CASE \E s \in CampaignStates : Resume(s, t)
    BY <1>4, <2>2, <2>7 DEF Resume, Append, StateEntered, Projections
  <2>8. QED
    BY <2>1, <2>3, <2>4, <2>5, <2>6, <2>7
<1>5. TypeOK /\ [Next]_vars => (Enters => Decided)
  BY <1>2, <1>3, <1>4 DEF Next, vars
<1>6. TypeOK /\ [Next]_vars => [Enters => Decided]_vars
  BY <1>5
<1>7. QED
  BY <1>6, TypeCorrect, PTL DEF Spec, ReadyOnlyByPolicy
=============================================================================
