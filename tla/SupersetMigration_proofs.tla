---------------------- MODULE SupersetMigration_proofs ----------------------
(***************************************************************************)
(* Proofs about SupersetMigration, for every set of campaigns, datasets,   *)
(* charts, consumers and processes, with other commands of a campaign      *)
(* between the steps of these or without.                                  *)
(***************************************************************************)
EXTENDS SupersetMigration, TLAPS

-----------------------------------------------------------------------------
(***************************************************************************)
(* The types, with what a command under way always has: its campaign, its  *)
(* plan, and of the consumers this plan's dataset covers those to close.   *)
(***************************************************************************)
Runs == [at : Points, campaign : Campaigns \cup {NoCampaign}, plan : Plans \cup {NoPlan},
         seen : Dispositions, todo : SUBSET Covered]
Artifacts == [Campaigns -> Plans \cup {NoPlan}]
Closing == {"covering", "cover-planning", "cover-applying", "cover-accepting"}
CoveredBy(x) == {y \in Covered : parent[y] = x}

StateTyped ==
  /\ p \in [Campaigns -> Projections]
  /\ scope \in [Campaigns -> [Datasets -> Sources]]
  /\ planned \in Artifacts /\ applied \in Artifacts
  /\ receipt \in Artifacts /\ observed \in Artifacts
  /\ claim \in [Datasets \X Charts -> Campaigns \cup {NoCampaign}]
  /\ native \in [Datasets -> Contents] /\ late \subseteq Updates

RunTyped ==
  /\ run \in [Processes -> Runs]
  /\ \A w \in Processes : ~At(w, "idle") =>
       /\ run[w].campaign \in Campaigns /\ run[w].plan \in Plans
       /\ run[w].todo \subseteq CoveredBy(run[w].plan.of)
       /\ run[w].at \in Closing => run[w].todo # {}

SupersetTyped == StateTyped /\ RunTyped

-----------------------------------------------------------------------------
(* What the projector's operators return.                                  *)

\* A receipt for a plan, and the one that stands for none, are receipts.
LEMMA ReceiptTyped ==
  /\ NoReceipt \in Receipts
  /\ Never \in Expiries
  /\ \A q \in Plans : [plan |-> q, expires |-> Never] \in Receipts
  BY MaxTimeAssumption DEF NoReceipt, Receipts, Expiries, Never

\* The dispositions the commands name, and what an inventory may say.
LEMMA NamedDispositions ==
  /\ {"DISCOVERED", "OPAQUE", "IDENTIFIED", "CHANGE_PROPOSED", "APPLIED", "STALE", "VALIDATED"}
       \subseteq Dispositions
  /\ AllOpaque \in [Consumers -> Dispositions]
  /\ \A x \in Consumers : AllOpaque[x] \in InventoryDispositions
  BY DEF Dispositions, AllOpaque, InventoryDispositions

\* A campaign that was only created has a projection.
LEMMA CreatedTyped == Created \in Projections
<1>1. "PROPOSED" \in CampaignStates
  BY DEF CampaignStates
<1>2. 0 \in Expiries /\ 0 \in Time /\ NoEnvelope \in Envelopes
  BY MaxTimeAssumption DEF Expiries, Never, Time, NoEnvelope, Envelopes
<1>3. QED
  BY <1>1, <1>2, ReceiptTyped, NamedDispositions DEF Created, Projections

\* The consumer events yield projections.
LEMMA ConsumerEventTyped ==
  ASSUME NEW pp \in Projections, NEW x \in Consumers
  PROVE  /\ \A d \in Dispositions, q \in Plans \cup {NoPlan} :
              DispositionChanged(pp, x, d, q) \in Projections
         /\ \A q \in Plans :
              ReceiptAccepted(pp, x, [plan |-> q, expires |-> Never]) \in Projections
         /\ \A q \in Plans : ApprovalRecorded(pp, q, Never) \in Projections
<1>1. \A d \in Dispositions, q \in Plans \cup {NoPlan} :
         DispositionChanged(pp, x, d, q) \in Projections
  BY DEF DispositionChanged, Projections
<1>2. \A r \in Receipts : ReceiptAccepted(pp, x, r) \in Projections
  BY NamedDispositions DEF ReceiptAccepted, Projections
<1>3. \A e \in Expiries, q \in Plans : ApprovalRecorded(pp, q, e) \in Projections
  BY DEF ApprovalRecorded, Projections
<1>4. QED
  BY <1>1, <1>2, <1>3, ReceiptTyped

\* So do the events of the inventory and of the campaign.
LEMMA CampaignEventTyped ==
  ASSUME NEW pp \in Projections
  PROVE  /\ \A found \in SUBSET Consumers, d \in [Consumers -> Dispositions] :
              /\ InventoryRecorded(pp, found, d, Complete) \in Projections
              /\ InventoryExtended(pp, found, d, Complete) \in Projections
              /\ ReconciliationRecorded(pp, found, d, Complete) \in Projections
         /\ MigrationStarted(pp) \in Projections
         /\ PolicyEvaluated(pp) \in Projections
<1>1. Complete \in Envelopes
  BY DEF Complete, Envelopes
<1>2. {"INVENTORIED", "RECONCILING", "MIGRATING", "READY", "BLOCKED"} \subseteq CampaignStates
  BY DEF CampaignStates
<1>3. ASSUME NEW found \in SUBSET Consumers, NEW d \in [Consumers -> Dispositions]
      PROVE  /\ InventoryRecorded(pp, found, d, Complete) \in Projections
             /\ InventoryExtended(pp, found, d, Complete) \in Projections
             /\ ReconciliationRecorded(pp, found, d, Complete) \in Projections
  <2>1. Entered(pp, found \ pp.known, d) \in Projections
    BY ReceiptTyped DEF Entered, Projections
  <2>2. InventoryRecorded(pp, found, d, Complete) \in Projections
    BY <1>1, <1>2, ReceiptTyped, NamedDispositions DEF InventoryRecorded, Projections
  <2>3. InventoryExtended(pp, found, d, Complete) \in Projections
    BY <1>1, <2>1 DEF InventoryExtended, Projections
  <2>4. ReconciliationRecorded(pp, found, d, Complete) \in Projections
    BY <1>1, <1>2, <2>1 DEF ReconciliationRecorded, Projections
  <2>5. QED
    BY <2>2, <2>3, <2>4
<1>4. MigrationStarted(pp) \in Projections
  BY <1>2 DEF MigrationStarted, Projections
<1>5. EvaluatedState(pp) \in CampaignStates
  BY <1>2 DEF EvaluatedState
<1>6. PolicyEvaluated(pp) \in Projections
  BY <1>5 DEF PolicyEvaluated, Projections
<1>7. QED
  BY <1>3, <1>4, <1>6

-----------------------------------------------------------------------------
(* What a command does to its own record.                                  *)

\* What a plan names exists.
LEMMA PlanTyped ==
  ASSUME NEW q \in Plans
  PROVE  /\ q.of \in Parents /\ q.of \in Consumers /\ q.chart \in Charts
         /\ Target(q) \in Datasets
         /\ q.before \in Contents /\ After(q) \in Contents
  BY PlansAssumption, DatasetAssumption DEF SupersetPlans, Target, After, Contents

\* A command goes to another point with all it had.
LEMMA GotoMoves ==
  ASSUME run \in [Processes -> Runs], NEW w \in Processes, NEW point \in Points, Goto(w, point)
  PROVE  /\ run' \in [Processes -> Runs]
         /\ run'[w].at = point /\ run'[w].campaign = run[w].campaign
         /\ run'[w].plan = run[w].plan /\ run'[w].seen = run[w].seen
         /\ run'[w].todo = run[w].todo
         /\ \A v \in Processes : v # w => run'[v] = run[v]
  BY DEF Goto, Runs

\* A command that stops has nothing.
LEMMA IdleTyped == Idle \in Runs /\ Idle.at = "idle"
  BY NamedDispositions DEF Idle, Runs, Points

\* A command's record is replaced as a whole.
LEMMA RunReplaced ==
  ASSUME run \in [Processes -> Runs], NEW w \in Processes, NEW r \in Runs,
         run' = [run EXCEPT ![w] = r]
  PROVE  /\ run' \in [Processes -> Runs] /\ run'[w] = r
         /\ \A v \in Processes : v # w => run'[v] = run[v]
  OBVIOUS

\* Going on keeps what a command under way always has.
LEMMA GotoTyped ==
  ASSUME RunTyped, NEW w \in Processes, NEW point \in Points, Goto(w, point),
         ~At(w, "idle"), point \in Closing => run[w].at \in Closing
  PROVE  RunTyped'
  BY GotoMoves DEF RunTyped, At

\* So does stopping.
LEMMA StopTyped ==
  ASSUME RunTyped, NEW w \in Processes, Stop(w)
  PROVE  /\ RunTyped' /\ run'[w] = Idle
         /\ \A v \in Processes : v # w => run'[v] = run[v]
  BY RunReplaced, IdleTyped DEF RunTyped, Stop, At

\* So does starting with a plan.
LEMMA StartTyped ==
  ASSUME RunTyped, NEW w \in Processes, NEW r \in Runs, run' = [run EXCEPT ![w] = r],
         r.at \in Points \ (Closing \cup {"idle"}), r.campaign \in Campaigns, r.plan \in Plans,
         r.todo \subseteq CoveredBy(r.plan.of)
  PROVE  /\ RunTyped' /\ run'[w] = r
         /\ \A v \in Processes : v # w => run'[v] = run[v]
<1>1. /\ run' \in [Processes -> Runs] /\ run'[w] = r
      /\ \A v \in Processes : v # w => run'[v] = run[v]
  BY RunReplaced DEF RunTyped
<1>2. QED
  BY <1>1 DEF RunTyped, At

\* So does closing one consumer after the other.
LEMMA NextCoveredTyped ==
  ASSUME RunTyped, NEW w \in Processes, ~At(w, "idle"),
         NEW todo \in SUBSET run[w].todo, NextCovered(w, todo)
  PROVE  /\ RunTyped'
         /\ \A v \in Processes : v # w => run'[v] = run[v]
         /\ \/ run'[w] = Idle
            \/ /\ run'[w].at = "covering" /\ todo # {} /\ run'[w].todo = todo
               /\ run'[w].plan = run[w].plan /\ run'[w].campaign = run[w].campaign
<1>1. run[w] \in Runs /\ "covering" \in Points
  BY DEF RunTyped, Points
<1>2. CASE todo = {}
  <2>1. Stop(w)
    BY <1>2 DEF NextCovered, Stop
  <2>2. QED
    BY <2>1, StopTyped
<1>3. CASE todo # {}
  <2> DEFINE r == [run[w] EXCEPT !.at = "covering", !.todo = todo]
  <2>1. /\ r \in Runs /\ r.at = "covering" /\ r.todo = todo
        /\ r.plan = run[w].plan /\ r.campaign = run[w].campaign
    BY <1>1 DEF Runs
  <2>2. run' = [run EXCEPT ![w] = r]
    BY <1>3 DEF NextCovered
  <2> HIDE DEF r
  <2>3. /\ run' \in [Processes -> Runs] /\ run'[w] = r
        /\ \A v \in Processes : v # w => run'[v] = run[v]
    BY <2>1, <2>2, RunReplaced DEF RunTyped
  <2>4. QED
    BY <1>3, <2>1, <2>3 DEF RunTyped, At
<1>4. QED
  BY <1>2, <1>3

\* A command under way has a campaign, a plan and, while it closes covered
\* consumers, one under way that its plan's dataset covers.
LEMMA CommandHas ==
  ASSUME SupersetTyped, NEW w \in Processes, ~At(w, "idle")
  PROVE  /\ run[w] \in Runs
         /\ run[w].campaign \in Campaigns /\ run[w].plan \in Plans
         /\ p[run[w].campaign] \in Projections
         /\ run[w].at \in Closing =>
              /\ Under(w) \in run[w].todo /\ Under(w) \in Covered /\ Under(w) \in Consumers
              /\ parent[Under(w)] = run[w].plan.of
  BY DEF SupersetTyped, StateTyped, RunTyped, Under, CoveredBy, Covered

-----------------------------------------------------------------------------
(* The types are kept.                                                     *)

\* One campaign's projection is replaced.
LEMMA Projects ==
  ASSUME p \in [Campaigns -> Projections], NEW c \in Campaigns, NEW q \in Projections,
         Project(c, q)
  PROVE  /\ p' \in [Campaigns -> Projections] /\ p'[c] = q
         /\ \A d \in Campaigns : d # c => p'[d] = p[d]
  BY DEF Project

\* What may be appended once is projected, or nothing happens.
LEMMA AppendsOnce ==
  ASSUME NEW c, NEW key, NEW content, NEW may \in BOOLEAN, NEW q,
         AppendOnce(c, key, content, may, q)
  PROVE  p' = p \/ (may /\ Project(c, q))
  BY DEF AppendOnce

\* A new campaign is well typed.
LEMMA TypeInit == Init => SupersetTyped
<1> SUFFICES ASSUME Init PROVE SupersetTyped
  OBVIOUS
<1>1. Created \in Projections
  BY CreatedTyped
<1>2. InventoryRecorded(Created, Consumers, AllOpaque, Complete) \in Projections
  BY <1>1, CampaignEventTyped, NamedDispositions
<1>3. p \in [Campaigns -> Projections]
  BY <1>2 DEF Init
<1>4. scope \in [Campaigns -> [Datasets -> Sources]]
  BY DEF Init, NoSources, Sources
<1>5. planned \in Artifacts /\ applied \in Artifacts /\ receipt \in Artifacts /\ observed \in Artifacts
  BY DEF Init, Artifacts
<1>6. /\ claim \in [Datasets \X Charts -> Campaigns \cup {NoCampaign}]
      /\ native \in [Datasets -> Contents] /\ late \subseteq Updates
  BY DEF Init, Contents, Versions
<1>7. RunTyped
  BY IdleTyped DEF Init, RunTyped, At
<1>8. QED
  BY <1>3, <1>4, <1>5, <1>6, <1>7 DEF SupersetTyped, StateTyped

\* The campaign's other commands keep the types.
LEMMA TypeCampaignStep ==
  ASSUME SupersetTyped, NEW c \in Campaigns, CampaignStep(c)
  PROVE  SupersetTyped'
<1>1. /\ p \in [Campaigns -> Projections] /\ p[c] \in Projections
      /\ scope \in [Campaigns -> [Datasets -> Sources]]
      /\ planned \in Artifacts /\ observed \in Artifacts
  BY DEF SupersetTyped, StateTyped
<1>2. /\ {} \in SUBSET Consumers /\ Consumers \in SUBSET Consumers
      /\ AllOpaque \in [Consumers -> Dispositions]
  BY NamedDispositions
<1>3. planned[c] # NoPlan => planned[c] \in Plans
  BY <1>1 DEF Artifacts
<1>4. p' \in [Campaigns -> Projections]
  <2>1. CASE Authorize(c)
    <3>1. planned[c] \in Plans
      BY <1>3, <2>1 DEF Authorize, CurrentPlan
    <3>2. planned[c].of \in Consumers
      BY <3>1, PlanTyped
    <3>3. ApprovalRecorded(p[c], planned[c], Never) \in Projections
      BY <1>1, <3>1, <3>2, ConsumerEventTyped
    <3>4. QED
      BY <1>1, <2>1, <3>3, Projects DEF Authorize
  <2>2. CASE ReconcileSource(c)
    <3>1. planned[c].of \in Consumers
      BY <1>3, <2>2, PlanTyped DEF ReconcileSource
    <3>2. DispositionChanged(p[c], planned[c].of, "STALE", NoPlan) \in Projections
      BY <1>1, <3>1, ConsumerEventTyped, NamedDispositions
    <3>3. QED
      BY <1>1, <2>2, <3>2, Projects DEF ReconcileSource, MarkStale
  <2>3. CASE RecordGateSource(c)
    BY <1>1, <1>2, <2>3, CampaignEventTyped, Projects DEF RecordGateSource
  <2>4. CASE Reconcile(c)
    <3>1. p[c].known \in SUBSET Consumers
      BY <1>1 DEF Projections
    <3>2. ReconciliationRecorded(p[c], p[c].known, AllOpaque, Complete) \in Projections
      BY <1>1, <1>2, <3>1, CampaignEventTyped
    <3>3. PolicyEvaluated(ReconciliationRecorded(p[c], p[c].known, AllOpaque, Complete))
            \in Projections
      BY <3>2, CampaignEventTyped
    <3>4. QED
      BY <1>1, <2>4, <3>3, Projects DEF Reconcile
  <2>5. CASE Inventory(c)
    BY <1>1, <1>2, <2>5, CampaignEventTyped, Projects DEF Inventory
  <2>6. CASE Evaluate(c)
    BY <1>1, <2>6, CampaignEventTyped, Projects DEF Evaluate
  <2>7. QED
    BY <2>1, <2>2, <2>3, <2>4, <2>5, <2>6 DEF CampaignStep
<1>5. scope' \in [Campaigns -> [Datasets -> Sources]]
  <2>1. CASE RecordGateSource(c)
    <3>1. Target(planned[c]) \in Datasets
      BY <1>3, <2>1, PlanTyped DEF RecordGateSource
    <3>2. QED
      BY <1>1, <2>1, <3>1 DEF RecordGateSource, Sources
  <2>2. CASE Inventory(c)
    BY <1>1, <2>2 DEF Inventory, NoSources, Sources
  <2>3. CASE UNCHANGED scope
    BY <1>1, <2>3
  <2>4. QED
    BY <2>1, <2>2, <2>3 DEF CampaignStep, Authorize, ReconcileSource, Reconcile, Evaluate
<1>6. observed' \in Artifacts
  <2>1. CASE ReconcileSource(c)
    BY <1>1, <1>3, <2>1 DEF ReconcileSource, Artifacts
  <2>2. CASE UNCHANGED observed
    BY <1>1, <2>2
  <2>3. QED
    BY <2>1, <2>2
       DEF CampaignStep, Authorize, RecordGateSource, Reconcile, Inventory, Evaluate, artifacts
<1>7. UNCHANGED <<planned, applied, receipt, claim, superset, run>>
  BY DEF CampaignStep, Authorize, ReconcileSource, RecordGateSource, Reconcile, Inventory,
         Evaluate, artifacts
<1>8. QED
  BY <1>4, <1>5, <1>6, <1>7 DEF SupersetTyped, StateTyped, RunTyped, At, superset

\* The start of a command keeps the types.
LEMMA TypeCommandStarts ==
  ASSUME SupersetTyped, NEW w \in Processes, NEW c \in Campaigns, CommandStarts(w, c)
  PROVE  SupersetTyped'
<1>1. /\ p \in [Campaigns -> Projections] /\ p[c] \in Projections
      /\ planned \in Artifacts /\ RunTyped
      /\ claim \in [Datasets \X Charts -> Campaigns \cup {NoCampaign}]
      /\ native \in [Datasets -> Contents]
  BY DEF SupersetTyped, StateTyped
<1>2. {} \in SUBSET Covered /\ "OPAQUE" \in Dispositions
  BY NamedDispositions
<1>3. CASE \E x \in Parents, chart \in Charts : PlanNative(w, c, x, chart)
  <2>1. PICK x \in Parents, chart \in Charts : PlanNative(w, c, x, chart)
    BY <1>3
  <2> DEFINE q == [of |-> x, chart |-> chart, before |-> native[dataset[x]]]
             r == [Idle EXCEPT !.at = "extending", !.campaign = c, !.plan = q,
                               !.seen = p[c].disp[x]]
  <2>2. q \in Plans /\ p[c].disp[x] \in Dispositions
    BY <1>1, PlansAssumption, DatasetAssumption DEF SupersetPlans, Projections
  <2>3. /\ planned' = [planned EXCEPT ![c] = q]
        /\ run' = [run EXCEPT ![w] = r]
        /\ UNCHANGED <<p, scope, applied, receipt, observed, claim, superset>>
    BY <2>1 DEF PlanNative
  <2> HIDE DEF q
  <2>4. /\ r \in Runs /\ r.at = "extending" /\ r.campaign = c /\ r.plan = q /\ r.todo = {}
    BY <2>2 DEF Idle, Runs, Points
  <2> HIDE DEF r
  <2>5. "extending" \in Points \ (Closing \cup {"idle"})
    BY DEF Points, Closing
  <2>6. RunTyped'
    BY <1>1, <2>2, <2>3, <2>4, <2>5, StartTyped
  <2>7. planned' \in Artifacts
    BY <1>1, <2>2, <2>3 DEF Artifacts
  <2>8. QED
    BY <2>3, <2>6, <2>7 DEF SupersetTyped, StateTyped, superset
<1>4. CASE StartApply(w, c) \/ StartValidate(w, c) \/ StartCompensate(w, c)
  <2>1. planned[c] \in Plans
    BY <1>1, <1>4
       DEF StartApply, StartValidate, StartCompensate, CurrentIn, CurrentPlan, Artifacts
  <2>2. PICK point \in {"checking", "validating", "restore-checking"},
             todo \in SUBSET CoveredBy(planned[c].of) : Begin(w, c, point, todo)
    BY <1>4 DEF StartApply, StartValidate, StartCompensate, CoveredBy
  <2> DEFINE r == [Idle EXCEPT !.at = point, !.campaign = c, !.plan = planned[c], !.todo = todo]
  <2>3. point \in Points \ (Closing \cup {"idle"})
    BY DEF Points, Closing
  <2>4. /\ r \in Runs /\ r.at = point /\ r.campaign = c /\ r.plan = planned[c] /\ r.todo = todo
    BY <1>2, <2>1, <2>3 DEF Idle, Runs, CoveredBy
  <2>5. RunTyped'
    <3>1. run' = [run EXCEPT ![w] = r]
      BY <2>2 DEF Begin
    <3> HIDE DEF r
    <3>2. QED
      BY <1>1, <2>1, <2>2, <2>3, <2>4, <3>1, StartTyped
  <2>6. /\ UNCHANGED <<scope, artifacts, superset>>
        /\ p' = p \/ Project(c, MigrationStarted(p[c]))
        /\ UNCHANGED claim \/ claim' = [claim EXCEPT ![<<Target(planned[c]), planned[c].chart>>] = c]
    BY <1>4 DEF StartApply, StartValidate, StartCompensate
  <2>7. p' \in [Campaigns -> Projections]
    BY <1>1, <2>6, CampaignEventTyped, Projects
  <2>8. <<Target(planned[c]), planned[c].chart>> \in Datasets \X Charts
    BY <2>1, PlanTyped
  <2>9. claim' \in [Datasets \X Charts -> Campaigns \cup {NoCampaign}]
    BY <1>1, <2>6, <2>8
  <2>10. QED
    BY <2>5, <2>6, <2>7, <2>9 DEF SupersetTyped, StateTyped, artifacts, superset
<1>5. QED
  BY <1>3, <1>4 DEF CommandStarts

\* A step of a command that sends an update, or rereads the dataset.
LEMMA TypeNativeStep ==
  ASSUME SupersetTyped, NEW w \in Processes,
         \/ CheckPlanned(w) \/ Write(w) \/ RereadApplied(w) \/ ValidateNative(w)
         \/ CheckApplied(w) \/ Restore(w) \/ RereadRestored(w)
  PROVE  SupersetTyped'
<1> DEFINE c == run[w].campaign
           q == run[w].plan
<1>1. /\ ~At(w, "idle") /\ run[w].at \notin Closing
      /\ UNCHANGED <<p, scope, planned, observed, claim>>
  BY DEF CheckPlanned, Write, RereadApplied, ValidateNative, CheckApplied, Restore,
         RereadRestored, Send, At, Closing, artifacts
<1>2. /\ c \in Campaigns /\ q \in Plans
      /\ applied \in Artifacts /\ receipt \in Artifacts
      /\ native \in [Datasets -> Contents] /\ late \subseteq Updates /\ RunTyped
  BY <1>1, CommandHas DEF SupersetTyped, StateTyped
<1>3. /\ applied' = applied \/ applied' = [applied EXCEPT ![c] = q]
      /\ receipt' = receipt \/ receipt' = [receipt EXCEPT ![c] = q]
  BY DEF CheckPlanned, Write, RereadApplied, ValidateNative, CheckApplied, Restore,
         RereadRestored, Send, artifacts
<1>4. applied' \in Artifacts /\ receipt' \in Artifacts
  BY <1>2, <1>3 DEF Artifacts
<1>5. native' \in [Datasets -> Contents] /\ late' \subseteq Updates
  <2>1. Target(q) \in Datasets /\ q.before \in Contents /\ After(q) \in Contents
    BY <1>2, PlanTyped
  <2>2. ASSUME NEW from \in Contents, NEW to \in Contents, NEW next, Send(w, from, to, next)
        PROVE  native' \in [Datasets -> Contents] /\ late' \subseteq Updates
    BY <1>2, <2>1, <2>2 DEF Send, Updates
  <2>3. CASE UNCHANGED superset
    BY <1>2, <2>3 DEF superset
  <2>4. QED
    BY <2>1, <2>2, <2>3
       DEF CheckPlanned, Write, RereadApplied, ValidateNative, CheckApplied, Restore, RereadRestored
<1>6. \E point \in Points \ Closing : Goto(w, point)
  BY DEF CheckPlanned, Write, RereadApplied, ValidateNative, CheckApplied, Restore,
         RereadRestored, Send, Points, Closing
<1>7. RunTyped'
  BY <1>1, <1>2, <1>6, GotoTyped
<1>8. QED
  BY <1>1, <1>2, <1>4, <1>5, <1>7 DEF SupersetTyped, StateTyped

\* A step of a command on the consumer its plan is of.
LEMMA TypeParentStep ==
  ASSUME SupersetTyped, NEW w \in Processes,
         \/ ExtendInventory(w) \/ Identify(w) \/ Propose(w) \/ RecordApplied(w)
         \/ AcceptReceipt(w) \/ RecordRestored(w) \/ Abandon(w)
  PROVE  SupersetTyped'
<1> DEFINE c == run[w].campaign
           q == run[w].plan
<1>1. /\ ~At(w, "idle") /\ UNCHANGED <<artifacts, claim, superset>>
  BY DEF ExtendInventory, Identify, Propose, RecordApplied, AcceptReceipt, RecordRestored,
         Abandon, At
<1>2. /\ c \in Campaigns /\ q \in Plans /\ run[w] \in Runs /\ RunTyped
      /\ p \in [Campaigns -> Projections] /\ p[c] \in Projections
      /\ scope \in [Campaigns -> [Datasets -> Sources]]
  BY <1>1, CommandHas DEF SupersetTyped, StateTyped
<1>3. q.of \in Consumers /\ Target(q) \in Datasets
  BY <1>2, PlanTyped
<1>4. /\ \A d \in {"IDENTIFIED", "APPLIED", "STALE"} :
           DispositionChanged(p[c], q.of, d, NoPlan) \in Projections
      /\ DispositionChanged(p[c], q.of, "CHANGE_PROPOSED", q) \in Projections
      /\ Accepted(c, q.of, q) \in Projections
  BY <1>2, <1>3, ConsumerEventTyped, NamedDispositions DEF Accepted
<1>5. p' \in [Campaigns -> Projections]
  <2>1. CASE ExtendInventory(w)
    <3> DEFINE found == [AllOpaque EXCEPT ![q.of] = run[w].seen]
    <3>1. found \in [Consumers -> Dispositions] /\ {q.of} \in SUBSET Consumers
      BY <1>2, <1>3, NamedDispositions DEF Runs
    <3>2. Project(c, InventoryExtended(p[c], {q.of}, found, Complete))
      BY <2>1 DEF ExtendInventory
    <3> HIDE DEF found
    <3>3. InventoryExtended(p[c], {q.of}, found, Complete) \in Projections
      BY <1>2, <3>1, CampaignEventTyped
    <3>4. QED
      BY <1>2, <3>2, <3>3, Projects
  <2>2. CASE Identify(w)
    BY <1>2, <1>4, <2>2, Projects DEF Identify
  <2>3. CASE Propose(w)
    BY <1>2, <1>4, <2>3, Projects DEF Propose, AppendOnce
  <2>4. CASE RecordApplied(w)
    BY <1>2, <1>4, <2>4, Projects DEF RecordApplied
  <2>5. CASE AcceptReceipt(w)
    BY <1>2, <1>4, <2>5, Projects DEF AcceptReceipt
  <2>6. CASE RecordRestored(w)
    BY <1>2, <1>4, <2>6, Projects DEF RecordRestored, MarkStale
  <2>7. CASE Abandon(w)
    BY <1>2, <2>7 DEF Abandon
  <2>8. QED
    BY <2>1, <2>2, <2>3, <2>4, <2>5, <2>6, <2>7
<1>6. scope' \in [Campaigns -> [Datasets -> Sources]]
  <2>1. scope' = scope \/ scope' = [scope EXCEPT ![c][Target(q)] = "mutating"]
    BY DEF ExtendInventory, Identify, Propose, RecordApplied, AcceptReceipt, RecordRestored, Abandon
  <2>2. QED
    BY <1>2, <1>3, <2>1 DEF Sources
<1>7. RunTyped'
  <2>1. CASE ExtendInventory(w)
    <3>1. Goto(w, "identifying") /\ "identifying" \in Points \ Closing
      BY <2>1 DEF ExtendInventory, Points, Closing
    <3>2. QED
      BY <1>1, <1>2, <3>1, GotoTyped
  <2>2. CASE Identify(w)
    <3>1. PICK r \in {[run[w] EXCEPT !.at = "proposing", !.seen = d] : d \in Dispositions} :
             run' = [run EXCEPT ![w] = r]
      <4> DEFINE now == p[c].disp[q.of]
                 d == IF now \in Open THEN "IDENTIFIED" ELSE now
      <4>1. run' = [run EXCEPT ![w].at = "proposing", ![w].seen = d]
        BY <2>2 DEF Identify
      <4>2. d \in Dispositions
        BY <1>2, <1>3, NamedDispositions DEF Projections
      <4> HIDE DEF d
      <4>3. run' = [run EXCEPT ![w] = [run[w] EXCEPT !.at = "proposing", !.seen = d]]
        BY <1>2, <4>1 DEF RunTyped
      <4>4. QED
        BY <4>2, <4>3
    <3>2. "proposing" \in Points \ (Closing \cup {"idle"})
      BY DEF Points, Closing
    <3>3. /\ r \in Runs /\ r.at = "proposing" /\ r.campaign = c /\ r.plan = q
          /\ r.todo = run[w].todo
      BY <1>2, <3>1, <3>2 DEF Runs
    <3>4. run[w].todo \subseteq CoveredBy(q.of)
      BY <1>1, <1>2 DEF RunTyped
    <3>5. QED
      BY <1>2, <3>1, <3>2, <3>3, <3>4, StartTyped
  <2>3. CASE AcceptReceipt(w)
    BY <1>1, <1>2, <2>3, NextCoveredTyped DEF AcceptReceipt
  <2>4. CASE Stop(w)
    BY <1>2, <2>4, StopTyped
  <2>5. QED
    BY <2>1, <2>2, <2>3, <2>4 DEF Propose, RecordApplied, RecordRestored, Abandon
<1>8. QED
  BY <1>1, <1>5, <1>6, <1>7 DEF SupersetTyped, StateTyped, artifacts, superset

\* A step of a command on a covered consumer.
LEMMA TypeCoverStep ==
  ASSUME SupersetTyped, NEW w \in Processes,
         CoverIdentify(w) \/ CoverPlan(w) \/ CoverApply(w) \/ CoverAccept(w)
  PROVE  SupersetTyped'
<1> DEFINE c == run[w].campaign
           q == run[w].plan
           x == Under(w)
<1>1. /\ ~At(w, "idle") /\ run[w].at \in Closing /\ UNCHANGED <<scope, artifacts, claim, superset>>
  BY DEF CoverIdentify, CoverPlan, CoverApply, CoverAccept, At, Closing
<1>2. /\ c \in Campaigns /\ q \in Plans /\ x \in Consumers /\ RunTyped
      /\ p \in [Campaigns -> Projections] /\ p[c] \in Projections
  BY <1>1, CommandHas DEF SupersetTyped, StateTyped
<1>3. /\ \A d \in {"IDENTIFIED", "APPLIED"} : DispositionChanged(p[c], x, d, NoPlan) \in Projections
      /\ DispositionChanged(p[c], x, "CHANGE_PROPOSED", q) \in Projections
      /\ Accepted(c, x, q) \in Projections
  BY <1>2, ConsumerEventTyped, NamedDispositions DEF Accepted
<1>4. p' \in [Campaigns -> Projections]
  <2>1. \/ p' = p
        \/ \E d \in {"IDENTIFIED", "APPLIED"} : Project(c, DispositionChanged(p[c], x, d, NoPlan))
        \/ Project(c, DispositionChanged(p[c], x, "CHANGE_PROPOSED", q))
        \/ Project(c, Accepted(c, x, q))
    BY DEF CoverIdentify, CoverPlan, CoverApply, CoverAccept, AppendOnce
  <2>2. QED
    BY <1>2, <1>3, <2>1, Projects
<1>5. RunTyped'
  <2>1. CASE CoverAccept(w)
    BY <1>1, <1>2, <2>1, NextCoveredTyped DEF CoverAccept
  <2>2. CASE \E point \in Closing : Goto(w, point)
    <3>1. Closing \subseteq Points
      BY DEF Closing, Points
    <3>2. QED
      BY <1>1, <1>2, <2>2, <3>1, GotoTyped
  <2>3. QED
    BY <2>1, <2>2 DEF CoverIdentify, CoverPlan, CoverApply, Closing
<1>6. QED
  BY <1>1, <1>4, <1>5 DEF SupersetTyped, StateTyped, artifacts, superset

\* Every step keeps the types.
LEMMA TypeStep == SupersetTyped /\ [Next]_vars => SupersetTyped'
<1> SUFFICES ASSUME SupersetTyped, [Next]_vars PROVE SupersetTyped'
  OBVIOUS
<1>1. CASE \E c \in Campaigns : CampaignStep(c)
  BY <1>1, TypeCampaignStep
<1>2. CASE \E w \in Processes, c \in Campaigns : CommandStarts(w, c)
  BY <1>2, TypeCommandStarts
<1>3. CASE \E w \in Processes : CommandStep(w)
  BY <1>3, TypeNativeStep, TypeParentStep, TypeCoverStep DEF CommandStep
<1>4. CASE \E d \in Datasets : OwnerEdits(d)
  <2>1. native' \in [Datasets -> Contents]
    BY <1>4 DEF SupersetTyped, StateTyped, OwnerEdits
  <2>2. UNCHANGED <<p, scope, artifacts, claim, late, run>>
    BY <1>4 DEF OwnerEdits
  <2>3. QED
    BY <2>1, <2>2 DEF SupersetTyped, StateTyped, RunTyped, At, artifacts
<1>5. CASE \E u \in late : Land(u)
  <2>1. native' \in [Datasets -> Contents] /\ late' \subseteq Updates
    BY <1>5 DEF SupersetTyped, StateTyped, Land, Updates
  <2>2. UNCHANGED <<p, scope, artifacts, claim, run>>
    BY <1>5 DEF Land
  <2>3. QED
    BY <2>1, <2>2 DEF SupersetTyped, StateTyped, RunTyped, At, artifacts
<1>6. CASE UNCHANGED vars
  BY <1>6 DEF vars, SupersetTyped, StateTyped, RunTyped, At, artifacts, superset
<1>7. QED
  BY <1>1, <1>2, <1>3, <1>4, <1>5, <1>6 DEF Next

LEMMA TypeInvariance == Spec => []SupersetTyped
  BY TypeInit, TypeStep, PTL DEF Spec

\* Every variable has its type, and each command the plan, campaign and covered
\* consumers it works on.
THEOREM SupersetTypeCorrect == Spec => []TypeOK
<1>1. SupersetTyped => TypeOK
  <2> SUFFICES ASSUME SupersetTyped PROVE TypeOK
    OBVIOUS
  <2>1. \A c \in Campaigns :
           {planned[c], applied[c], receipt[c], observed[c]} \subseteq Plans \cup {NoPlan}
    BY DEF SupersetTyped, StateTyped, Artifacts
  <2>2. \A w \in Processes : run[w].at \in Points /\ run[w].todo \subseteq Covered
    BY DEF SupersetTyped, RunTyped, Runs
  <2>3. QED
    BY <2>1, <2>2 DEF SupersetTyped, StateTyped, TypeOK
<1>2. QED
  BY <1>1, TypeInvariance, PTL


-----------------------------------------------------------------------------
(***************************************************************************)
(* What the two invariants rest on.                                        *)
(*                                                                         *)
(* In one baseline the plan of a dataset's consumer is bound once: from    *)
(* then on it is at no disposition an inventory reports, which is what     *)
(* `plan` needs of it, and its source is in the envelope; a receipt is for *)
(* that plan.  What it covers is closed on the receipt it has.             *)
(***************************************************************************)
Baseline(c) ==
  /\ p[c].known = Consumers
  /\ \A x \in Parents :
       /\ p[c].plan[x] # NoPlan =>
            p[c].disp[x] \notin InventoryDispositions /\ scope[c][dataset[x]] # "absent"
       /\ p[c].receipt[x].plan \in {NoPlan, p[c].plan[x]}
       /\ p[c].disp[x] = "VALIDATED" => p[c].receipt[x].plan # NoPlan
  /\ \A y \in Covered :
       p[c].disp[y] = "VALIDATED" =>
         p[c].receipt[y].plan = p[c].receipt[parent[y]].plan /\ p[c].receipt[y].plan # NoPlan

(***************************************************************************)
(* What a command knows of its campaign at each point: `plan` read the     *)
(* disposition that the consumer still has; the closing of covered         *)
(* consumers follows a receipt for the plan of the command.                *)
(***************************************************************************)
Knows(w) ==
  LET c == run[w].campaign  x == run[w].plan.of IN
  /\ At(w, "extending") /\ run[w].seen \in InventoryDispositions => run[w].seen = p[c].disp[x]
  /\ At(w, "identifying") => /\ run[w].seen = p[c].disp[x]
                             /\ run[w].seen \in InventoryDispositions
  /\ At(w, "proposing") => p[c].disp[x] = "IDENTIFIED"
  /\ run[w].at \in {"identifying", "proposing"} => scope[c][dataset[x]] # "absent"
  /\ run[w].at \in Closing => p[c].receipt[x].plan = run[w].plan

SupersetInv ==
  /\ SupersetTyped
  /\ \A c \in Campaigns : Baseline(c)
  /\ \A w \in Processes : Knows(w)

(***************************************************************************)
(* What the code leaves to its operator: commands of one campaign run one  *)
(* after the other, and no new baseline is taken while one is under way.   *)
(* Everything else may come between the steps of a command.                *)
(***************************************************************************)
OneCommandPerCampaign ==
  \A v, w \in Processes :
     ~At(v, "idle") /\ ~At(w, "idle") /\ run[v].campaign = run[w].campaign => v = w

BaselineWaits ==
  Concurrent => \A c \in Campaigns, w \in Processes :
                   Inventory(c) /\ ~At(w, "idle") => run[w].campaign # c

-----------------------------------------------------------------------------
(* Steps that leave the consumers of a campaign as they are.               *)

\* Two projections say the same of every consumer.
SameConsumers(pp, qq) ==
  qq.known = pp.known /\ qq.disp = pp.disp /\ qq.plan = pp.plan /\ qq.receipt = pp.receipt

\* No source leaves the envelope of a campaign.
SourcesStay(c) == \A d \in Datasets : scope[c][d] # "absent" => scope'[c][d] # "absent"

\* The events that concern no consumer, and those that name known ones only.
LEMMA EventsKeepConsumers ==
  ASSUME NEW pp \in Projections
  PROVE  /\ SameConsumers(pp, MigrationStarted(pp)) /\ SameConsumers(pp, PolicyEvaluated(pp))
         /\ \A q \in Plans : SameConsumers(pp, ApprovalRecorded(pp, q, Never))
         /\ \A found \in SUBSET pp.known, d \in [Consumers -> Dispositions] :
              /\ SameConsumers(pp, InventoryExtended(pp, found, d, Complete))
              /\ SameConsumers(pp, ReconciliationRecorded(pp, found, d, Complete))
              /\ SameConsumers(pp, PolicyEvaluated(ReconciliationRecorded(pp, found, d, Complete)))
<1>1. SameConsumers(pp, MigrationStarted(pp))
  BY DEF SameConsumers, MigrationStarted, Projections
<1>2. \A qq \in Projections : SameConsumers(qq, PolicyEvaluated(qq))
  BY DEF SameConsumers, PolicyEvaluated, Projections
<1>3. \A q \in Plans : SameConsumers(pp, ApprovalRecorded(pp, q, Never))
  BY DEF SameConsumers, ApprovalRecorded, Projections
<1>4. ASSUME NEW found \in SUBSET pp.known, NEW d \in [Consumers -> Dispositions]
      PROVE  /\ SameConsumers(pp, InventoryExtended(pp, found, d, Complete))
             /\ SameConsumers(pp, ReconciliationRecorded(pp, found, d, Complete))
             /\ SameConsumers(pp, PolicyEvaluated(ReconciliationRecorded(pp, found, d, Complete)))
  <2>1. found \ pp.known = {} /\ found \in SUBSET Consumers
    BY DEF Projections
  <2>2. SameConsumers(pp, Entered(pp, {}, d)) /\ Entered(pp, {}, d) \in Projections
    <3>1. /\ pp.disp = [y \in Consumers |-> IF y \in {} THEN d[y] ELSE pp.disp[y]]
          /\ pp.plan = [y \in Consumers |-> IF y \in {} THEN NoPlan ELSE pp.plan[y]]
          /\ pp.receipt = [y \in Consumers |-> IF y \in {} THEN NoReceipt ELSE pp.receipt[y]]
          /\ pp.known = pp.known \cup {}
      BY DEF Projections
    <3>2. SameConsumers(pp, Entered(pp, {}, d))
      BY <3>1 DEF SameConsumers, Entered, Projections
    <3>3. Entered(pp, {}, d) \in Projections
      BY ReceiptTyped DEF Entered, Projections
    <3>4. QED
      BY <3>2, <3>3
  <2>3. SameConsumers(pp, InventoryExtended(pp, found, d, Complete))
    BY <2>1, <2>2 DEF SameConsumers, InventoryExtended, Projections
  <2>4. SameConsumers(pp, ReconciliationRecorded(pp, found, d, Complete))
    BY <2>1, <2>2 DEF SameConsumers, ReconciliationRecorded, Projections
  <2>5. ReconciliationRecorded(pp, found, d, Complete) \in Projections
    BY <2>1, CampaignEventTyped
  <2>6. SameConsumers(pp, PolicyEvaluated(ReconciliationRecorded(pp, found, d, Complete)))
    BY <1>2, <2>4, <2>5 DEF SameConsumers
  <2>7. QED
    BY <2>3, <2>4, <2>6
<1>5. QED
  BY <1>1, <1>2, <1>3, <1>4

\* A campaign whose consumers and sources stay keeps its baseline.
LEMMA BaselineStays ==
  ASSUME NEW c \in Campaigns, Baseline(c), SameConsumers(p[c], p'[c]), SourcesStay(c)
  PROVE  Baseline(c)'
<1>1. \A x \in Parents : dataset[x] \in Datasets
  BY DatasetAssumption
<1>2. QED
  BY <1>1 DEF Baseline, SameConsumers, SourcesStay

\* A command that takes no step knows what it knew, if of its campaign no more than
\* a closed consumer became stale.
LEMMA KnowledgeStays ==
  ASSUME SupersetTyped, NEW w \in Processes, Knows(w), run'[w] = run[w],
         NEW c \in Campaigns, c = run[w].campaign,
         SourcesStay(c),
         \A x \in Parents : /\ p'[c].receipt[x].plan = p[c].receipt[x].plan
                            /\ \/ p'[c].disp[x] = p[c].disp[x]
                               \/ p[c].disp[x] = "VALIDATED"
  PROVE  Knows(w)'
<1>1. CASE At(w, "idle")
  BY <1>1 DEF Knows, At, Closing
<1>2. CASE ~At(w, "idle")
  <2>1. run[w].plan.of \in Parents /\ dataset[run[w].plan.of] \in Datasets
    BY <1>2, CommandHas, PlanTyped DEF Target
  <2>2. "VALIDATED" \notin InventoryDispositions
    BY DEF InventoryDispositions
  <2> DEFINE x == run[w].plan.of
  <2>3. /\ p'[c].receipt[x].plan = p[c].receipt[x].plan
        /\ p'[c].disp[x] = p[c].disp[x] \/ p[c].disp[x] = "VALIDATED"
        /\ scope[c][dataset[x]] # "absent" => scope'[c][dataset[x]] # "absent"
    BY <2>1 DEF SourcesStay
  <2>4. run'[w] = run[w] /\ run[w].campaign = c
    OBVIOUS
  <2> HIDE DEF x
  <2>5. /\ At(w, "extending") /\ run[w].seen \in InventoryDispositions =>
              run[w].seen = p'[c].disp[x]
        /\ At(w, "identifying") =>
              run[w].seen = p'[c].disp[x] /\ run[w].seen \in InventoryDispositions
        /\ At(w, "proposing") => p'[c].disp[x] = "IDENTIFIED"
    BY <2>2, <2>3 DEF Knows, x
  <2>6. /\ run[w].at \in {"identifying", "proposing"} => scope'[c][dataset[x]] # "absent"
        /\ run[w].at \in Closing => p'[c].receipt[x].plan = run[w].plan
    BY <2>3 DEF Knows, x
  <2>7. QED
    BY <2>4, <2>5, <2>6 DEF Knows, At, x
<1>3. QED
  BY <1>1, <1>2

\* A command that has ended knows nothing; one that closes what its consumer covers
\* knows of the receipt.
LEMMA NothingKnown ==
  ASSUME NEW w \in Processes, run'[w] = Idle
  PROVE  Knows(w)'
<1>1. run'[w].at = "idle"
  BY DEF Idle
<1>2. QED
  BY <1>1 DEF Knows, At, Closing

LEMMA ClosingKnows ==
  ASSUME NEW w \in Processes, NEW c, NEW q, run'[w].at \in Closing,
         run'[w].campaign = c, run'[w].plan = q, p'[c].receipt[q.of].plan = q
  PROVE  Knows(w)'
<1>1. run'[w].at \notin {"extending", "identifying", "proposing"}
  BY DEF Closing
<1>2. QED
  BY <1>1 DEF Knows, At

\* A step of one command, or of the campaign where no command works on it, leaves
\* the others what they know.
LEMMA OthersKnow ==
  ASSUME SupersetTyped, OneCommandPerCampaign, NEW w \in Processes, ~At(w, "idle"),
         \A v \in Processes : Knows(v),
         \A v \in Processes : v # w => run'[v] = run[v],
         \A d \in Campaigns : d # run[w].campaign => p'[d] = p[d] /\ scope'[d] = scope[d],
         Knows(w)'
  PROVE  \A v \in Processes : Knows(v)'
<1> SUFFICES ASSUME NEW v \in Processes, v # w PROVE Knows(v)'
  OBVIOUS
<1>1. CASE At(v, "idle")
  BY <1>1 DEF Knows, At, Closing
<1>2. CASE ~At(v, "idle")
  <2>1. run[v].campaign \in Campaigns /\ run[v].campaign # run[w].campaign
    BY <1>2, CommandHas DEF OneCommandPerCampaign
  <2>2. QED
    BY <2>1, KnowledgeStays DEF SourcesStay
<1>3. QED
  BY <1>1, <1>2


-----------------------------------------------------------------------------
(* Steps that change a consumer.                                           *)

\* A disposition other than a closure keeps the baseline, if it is none of an
\* inventory once there is a plan, and a plan is bound once, to a known source.
LEMMA DispositionKeepsBaseline ==
  ASSUME SupersetTyped, NEW c \in Campaigns, Baseline(c), UNCHANGED scope,
         NEW x \in Consumers, NEW d \in Dispositions \ {"VALIDATED"},
         NEW q \in Plans \cup {NoPlan}, Project(c, DispositionChanged(p[c], x, d, q)),
         x \in Parents =>
           /\ d \in InventoryDispositions \cup {"CHANGE_PROPOSED"} => p[c].plan[x] = NoPlan
           /\ d = "CHANGE_PROPOSED" => scope[c][dataset[x]] # "absent"
  PROVE  /\ Baseline(c)'
         /\ p'[c].disp[x] = d /\ p'[c].receipt = p[c].receipt
         /\ \A y \in Consumers : y # x => p'[c].disp[y] = p[c].disp[y]
<1>1. p \in [Campaigns -> Projections] /\ p[c] \in Projections
  BY DEF SupersetTyped, StateTyped
<1>2. p'[c] = DispositionChanged(p[c], x, d, q)
  BY <1>1 DEF Project
<1>3. /\ p'[c].known = p[c].known /\ p'[c].receipt = p[c].receipt
      /\ p'[c].disp[x] = d
      /\ p'[c].plan[x] = IF d = "CHANGE_PROPOSED" THEN q ELSE p[c].plan[x]
      /\ \A y \in Consumers : y # x => /\ p'[c].disp[y] = p[c].disp[y]
                                       /\ p'[c].plan[y] = p[c].plan[y]
  BY <1>1, <1>2 DEF DispositionChanged, Projections
<1>4. Parents \subseteq Consumers /\ Covered \subseteq Consumers
  BY DatasetAssumption DEF Covered
<1>5. "CHANGE_PROPOSED" \notin InventoryDispositions
  BY DEF InventoryDispositions
<1>6. Baseline(c)'
  <2>1. p'[c].known = Consumers
    BY <1>3 DEF Baseline
  <2>2. ASSUME NEW y \in Parents
        PROVE  /\ p'[c].plan[y] # NoPlan =>
                    p'[c].disp[y] \notin InventoryDispositions /\ scope'[c][dataset[y]] # "absent"
               /\ p'[c].receipt[y].plan \in {NoPlan, p'[c].plan[y]}
               /\ p'[c].disp[y] = "VALIDATED" => p'[c].receipt[y].plan # NoPlan
    <3>1. CASE y = x
      BY <1>3, <1>4, <1>5, <3>1 DEF Baseline
    <3>2. CASE y # x
      BY <1>3, <1>4, <3>2 DEF Baseline
    <3>3. QED
      BY <3>1, <3>2
  <2>3. ASSUME NEW y \in Covered, p'[c].disp[y] = "VALIDATED"
        PROVE  /\ p'[c].receipt[y].plan = p'[c].receipt[parent[y]].plan
               /\ p'[c].receipt[y].plan # NoPlan
    BY <1>3, <1>4, <2>3 DEF Baseline
  <2>4. QED
    BY <2>1, <2>2, <2>3 DEF Baseline
<1>7. QED
  BY <1>3, <1>6

\* So does a receipt for the plan bound to the consumer, which is for a covered one
\* the plan of its parent's receipt.
LEMMA ReceiptKeepsBaseline ==
  ASSUME SupersetTyped, NEW c \in Campaigns, Baseline(c), UNCHANGED scope,
         NEW x \in Consumers, NEW q \in Plans, p[c].plan[x] = q,
         Project(c, Accepted(c, x, q)),
         x \in Covered => p[c].receipt[parent[x]].plan = q
  PROVE  /\ Baseline(c)'
         /\ p'[c].receipt[x].plan = q
         /\ \A y \in Consumers : y # x => p'[c].receipt[y] = p[c].receipt[y]
<1>1. p \in [Campaigns -> Projections] /\ p[c] \in Projections
  BY DEF SupersetTyped, StateTyped
<1>2. p'[c] = ReceiptAccepted(p[c], x, [plan |-> q, expires |-> Never])
  BY <1>1 DEF Project, Accepted
<1>3. /\ p'[c].known = p[c].known /\ p'[c].plan = p[c].plan
      /\ p'[c].receipt[x].plan = q /\ p'[c].disp[x] = "VALIDATED"
      /\ \A y \in Consumers : y # x => /\ p'[c].disp[y] = p[c].disp[y]
                                       /\ p'[c].receipt[y] = p[c].receipt[y]
  BY <1>1, <1>2 DEF ReceiptAccepted, Projections
<1>4. /\ Parents \subseteq Consumers /\ Covered \subseteq Consumers
      /\ Covered \cap Parents = {} /\ \A y \in Covered : parent[y] \in Parents
  BY DatasetAssumption, ParentAssumption DEF Covered
<1>5. "VALIDATED" \notin InventoryDispositions /\ q # NoPlan
  BY NoPlanAssumption DEF InventoryDispositions
<1>6. Baseline(c)'
  <2>1. p'[c].known = Consumers
    BY <1>3 DEF Baseline
  <2>2. ASSUME NEW y \in Parents
        PROVE  /\ p'[c].plan[y] # NoPlan =>
                    p'[c].disp[y] \notin InventoryDispositions /\ scope'[c][dataset[y]] # "absent"
               /\ p'[c].receipt[y].plan \in {NoPlan, p'[c].plan[y]}
               /\ p'[c].disp[y] = "VALIDATED" => p'[c].receipt[y].plan # NoPlan
    <3>1. CASE y = x
      BY <1>3, <1>5, <3>1 DEF Baseline
    <3>2. CASE y # x
      BY <1>3, <1>4, <3>2 DEF Baseline
    <3>3. QED
      BY <3>1, <3>2
  <2>3. ASSUME NEW y \in Covered, p'[c].disp[y] = "VALIDATED"
        PROVE  /\ p'[c].receipt[y].plan = p'[c].receipt[parent[y]].plan
               /\ p'[c].receipt[y].plan # NoPlan
    <3>1. CASE y = x
      <4>1. parent[y] # x /\ parent[y] \in Consumers
        BY <1>4, <3>1
      <4>2. QED
        BY <1>3, <1>5, <3>1, <4>1
    <3>2. CASE y # x
      <4>1. /\ p[c].receipt[y].plan = p[c].receipt[parent[y]].plan
            /\ p[c].receipt[y].plan # NoPlan
        BY <1>3, <1>4, <2>3, <3>2 DEF Baseline
      <4>2. p[c].receipt[parent[y]].plan = p[c].plan[parent[y]]
        BY <1>4, <4>1 DEF Baseline
      <4>3. p'[c].receipt[parent[y]].plan = p[c].receipt[parent[y]].plan
        <5>1. CASE parent[y] = x
          BY <1>3, <4>2, <5>1
        <5>2. CASE parent[y] # x
          BY <1>3, <1>4, <5>2
        <5>3. QED
          BY <5>1, <5>2
      <4>4. QED
        BY <1>3, <1>4, <3>2, <4>1, <4>3
    <3>3. QED
      BY <3>1, <3>2
  <2>4. QED
    BY <2>1, <2>2, <2>3 DEF Baseline
<1>7. QED
  BY <1>3, <1>6

\* The baselines hold when the one of the campaign at work does.
LEMMA OtherBaselinesStay ==
  ASSUME NEW c \in Campaigns, \A d \in Campaigns : Baseline(d), Baseline(c)',
         \A d \in Campaigns : d # c => p'[d] = p[d] /\ scope'[d] = scope[d]
  PROVE  \A d \in Campaigns : Baseline(d)'
  BY DEF Baseline

-----------------------------------------------------------------------------
(* The invariant is inductive.                                             *)

\* After the first inventory nothing is planned and nothing closed.
LEMMA InventoriedIsBaseline ==
  ASSUME NEW c \in Campaigns, NEW pp \in Projections,
         p[c] = InventoryRecorded(pp, Consumers, AllOpaque, Complete)
  PROVE  Baseline(c)
<1>1. /\ p[c].known = Consumers
      /\ \A x \in Consumers : /\ p[c].disp[x] = "OPAQUE" /\ p[c].plan[x] = NoPlan
                              /\ p[c].receipt[x].plan = NoPlan
  BY DEF InventoryRecorded, AllOpaque, NoReceipt, Projections
<1>2. Parents \subseteq Consumers /\ Covered \subseteq Consumers
  BY DatasetAssumption DEF Covered
<1>3. QED
  BY <1>1, <1>2 DEF Baseline

LEMMA SupersetInit == Init => SupersetInv
<1> SUFFICES ASSUME Init PROVE SupersetInv
  OBVIOUS
<1>1. SupersetTyped
  BY TypeInit
<1>2. Created \in Projections
  BY CreatedTyped
<1>3. \A c \in Campaigns : p[c] = InventoryRecorded(Created, Consumers, AllOpaque, Complete)
  BY DEF Init
<1>4. \A c \in Campaigns : Baseline(c)
  BY <1>2, <1>3, InventoriedIsBaseline
<1>5. \A w \in Processes : Knows(w)
  BY DEF Init, Idle, Knows, At, Closing
<1>6. QED
  BY <1>1, <1>4, <1>5 DEF SupersetInv

\* The campaign's other commands change a disposition at most to stale, and start a
\* new baseline only when no command works on the old.
LEMMA CampaignStepKeeps ==
  ASSUME SupersetInv, BaselineWaits, NEW c \in Campaigns, CampaignStep(c)
  PROVE  SupersetInv'
<1>1. SupersetTyped' /\ SupersetTyped /\ p[c] \in Projections /\ p \in [Campaigns -> Projections]
  BY TypeCampaignStep DEF SupersetInv, SupersetTyped, StateTyped
<1>2. /\ run' = run
      /\ \A d \in Campaigns : d # c => p'[d] = p[d] /\ scope'[d] = scope[d]
  <2>1. p \in [Campaigns -> Projections] /\ scope \in [Campaigns -> [Datasets -> Sources]]
    BY <1>1 DEF SupersetTyped, StateTyped
  <2>2. QED
    BY <2>1 DEF CampaignStep, Authorize, ReconcileSource, MarkStale, RecordGateSource,
                Reconcile, Inventory, Evaluate, Project
<1>3. CASE Inventory(c)
  <2>1. InventoryRecorded(p[c], Consumers, AllOpaque, Complete) \in Projections
    BY <1>1, CampaignEventTyped, NamedDispositions
  <2>2. p'[c] = InventoryRecorded(p[c], Consumers, AllOpaque, Complete)
    BY <1>1, <1>3, <2>1, Projects DEF Inventory
  <2>3. Baseline(c)'
    <3>1. /\ p'[c].known = Consumers
          /\ \A x \in Consumers : /\ p'[c].disp[x] = "OPAQUE" /\ p'[c].plan[x] = NoPlan
                                  /\ p'[c].receipt[x].plan = NoPlan
      BY <1>1, <2>2 DEF InventoryRecorded, AllOpaque, NoReceipt, Projections
    <3>2. Parents \subseteq Consumers /\ Covered \subseteq Consumers
      BY DatasetAssumption DEF Covered
    <3>3. QED
      BY <3>1, <3>2 DEF Baseline
  <2>4. \A w \in Processes : At(w, "idle") \/ run[w].campaign # c
    BY <1>3 DEF BaselineWaits, CampaignStep
  <2>5. ASSUME NEW w \in Processes PROVE Knows(w)'
    <3>1. CASE At(w, "idle")
      BY <1>2, <3>1 DEF Knows, At, Closing
    <3>2. CASE ~At(w, "idle")
      <4>1. run[w].campaign \in Campaigns /\ run[w].campaign # c
        BY <1>1, <2>4, <3>2, CommandHas
      <4>2. QED
        BY <1>1, <1>2, <4>1, KnowledgeStays DEF SupersetInv, SourcesStay
    <3>3. QED
      BY <3>1, <3>2
  <2>6. QED
    BY <1>1, <1>2, <2>3, <2>5, OtherBaselinesStay DEF SupersetInv
<1>4. CASE ~Inventory(c)
  <2>1. SourcesStay(c)
    <3>1. CASE RecordGateSource(c)
      BY <1>1, <3>1 DEF RecordGateSource, SourcesStay, SupersetTyped, StateTyped
    <3>2. CASE UNCHANGED scope
      BY <3>2 DEF SourcesStay
    <3>3. QED
      BY <1>4, <3>1, <3>2 DEF CampaignStep, Authorize, ReconcileSource, Reconcile, Evaluate
  <2>2. /\ Baseline(c)'
        /\ \A x \in Parents : /\ p'[c].receipt[x].plan = p[c].receipt[x].plan
                              /\ p'[c].disp[x] = p[c].disp[x] \/ p[c].disp[x] = "VALIDATED"
    <3>1. CASE SameConsumers(p[c], p'[c])
      BY <2>1, <3>1, BaselineStays DEF SupersetInv, SameConsumers
    <3>2. CASE ReconcileSource(c) /\ p' # p
      <4> DEFINE x == planned[c].of
      <4>1. planned[c] \in Plans
        BY <1>1, <3>2 DEF ReconcileSource, SupersetTyped, StateTyped, Artifacts
      <4>2. x \in Parents /\ x \in Consumers
        BY <4>1, PlanTyped
      <4>3. /\ p[c].disp[x] = "VALIDATED" /\ UNCHANGED scope
            /\ Project(c, DispositionChanged(p[c], x, "STALE", NoPlan))
        BY <3>2 DEF ReconcileSource, MarkStale
      <4> HIDE DEF x
      <4>4. /\ "STALE" \in Dispositions \ {"VALIDATED"}
            /\ "STALE" \notin InventoryDispositions \cup {"CHANGE_PROPOSED"}
        BY NamedDispositions DEF InventoryDispositions
      <4>5. /\ Baseline(c)' /\ p'[c].receipt = p[c].receipt
            /\ \A y \in Consumers : y # x => p'[c].disp[y] = p[c].disp[y]
        BY <1>1, <4>2, <4>3, <4>4, DispositionKeepsBaseline DEF SupersetInv
      <4>6. QED
        BY <4>3, <4>5, DatasetAssumption
    <3>3. SameConsumers(p[c], p'[c]) \/ (ReconcileSource(c) /\ p' # p)
      <4>1. CASE p' = p
        BY <4>1 DEF SameConsumers
      <4>2. CASE Authorize(c)
        <5>1. planned[c] \in Plans
          BY <1>1, <4>2 DEF Authorize, CurrentPlan, SupersetTyped, StateTyped, Artifacts
        <5>2. p'[c] = ApprovalRecorded(p[c], planned[c], Never)
          BY <1>1, <4>2 DEF Authorize, Project
        <5>3. QED
          BY <1>1, <5>1, <5>2, EventsKeepConsumers
      <4>3. CASE RecordGateSource(c)
        <5>1. p'[c] = InventoryExtended(p[c], {}, AllOpaque, Complete)
          BY <1>1, <4>3 DEF RecordGateSource, Project
        <5>2. {} \in SUBSET p[c].known
          OBVIOUS
        <5>3. QED
          BY <1>1, <5>1, <5>2, EventsKeepConsumers, NamedDispositions
      <4>4. CASE Reconcile(c)
        <5>1. p'[c] = PolicyEvaluated(ReconciliationRecorded(p[c], p[c].known, AllOpaque, Complete))
          BY <1>1, <4>4 DEF Reconcile, Project
        <5>2. p[c].known \in SUBSET p[c].known
          OBVIOUS
        <5>3. QED
          BY <1>1, <5>1, <5>2, EventsKeepConsumers, NamedDispositions
      <4>5. CASE Evaluate(c)
        <5>1. p'[c] = PolicyEvaluated(p[c])
          BY <1>1, <4>5 DEF Evaluate, Project
        <5>2. QED
          BY <1>1, <5>1, EventsKeepConsumers
      <4>6. QED
        BY <1>4, <4>1, <4>2, <4>3, <4>4, <4>5 DEF CampaignStep
    <3>4. QED
      BY <3>1, <3>2, <3>3
  <2>3. ASSUME NEW w \in Processes PROVE Knows(w)'
    <3>1. CASE At(w, "idle")
      BY <1>2, <3>1 DEF Knows, At, Closing
    <3>2. CASE ~At(w, "idle")
      <4>1. run[w].campaign \in Campaigns
        BY <1>1, <3>2, CommandHas
      <4>2. CASE run[w].campaign = c
        BY <1>1, <1>2, <2>1, <2>2, <4>2, KnowledgeStays DEF SupersetInv
      <4>3. CASE run[w].campaign # c
        BY <1>1, <1>2, <4>1, <4>3, KnowledgeStays DEF SupersetInv, SourcesStay
      <4>4. QED
        BY <4>2, <4>3
    <3>3. QED
      BY <3>1, <3>2
  <2>4. QED
    BY <1>1, <1>2, <2>2, <2>3, OtherBaselinesStay DEF SupersetInv
<1>5. QED
  BY <1>3, <1>4


\* A command starts with what it read, and takes nothing from the others.
LEMMA CommandStartsKeep ==
  ASSUME SupersetInv, NEW w \in Processes, NEW c \in Campaigns, CommandStarts(w, c)
  PROVE  SupersetInv'
<1>1. SupersetTyped' /\ SupersetTyped /\ p[c] \in Projections /\ p \in [Campaigns -> Projections]
  BY TypeCommandStarts DEF SupersetInv, SupersetTyped, StateTyped
<1>2. run \in [Processes -> Runs]
  BY <1>1 DEF SupersetTyped, RunTyped
<1>3. /\ UNCHANGED scope /\ (p' = p \/ Project(c, MigrationStarted(p[c])))
      /\ \E r : run' = [run EXCEPT ![w] = r]
  BY DEF CommandStarts, PlanNative, StartApply, StartValidate, StartCompensate, Begin
<1>4. \A v \in Processes : v # w => run'[v] = run[v]
  BY <1>2, <1>3
<1>5. \A d \in Campaigns : SameConsumers(p[d], p'[d]) /\ SourcesStay(d)
  BY <1>1, <1>3, EventsKeepConsumers DEF Project, SameConsumers, SourcesStay
<1>6. \A d \in Campaigns : Baseline(d)'
  BY <1>5, BaselineStays DEF SupersetInv
<1>7. Knows(w)'
  <2>1. CASE \E x \in Parents, chart \in Charts : PlanNative(w, c, x, chart)
    <3>1. PICK x \in Parents, chart \in Charts : PlanNative(w, c, x, chart)
      BY <2>1
    <3>2. /\ run'[w].at = "extending" /\ run'[w].campaign = c /\ run'[w].plan.of = x
          /\ run'[w].seen = p[c].disp[x] /\ p' = p
      BY <1>2, <3>1 DEF PlanNative, Idle
    <3>3. QED
      BY <3>2 DEF Knows, At, Closing
  <2>2. CASE StartApply(w, c) \/ StartValidate(w, c) \/ StartCompensate(w, c)
    <3>1. run'[w].at \in {"checking", "validating", "restore-checking"}
      BY <1>2, <2>2 DEF StartApply, StartValidate, StartCompensate, Begin, Idle
    <3>2. QED
      BY <3>1 DEF Knows, At, Closing
  <2>3. QED
    BY <2>1, <2>2 DEF CommandStarts
<1>8. ASSUME NEW v \in Processes, v # w PROVE Knows(v)'
  <2>1. CASE At(v, "idle")
    BY <1>4, <1>8, <2>1 DEF Knows, At, Closing
  <2>2. CASE ~At(v, "idle")
    <3>1. run[v].campaign \in Campaigns
      BY <1>1, <2>2, CommandHas
    <3>2. QED
      BY <1>1, <1>4, <1>5, <1>8, <3>1, KnowledgeStays DEF SupersetInv, SameConsumers
  <2>3. QED
    BY <2>1, <2>2
<1>9. QED
  BY <1>1, <1>6, <1>7, <1>8 DEF SupersetInv

\* Steps between the command and Superset concern no projection.
LEMMA NativeStepKeeps ==
  ASSUME SupersetInv, OneCommandPerCampaign, NEW w \in Processes,
         \/ CheckPlanned(w) \/ Write(w) \/ RereadApplied(w) \/ ValidateNative(w)
         \/ CheckApplied(w) \/ Restore(w) \/ RereadRestored(w)
  PROVE  SupersetInv'
<1>1. SupersetTyped' /\ SupersetTyped /\ run \in [Processes -> Runs]
  BY TypeNativeStep DEF SupersetInv, SupersetTyped, RunTyped
<1>2. UNCHANGED <<p, scope>> /\ ~At(w, "idle")
  BY DEF CheckPlanned, Write, RereadApplied, ValidateNative, CheckApplied, Restore,
         RereadRestored, Send, At
<1>3. \E point \in {"writing", "rereading", "recording", "accepting",
                    "restoring", "restore-rereading", "restored"} : Goto(w, point)
  BY DEF CheckPlanned, Write, RereadApplied, ValidateNative, CheckApplied, Restore,
         RereadRestored, Send
<1>4. /\ Knows(w)' /\ \A v \in Processes : v # w => run'[v] = run[v]
  BY <1>1, <1>3 DEF Goto, Knows, At, Closing, Runs
<1>5. \A v \in Processes : Knows(v)'
  BY <1>1, <1>2, <1>4, OthersKnow DEF SupersetInv
<1>6. QED
  BY <1>1, <1>2, <1>5 DEF SupersetInv, Baseline

\* A command's step on the consumer of its plan.
LEMMA ParentStepKeeps ==
  ASSUME SupersetInv, OneCommandPerCampaign, NEW w \in Processes,
         \/ ExtendInventory(w) \/ Identify(w) \/ Propose(w) \/ RecordApplied(w)
         \/ AcceptReceipt(w) \/ RecordRestored(w) \/ Abandon(w)
  PROVE  SupersetInv'
<1> PICK c, q, x : c = run[w].campaign /\ q = run[w].plan /\ x = q.of
  OBVIOUS
<1>1. /\ ~At(w, "idle")
      /\ SupersetTyped' /\ SupersetTyped /\ RunTyped /\ run \in [Processes -> Runs]
  BY TypeParentStep
     DEF SupersetInv, SupersetTyped, RunTyped, ExtendInventory, Identify, Propose, RecordApplied,
         AcceptReceipt, RecordRestored, Abandon, At
<1>2. /\ c \in Campaigns /\ q \in Plans /\ run[w] \in Runs
      /\ p \in [Campaigns -> Projections] /\ p[c] \in Projections
      /\ scope \in [Campaigns -> [Datasets -> Sources]]
      /\ Baseline(c) /\ Knows(w)
  BY <1>1, CommandHas DEF SupersetInv, SupersetTyped, StateTyped
<1>3. x \in Parents /\ x \in Consumers /\ Target(q) \in Datasets /\ Target(q) = dataset[x]
      /\ x \notin Covered
  BY <1>2, PlanTyped DEF Target, Covered
<1>4. \A d \in Campaigns : d # c => p'[d] = p[d] /\ scope'[d] = scope[d]
  BY <1>2
     DEF ExtendInventory, Identify, Propose, RecordApplied, AcceptReceipt, RecordRestored, Abandon,
         MarkStale, AppendOnce, Project
<1>5. "IDENTIFIED" \in InventoryDispositions /\ Open \subseteq InventoryDispositions
      /\ InventoryDispositions \ Open = {"IDENTIFIED"}
      /\ {"APPLIED", "STALE"} \cap (InventoryDispositions \cup {"CHANGE_PROPOSED"}) = {}
      /\ "CHANGE_PROPOSED" \notin InventoryDispositions
  BY DEF InventoryDispositions, Open
<1> SUFFICES /\ Baseline(c)' /\ Knows(w)'
             /\ \A v \in Processes : v # w => run'[v] = run[v]
  BY <1>1, <1>2, <1>4, OtherBaselinesStay, OthersKnow DEF SupersetInv
<1>6. CASE ExtendInventory(w)
  <2> DEFINE found == [AllOpaque EXCEPT ![x] = run[w].seen]
  <2>1. /\ MayExtendInventory(p[c], {x}, found)
        /\ p'[c] = InventoryExtended(p[c], {x}, found, Complete)
        /\ scope' = [scope EXCEPT ![c][Target(q)] = "mutating"]
        /\ Goto(w, "identifying") /\ At(w, "extending")
    BY <1>2, <1>6 DEF ExtendInventory, Project
  <2>2. found \in [Consumers -> Dispositions] /\ found[x] = run[w].seen
    BY <1>2, <1>3, NamedDispositions DEF Runs
  <2>3. run[w].seen \in InventoryDispositions
    BY <2>1, <2>2 DEF MayExtendInventory
  <2>4. {x} \in SUBSET p[c].known
    BY <1>2, <1>3 DEF Baseline
  <2> HIDE DEF found
  <2>5. SameConsumers(p[c], p'[c])
    BY <1>2, <2>1, <2>2, <2>4, EventsKeepConsumers
  <2>6. SourcesStay(c) /\ scope'[c][dataset[x]] # "absent"
    BY <1>2, <1>3, <2>1 DEF SourcesStay
  <2>7. Baseline(c)'
    BY <1>2, <2>5, <2>6, BaselineStays
  <2>8. /\ run'[w].at = "identifying" /\ run'[w].campaign = c /\ run'[w].plan = q
        /\ run'[w].seen = run[w].seen
        /\ \A v \in Processes : v # w => run'[v] = run[v]
    <3>1. "identifying" \in Points
      BY DEF Points
    <3>2. QED
      BY <1>1, <2>1, <3>1, GotoMoves
  <2>9. run[w].seen = p[c].disp[x]
    BY <1>2, <2>1, <2>3 DEF Knows
  <2>10. Knows(w)'
    BY <2>3, <2>5, <2>6, <2>8, <2>9 DEF Knows, At, Closing, SameConsumers
  <2>11. QED
    BY <2>7, <2>8, <2>10
<1>7. CASE Identify(w)
  <2> DEFINE now == p[c].disp[x]
             seen == IF now \in Open THEN "IDENTIFIED" ELSE now
  <2>1. /\ At(w, "identifying") /\ UNCHANGED scope
        /\ now \in Open => Project(c, DispositionChanged(p[c], x, "IDENTIFIED", NoPlan))
        /\ now \notin Open => UNCHANGED p
        /\ run' = [run EXCEPT ![w].at = "proposing", ![w].seen = seen]
    BY <1>7 DEF Identify
  <2>2. now \in InventoryDispositions /\ scope[c][dataset[x]] # "absent"
    BY <1>2, <2>1 DEF Knows, At
  <2>3. p[c].plan[x] = NoPlan
    BY <1>2, <1>3, <2>2 DEF Baseline
  <2>4. Baseline(c)' /\ p'[c].disp[x] = "IDENTIFIED"
    <3>1. CASE now \in Open
      <4>1. "IDENTIFIED" \in Dispositions \ {"VALIDATED"}
        BY NamedDispositions
      <4>2. QED
        BY <1>1, <1>2, <1>3, <2>1, <2>3, <3>1, <4>1, DispositionKeepsBaseline
    <3>2. CASE now \notin Open
      <4>1. now = "IDENTIFIED"
        BY <1>5, <2>2, <3>2
      <4>2. QED
        BY <1>2, <2>1, <3>2, <4>1 DEF Baseline
    <3>3. QED
      BY <3>1, <3>2
  <2>5. /\ run'[w].at = "proposing" /\ run'[w].campaign = c /\ run'[w].plan = q
        /\ \A v \in Processes : v # w => run'[v] = run[v]
    <3> HIDE DEF seen
    <3>1. QED
      BY <1>1, <2>1 DEF Runs
  <2>6. Knows(w)'
    BY <2>1, <2>2, <2>4, <2>5 DEF Knows, At, Closing
  <2>7. QED
    BY <2>4, <2>5, <2>6
<1>8. CASE Propose(w) \/ RecordApplied(w) \/ RecordRestored(w) \/ Abandon(w)
  <2>1. Stop(w) /\ UNCHANGED scope
    BY <1>8 DEF Propose, RecordApplied, RecordRestored, Abandon
  <2>2. /\ Knows(w)' /\ \A v \in Processes : v # w => run'[v] = run[v]
    BY <1>1, <2>1, StopTyped, NothingKnown
  <2>3. \/ p' = p
        \/ /\ At(w, "proposing")
           /\ Project(c, DispositionChanged(p[c], x, "CHANGE_PROPOSED", q))
        \/ \E d \in {"APPLIED", "STALE"} : Project(c, DispositionChanged(p[c], x, d, NoPlan))
    BY <1>8 DEF Propose, AppendOnce, RecordApplied, RecordRestored, MarkStale, Abandon
  <2>4. Baseline(c)'
    <3>1. CASE p' = p
      BY <1>2, <2>1, <3>1 DEF Baseline
    <3>2. CASE At(w, "proposing") /\ Project(c, DispositionChanged(p[c], x, "CHANGE_PROPOSED", q))
      <4>1. p[c].disp[x] = "IDENTIFIED" /\ scope[c][dataset[x]] # "absent"
        BY <1>2, <3>2 DEF Knows, At
      <4>2. p[c].plan[x] = NoPlan
        BY <1>2, <1>3, <1>5, <4>1 DEF Baseline
      <4>3. "CHANGE_PROPOSED" \in Dispositions \ {"VALIDATED"}
        BY NamedDispositions
      <4>4. QED
        BY <1>1, <1>2, <1>3, <2>1, <3>2, <4>1, <4>2, <4>3, DispositionKeepsBaseline
    <3>3. ASSUME NEW d \in {"APPLIED", "STALE"}, Project(c, DispositionChanged(p[c], x, d, NoPlan))
          PROVE  Baseline(c)'
      <4>1. d \in Dispositions \ {"VALIDATED"} /\ d \notin InventoryDispositions \cup {"CHANGE_PROPOSED"}
        BY <1>5, NamedDispositions
      <4>2. QED
        BY <1>1, <1>2, <1>3, <2>1, <3>3, <4>1, DispositionKeepsBaseline
    <3>4. QED
      BY <2>3, <3>1, <3>2, <3>3
  <2>5. QED
    BY <2>2, <2>4
<1>9. CASE AcceptReceipt(w)
  <2>1. /\ p[c].plan[x] = q /\ Project(c, Accepted(c, x, q)) /\ UNCHANGED scope
        /\ NextCovered(w, run[w].todo)
    BY <1>9 DEF AcceptReceipt, MayAccept
  <2>2. Baseline(c)' /\ p'[c].receipt[x].plan = q
    BY <1>1, <1>2, <1>3, <2>1, ReceiptKeepsBaseline
  <2>3. /\ \A v \in Processes : v # w => run'[v] = run[v]
        /\ \/ run'[w] = Idle
           \/ run'[w].at = "covering" /\ run'[w].plan = q /\ run'[w].campaign = c
    BY <1>1, <2>1, NextCoveredTyped
  <2>4. Knows(w)'
    <3>1. "covering" \in Closing
      BY DEF Closing
    <3>2. CASE run'[w] = Idle
      BY <3>2, NothingKnown
    <3>3. CASE run'[w] # Idle
      BY <2>2, <2>3, <3>1, <3>3, ClosingKnows
    <3>4. QED
      BY <3>2, <3>3
  <2>5. QED
    BY <2>2, <2>3, <2>4
<1>10. QED
  BY <1>6, <1>7, <1>8, <1>9

\* A command's step on a consumer that its plan's dataset covers.
LEMMA CoverStepKeeps ==
  ASSUME SupersetInv, OneCommandPerCampaign, NEW w \in Processes,
         CoverIdentify(w) \/ CoverPlan(w) \/ CoverApply(w) \/ CoverAccept(w)
  PROVE  SupersetInv'
<1> PICK c, q, x : c = run[w].campaign /\ q = run[w].plan /\ x = Under(w)
  OBVIOUS
<1>1. /\ ~At(w, "idle") /\ run[w].at \in Closing /\ UNCHANGED scope
      /\ SupersetTyped' /\ SupersetTyped /\ RunTyped /\ run \in [Processes -> Runs]
  BY TypeCoverStep
     DEF SupersetInv, SupersetTyped, RunTyped, CoverIdentify, CoverPlan, CoverApply, CoverAccept,
         At, Closing
<1>2. /\ c \in Campaigns /\ q \in Plans /\ q.of \in Parents
      /\ p \in [Campaigns -> Projections] /\ p[c] \in Projections
      /\ Baseline(c) /\ p[c].receipt[q.of].plan = q
      /\ x \in Covered /\ x \in Consumers /\ x \notin Parents /\ parent[x] = q.of
      /\ q.of \in Consumers /\ q.of # x
  <2>1. /\ c \in Campaigns /\ q \in Plans /\ p[c] \in Projections
        /\ x \in Covered /\ x \in Consumers /\ parent[x] = q.of
    BY <1>1, CommandHas
  <2>2. q.of \in Parents /\ q.of \in Consumers
    BY <2>1, PlanTyped
  <2>3. p \in [Campaigns -> Projections]
    BY <1>1 DEF SupersetTyped, StateTyped
  <2>4. Baseline(c)
    BY <2>1 DEF SupersetInv
  <2>5. p[c].receipt[q.of].plan = q
    BY <1>1 DEF SupersetInv, Knows
  <2>6. x \notin Parents /\ q.of # x
    BY <2>1, <2>2 DEF Covered
  <2>7. QED
    BY <2>1, <2>2, <2>3, <2>4, <2>5, <2>6
<1>3. \A d \in Campaigns : d # c => p'[d] = p[d] /\ scope'[d] = scope[d]
  BY <1>1, <1>2 DEF CoverIdentify, CoverPlan, CoverApply, CoverAccept, AppendOnce, Project
<1>4. Baseline(c)' /\ p'[c].receipt[q.of].plan = q
  <2>1. \/ p' = p
        \/ \E d \in {"IDENTIFIED", "APPLIED"} : Project(c, DispositionChanged(p[c], x, d, NoPlan))
        \/ Project(c, DispositionChanged(p[c], x, "CHANGE_PROPOSED", q))
        \/ p[c].plan[x] = q /\ Project(c, Accepted(c, x, q))
    BY DEF CoverIdentify, CoverPlan, CoverApply, CoverAccept, AppendOnce, MayAccept
  <2>2. CASE p' = p
    BY <1>1, <1>2, <2>2 DEF Baseline
  <2>3. ASSUME NEW d \in {"IDENTIFIED", "APPLIED", "CHANGE_PROPOSED"}, NEW r \in {q, NoPlan},
               Project(c, DispositionChanged(p[c], x, d, r))
        PROVE  Baseline(c)' /\ p'[c].receipt[q.of].plan = q
    <3>1. d \in Dispositions \ {"VALIDATED"} /\ r \in Plans \cup {NoPlan}
      BY <1>2, NamedDispositions
    <3>2. QED
      BY <1>1, <1>2, <2>3, <3>1, DispositionKeepsBaseline
  <2>4. CASE p[c].plan[x] = q /\ Project(c, Accepted(c, x, q))
    <3>1. x \in Covered => p[c].receipt[parent[x]].plan = q
      BY <1>2
    <3>2. Baseline(c)' /\ \A y \in Consumers : y # x => p'[c].receipt[y] = p[c].receipt[y]
      BY <1>1, <1>2, <2>4, <3>1, ReceiptKeepsBaseline
    <3>3. p'[c].receipt[q.of].plan = q
      BY <1>2, <3>2
    <3>4. QED
      BY <3>2, <3>3
  <2>5. QED
    BY <2>1, <2>2, <2>3, <2>4
<1>5. /\ \A v \in Processes : v # w => run'[v] = run[v]
      /\ run'[w] = Idle \/ (run'[w].plan = q /\ run'[w].campaign = c /\ run'[w].at \in Closing)
  <2>1. CASE CoverAccept(w)
    <3>1. NextCovered(w, run[w].todo \ {x}) /\ run[w].todo \ {x} \in SUBSET run[w].todo
      BY <2>1 DEF CoverAccept
    <3>2. "covering" \in Closing
      BY DEF Closing
    <3>3. QED
      BY <1>1, <3>1, <3>2, NextCoveredTyped
  <2>2. CASE \E point \in Closing : Goto(w, point)
    <3>1. Closing \subseteq Points
      BY DEF Closing, Points
    <3>2. QED
      BY <1>1, <2>2, <3>1, GotoMoves
  <2>3. QED
    BY <2>1, <2>2 DEF CoverIdentify, CoverPlan, CoverApply, Closing
<1>6. Knows(w)'
  <2>1. CASE run'[w] = Idle
    BY <2>1, NothingKnown
  <2>2. CASE run'[w] # Idle
    BY <1>4, <1>5, <2>2, ClosingKnows
  <2>3. QED
    BY <2>1, <2>2
<1>7. QED
  BY <1>1, <1>2, <1>3, <1>4, <1>5, <1>6, OtherBaselinesStay, OthersKnow DEF SupersetInv

\* Every step keeps the invariant.
LEMMA SupersetStep ==
  SupersetInv /\ OneCommandPerCampaign /\ [Next]_vars /\ [BaselineWaits]_vars => SupersetInv'
<1> SUFFICES ASSUME SupersetInv, OneCommandPerCampaign, [Next]_vars, [BaselineWaits]_vars
             PROVE  SupersetInv'
  OBVIOUS
<1>1. SupersetTyped'
  BY TypeStep DEF SupersetInv
<1>2. CASE \E c \in Campaigns : CampaignStep(c)
  <2>1. CASE UNCHANGED vars
    BY <1>1, <2>1 DEF vars, SupersetInv, Baseline, Knows, At
  <2>2. CASE BaselineWaits
    BY <1>2, <2>2, CampaignStepKeeps
  <2>3. QED
    BY <2>1, <2>2
<1>3. CASE \E w \in Processes, c \in Campaigns : CommandStarts(w, c)
  BY <1>3, CommandStartsKeep
<1>4. CASE \E w \in Processes : CommandStep(w)
  BY <1>4, NativeStepKeeps, ParentStepKeeps, CoverStepKeeps DEF CommandStep
<1>5. CASE UNCHANGED <<p, scope, run>>
  BY <1>1, <1>5 DEF SupersetInv, Baseline, Knows, At
<1>6. QED
  BY <1>2, <1>3, <1>4, <1>5 DEF Next, OwnerEdits, Land, vars

LEMMA SupersetInvariance ==
  Spec /\ []OneCommandPerCampaign /\ [][BaselineWaits]_vars => []SupersetInv
  BY SupersetInit, SupersetStep, PTL DEF Spec

\* Whatever is abandoned, repeated, edited by the owner or lands late: where the
\* commands of a campaign run one after the other and its baseline is not renewed
\* under them, every covered consumer is closed on the plan of its parent's receipt.
THEOREM CoveredConsumersFollow ==
  Spec /\ []OneCommandPerCampaign /\ [][BaselineWaits]_vars => []CoveredFollowParent
<1>1. SupersetInv => CoveredFollowParent
  BY DEF SupersetInv, Baseline, CoveredFollowParent
<1>2. QED
  BY <1>1, SupersetInvariance, PTL

\* One process that runs its commands without others between their steps, as the
\* operator of the command line does, meets both conditions.
THEOREM OneOperatorSuffices ==
  ASSUME ~Concurrent, \A v, w \in Processes : v = w
  PROVE  Spec => []CoveredFollowParent
<1>1. OneCommandPerCampaign /\ BaselineWaits
  BY DEF OneCommandPerCampaign, BaselineWaits
<1>2. QED
  BY <1>1, CoveredConsumersFollow, PTL

\* No two consumers of a campaign are the same dataset.
OneConsumerPerDataset == \A x, y \in Parents : dataset[x] = dataset[y] => x = y

\* Under the same conditions, where every dataset is one consumer, the gate that
\* rereads the dataset of plan.json has reread what every receipt is about.
THEOREM GateRereadsAll ==
  ASSUME OneConsumerPerDataset
  PROVE  Spec /\ []OneCommandPerCampaign /\ [][BaselineWaits]_vars => []GateRereadsEveryReceipt
<1>1. SupersetInv => GateRereadsEveryReceipt
  <2> SUFFICES ASSUME SupersetInv, NEW c \in Campaigns, GatePasses(c),
                      NEW y \in p[c].known, p[c].disp[y] = "VALIDATED"
               PROVE  /\ p[c].receipt[y].plan # NoPlan
                      /\ native[Over(y)] = After(p[c].receipt[y].plan)
    BY DEF GateRereadsEveryReceipt
  <2> DEFINE q == planned[c]
             x == IF y \in Parents THEN y ELSE parent[y]
  <2>1. /\ q \in Plans /\ p[c].receipt[q.of].plan = q
        /\ \A d \in Datasets : scope[c][d] # "absent" => d = Target(q)
        /\ native[Target(q)] = After(q)
    BY DEF GatePasses, CurrentIn, CurrentPlan, SameScope, SupersetInv, SupersetTyped, StateTyped,
           Artifacts
  <2>2. /\ Baseline(c) /\ y \in Consumers /\ x \in Parents /\ dataset[x] \in Datasets
        /\ Over(y) = dataset[x]
    BY ParentAssumption, DatasetAssumption DEF SupersetInv, Baseline, Over, Covered
  <2>3. p[c].receipt[y].plan = p[c].receipt[x].plan /\ p[c].receipt[y].plan # NoPlan
    BY <2>2 DEF Baseline, Covered
  <2>4. scope[c][dataset[x]] # "absent"
    BY <2>2, <2>3 DEF Baseline
  <2>5. x = q.of
    BY <2>1, <2>2, <2>4, PlanTyped DEF Target, OneConsumerPerDataset
  <2>6. QED
    BY <2>1, <2>2, <2>3, <2>5 DEF Target
<1>2. QED
  BY <1>1, SupersetInvariance, PTL

\* So it does for one process whose commands have no others between their steps.
THEOREM OneOperatorRereadsAll ==
  ASSUME OneConsumerPerDataset, ~Concurrent, \A v, w \in Processes : v = w
  PROVE  Spec => []GateRereadsEveryReceipt
<1>1. OneCommandPerCampaign /\ BaselineWaits
  BY DEF OneCommandPerCampaign, BaselineWaits
<1>2. QED
  BY <1>1, GateRereadsAll, PTL
=============================================================================
