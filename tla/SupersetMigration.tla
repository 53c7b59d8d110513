-------------------------- MODULE SupersetMigration --------------------------
(***************************************************************************)
(* The Superset adapter and its campaign workflow (superset.py,            *)
(* superset_workflow.py, superset_campaign_workflow.py), with what the     *)
(* campaign reconciliation (reconciliation.py) and the producer gate       *)
(* (gate.py, superset_gate.py) make of the result.                         *)
(*                                                                         *)
(* A plan replaces one field in the SQL of a Superset dataset.  The charts *)
(* and dashboards over the dataset are consumers of their own, closed by   *)
(* receipts derived from the receipt of the dataset, their parent.         *)
(* Commands run step by step and may end, refused or dead, after any step; *)
(* an update may time out and land later; the owner edits the dataset at   *)
(* any moment.  A store call is one step (CampaignStore interleaves them). *)
(***************************************************************************)
EXTENDS CampaignProjection, FiniteSets

CONSTANTS Campaigns,
          NoCampaign,
          Parents,         \* consumers that are Superset datasets
          Datasets,
          dataset,         \* the dataset each parent is
          Charts,          \* saved charts, any of which a plan may validate with
          parent,          \* the parent of each covered consumer
          Processes,       \* processes that run workflow commands
          Concurrent,      \* whether other commands of a campaign come between
                           \*   the steps of these; no lock keeps them out
          MaxFaults        \* bound on the edits of the owner, the updates that
                           \*   time out and the new inventories, taken together

\* The SQL of a dataset: the field it reads, and which of its versions it is
\* otherwise.  A plan (its digest) is determined by what it is made from.
Versions == 0 .. 1
Contents == [field : {"legacy", "replacement"}, version : Versions]
SupersetPlans == [of : Parents, chart : Charts, before : Contents]
Covered == Consumers \ Parents

ASSUME PlansAssumption == Plans = SupersetPlans
ASSUME DatasetAssumption == Parents \subseteq Consumers /\ dataset \in [Parents -> Datasets]
ASSUME ParentAssumption == parent \in [Covered -> Parents]
ASSUME CampaignAssumption == NoCampaign \notin Campaigns
ASSUME ConcurrentAssumption == Concurrent \in BOOLEAN

After(q) == [q.before EXCEPT !.field = "replacement"]
Target(q) == dataset[q.of]

\* An update that was sent and may still land: it was decided on `from`.
Updates == [on : Datasets, from : Contents, to : Contents]

\* What the evidence envelope says of a dataset: no source, the source as the
\* adapter's own principal reads it, or as the read-only principal of the gate.
Sources == {"absent", "mutating", "read-only"}

Points == {"idle",
           "extending", "identifying", "proposing",
           "checking", "writing", "rereading", "recording",
           "validating", "accepting",
           "covering", "cover-planning", "cover-applying", "cover-accepting",
           "restore-checking", "restoring", "restore-rereading", "restored"}
Idle == [at |-> "idle", campaign |-> NoCampaign, plan |-> NoPlan,
         seen |-> "OPAQUE",     \* the disposition it read
         todo |-> {}]           \* the covered consumers still to close, the first
                                \* of them under way
VARIABLES
  p,          \* the projection of each campaign
  scope,      \* the Superset sources of its evidence envelope
  keys,       \* event keys that name no fresh digest, with what they were used for
  planned, applied, receipt, observed,  \* plan.json, apply.json, receipt.json and
              \*   source-reconciliation.json: the plan each is bound to
  claim,      \* the campaign that claimed each native identity: a dataset and a chart
  native,     \* Superset: the SQL of each dataset
  late,       \* updates that may still land
  run,        \* the command each process runs
  faults      \* how many of those remain

artifacts == <<planned, applied, receipt, observed>>
superset == <<native, late>>
vars == <<p, scope, keys, artifacts, claim, superset, run, faults>>

Complete == [live |-> TRUE, complete |-> TRUE]
AllOpaque == [x \in Consumers |-> "OPAQUE"]
NoSources == [d \in Datasets |-> "absent"]

\* Campaigns whose inventory found every consumer.
Init ==
  /\ p = [c \in Campaigns |-> InventoryRecorded(Created, Consumers, AllOpaque, Complete)]
  /\ scope = [c \in Campaigns |-> NoSources]
  /\ keys = [c \in Campaigns |-> {}]
  /\ planned = [c \in Campaigns |-> NoPlan] /\ applied = planned
  /\ receipt = planned /\ observed = planned
  /\ claim = [i \in Datasets \X Charts |-> NoCampaign]
  /\ native = [d \in Datasets |-> [field |-> "legacy", version |-> 0]]
  /\ late = {}
  /\ run = [w \in Processes |-> Idle]
  /\ faults = MaxFaults

At(w, point) == run[w].at = point
Goto(w, point) == run' = [run EXCEPT ![w].at = point]
Stop(w) == run' = [run EXCEPT ![w] = Idle]
Project(c, q) == p' = [p EXCEPT ![c] = q]
Fault == faults > 0 /\ faults' = faults - 1

\* append_event under a key used before: the same content appends nothing, other
\* content is refused.
AppendOnce(c, key, content, may, q) ==
  IF \E k \in keys[c] : k[1] = key
  THEN <<key, content>> \in keys[c] /\ UNCHANGED <<p, keys>>
  ELSE /\ may
       /\ Project(c, q)
       /\ keys' = [keys EXCEPT ![c] = @ \cup {<<key, content>>}]

Open == {"DISCOVERED", "OPAQUE", "UNRESOLVED"}

-----------------------------------------------------------------------------
(* plan.                                                                   *)

\* The native preflight, and plan.json, whatever becomes of the plan.
PlanNative(w, c, x, chart) ==
  LET q == [of |-> x, chart |-> chart, before |-> native[dataset[x]]] IN
  /\ At(w, "idle")
  /\ p[c].state \in {"INVENTORIED", "BLOCKED"}
  /\ native[dataset[x]].field = "legacy"
  /\ planned' = [planned EXCEPT ![c] = q]
  /\ run' = [run EXCEPT ![w] = [Idle EXCEPT !.at = "extending", !.campaign = c, !.plan = q,
                                            !.seen = p[c].disp[x]]]
  /\ UNCHANGED <<p, scope, keys, applied, receipt, observed, claim, superset, faults>>

\* Mutation: the consumer itself is left out of the extension.
ExtendInventory_SourceOnly(w) ==
  LET c == run[w].campaign  q == run[w].plan IN
  /\ At(w, "extending")
  /\ MayExtendInventory(p[c], {}, AllOpaque)
  /\ Project(c, InventoryExtended(p[c], {}, AllOpaque, Complete))
  /\ scope' = [scope EXCEPT ![c][Target(q)] = "mutating"]
  /\ Goto(w, "identifying")
  /\ UNCHANGED <<keys, artifacts, claim, superset, faults>>

\* The consumer joins the inventory as it is, with the evidence of its source:
\* which refuses a consumer that has a plan.
ExtendInventory(w) ==
  LET c == run[w].campaign  q == run[w].plan
      found == [AllOpaque EXCEPT ![q.of] = run[w].seen] IN
  /\ At(w, "extending")
  /\ MayExtendInventory(p[c], {q.of}, found)
  /\ Project(c, InventoryExtended(p[c], {q.of}, found, Complete))
  /\ scope' = [scope EXCEPT ![c][Target(q)] = "mutating"]
  /\ Goto(w, "identifying")
  /\ UNCHANGED <<keys, artifacts, claim, superset, faults>>

Identify(w) ==
  LET c == run[w].campaign  q == run[w].plan  now == p[c].disp[q.of] IN
  /\ At(w, "identifying")
  /\ IF now \in Open
     THEN Project(c, DispositionChanged(p[c], q.of, "IDENTIFIED", NoPlan))
     ELSE UNCHANGED p
  /\ run' = [run EXCEPT ![w].at = "proposing",
                        ![w].seen = IF now \in Open THEN "IDENTIFIED" ELSE now]
  /\ UNCHANGED <<scope, keys, artifacts, claim, superset, faults>>

\* Proposed under a key made from the plan: once for each plan.
Propose(w) ==
  LET c == run[w].campaign  q == run[w].plan IN
  /\ At(w, "proposing")
  /\ run[w].seen \in {"IDENTIFIED", "STALE", "FAILED"}
  /\ AppendOnce(c, <<"plan", q>>, q.of,
                MayChangeDisposition(p[c], q.of, "CHANGE_PROPOSED"),
                DispositionChanged(p[c], q.of, "CHANGE_PROPOSED", q))
  /\ Stop(w)
  /\ UNCHANGED <<scope, artifacts, claim, superset, faults>>

\* _require_current_plan: the projection binds the plan on disk.
CurrentPlan(c) ==
  /\ planned[c] # NoPlan
  /\ planned[c].of \in p[c].known /\ p[c].plan[planned[c].of] = planned[c]
CurrentIn(c, disposition) == CurrentPlan(c) /\ p[c].disp[planned[c].of] = disposition

Approved(c) == p[c].approvals[planned[c]] > p[c].time

Authorize(c) ==
  /\ CurrentPlan(c) /\ ~Approved(c)
  /\ Project(c, ApprovalRecorded(p[c], planned[c], Never))
  /\ UNCHANGED <<scope, keys, artifacts, claim, superset, run, faults>>

Begin(w, c, point, todo) ==
  /\ At(w, "idle")
  /\ run' = [run EXCEPT ![w] = [Idle EXCEPT !.at = point, !.campaign = c,
                                            !.plan = planned[c], !.todo = todo]]

-----------------------------------------------------------------------------
(* apply.                                                                  *)

\* begin_migration_with_claim: the native identity claimed is a dataset with the
\* chart it is validated by.  A first claim starts the migration.
StartApply(w, c) ==
  LET i == <<Target(planned[c]), planned[c].chart>> IN
  /\ CurrentIn(c, "CHANGE_PROPOSED") /\ Approved(c)
  /\ claim[i] \in {NoCampaign, c}
  /\ IF claim[i] = c
     THEN UNCHANGED p
     ELSE MayStartMigration(p[c]) /\ Project(c, MigrationStarted(p[c]))
  /\ claim' = [claim EXCEPT ![i] = c]
  /\ Begin(w, c, "checking", {})
  /\ UNCHANGED <<scope, keys, artifacts, superset, faults>>

\* The dataset is as planned.  An apply that was interrupted is not looked for.
CheckPlanned(w) ==
  LET q == run[w].plan IN
  /\ At(w, "checking")
  /\ native[Target(q)] = q.before
  /\ Goto(w, "writing")
  /\ UNCHANGED <<p, scope, keys, artifacts, claim, superset, faults>>

\* One update: it takes effect, or it times out and may take effect later.
Send(w, from, to, next) ==
  LET d == Target(run[w].plan) IN
  /\ \/ native' = [native EXCEPT ![d] = to] /\ UNCHANGED <<late, faults>>
     \/ /\ Fault
        /\ late' = late \cup {[on |-> d, from |-> from, to |-> to]}
        /\ UNCHANGED native
  /\ Goto(w, next)
  /\ UNCHANGED <<p, scope, keys, artifacts, claim>>

Write(w) == At(w, "writing") /\ Send(w, run[w].plan.before, After(run[w].plan), "rereading")

\* A reread that finds the planned content is the only proof of the change.
RereadApplied(w) ==
  LET q == run[w].plan IN
  /\ At(w, "rereading")
  /\ native[Target(q)] = After(q)
  /\ applied' = [applied EXCEPT ![run[w].campaign] = q]
  /\ Goto(w, "recording")
  /\ UNCHANGED <<p, scope, keys, planned, receipt, observed, claim, superset, faults>>

RecordApplied(w) ==
  LET c == run[w].campaign  x == run[w].plan.of IN
  /\ At(w, "recording")
  /\ MayChangeDisposition(p[c], x, "APPLIED")
  /\ Project(c, DispositionChanged(p[c], x, "APPLIED", NoPlan))
  /\ Stop(w)
  /\ UNCHANGED <<scope, keys, artifacts, claim, superset, faults>>

-----------------------------------------------------------------------------
(* validate: the parent first, then what its change covers, one by one.     *)

StartValidate(w, c) ==
  /\ CurrentIn(c, "APPLIED") /\ applied[c] = planned[c]
  /\ \E s \in SUBSET {x \in Covered : parent[x] = planned[c].of} : Begin(w, c, "validating", s)
  /\ UNCHANGED <<p, scope, keys, artifacts, claim, superset, faults>>

ValidateNative(w) ==
  LET q == run[w].plan IN
  /\ At(w, "validating")
  /\ native[Target(q)] = After(q)
  /\ receipt' = [receipt EXCEPT ![run[w].campaign] = q]
  /\ Goto(w, "accepting")
  /\ UNCHANGED <<p, scope, keys, planned, applied, observed, claim, superset, faults>>

\* Where the command goes on when it has closed a consumer.
NextCovered(w, todo) ==
  run' = [run EXCEPT ![w] = IF todo = {} THEN Idle
                            ELSE [@ EXCEPT !.at = "covering", !.todo = todo]]

\* accept_receipt: the receipt is for the plan the projection binds to x.
MayAccept(c, x, q) == MayAcceptReceipt(p[c], x) /\ p[c].plan[x] = q
Accepted(c, x, q) == ReceiptAccepted(p[c], x, [plan |-> q, expires |-> Never])

AcceptReceipt(w) ==
  LET c == run[w].campaign  q == run[w].plan IN
  /\ At(w, "accepting")
  /\ MayAccept(c, q.of, q)
  /\ Project(c, Accepted(c, q.of, q))
  /\ NextCovered(w, run[w].todo)
  /\ UNCHANGED <<scope, keys, artifacts, claim, superset, faults>>

\* The covered consumer under way: they are taken in the order of their names.
Under(w) == CHOOSE x \in run[w].todo : TRUE

\* The keys of a covered consumer name the consumer and not the plan.
CoverIdentify(w) ==
  LET c == run[w].campaign  x == Under(w) IN
  /\ At(w, "covering")
  /\ x \in p[c].known
  /\ IF p[c].disp[x] \in Open
     THEN AppendOnce(c, <<"covered-identify", x>>, NoPlan, TRUE,
                     DispositionChanged(p[c], x, "IDENTIFIED", NoPlan))
     ELSE p[c].disp[x] = "IDENTIFIED" /\ UNCHANGED <<p, keys>>
  /\ Goto(w, "cover-planning")
  /\ UNCHANGED <<scope, artifacts, claim, superset, faults>>

CoverPlan(w) ==
  LET c == run[w].campaign  x == Under(w)  q == run[w].plan IN
  /\ At(w, "cover-planning")
  /\ AppendOnce(c, <<"covered-plan", x>>, q,
                MayChangeDisposition(p[c], x, "CHANGE_PROPOSED"),
                DispositionChanged(p[c], x, "CHANGE_PROPOSED", q))
  /\ Goto(w, "cover-applying")
  /\ UNCHANGED <<scope, artifacts, claim, superset, faults>>

CoverApply(w) ==
  LET c == run[w].campaign  x == Under(w) IN
  /\ At(w, "cover-applying")
  /\ AppendOnce(c, <<"covered-applied", x>>, NoPlan,
                MayChangeDisposition(p[c], x, "APPLIED"),
                DispositionChanged(p[c], x, "APPLIED", NoPlan))
  /\ Goto(w, "cover-accepting")
  /\ UNCHANGED <<scope, artifacts, claim, superset, faults>>

\* No two receipts are the same, so that a key used before refuses.
CoverAccept(w) ==
  LET c == run[w].campaign  x == Under(w)  q == run[w].plan IN
  /\ At(w, "cover-accepting")
  /\ \A k \in keys[c] : k[1] # <<"covered-receipt", x>>
  /\ AppendOnce(c, <<"covered-receipt", x>>, q, MayAccept(c, x, q), Accepted(c, x, q))
  /\ NextCovered(w, run[w].todo \ {x})
  /\ UNCHANGED <<scope, artifacts, claim, superset, faults>>

-----------------------------------------------------------------------------
(* compensate: the parent becomes STALE; what it covered is left as it is.  *)

StartCompensate(w, c) ==
  /\ CurrentIn(c, "VALIDATED") /\ Approved(c) /\ applied[c] = planned[c]
  /\ Begin(w, c, "restore-checking", {})
  /\ UNCHANGED <<p, scope, keys, artifacts, claim, superset, faults>>

CheckApplied(w) ==
  LET q == run[w].plan IN
  /\ At(w, "restore-checking")
  /\ native[Target(q)] = After(q)
  /\ Goto(w, "restoring")
  /\ UNCHANGED <<p, scope, keys, artifacts, claim, superset, faults>>

Restore(w) ==
  At(w, "restoring") /\ Send(w, After(run[w].plan), run[w].plan.before, "restore-rereading")

RereadRestored(w) ==
  LET q == run[w].plan IN
  /\ At(w, "restore-rereading")
  /\ native[Target(q)] = q.before
  /\ Goto(w, "restored")
  /\ UNCHANGED <<p, scope, keys, artifacts, claim, superset, faults>>

MarkStale(c, x) ==
  /\ MayChangeDisposition(p[c], x, "STALE")
  /\ Project(c, DispositionChanged(p[c], x, "STALE", NoPlan))

RecordRestored(w) ==
  /\ At(w, "restored")
  /\ MarkStale(run[w].campaign, run[w].plan.of)
  /\ Stop(w)
  /\ UNCHANGED <<scope, keys, artifacts, claim, superset, faults>>

-----------------------------------------------------------------------------
(* Reconciliation and the gate.                                            *)

\* `adapter superset reconcile`: the source is as the receipt says, or any
\* refusal makes the parent STALE.  DataHub may say anything.
ReconcileSource(c) ==
  LET q == planned[c] IN
  /\ q # NoPlan /\ receipt[c] # NoPlan
  /\ scope[c][Target(q)] # "absent" /\ q.of \in p[c].known
  /\ \/ /\ receipt[c] = q /\ native[Target(q)] = After(q)
        /\ observed' = [observed EXCEPT ![c] = q]
        /\ UNCHANGED p
     \/ /\ p[c].disp[q.of] = "VALIDATED"
        /\ MarkStale(c, q.of)
        /\ UNCHANGED observed
  /\ UNCHANGED <<scope, keys, planned, applied, receipt, claim, superset, run, faults>>

\* The evidence of that observation, for the gate's own principal, joins the
\* envelope.
RecordGateSource(c) ==
  /\ planned[c] # NoPlan /\ observed[c] = planned[c]
  /\ scope[c][Target(planned[c])] = "mutating"
  /\ MayExtendInventory(p[c], {}, AllOpaque)
  /\ Project(c, InventoryExtended(p[c], {}, AllOpaque, Complete))
  /\ scope' = [scope EXCEPT ![c][Target(planned[c])] = "read-only"]
  /\ UNCHANGED <<keys, artifacts, claim, superset, run, faults>>

\* Mutation: a source of the baseline that was not read again is no difference.
SameScope_Subset(c) ==
  \A d \in Datasets : (planned[c] # NoPlan /\ d = Target(planned[c])) => scope[c][d] # "absent"

\* scope_signature: the Superset sources declared are those that plan.json names.
SameScope(c) ==
  \A d \in Datasets : (planned[c] # NoPlan /\ d = Target(planned[c])) <=> scope[c][d] # "absent"

\* `campaign reconcile`: the Superset evidence is the observation on disk,
\* whichever plan it observed.  A membership that is as inventoried is assumed.
Reconcile(c) ==
  /\ planned[c] # NoPlan => observed[c] # NoPlan
  /\ SameScope(c)
  /\ MayRecordReconciliation(p[c])
  /\ Project(c, PolicyEvaluated(ReconciliationRecorded(p[c], p[c].known, AllOpaque, Complete)))
  /\ UNCHANGED <<scope, keys, artifacts, claim, superset, run, faults>>

\* What the producer gate makes of the campaign now: the receipt on disk is the
\* one accepted, and the dataset it names is read and executed again.
GatePasses(c) ==
  LET q == planned[c] IN
  /\ p[c].state = "READY" /\ Decision(p[c]) = "READY_TO_RETIRE"
  /\ CurrentIn(c, "VALIDATED")
  /\ receipt[c] = q /\ p[c].receipt[q.of].plan = q
  /\ scope[c][Target(q)] = "read-only" /\ SameScope(c)
  /\ native[Target(q)] = After(q)

-----------------------------------------------------------------------------
(* The campaign's other commands, the owner, and failures.                 *)

\* `git-dbt preflight`: a new baseline forgets plans, receipts and sources.
Inventory(c) ==
  /\ Fault
  /\ MayRecordInventory(p[c], Consumers, AllOpaque)
  /\ Project(c, InventoryRecorded(p[c], Consumers, AllOpaque, Complete))
  /\ scope' = [scope EXCEPT ![c] = NoSources]
  /\ UNCHANGED <<keys, artifacts, claim, superset, run>>

\* `campaign evaluate`, which also blocks a campaign that migrates.
Evaluate(c) ==
  /\ MayEvaluate(p[c], Decision(p[c]), 0)
  /\ p[c].state # EvaluatedState(p[c])
  /\ Project(c, PolicyEvaluated(p[c]))
  /\ UNCHANGED <<scope, keys, artifacts, claim, superset, run, faults>>

OwnerEdits(d) ==
  /\ Fault
  /\ \E content \in Contents \ {native[d]} : native' = [native EXCEPT ![d] = content]
  /\ UNCHANGED <<p, scope, keys, artifacts, claim, late, run>>

\* An update that timed out lands after all.
Land(u) ==
  /\ late' = late \ {u}
  /\ native' = [native EXCEPT ![u.on] = u.to]
  /\ UNCHANGED <<p, scope, keys, artifacts, claim, run, faults>>

\* A check refuses, a call fails or the process dies: the command ends there.
Abandon(w) ==
  /\ ~At(w, "idle")
  /\ Stop(w)
  /\ UNCHANGED <<p, scope, keys, artifacts, claim, superset, faults>>

CampaignStep(c) ==
  /\ Concurrent \/ \A w \in Processes : At(w, "idle")
  /\ \/ Authorize(c) \/ ReconcileSource(c) \/ RecordGateSource(c) \/ Reconcile(c)
     \/ Inventory(c) \/ Evaluate(c)

CommandStarts(w, c) ==
  \/ \E x \in Parents, chart \in Charts : PlanNative(w, c, x, chart)
  \/ StartApply(w, c) \/ StartValidate(w, c) \/ StartCompensate(w, c)

CommandStep(w) ==
  \/ ExtendInventory(w) \/ Identify(w) \/ Propose(w)
  \/ CheckPlanned(w) \/ Write(w) \/ RereadApplied(w) \/ RecordApplied(w)
  \/ ValidateNative(w) \/ AcceptReceipt(w)
  \/ CoverIdentify(w) \/ CoverPlan(w) \/ CoverApply(w) \/ CoverAccept(w)
  \/ CheckApplied(w) \/ Restore(w) \/ RereadRestored(w) \/ RecordRestored(w)
  \/ Abandon(w)

Next ==
  \/ \E c \in Campaigns : CampaignStep(c)
  \/ \E w \in Processes : CommandStep(w) \/ \E c \in Campaigns : CommandStarts(w, c)
  \/ \E d \in Datasets : OwnerEdits(d)
  \/ \E u \in late : Land(u)

Spec == Init /\ [][Next]_vars

-----------------------------------------------------------------------------
\* The types of the variables.
TypeOK ==
  /\ p \in [Campaigns -> Projections]
  /\ scope \in [Campaigns -> [Datasets -> Sources]]
  /\ \A c \in Campaigns :
        {planned[c], applied[c], receipt[c], observed[c]} \subseteq Plans \cup {NoPlan}
  /\ claim \in [Datasets \X Charts -> Campaigns \cup {NoCampaign}]
  /\ native \in [Datasets -> Contents] /\ late \subseteq Updates
  /\ \A w \in Processes : run[w].at \in Points /\ run[w].todo \subseteq Covered

Over(x) == dataset[IF x \in Parents THEN x ELSE parent[x]]

\* CONTRACTS.md: "every accepted Superset receipt still maps to the exact native
\* identities, SQL fingerprint".  The gate rereads one dataset only, that of
\* plan.json, but where it passes every consumer closed by a receipt, of another
\* dataset, of an earlier plan or covered by a parent, is as its receipt says.
GateRereadsEveryReceipt ==
  \A c \in Campaigns : GatePasses(c) =>
     \A x \in p[c].known : p[c].disp[x] = "VALIDATED" =>
        /\ p[c].receipt[x].plan # NoPlan
        /\ native[Over(x)] = After(p[c].receipt[x].plan)

\* A covered consumer is closed by the change its parent was closed by: no crash,
\* repeated validation, new inventory or new plan ever leaves it validated on a
\* plan other than that of the parent's last receipt.
CoveredFollowParent ==
  \A c \in Campaigns, x \in Covered :
     x \in p[c].known /\ p[c].disp[x] = "VALIDATED"
       => p[c].receipt[x].plan = p[c].receipt[parent[x]].plan

=============================================================================
