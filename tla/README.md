# RetirementConductor in TLA+

RetirementConductor drives the retirement of one producer asset (a column, a
dataset) through its consumers: it inventories them, has each one changed
natively, collects receipts, reconciles, decides by a fixed policy, and lets a
gate drop the legacy column once the decision is `READY_TO_RETIRE`. This
directory models what decides (policy, event projector, event store, producer
gate), the adapters that change consumers (Git/dbt, Superset, GitHub), what keeps
a decision under watch (inventory, reconciliation, publication, watch and lease),
and how the store itself is opened, migrated, copied and removed. Paths below are relative to
`src/retirement_conductor/`.

1. [The system](#1-the-system): components, state, operations, hazards
2. [The modules](#2-the-modules) and how they correspond to the code
3. [The runs](#3-the-runs), their bounds and their fairness
4. [What is proved](#4-what-is-proved)
5. [Where the code and its documentation disagree](#5-where-the-code-and-its-documentation-disagree)
6. [What is not modelled](#6-what-is-not-modelled)
7. [Plan](#7-plan)

## 1. The system

### Components

| Component | State | Operations | Correct when |
|---|---|---|---|
| Policy and state machines (`vocabulary`, `state`, `policy`) | none | two transition tables, `evaluate_policy` | one decision per input; `READY_TO_RETIRE` exactly when every known consumer is closed, nothing new was observed, evidence is live and complete, a reconciliation is on record and no review is due |
| Event projector (`events`) | `CampaignProjection`, recomputed from the log | one effect and one guard per event type; `manifest_from_projection` | closures rest on current evidence; membership changes withdraw the reconciliation; only the policy enters `READY` |
| Campaign store (`store`, `records`, `clock`, `migrations/`) | SQLite: `campaigns` (cached manifest), `campaign_events`, `native_identity_claims`, gate tables; a lock file | about 20 appending operations, `materialize`, claims, gate ledger | the log is serial; retries are idempotent; the cache never contradicts the log; no call blocks for good; one campaign per native identity |
| Gate ledger (`store` 822-1557, `migrations/004`) | `gate_plans`, `gate_attempts` | issue, claim, finish, resolve, refuse | a plan is consumed once, before its action; outcomes are final except an unknown one |
| Producer gate (`gate`) | plan artifact on disk; the ledger | `prepare`, `execute` / `retire`, `resolve_postgres_outcome` | the action is taken only on a ready, current, re-verified campaign, at most once |
| PostgreSQL producer action (`postgres_producer`) | the table; the server's transaction | `observe`, `plan`, `apply`, `resolve_outcome` | the column is dropped only from the table the plan was made for; the outcome recorded is the one that happened |
| Git/dbt workflow and adapter (`git_dbt_workflow`, `git_dbt`) | repository, artifacts per campaign | plan, authorize, apply, validate, compensate, reconcile | the repository changes only under a valid approval and claim; a crash is recoverable; compensation restores the original |
| Superset workflows and adapter (`superset*`) | charts and datasets in Superset, artifacts | plan, authorize, apply, validate, compensate; covered consumers | every covered consumer follows the shared change; partial failure is resumable |
| Superset gate check (`superset_gate`) | none | `verify` | the receipts' native state still stands |
| Reconciliation (`reconciliation`) | artifacts | `reconcile` | the membership recorded is what complete sources report |
| Publication (`publication`) | artifact; a DataHub record | `publish`, `verify` | what is recorded as published was written and read back |
| Watch and retirement lease (`watch`) | watch receipts on disk | `run_once`, lease status | every watch operation is completed once; a lease is valid only for the plan and manifest it was issued for |
| DataHub boundary (`datahub*`, `mcp_http`) | external | search, lineage, read, write | evidence is complete or says it is not |
| GitHub pull requests (`github_pr`) | branch, pull request, CI receipts | commit, push, create or reuse, CI evidence | one pull request per plan; evidence bound to the head commit |
| Semantic validation (`semantic_validation`) | none | plan and evaluate checks | pure |
| Operator views, workbench (`operator`, `workbench*`) | none | read-only views | show what the manifest says |
| Agent boundary (`agent*`) | none | filtered commands | never more than the command line allows |
| Command line (`cli`) | none | one command per operation | adds keys and guards |
| Opening, backup, removal (`store`, `deployment`) | the store's files, its lock file, `schema_migrations`, the writer binding | open (preflight, migrations, binding), backup, plan and carry out a removal | one writer works on a store; a migration happens wholly or not at all; a removal deletes what was planned |
| Fixtures, benchmarks, ablations; schemas, canonical JSON, settings | none | offline or stateless | out of scope |

### How they interact

The command line, the watcher and the agent each run in **processes of their
own** and share one SQLite file. Workflows read a projection, do slow external
work (HTTP, subprocesses), and call the store, which validates the request
*before* it takes the lock, takes the lock **without waiting**, projects the log
with the new event, commits, rewrites the cached manifest and releases the lock.
Readers also rewrite the cached manifest, without the lock. The gate reads the
manifest, verifies everything again, claims the plan in the ledger, sends one
transaction to PostgreSQL and infers its outcome from the answer or from a
reread. There are no in-process callbacks; all concurrency is between
processes, and between a client that timed out and its server.

### What is hard to test here

`PROJECT.json` lists the hazards line by line. They fall into eight families:

- *Check, then lock.* Decisions, receipts and approvals are validated on an
  unlocked read; only what the projector repeats under the lock is safe.
- *Long legal sequences.* Staling, failing, re-planning, waiving, resuming and
  re-inventorying keep old plans, receipts and reconciliations in the
  projection; some order of them might reuse one.
- *Crashes.* After a commit and before its answer; between the gate's claim and
  its outcome; between a native change, the artifact that describes it and the
  event that reports it.
- *A shared clone.* An adapter runs one Git command after another in a clone
  that its owner, and other campaigns, work in; nothing locks it.
- *Lost and late answers.* The reply to the drop may be lost while the server's
  transaction is open, committed or over, and may commit after the reread.
- *Time.* A receipt that expires makes later reads of the campaign fail.
- *Inference.* The watcher keeps nothing but the event log and a receipt; after a
  crash it concludes from them how far it came, while an operator may have run
  the same workflows in between.
- *Files.* A store is several files that are opened, migrated, copied and
  unlinked one call at a time by processes that share nothing else.

## 2. The modules

```
Policy  <-  CampaignProjection  <-  CampaignKernel  <-  MCKernel
                                <-  CampaignStore   <-  MCStore
                                <-  LeaseWatch      <-  MCWatch
                                <-  SupersetMigration  <-  MCSuperset
GateLedger      <=(refines)=  ProducerGate  <-  MCGate
RetirementLease <=(refines)=  LeaseWatch
GitDbtMigration  <-  MCGit         DataHubInventory  <-  MCInventory
SemanticPullRequest <- MCPullRequest   StoreDeployment <- MCDeployment

X_proofs extends X, for the X of section 4; Boundaries_proofs extends
DataHubInventory and SemanticPullRequest
```

**`Policy`**: the vocabulary, both transition tables and `evaluate_policy` as
pure operators. Findings are abstracted to whether one of each list exists,
which is all the decision depends on.

**`CampaignProjection`**: the projection as a record `p`, and for each event
type its guard (`May...`) and effect. A digest is a model value: a member of
`Plans` is a plan digest with the source version and targets it binds. Times are
ticks `0..MaxTime`; a receipt or approval carries its expiry. A discovered
consumer's source reports it in one of `Sightings`; envelopes carry `live` and
`complete`, the only facts the policy reads from them.

**`CampaignKernel`**: one campaign, one store operation per action: what the
operation checks before it appends, and the event's effect. A refused call
changes nothing and is no action. `Append` enforces non-decreasing time. The
tail of an adapter's apply (claim held, approval revalidated, native change,
`APPLIED`) is `ApplyChange`. Three ghost variables (`moved`, `migrated`,
`sighted`) remember history for the properties; no guard reads them.

**`CampaignStore`**: the same log under concurrent callers. `call[w]` is the
control point of a caller: request submitted on an unlocked read, lock taken or
refused, idempotency key looked up, event projected, committed, cache read, log
replayed, cache written. `log` is the sequence of events after `Base` and
`replay` the projections of its prefixes, so that the projection at every past
moment is at hand; `cache` is the length of the log the cached manifest was
made from. `Crash` may happen at every step and stands for a death, a full disk
and a busy database: uncommitted work is rolled back and the operating system
frees the lock. Events carry one and the same time; expiry is `CampaignKernel`'s
subject. The lock is held by a caller for the length of one call, as the
re-entrant lock is; the watcher's longer hold is in `LeaseWatch`.

**`GateLedger`**: the abstract promise of D-022 and of CONTRACTS.md "Execution
must": issue, consume once, act at most once and only when consumed, close, and
resolve an unknown outcome later.

**`ProducerGate`**: executors (processes) going through `execute`: start,
verify, recheck the manifest, claim, connect, send, answer or loss of it, reread,
record. The server's transaction `tx` is an actor of its own: once sent it
commits, refuses by its own checks or fails, whatever the client does. Campaign
events and other sessions' DDL are environment actions. A table is
`[legacy, replacement, rest]`: whether the legacy column exists, the version of
its replacement (with the table's identity), and the version of everything
else, dependencies included. A manifest is its number in the campaign's
history, and the plan issued for it has the same number (the ledger allows one
per manifest).

Abstractions in `ProducerGate`: `prepare` is atomic; refusals whose cause is
not modelled (expiry, allowlist, an observer that is down, receipts, Git,
Superset and DataHub checks) are nondeterministic; a call that finds the store
locked ends as `RefuseBeforeClaim` before the claim and as `Interrupt` after it,
when it could not record its outcome; the sentinel action, which touches no
table, is not modelled; nobody but the gate drops the legacy column.

**`GitDbtMigration`**: campaigns on one clone, through preflight, plan,
approval, apply, validation, compensation and reapply. Per campaign it keeps the
projection's part (`state`, `disp`, `bound`, `approved`, `keys`) and the artifacts
on disk (`preflight`, `planned`, `applied` for `preflight.json`, `plan.json`,
`apply.json`); `claim` is the table of native identities. The repository is a
history of commits, the tip of each branch, the branch checked out and the
worktree. A file is `[token, edited]`: which field the model reads, and whether
its owner edited it otherwise. `apply`, `validate` and `compensate` are commands of
a process, one action per Git command that changes something, with the checks
made since the one before; the fingerprint check and the replacement of the file
are steps of their own. `Abandon` ends a command at any point: a check that
refuses, a command that fails and a death all leave what was done so far. The
owner commits and switches branches between any two steps.

Abstractions in `GitDbtMigration`: store calls are atomic; an approval does not
expire; one preflight is made of each source commit; artifacts nothing decides on
(`approval.json`, `compensation.json`, receipts, diffs) are omitted; discovery,
dbt's verdicts, path and schema checks are nondeterministic refusals; a merge in
`git revert` succeeds or conflicts where the owner edited the file.

**`RetirementLease`**: the abstract promise of CONTRACTS.md "Retirement Lease
observation": issued once; expired, invalidated or consumed for good.

**`LeaseWatch`**: `watch.run_once`, the workflows it drives (reconcile, evaluate,
publish, verify) as also run by an operator, and the gate that consumes the
lease. `run[w]` is the step a process is at and what it has read; the watcher
holds the store lock (`lock`) over its whole run, the operator for one event at a
time. `log` is the campaign's events, each with the lease whose watch wrote it
(`by`), as the code's event keys name it; a manifest is the length of the log it is
made from, since its digest covers the history. `documents` is DataHub: the
manifest each document renders. A native write may be lost before or after it
took effect, and `Fault` and `Crash` end a process at any step. `Rerun` is `run_once`
over an unfinished receipt, with the rules by which it infers where to resume.
`LeaseStatus` is what the code reports of a lease; it follows `RetirementLease`.
Abstractions: a campaign that starts ready with one validated consumer, a second
one that may appear; sources other than membership are complete or refuse.

**`SupersetMigration`**: the Superset adapter and its campaign workflow: plan
(preflight, extension of the inventory, identity, proposal), authorize, apply
(check, PUT, reread, record), validate, compensate, and the covered consumers,
charts and dashboards over the dataset, closed one by one from their parent's
receipt. `native` is the SQL of each dataset (`field` and a version for the rest);
`late` holds updates that timed out and may still land; `keys` are the event keys
that do not name a fresh digest, so that a repeated one appends nothing or is
refused; `planned`, `applied`, `receipt` and `observed` are the artifacts on disk.
`GatePasses` is what `gate` and `superset_gate` require. Abstractions: store calls are
atomic; approvals do not expire; paging, authentication and the rewriting of SQL
are left out.

**`DataHubInventory`**: `page_downstream` bucket by bucket and page by page, each
page any selection of what the bucket holds at that moment, possibly with
malformed or repeated items, flags, or a failure; and the status of the envelope
that the caller makes of it. Edges appear and vanish between pages.

**`SemanticPullRequest`**: the operations of `github_pr` on one approved plan:
write the tests, commit, push without force, open or reuse a pull request (list,
create, list again), capture CI, bind the native validation, emit a receipt, and
`require_current_head`. `commits` is a history of trees, a file in it `base`, `reviewed`
or `edited`; requests may be lost, answered after they were given up (`late`), or
followed by a crash; the owner edits, commits, pushes and closes. What an
operation returned (`made`, `opened`, `passed`, `bound`) may be handed to a later one
at any time, as the functions' parameters allow.

**`StoreDeployment`**: opening a store (preflight, `schema_migrations`, one statement
of a migration at a time, writer binding, path binding), working on it under the
lock file, backup, removal plan and removal. A file is an inode (`db`, `locks`), a
path names one or none (`file`, `lockFile`), and what is unlinked stays open. `Exit`
is every end of a command: a refusal, an SQLite error, a busy database, a crash.
Tables and indexes count by name. Abstractions: two paths, one for the deployment
and one for its backups; one removal plan; a removal begins when the other
processes are idle, as D-033 and the runbook ask, while others may begin during
it; the artifact directory is left out.

**`MC...`** modules hold only the constants of the small instances. A definition
marked `Mutation:` is not part of any specification; it is a plausible bug used
to show that a property can fail.

## 3. The runs

| Run | Checks | Instance | Distinct states |
|---|---|---|---|
| `kernel` | `TypeOK`, `ClosureHasEvidence`, `ReconciliationCoversMembership`, `SightingsAreAccounted`, `ReadyOnlyByPolicy` | 1 consumer, 2 plans, 2 instants, two sightings, complete and incomplete envelopes | 209,485 |
| `store_log` | `TypeOK`, `DecisionsAreCurrent`, `ProjectedIsCurrent`, `CacheIsTrusted`, `RetryIsAnswered`, `CallsReturn`, `LockIsFreed` | 2 callers, 8 requests, 3 events after the base | 38,444 |
| `gate_ledger` | `TypeOK`, `ExecutedMeansDropped`, `ImplementsLedger`, `DropsOnlyAsPlanned`, `IntentIsClosed` | 2 executors, 2 manifests, 1 change of each part of the table | 219,260 |
| `git_migration` | `TypeOK`, `OneCampaignPerFile`, `RecordIsExact`, `EditsArePreserved` | 2 campaigns after one of 2 files, 1 process, 4 commits, 1 of them the owner's | 802,631 |
| `watch_lease` | `TypeOK`, `WatchIsDoneOnce`, `ClaimedOnPublished`, `UnchangedIsFresh`, `ImplementsLease`, `WatchEnds` | watcher and operator, 1 lease, 1 operator command, 2 faults or crashes, 2 documents | 233,178 |
| `superset_migration` | `TypeOK`, `GateRereadsEveryReceipt`, `CoveredFollowParent` | 2 datasets, 1 chart covered by the first, 1 process, 2 edits, late updates or new inventories | 1,522,161 |
| `datahub_paging` | `InventoryTypeOK`, `CompleteReportsTheSteady`, `PagingEnds` | 4 entities, 2 degrees, pages of 2, 2 changes of the graph | 341,403 |
| `pull_request` | `TypeOK`, `CurrentReceiptIsTrue`, `OwnerCommitsAreKept`, `PullRequestIsRecorded` | 1 test and the model, 1 process, 3 commits, 2 checks, 2 faults or moves of the owner | 143,550 |
| `store_deployment` | `TypeOK`, `OpenIsExclusive`, `RemovalDeletesOnlyPlanned` | 2 processes, 2 writers, 2 schema versions, 3 stores, 2 lock files, 2 events | 2,258,570 |
| `gate_denied`, `watch_revoked_lease`, `store_migration` | one violated statement each, see section 5 | the smallest instance that shows it | |

What the passing runs show:

- **`kernel`**: over every order of operations on one consumer, `VALIDATED` rests
  on a receipt for the plan the consumer is bound to *now*, although staling and
  re-planning leave old receipts in place; a reconciliation on record is younger
  than the last change of membership, and what was seen once is known and closed
  when the gate opens; `READY` is entered only by an evaluation over a standing
  reconciliation and unexpired receipts. Two plans are needed to tell an old
  receipt from a current one, two instants to let one expire; one consumer can
  appear, vanish and reappear. For more consumers, plans and times the same five
  properties are proved (section 4).
- **`store_log`**: the base is a campaign with one consumer applied under a plan
  and reconciled; from it callers stale, re-plan, apply, validate, reconcile,
  evaluate and inspect. With two callers every race of a read against another's
  write occurs, and with three events a decision can go stale, a retry can follow
  its own commit and the cache can fall two events behind. `Room` bounds the log
  by admitting a call only if all calls under way could still append.
- **`gate_ledger`**: two executors race for the same plan, an executor works on
  a plan while the campaign moves on, and the table changes at any point between
  preparation and commit. `ImplementsLedger` is the refinement of `GateLedger`
  under `status <- ledger`, `acted <- sends`.
- **`git_migration`**: after the first commit three more suffice for an apply,
  its compensation and a reapply, or for an edit of the owner among them; a
  second file lets the owner's commit widen a diff; a second campaign wants the
  same file. Whatever is interrupted, one campaign at most changes the file, an
  apply record names a commit with exactly the planned change, and no command
  commits away an edit it has read. Commands run one at a time, as an operator
  runs them, interleaved with the owner and with the other campaign's planning.
- **`watch_lease`**: a watch that is interrupted twice, at any of its steps, and an
  operator who runs one of the same workflows at any moment. However the run is
  resumed, each kind of event is written once for a lease; a lease is claimed only
  over a summary that was read back and tells the decision relied on; `UNCHANGED`
  is not said over a consumer the sources showed; and every watch comes to a final
  receipt, except where the document on record no longer renders what it should
  (an operator has to publish again, section 5). Two faults let a rerun fail too;
  `ImplementsLease` is the refinement of `RetirementLease` under
  `status <- LeaseStatus`.
- **`superset_migration`**: two datasets, because the gate rereads only the dataset
  of the last plan on disk; a covered chart, to be left behind by its parent. Where
  the gate passes, every receipt still stands natively. The instance takes
  `Concurrent = FALSE`: other operations of a campaign come between the commands of
  the process, not between the steps of one, as an operator works. Nothing in the
  code enforces it; with `TRUE` a new inventory under a running command breaks both
  invariants, and so do two commands of one campaign at once. Nothing else does
  (section 4).
- **`datahub_paging`**: two degrees, so that what one bucket lacks another could
  make up for; two pages in a bucket; two changes, so that entities shift between
  pages. Every combination of partial, malformed, repeated and empty pages that
  leaves the status at `COMPLETE` returned every consumer that stayed, with one
  exception the property names: one consumer leaves and another joins.
- **`pull_request`**: three commits are the adapter's, the boundary's and one more of
  the owner or of a second round, so that receipts of one head meet those of another.
  A receipt that `require_current_head` accepts is about the head it shows; no push,
  even one that lands late, takes an owner's commit away; and an operator who keeps
  asking gets the record of the pull request.
- **`store_deployment`**: two processes race to create, migrate and bind a store,
  back it up, remove it and create it again, one file operation at a time, each
  cut short anywhere. Two schema versions give one store to migrate from and one
  to reach; three stores are the deployment, a backup and a successor. Who works on
  a store is the writer bound to it, at its path, at this version; a removal deletes
  the events its plan has seen and no others. The versions of the scripts stand for
  the prefix `1..2` of the four: these two properties concern the records of
  versions and bindings, not the tables; `store_migration` takes all four.

Counterparts of each property that fail under a plausible change of the code
are listed as mutants in `PROJECT.json`.

**Bounds**: `MaxTime` (ticks), `MaxEvents` (log length, or events of a store),
`MaxManifest` (campaign history seen by the gate), `MaxDDL` (schema changes by
others), `MaxCommits` and `MaxEdits` (commits in the clone, and the owner's among
them); `MaxLeases`, `MaxCommands`, `MaxFaults`, `MaxDocuments` (the watch); `MaxFaults`
(edits, late updates and inventories for Superset; crashes, lost requests and moves
of the owner for GitHub); `MaxChanges` (of the graph); `MaxChecks` (CI runs);
`MaxStores`, `MaxLocks` (inodes). In `GitDbtMigration` the owner returns to a review
branch only between commands, and to the default branch at any time. The kernel
needs no bound on events: its projection is finite.

**Symmetry** on plans is used in `kernel`, on campaigns in `git_migration`, on
processes and writers in the store's deployment runs; in none of them liveness is
checked, and none of their properties names one of the symmetric values.

**Deadlock** is checked in the kernel and deployment runs (some operation is always
possible). It is off elsewhere: a campaign whose event bound is used up, whose
plans are consumed, whose watch is final or whose inventory is read may rest for
ever.

**Fairness.**
`CampaignStore`: weak fairness of each caller's `Proceed`. A caller that began a
call runs on: the lock is never waited for (`flock` with `LOCK_NB`), and SQLite
waits are bounded. Nobody is obliged to begin a call, and a crash is never
forced. `ProducerGate`: weak fairness of each running executor's step (every
native call has a client timeout) and of the server (its lock wait is bounded by
`lock_timeout`). Campaign events, other sessions, preparations and recovery
are free not to happen. `LeaseWatch`: weak fairness of `Rerun`, the scheduler that
invokes the watch on what is unfinished ("an external scheduler may",
CONTINUOUS_RECONCILIATION.md:86; `WatchEnds` says what one that does gets), and of
the watcher's next step, since it waits for nothing without a
timeout; faults and crashes are finitely many, or nothing could end.
`DataHubInventory`: weak fairness of `Read`; each request has a timeout.
`SemanticPullRequest`: weak fairness of the running operation, and strong fairness
of asking again for the pull request of a commit, the premise of
`PullRequestIsRecorded` ("an operator who keeps asking"): asking is possible only
between other operations, so weak fairness would not oblige it.
The other specifications are about safety and state none.

## 4. What is proved

The modules `X_proofs` hold theorems about `X` for *every* value of its
constants; where a run checks the same property, the run shows it on a small
instance. That each of the projector's events yields a projection is the first part
of `CampaignKernel_proofs`; the store's and the watch's proofs have the few of these
lemmas that they need for themselves.

| Module | Theorem | States |
|---|---|---|
| `CampaignKernel_proofs` | `TypeCorrect` | `Spec => []TypeOK` |
| | `EvidenceIsCurrent` | `Spec => []ClosureHasEvidence` |
| | `MembershipIsReconciled` | `Spec => []ReconciliationCoversMembership` |
| | `DisappearanceIsNotClosure` | `Spec => []SightingsAreAccounted` |
| | `ReadyIsDecided` | `Spec => ReadyOnlyByPolicy` |
| | `ReadyToRetire` | the default policy decides `READY_TO_RETIRE` exactly under the condition stated |
| `CampaignStore_proofs` | `StoreTypeCorrect` | `Spec => []TypeOK` |
| | `RecordedDecisionsAreCurrent` | `Spec => []DecisionsAreCurrent` |
| | `SingleWriter` | `Spec => []ProjectedIsCurrent` |
| | `DatabaseRefusesNothing` | what a caller is about to commit breaks no unique constraint |
| | `CacheIsNeverMistrusted` | `Spec => []CacheIsTrusted` |
| | `RetriesAreAnswered` | `Spec => RetryIsAnswered` |
| `ProducerGate_proofs` | `GateTyped` | `Spec => []TypeOK` |
| | `ExecutedIsTrue` | `Spec => []ExecutedMeansDropped` |
| | `DropsArePlanned` | `Spec => DropsOnlyAsPlanned` |
| | `GateKeepsItsPromise` | `Spec => ImplementsLedger` |
| `GitDbtMigration_proofs` | `GitTypeCorrect` | `Spec => []TypeOK` |
| | `FilesHaveOneCampaign` | `Spec => []OneCampaignPerFile` |
| | `RecordsAreExact` | `Spec /\ [][WritesAlone]_vars => []RecordIsExact` |
| | `OwnerEditsArePreserved` | `Spec /\ [][WritesAlone]_vars => EditsArePreserved` |
| | `OneOperatorIsExact` | with one process, `Spec => []RecordIsExact /\ EditsArePreserved` |
| `LeaseWatch_proofs` | `WatchTypeCorrect` | `Spec => []TypeOK` |
| | `WatchesAreDoneOnce` | `Spec => []WatchIsDoneOnce` |
| | `ClaimsArePublished` | `Spec => []ClaimedOnPublished` |
| | `UnchangedMeansFresh` | `Spec => []UnchangedIsFresh` |
| | `LeaseNeverComesBack` | `Spec => ImplementsLease` |
| `SupersetMigration_proofs` | `SupersetTypeCorrect` | `Spec => []TypeOK` |
| | `CoveredConsumersFollow` | `Spec /\ []OneCommandPerCampaign /\ [][BaselineWaits]_vars => []CoveredFollowParent` |
| | `OneOperatorSuffices` | with one process and `~Concurrent`, `Spec => []CoveredFollowParent` |
| | `GateRereadsAll` | with `OneConsumerPerDataset`, `Spec /\ []OneCommandPerCampaign /\ [][BaselineWaits]_vars => []GateRereadsEveryReceipt` |
| | `OneOperatorRereadsAll` | with `OneConsumerPerDataset`, one process and `~Concurrent`, `Spec => []GateRereadsEveryReceipt` |
| `StoreDeployment_proofs` | `StoreFilesTypeCorrect` | `Spec => []TypeOK` |
| | `OpenIsExclusiveAlways` | `Spec => []OpenIsExclusive` |
| | `RemovalDeletesOnlyPlannedAlways` | `Spec => RemovalDeletesOnlyPlanned` |
| `Boundaries_proofs` | `InventoryTypeCorrect` | `InventorySpec => []InventoryTypeOK` |
| | `CompleteEvidenceReportsTheSteady` | `InventorySpec => []CompleteReportsTheSteady` |
| | `PullRequestTypeCorrect` | `Spec => []TypeOK` |
| | `CurrentReceiptsAreTrue` | `Spec => []CurrentReceiptIsTrue` |
| | `OwnersCommitsStay` | `Spec => OwnerCommitsAreKept` |

The assumptions are those the modules name and TLC evaluates on every run. Most
say that a bound is a natural number or that a placeholder ("no plan", "no
process") is none of what it stands for. Those with content:

- `CampaignKernel`: sightings are inventory dispositions, observations envelopes.
- `CampaignStore`: the callers are finitely many (the room in the log is counted
  per call under way); a request has the payload its event type has (`events.py`
  reads exactly these fields); the projection a log starts from is a projection.
- `GitDbtMigration`: each campaign has a file.
- `LeaseWatch`: the consumer that appears late is not in the inventory the campaign
  starts from; the log it starts from was written by no watch, a publication in
  it renders an earlier manifest, and the publication on record is the log's last.
- `SupersetMigration`: a covered consumer is no parent and has one; each parent is a
  dataset.
- `StoreDeployment`: the active and the retained path differ; the schema version is
  one of the scripts'.
- `DataHubInventory`: there are finitely many entities, and a page has room for one.
- `SemanticPullRequest`: there is room for the commit that Git/dbt applied; a path
  outside the plan is none of its targets.

Some theorems have hypotheses of their own, because the code leaves what they say
to its operators. They stand in the theorem and not in the module; none of
them can be dropped, and the last theorems of each module show that the operator
the runs model (one process) satisfies the first three.

- `WritesAlone` (Git): no command writes a file of the clone while another has
  something to commit or to verify. Everything else may overlap: checks, commits,
  records, crashes, the owner's commits and switches. Without it TLC finds both
  properties violated with two processes: two applies of one plan overlap, and one
  commits or verifies over the file that the other has just written, hiding an edit
  the owner committed. The section that a lock of the clone would have to cover is
  therefore from writing the file to verifying its commit (`git_dbt.py` `apply`,
  `compensate`), and no more. `git_dbt.py` takes no lock; `OneCampaignPerFile` and
  `TypeOK` are proved without the hypothesis.
- `OneCommandPerCampaign` (Superset): the commands of one campaign run one after the
  other. Without it TLC finds a behaviour of 38 steps, no fault in it, in which two
  `plan` commands for one consumer overlap, each proposing its own plan, and the
  covered consumers end on another plan than their parent.
- `BaselineWaits` (Superset): no new inventory is recorded in a campaign while a
  command of it is under way. Without it, see section 5.
- `OneConsumerPerDataset` (Superset): no two consumers of a campaign are the same
  dataset. `plan` takes the consumer from its caller and does not compare it with
  the dataset (`superset_campaign_workflow.py`); where two consumers share one, an
  edit of the owner between their plans leaves the first receipt about a state
  that is gone, and the gate rereads the dataset against the second.

### The inductive invariants

**Kernel.** `KernelInv` is `TypeOK`, `ClosureHasEvidence`,
`ReconciliationCoversMembership` and `sighted = p.known`. The first three are
inductive given types: only a receipt makes a consumer `VALIDATED`, only
`CHANGE_PROPOSED` rebinds a plan (and takes the consumer out of `VALIDATED`), and
every event that changes membership either withdraws the reconciliation or is
one. `SightingsAreAccounted` is not inductive: it speaks of gate-ready states
only, so a step *into* one needs to know what was observed before, which is what
`sighted = p.known` supplies. With `ReadyToRetire` a gate-ready projection has
every known consumer closed. `ReadyOnlyByPolicy` is an action property: no step but
an evaluation enters `READY`, and an evaluation changes nothing its decision reads.

**Store.** `DecisionsAreCurrent` is about the log; why it holds is in the callers.
`StoreInv` adds `Sound` for each: past `Acquire` it holds the lock, and once it has
projected, the length it read is the log's, its key is new and the log as it
stands accepts its event. So nobody commits under it, and an evaluation, which
the projector accepts only with the decision the policy makes *now*, is right when
it is recorded although it was computed before the lock. What a caller read of
the cache or the log is never ahead of the log, which only grows: hence no cache
is taken for corrupt. `RoomIsKept` counts the calls that may still append; it bounds
the log in `TypeOK`.

**Gate.** `GateInv` ties each executor's control point to its plan: who is between
claim and outcome finds `INTENT_RECORDED` and is the only one there
(`HolderIsAlone`), the server knows of a plan only after its claim
(`SentWhenConsumed`), and who is about to record `COMMITTED` has seen the column
gone (`CommittedWasSeen`), which stays so, since nobody makes a legacy column. The
refinement follows step by step: each step maps to one of `GateLedger`'s or changes
neither `ledger` nor `sends`.

**Git.** `GitInv`: plans and records name commits that exist and commits are never
undone, so what a record says of its commit stays true. Whoever has committed,
has a record, or runs an apply or a compensation holds the claim of its file
(`ClaimsHold`), and no claim is given up: two committers of one file would both hold
its one claim. `ExactInv` adds what records say and, in `Knows`, what a command
relies on between its checks: after a commit nothing is uncommitted, so that the
commit at `HEAD` says what the file says when it is verified; and between reading
and committing either nothing is uncommitted (then no commit happens) or the file
still has the edits it had, because uncommitted changes keep the owner out. A commit
or a change of branch, whoever makes it, leaves the worktree clean, and a step that
only records changes no file; so of all that another command can do only writing a
file disturbs this, and `WritesAlone` is all that has to be asked. TLC checked
`ExactInv` under it with two processes before it was proved.

**Superset.** `SupersetInv` is types, `Baseline` for each campaign and `Knows` for each
command. `Baseline`: a consumer with a plan is no longer at a disposition that
inventories report, its dataset is a source of the envelope, and its receipt is
for that plan; a covered consumer that is closed has its parent's receipt. It is
broken by nothing but a second plan while a first is closed upon, or a new
inventory, which resets dispositions: `plan` reads the disposition first and
proposes three store calls later (`Knows` keeps what was read true until then), and
the covered consumers are closed one by one over a receipt that has to stay.
`GateRereadsEveryReceipt` follows from it: the same scope means that every dataset
ever planned is that of the last plan, so every receipt counted is for its
consumer. TLC checked `SupersetInv` with `Concurrent = TRUE` under the two hypotheses,
for one process and (with one fault) for two.

**Lease.** `LeaseInv` has four parts beside types. `LeasesDiffer`: no two leases are
of one manifest. `WatchInv`: what the watch of a lease has appended comes once and in
order, each event *after* those that its next run looks for, and what a running
watch knows at each point; with it a rerun, which sees only the log, goes on where
it stopped. `ClaimInv`: the publication on record is the log's last, verified if the
log says so after it, and a lease being executed or consumed has its publication
sealed before it was issued. `FreshInv`: a watch that observed a late consumer
records it, unless another process's reconciliation came in between. The bound on
the log in `TypeOK` is a counting argument (`BoundInv`): what was appended, the
events the leases' watches have not appended yet, three for each command the
operator has left and what remains of his current one never exceed
`MaxManifest`. `ImplementsLease` needs of all this that leases differ and that the
log only grows: a manifest that was passed is never current again.

**Opening and removal.** `OpenInv`: what a process found of a store (versions
recorded, writer, path) stays true, because records of versions and bindings
are added and never taken back, and a store that somebody has open is not
emptied. `RemovalInv`: one removal at a time, it holds the lock of the file its path
names from before its last look until the store is gone, and everybody else at that
path needs the same lock; so what it confirmed is what it deletes. `TypedInv` adds
the order of the migrations: a process goes through what it has to do from the lowest
version on, everything below is on record, and a version is recorded once. So the
versions on record are always a prefix, although processes that read them at
different moments migrate the same store at the same time.

**Inventory.** `InventoryInv` is about counts while the evidence is complete.
`NeverOvercounted`: the consumers returned are at most as many as the items
counted, so a malformed or missing item leaves a deficit that no later page makes
up, and `Close` finds it. Without a deficit, `BucketIsCounted` has exactly `offset`
consumers of the bucket among those returned, as long as none left the bucket
since its first page; when one did and none joined, the bucket holds fewer than
that page advertised, and the next page's total tells. So a bucket that ends with
its advertised total was returned whole (a subset of a finite set with as many
elements is that set), and `ListedAreSeen` carries this over the buckets before.
Consumers join and leave while this goes on: `SeenWereListed` says that whoever was
returned is at a degree already listed, so a later bucket cannot repeat him.
TLC checked these parts before they were proved, on the reachable states of the
`datahub_paging` instance and, with three entities, as an inductive invariant from
every typed state.

**Pull requests.** `Inv` is types, `EvidenceIsTrue` and `ReceiptsAreTrue`. Nothing a
record names is ever taken back (`Grows`: commits and check runs do not change,
pull requests, commit records and validations only grow), so what was true of a
head when a receipt was put together stays true of that head; CI evidence names a
check of the head it was fetched for, also while an operation is about to confirm
it. A current receipt names the head of now, and needs no more. `OwnersCommitsStay`
needs that a commit's parent exists: the ancestors are defined by recursion over
the commits, `LineUnfolds` gives the least set closed under parents as the function
that the recursion describes, and with it every commit is its own ancestor and has
its parent's. A push that takes effect late was checked when it did, not when it
was sent.

### What is only model-checked

- *Liveness* (`CallsReturn`, `LockIsFreed`, `IntentIsClosed`, `WatchEnds`, `PagingEnds`,
  `PullRequestIsRecorded`): it rests on fairness and `ENABLED`, which the proof
  system does not treat.
- `MigrationsAreTransactional`, `CommittedIsNeverDenied`, `RevokedLeaseIsNotUsed` are
  false of the code (section 5).

No module declares a `RECURSIVE` operator; the store's replay is modelled by
keeping the projections of the log's prefixes instead of a fold.

## 5. Where the code and its documentation disagree

Three runs that TLC refutes; `PROJECT.json` quotes the statements.

1. `gate_denied`: after a lost reply, a column that is gone while its
   replacement was altered makes the classification raise; the gate takes any
   refusal for "not committed" and records that of a transaction that committed.
2. `watch_revoked_lease`: once the watcher has recorded an observation the old
   lease is said to be unusable; an executor that compared manifests before the
   observation claims the lease after it, because the claim looks at the ledger
   and never at the campaign again.
3. `store_migration`: migrations are said to be applied transactionally;
   `executescript` commits every statement by itself and the versions are read
   before the scripts and outside the lock. A crash between two statements leaves
   a store that no later open can migrate; a second opener that read the old
   versions reruns the last script after the first has finished it, and if it
   stops on the way the version is recorded over a store without its unique
   indexes, or with an empty `gate_attempts`.

Observed while modelling and left without a run. Most were seen as behaviours of
the models; what the documents say of them is cited where they say something.

*Policy and store*

- A campaign resumed to `RECONCILING` may be evaluated `READY` on a reconciliation
  made before the last native change (`events.py` 523; ARCHITECTURE.md:114).
- An expired receipt, even of a consumer long stale, makes the manifest of a
  blocked campaign unreadable (`events.py` 173; DECISIONS.md:128).
- A receipt checked against a plan on an unlocked read is accepted after another
  caller re-planned and applied the consumer (`store.py` 2112; `records.py` 130).
- `campaign evaluate` takes its idempotency key from an earlier read than its
  decision, so two evaluations around another event can share a key with
  different content and end in a conflict.
- The cache may stay behind the log after a slow reader's write. By D-017 the
  replay is authoritative, and `CacheIsTrusted` shows that no reader mistakes
  this for corruption.
- `CAMPAIGN_BLOCKED` and `CAMPAIGN_RETIRED` have effects in the projector and no
  operation that emits them.

*Gate*

- A reread that still finds the column is taken as proof that nothing was
  committed; the server's transaction may be waiting for its lock and commit
  later (`postgres_producer.py` 590; `store.py` 1238).
- An executor that stops between claim and outcome leaves `INTENT_RECORDED`; the
  recovery command takes `OUTCOME_UNKNOWN` only (`gate.py` 863; ARCHITECTURE.md:340).
- Resolving an `OUTCOME_UNKNOWN` plan after a later plan dropped the column
  records the earlier plan as `EXECUTED`: the classification looks at the column,
  not at who dropped it.

*Git/dbt*

- An apply that dies after its commit and before `apply.json` is refused for good,
  though the repository holds the planned after state (`git_dbt.py` 357;
  RECOVERY.md:134).
- Between the fingerprint check and the replacement of the file, an edit the
  owner commits is overwritten; the commit that drops it passes every later check
  and is recorded as an exact apply. CONTRACTS.md has source and scope reread
  "immediately before apply", which the code does.
- If the owner returns to the default branch while an apply runs, its commit
  lands there: no command looks at the branch again after the first check.
- `validate` runs on whatever clean commit is checked out, and its receipt cites
  the apply record (`git_dbt.py` 566; RECOVERY.md:136); only the later
  reconciliation compares the two.
- After two compensations from one source commit the third plan equals the
  second: its event key is known, so it is reported as planned and nothing is
  recorded.

*Watch, publication, reconciliation*

- When an operator's publish of an older manifest overwrites the document after
  the watch wrote its own, verification refuses until someone publishes again;
  the watch does not republish. `WatchEnds` names the case.
- CONTRACTS.md (about 546) has publication and verification failures resume; other
  failures are final for that lease, and a newer lease leaves an older unfinished
  watch as it is.
- A crash after the first native write and before its record makes the retry
  create a second document.
- A resumed watch accepts another process's reconciliation, which may have read
  the sources before the observation (`UnchangedIsFresh` names the case).
- An `UNCHANGED` receipt may stand over a verified publication of an earlier
  decision; the gate refuses such a lease (`ClaimedOnPublished`).
- `campaign reconcile` is refused in `RECONCILING` after a crash between its record
  and its evaluation; `campaign evaluate` repairs it.

*Superset*

- With `Concurrent = TRUE` a new inventory during the closing of covered consumers
  makes the gate pass over a receipt it did not reread (CONTRACTS.md:580 has every
  accepted receipt reread), and leaves covered consumers on another plan than
  their parent. Two `plan` commands for one consumer at once do the latter too.
- `plan` takes the consumer and the dataset from its caller and compares neither with
  the other; two consumers planned over one dataset share its gate check.
- Two campaigns may plan the same dataset with different charts: the claimed
  identity includes the chart (`superset.py` 305-312; ARCHITECTURE.md:374-376).
- An owner's edit between the check and the PUT is overwritten; an update that
  timed out may land over a later edit.
- An apply that dies after its PUT is refused for good (`superset.py` 436;
  RECOVERY.md:134).
- `plan` accepts a stale or failed consumer which `extend_inventory` then refuses
  (`events.py` 277), so a compensated one cannot be planned again; a refused plan has
  already replaced `plan.json`.
- After a new inventory an equal plan proposes nothing, since its key is known;
  covered consumers stay `VALIDATED` after their parent is compensated; and a crash
  amid the covered acceptances cannot be resumed by `validate`.
- `campaign reconcile` takes the stored Superset observation of any earlier plan
  (`reconciliation.py` 99-114), two datasets in one campaign never reconcile by it,
  and the command line alone never records a read-only evidence source.

*DataHub and GitHub*

- One consumer that leaves and one that joins between two pages cancel out in the
  counts: the evidence is `COMPLETE` without a consumer that was there all along
  (`datahub.py` 634; CONTRACTS.md:134).
- An answer without a total and without results counts as a complete empty one.
- The commit checks path names only, so an owner's edit of an approved path is
  committed under the approval, and `HEAD` may move between the check and
  `git push`.
- A crash while the tests are written makes the next attempt refuse. An owner who
  closes the pull request while a late creation lands leaves two.
- A CI run that fails after the receipt is not noticed; the reread that confirms a
  head does not look at whether the pull request is open.

*Store files*

- The lock file is unlinked after its lock is released, so a process that opened
  it earlier and one that creates it anew hold different locks: unless the other
  processes are stopped, a removal may delete an event committed meanwhile, and a
  process with an open connection appends to a store that is unlinked.
- A backup's destination is looked at once, at the start; `os.replace` overwrites
  what came there since (`store.py` 581), and two backups racing for one path may
  report each other's file.
- A removal that is cut short may leave sidecars and artifacts removed; finishing
  it needs a new plan, which needs the store file. Opening a store touches its
  WAL files, so that a removal may refuse without a change.
- Restoring an older backup forgets which gate plans were consumed since.

## 6. What is not modelled

- Two commands of different processes on one clone, or on one campaign's Superset
  steps, at the same time: the modules allow it, the runs' instances exclude it. The
  theorems do not (section 4): they hold for any number of processes, exact
  records and the owner's edits as long as no two commands write at the same time,
  covered consumers and the gate's rereading as long as a campaign's Superset
  commands run one after the other.
- The sentinel action of the gate, which touches no table; the observation of
  Git/dbt by reconciliation beyond the membership it reports.
- DataHub, MCP and Superset transport, authentication, capability fingerprints,
  facets and candidate search; SQL text; JSON canonicalisation and schema
  validation: I/O and stateless conversions. Digests are model values.
- The artifact directory of a removal, `verify_backup` and the deployment preflight
  beyond opening: read-only, or files that nothing modelled decides on.
- Operator views, workbench, agent filter: they change no campaign state.
- Fixtures, benchmarks, ablations and the scripts that drive them. Half of the
  repository's lines are such scripts; they call the operations modelled here in
  fixed orders. The map covers about a third of the lines of the package proper;
  the rest is validation, rendering, transport and the read-only parts above.

## 7. Plan

The modules are in place, and every invariant and action property that a passing run
checks is proved for all constants, some of them under the hypotheses of section 4.
What is left:

1. *Liveness*, which only TLC checks.
2. *Hazards without a property* (`PROJECT.json` says why for each): a receipt that
   expires between an event and its manifest, a backup's destination, the unlinked
   lock file, an edit committed between fingerprint and write, validation of
   another commit. The last four are behaviours of the models that no document of the
   repository denies; a property for each would state what the code should do.
3. *A lock of the clone*: should one be added to `git_dbt.py`, `WritesAlone` becomes a
   theorem and the hypothesis goes.
