---------------------------- MODULE ProducerGate ----------------------------
(***************************************************************************)
(* The producer gate and the PostgreSQL action it executes (gate.py,       *)
(* postgres_producer.py and the gate ledger of store.py).  Executors are   *)
(* separate processes that may present the same plan; the database server  *)
(* runs the statement in a transaction of its own, which outlives a client *)
(* that stopped waiting; the campaign and the table may change meanwhile.  *)
(* A manifest is identified by its number in the campaign's history, and   *)
(* the one plan issued for a manifest by the same number.                  *)
(***************************************************************************)
EXTENDS Naturals

CONSTANTS Executors,    \* processes that run `producer retire` or `producer resolve-postgres`
          MaxManifest,  \* bound on campaign history
          MaxDDL        \* bound on schema changes made by others

ASSUME MaxManifestAssumption == MaxManifest \in Nat \ {0}
ASSUME MaxDDLAssumption == MaxDDL \in Nat

GatePlans == 1 .. MaxManifest
NoPlan == 0

\* The table: whether the legacy column exists, the version of its replacement
\* (with the table's identity), and the version of the other columns.
Tables == [legacy : BOOLEAN, replacement : 0 .. MaxDDL, rest : 0 .. MaxDDL]
Pristine == [legacy |-> TRUE, replacement |-> 0, rest |-> 0]

Outcomes == {"COMMITTED", "NOT_COMMITTED", "OUTCOME_UNKNOWN"}
Open == {"NONE", "ISSUED"}
Statuses == Open \cup {"INTENT_RECORDED", "EXECUTED", "NOT_COMMITTED", "OUTCOME_UNKNOWN"}

\* Where an executor is: the control points between its durable or native steps.
Points == {"idle", "verifying", "verified", "rechecked", "claimed", "connected",
           "sent", "replied", "lost", "closing", "resolving"}
Idle == [at |-> "idle", plan |-> NoPlan, outcome |-> "OUTCOME_UNKNOWN"]

VARIABLES
  manifest,   \* the campaign's current manifest
  ready,      \* whether its decision is READY_TO_RETIRE
  ledger,     \* status of each plan in gate_plans and gate_attempts
  before,     \* the table each plan was made for
  table,      \* the producer's table
  tx,         \* the server's transaction for each plan
  exec,       \* the executors
  \* Ghosts, read by the properties only:
  sends,      \* how often each plan's statement was sent
  abandoned   \* plans whose executor stopped before it could record an outcome

campaign == <<manifest, ready>>
native == <<table, tx>>
ghosts == <<sends, abandoned>>
vars == <<manifest, ready, ledger, before, table, tx, exec, sends, abandoned>>

\* The values the variables take; no plan's statement is sent twice.
TypeOK ==
  /\ manifest \in GatePlans /\ ready \in BOOLEAN
  /\ ledger \in [GatePlans -> Statuses]
  /\ before \in [GatePlans -> Tables]
  /\ table \in Tables
  /\ tx \in [GatePlans -> {"none", "open", "committed", "refused", "failed"}]
  /\ exec \in [Executors -> [at : Points, plan : GatePlans \cup {NoPlan},
                             outcome : Outcomes]]
  /\ sends \in [GatePlans -> 0 .. 1]
  /\ abandoned \in SUBSET GatePlans

Init ==
  /\ manifest = 1 /\ ready \in BOOLEAN
  /\ ledger = [q \in GatePlans |-> "NONE"]
  /\ before = [q \in GatePlans |-> Pristine]
  /\ table = Pristine
  /\ tx = [q \in GatePlans |-> "none"]
  /\ exec = [e \in Executors |-> Idle]
  /\ sends = [q \in GatePlans |-> 0]
  /\ abandoned = {}

At(e, point) == exec[e].at = point
Goto(e, point) == exec' = [exec EXCEPT ![e].at = point]
Closing(e, outcome) ==
  exec' = [exec EXCEPT ![e].at = "closing", ![e].outcome = outcome]
Stop(e) == exec' = [exec EXCEPT ![e] = Idle]

-----------------------------------------------------------------------------
(* The campaign and the table, as others change them.                      *)

\* Any event of the campaign gives it another manifest, ready or not.
AppendEvent ==
  /\ manifest < MaxManifest
  /\ manifest' = manifest + 1
  /\ ready' \in BOOLEAN
  /\ UNCHANGED <<ledger, before, table, tx, exec, sends, abandoned>>

\* Another session alters the table.  The legacy column itself is dropped by
\* the gate only.
AlterTable ==
  /\ \/ table.replacement < MaxDDL /\ table' = [table EXCEPT !.replacement = @ + 1]
     \/ table.rest < MaxDDL /\ table' = [table EXCEPT !.rest = @ + 1]
  /\ UNCHANGED <<manifest, ready, ledger, before, tx, exec, sends, abandoned>>

-----------------------------------------------------------------------------
(* Issuing and verifying a plan.                                           *)

\* prepare: the plan binds the ready manifest and the table as observed; the
\* ledger holds one plan per manifest.
IssuePlan ==
  /\ ready /\ table.legacy
  /\ ledger[manifest] = "NONE"
  /\ ledger' = [ledger EXCEPT ![manifest] = "ISSUED"]
  /\ before' = [before EXCEPT ![manifest] = table]
  /\ UNCHANGED <<manifest, ready, table, tx, exec, sends, abandoned>>

\* execute: the current manifest is ready and its plan is issued and unconsumed.
Start(e) ==
  /\ At(e, "idle")
  /\ ready
  /\ ledger[manifest] = "ISSUED"
  /\ exec' = [exec EXCEPT ![e].at = "verifying", ![e].plan = manifest]
  /\ UNCHANGED <<campaign, ledger, before, native, ghosts>>

\* _verify_ready_state: a fresh observation reconstructs the issued action plan.
Verify(e) ==
  /\ At(e, "verifying")
  /\ table = before[exec[e].plan]
  /\ Goto(e, "verified")
  /\ UNCHANGED <<campaign, ledger, before, native, ghosts>>

\* The manifest is read again after the slow external checks.
RecheckManifest(e) ==
  /\ At(e, "verified")
  /\ manifest = exec[e].plan
  /\ Goto(e, "rechecked")
  /\ UNCHANGED <<campaign, ledger, before, native, ghosts>>

\* Mutation: the claim does not look for an earlier attempt on the plan.
claim_gate_plan_Unguarded(e) ==
  /\ At(e, "rechecked")
  /\ ledger' = [ledger EXCEPT ![exec[e].plan] = "INTENT_RECORDED"]
  /\ Goto(e, "claimed")
  /\ UNCHANGED <<campaign, before, native, ghosts>>

\* The unique indexes let one attempt consume a plan.  Neither the campaign nor
\* its manifest is looked at again.
claim_gate_plan(e) ==
  /\ At(e, "rechecked")
  /\ ledger[exec[e].plan] = "ISSUED"
  /\ ledger' = [ledger EXCEPT ![exec[e].plan] = "INTENT_RECORDED"]
  /\ Goto(e, "claimed")
  /\ UNCHANGED <<campaign, before, native, ghosts>>

\* A check before the claim refuses, or the claim finds the plan consumed or
\* the store locked: the plan is not consumed.
RefuseBeforeClaim(e) ==
  /\ exec[e].at \in {"verifying", "verified", "rechecked"}
  /\ Stop(e)
  /\ UNCHANGED <<campaign, ledger, before, native, ghosts>>

-----------------------------------------------------------------------------
(* The action: after the claim, through the mutation client.               *)

\* The mutation client is built and its own observation meets the plan.
Connect(e) ==
  /\ At(e, "claimed")
  /\ table = before[exec[e].plan]
  /\ Goto(e, "connected")
  /\ UNCHANGED <<campaign, ledger, before, native, ghosts>>

\* Mutation: the refusal is raised without closing the intent.
RefuseBeforeSend_Unrecorded(e) ==
  /\ At(e, "claimed")
  /\ Stop(e)
  /\ UNCHANGED <<campaign, ledger, before, native, ghosts>>

\* apply refuses before it sends anything: expired, not allowed, not
\* observable, or the table is no longer the planned one.
RefuseBeforeSend(e) ==
  /\ At(e, "claimed")
  /\ Closing(e, "NOT_COMMITTED")
  /\ UNCHANGED <<campaign, ledger, before, native, ghosts>>

\* The client cannot be built: a reread that reconstructs the plan proves that
\* nothing was committed, any other leaves the outcome unknown.
ClientUnavailable(e) ==
  /\ At(e, "claimed")
  /\ \/ Closing(e, "OUTCOME_UNKNOWN")
     \/ table = before[exec[e].plan] /\ Closing(e, "NOT_COMMITTED")
  /\ UNCHANGED <<campaign, ledger, before, native, ghosts>>

execute_drop(e) ==
  LET q == exec[e].plan IN
  /\ At(e, "connected")
  /\ tx' = [tx EXCEPT ![q] = "open"]
  /\ sends' = [sends EXCEPT ![q] = @ + 1]
  /\ Goto(e, "sent")
  /\ UNCHANGED <<campaign, ledger, before, table, abandoned>>

\* Mutation: the statement runs without its checks under the table lock.
Commit_Unchecked(q) ==
  /\ tx[q] = "open"
  /\ table' = [table EXCEPT !.legacy = FALSE]
  /\ tx' = [tx EXCEPT ![q] = "committed"]
  /\ UNCHANGED <<campaign, ledger, before, exec, ghosts>>

\* drop_sql at the server: under an exclusive lock the table is compared with
\* the plan, the column dropped and the replacement checked, all or nothing.
Commit(q) ==
  /\ tx[q] = "open"
  /\ table = before[q]
  /\ table' = [table EXCEPT !.legacy = FALSE]
  /\ tx' = [tx EXCEPT ![q] = "committed"]
  /\ UNCHANGED <<campaign, ledger, before, exec, ghosts>>

\* One of the transaction's own checks raises.
RefuseInTransaction(q) ==
  /\ tx[q] = "open"
  /\ table # before[q]
  /\ tx' = [tx EXCEPT ![q] = "refused"]
  /\ UNCHANGED <<campaign, ledger, before, table, exec, ghosts>>

\* Lock timeout or a server error: the transaction ends without effect.
Fail(q) ==
  /\ tx[q] = "open"
  /\ tx' = [tx EXCEPT ![q] = "failed"]
  /\ UNCHANGED <<campaign, ledger, before, table, exec, ghosts>>

\* The client's answer: committed, or an error that names one of the checks.
Reply(e) ==
  /\ At(e, "sent")
  /\ \/ tx[exec[e].plan] = "committed" /\ Goto(e, "replied")
     \/ tx[exec[e].plan] = "refused" /\ Closing(e, "NOT_COMMITTED")
  /\ UNCHANGED <<campaign, ledger, before, native, ghosts>>

\* The client times out, is cut off, or gets an error that proves nothing: the
\* transaction may be open, committed or over.
LoseReply(e) ==
  /\ At(e, "sent")
  /\ Goto(e, "lost")
  /\ UNCHANGED <<campaign, ledger, before, native, ghosts>>

-----------------------------------------------------------------------------
(* Classifying and recording the outcome.                                  *)

\* _verify_committed, as a condition on the table observed.
VerifiedCommitted(q) == ~table.legacy /\ table.replacement = before[q].replacement

\* The fingerprint covers every column; it is compared while the column exists.
SameFingerprint(q) == table = before[q]

\* After a committed answer the observer rereads the table.
RereadAfterReply(e) ==
  /\ At(e, "replied")
  /\ \/ Closing(e, "OUTCOME_UNKNOWN")                   \* observer unavailable
     \/ VerifiedCommitted(exec[e].plan) /\ Closing(e, "COMMITTED")
  /\ UNCHANGED <<campaign, ledger, before, native, ghosts>>

\* Mutation: any table other than the planned one counts as committed.
Classified_AnyChange(q) ==
  CASE ~table.legacy /\ VerifiedCommitted(q) -> "COMMITTED"
    [] ~table.legacy /\ ~VerifiedCommitted(q) -> "REFUSED"
    [] table.legacy /\ SameFingerprint(q) -> "NOT_COMMITTED"
    [] OTHER -> "COMMITTED"

\* _classify_observed_outcome; a column that is gone with its replacement
\* changed is refused, not classified.
Classified(q) ==
  CASE ~table.legacy /\ VerifiedCommitted(q) -> "COMMITTED"
    [] ~table.legacy /\ ~VerifiedCommitted(q) -> "REFUSED"
    [] table.legacy /\ SameFingerprint(q) -> "NOT_COMMITTED"
    [] OTHER -> "OUTCOME_UNKNOWN"

\* After a lost answer: the gate takes a refusal out of apply, whatever its
\* cause, for an action not committed.
RereadAfterLoss(e) ==
  LET seen == Classified(exec[e].plan) IN
  /\ At(e, "lost")
  /\ \/ Closing(e, "OUTCOME_UNKNOWN")                   \* observer unavailable
     \/ Closing(e, IF seen = "REFUSED" THEN "NOT_COMMITTED" ELSE seen)
  /\ UNCHANGED <<campaign, ledger, before, native, ghosts>>

\* Mutation: an outcome may be written over a resolved one.
Recorded_Overwrites(q, from, outcome) ==
  ledger' = [ledger EXCEPT ![q] = IF outcome = "COMMITTED" THEN "EXECUTED" ELSE outcome]

\* _finish_gate_attempt and _resolve_gate_attempt: only from the status expected.
Recorded(q, from, outcome) ==
  /\ ledger[q] = from
  /\ ledger' = [ledger EXCEPT ![q] = IF outcome = "COMMITTED" THEN "EXECUTED" ELSE outcome]

FinishAttempt(e) ==
  /\ At(e, "closing")
  /\ Recorded(exec[e].plan, "INTENT_RECORDED", exec[e].outcome)
  /\ Stop(e)
  /\ UNCHANGED <<campaign, before, native, ghosts>>

\* producer resolve-postgres: one unknown attempt, reread and classified; a reread that
\* is refused or still unknown changes nothing.
Reread(e, q) ==
  /\ At(e, "idle")
  /\ ledger[q] = "OUTCOME_UNKNOWN"
  /\ Classified(q) \in {"COMMITTED", "NOT_COMMITTED"}
  /\ exec' = [exec EXCEPT ![e] = [at |-> "resolving", plan |-> q,
                                  outcome |-> Classified(q)]]
  /\ UNCHANGED <<campaign, ledger, before, native, ghosts>>

ResolveAttempt(e) ==
  /\ At(e, "resolving")
  /\ Recorded(exec[e].plan, "OUTCOME_UNKNOWN", exec[e].outcome)
  /\ Stop(e)
  /\ UNCHANGED <<campaign, before, native, ghosts>>

\* Another executor resolved the attempt first.
ResolveRefused(e) ==
  /\ At(e, "resolving")
  /\ ledger[exec[e].plan] # "OUTCOME_UNKNOWN"
  /\ Stop(e)
  /\ UNCHANGED <<campaign, ledger, before, native, ghosts>>

\* The process dies after its claim, or cannot write because another process
\* holds the store lock, which is never waited for.
Interrupt(e) ==
  /\ exec[e].at \notin {"idle", "verifying", "verified", "rechecked"}
  /\ abandoned' = IF At(e, "resolving") THEN abandoned
                                        ELSE abandoned \cup {exec[e].plan}
  /\ Stop(e)
  /\ UNCHANGED <<campaign, ledger, before, native, sends>>

-----------------------------------------------------------------------------
Step(e) ==
  \/ Start(e) \/ Verify(e) \/ RecheckManifest(e) \/ claim_gate_plan(e)
  \/ RefuseBeforeClaim(e)
  \/ Connect(e) \/ RefuseBeforeSend(e) \/ ClientUnavailable(e) \/ execute_drop(e)
  \/ Reply(e) \/ LoseReply(e) \/ RereadAfterReply(e) \/ RereadAfterLoss(e)
  \/ FinishAttempt(e) \/ ResolveAttempt(e) \/ ResolveRefused(e)

Server == \E q \in GatePlans : Commit(q) \/ RefuseInTransaction(q) \/ Fail(q)

Next ==
  \/ AppendEvent \/ AlterTable \/ IssuePlan
  \/ Server
  \/ \E e \in Executors : Step(e) \/ Interrupt(e) \/ \E q \in GatePlans : Reread(e, q)

\* A running executor takes its next step unless it is interrupted (each native
\* call has a client timeout), and the server ends every transaction (its lock
\* wait is bounded).  Nothing makes the campaign, other sessions or an operator
\* act.
Fairness == WF_vars(Server) /\ \A e \in Executors : WF_vars(~At(e, "idle") /\ Step(e))

Spec == Init /\ [][Next]_vars /\ Fairness

-----------------------------------------------------------------------------
\* The gate keeps its promise: plans are consumed once, before their action,
\* acted on at most once and never reopened, whoever races or crashes.
Ledger == INSTANCE GateLedger WITH status <- ledger, acted <- sends
ImplementsLedger == Ledger!Spec

\* The column is dropped only from the table that a consumed plan was made for,
\* even when the table changed after the last check by the client.
DropsOnlyAsPlanned ==
  [][table.legacy /\ ~table'.legacy
       => \E q \in GatePlans : ledger[q] \notin Open /\ table = before[q]]_vars

\* EXECUTED is never claimed for a column that is still there, whichever of the
\* answer, the reread or a later resolution put it on record.
ExecutedMeansDropped ==
  \A q \in GatePlans : ledger[q] = "EXECUTED" => ~table.legacy

\* A consumed plan gets an outcome, unless its executor was interrupted.
IntentIsClosed ==
  \A q \in GatePlans :
     ledger[q] = "INTENT_RECORDED" ~> ledger[q] # "INTENT_RECORDED" \/ q \in abandoned

-----------------------------------------------------------------------------
(* A statement of the repository that the code does not keep.              *)

\* store.py: NOT_COMMITTED closes an intent "after native state proves no
\* commit".  A reread that finds the plan's own transaction committed does not
\* end in NOT_COMMITTED.
CommittedIsNeverDenied ==
  [][\A e \in Executors :
       At(e, "lost") /\ exec'[e].at = "closing" /\ tx[exec[e].plan] = "committed"
         => exec'[e].outcome # "NOT_COMMITTED"]_vars
=============================================================================
