----------------------------- MODULE LeaseWatch -----------------------------
(***************************************************************************)
(* The watch of a Retirement Lease with the workflows it drives (watch.py, *)
(* reconciliation.py, publication.py), next to the same workflows run by   *)
(* an operator, and the gate that consumes the lease (gate.py).            *)
(*                                                                         *)
(* The watcher holds the store lock for its whole run and keeps nothing    *)
(* else: after a crash it finds where to go on in the event log.  An       *)
(* operator's workflow takes the lock for each event only, so that events  *)
(* of others may come between its reads and its event.                     *)
(*                                                                         *)
(* A manifest is identified by the length of the log it is made from (its  *)
(* digest covers the history), a published summary by the manifest it      *)
(* renders, and a lease by its number in the order of issue.               *)
(***************************************************************************)
EXTENDS CampaignProjection, Sequences, SequencesExt

CONSTANTS Watcher, Operator,  \* the processes
          NoProcess,          \* the store lock is free
          Late,               \* a consumer that may appear in the sources
          BaseLog,            \* the log at the start,
          BaseProjection,     \*   its projection
          BasePublication,    \*   and the publication on record
          Commands,           \* what the operator runs
          MaxLeases, MaxCommands, MaxFaults, MaxDocuments  \* bounds

ASSUME BoundsAssumption == {MaxLeases, MaxCommands, MaxFaults, MaxDocuments} \subseteq Nat
ASSUME LateAssumption == Late \in Consumers \ BaseProjection.inventory
ASSUME ProjectionAssumption == BaseProjection \in Projections
ASSUME CommandsAssumption ==
  Commands \subseteq {"reconciling", "evaluating", "publishing", "verifying"}
ASSUME ProcessAssumption == Watcher # Operator /\ NoProcess \notin {Watcher, Operator}

Processes == {Watcher, Operator}

EventTypes == {"WATCH", "STALE", "RECONCILED", "EVALUATED", "PUBLISHED", "VERIFIED"}
\* by is the lease whose watch appended the event (0: nobody's), of the manifest
\* a publication renders, ready whether the campaign may be retired after it.
MaxManifest == Len(BaseLog) + 6 * MaxLeases + 3 * MaxCommands
Leases == 1 .. MaxLeases
Events == [type : EventTypes, by : 0 .. MaxLeases, of : 0 .. MaxManifest, ready : BOOLEAN]

\* publication.of and urn are 0 while nothing is published.
Publications == [of : 0 .. MaxManifest, urn : 0 .. MaxDocuments, verified : BOOLEAN]

\* What is on record as published is what the log says: the last publication of
\* all, read back since if it is verified.
OnRecord(history, pub) ==
  pub.of > 0 =>
    \E i \in DOMAIN history :
      /\ history[i].type = "PUBLISHED" /\ history[i].of = pub.of
      /\ \A k \in i + 1 .. Len(history) : history[k].type # "PUBLISHED"
      /\ pub.verified => \E j \in i + 1 .. Len(history) : history[j].type = "VERIFIED"

ASSUME BaseAssumption ==
  /\ BaseLog \in Seq(Events) /\ BasePublication \in Publications
  /\ \A i \in DOMAIN BaseLog :
        BaseLog[i].by = 0 /\ (BaseLog[i].type = "PUBLISHED" => BaseLog[i].of < i)
  /\ OnRecord(BaseLog, BasePublication)

Results == {"UNCHANGED", "REVERSED", "PARTIAL", "UNAVAILABLE", "FAILED"}
Phases == {"NONE", "RECONCILIATION", "PUBLICATION", "VERIFICATION"}
NotWatched == [result |-> "NONE", phase |-> "NONE"]

VARIABLES
  log, projection, publication,  \* the campaign, as its store holds it
  lock,       \* who holds the store lock between steps
  run,        \* the step each process is at, and what it has read
  issued,     \* the leases issued: the manifest of each, whether it has expired
  claimed,    \* leases consumed by the gate
  gate,       \* the lease that the gate's execution under way has verified (0: none)
  receipt,    \* watch receipts on disk
  documents,  \* DataHub: the summary each document holds (0: no document)
  late,       \* whether the sources show the late consumer
  commands, faults,  \* how many remain
  lateAt      \* ghost: late, when the watch of each lease observed

campaign == <<log, projection, publication>>
sources == <<documents, late>>
budget == <<commands, faults>>
vars == <<campaign, lock, run, issued, claimed, gate, receipt, sources, budget, lateAt>>

Idle == [at |-> "idle", lease |-> 0, observed |-> {}, complete |-> FALSE,
         stale |-> FALSE, of |-> 0, urn |-> 0]
Points == {"idle", "reconciling", "staling", "recording", "evaluating", "publishing",
           "writing", "written", "verifying", "reread", "done"}

Init ==
  /\ log = BaseLog /\ projection = BaseProjection /\ publication = BasePublication
  /\ lock = NoProcess
  /\ run = [w \in Processes |-> Idle]
  /\ issued = <<>> /\ claimed = {} /\ gate = 0
  /\ receipt = [q \in Leases |-> NotWatched]
  /\ documents = [u \in 1 .. MaxDocuments |->
                    IF u = BasePublication.urn THEN BasePublication.of ELSE 0]
  /\ late = FALSE
  /\ commands = MaxCommands /\ faults = MaxFaults
  /\ lateAt = [q \in Leases |-> FALSE]

At(w, point) == run[w].at = point
Goto(w, point) == run' = [run EXCEPT ![w].at = point]
Manifest == Len(log)
Ready(p) == p.state = "READY" /\ Decision(p) = "READY_TO_RETIRE"

\* The store lock admits an event of w, or a row of the gate ledger.
Free(w) == lock \in {w, NoProcess}

Appended(w, type, of, p, pub) ==
  /\ log' = Append(log, [type |-> type, by |-> run'[w].lease, of |-> of, ready |-> Ready(p)])
  /\ projection' = p /\ publication' = pub

-----------------------------------------------------------------------------
(* The lease.                                                              *)

\* Mutation: the manifest is looked at before the ledger.
LeaseStatus_ManifestFirst(q) ==
  CASE q > Len(issued) -> "NONE"
    [] q <= Len(issued) /\ Manifest # issued[q].manifest -> "INVALIDATED"
    [] q <= Len(issued) /\ Manifest = issued[q].manifest /\ q \in claimed -> "CONSUMED"
    [] OTHER -> IF issued[q].expired THEN "EXPIRED" ELSE "ISSUED"

LeaseStatus(q) ==
  CASE q > Len(issued) -> "NONE"
    [] q <= Len(issued) /\ q \in claimed -> "CONSUMED"
    [] q <= Len(issued) /\ q \notin claimed /\ Manifest # issued[q].manifest -> "INVALIDATED"
    [] OTHER -> IF issued[q].expired THEN "EXPIRED" ELSE "ISSUED"

Latest == Len(issued)

\* prepare: the campaign is ready and its publication verified; which decision
\* that publication tells is left to the execution.  One plan per manifest.
IssueLease ==
  /\ Free(NoProcess)
  /\ Ready(projection) /\ publication.verified
  /\ Latest < MaxLeases /\ \A q \in 1 .. Latest : issued[q].manifest # Manifest
  /\ issued' = Append(issued, [manifest |-> Manifest, expired |-> FALSE])
  /\ UNCHANGED <<campaign, lock, run, claimed, gate, receipt, sources, budget, lateAt>>

\* The event just before the publication's is the manifest it renders, or the
\* publication can never be verified.
PublishedAt == SelectLastInSeq(log, LAMBDA e : e.type = "PUBLISHED" /\ e.of = publication.of)
Reconstructible == publication.of > 0 /\ PublishedAt - 1 = publication.of
ReadsBack == publication.urn > 0 /\ documents[publication.urn] = publication.of

\* Mutation: a verified publication will do, whatever it tells.
GatePublication_AnyDecision == publication.verified /\ Reconstructible /\ ReadsBack

\* _verify_publication: it tells the current decision and evidence, and DataHub
\* still holds it.
GatePublication ==
  /\ publication.verified /\ Reconstructible /\ ReadsBack
  /\ log[publication.of].ready
  /\ \A i \in publication.of + 1 .. Manifest : log[i].type # "RECONCILED"

Observable == IF late THEN projection.inventory \cup {Late} ELSE projection.inventory

\* execute, up to its second look at the manifest: the latest lease is the
\* current manifest's, in force and unconsumed, and what it relies on stands.
GateVerify ==
  /\ gate = 0 /\ Latest > 0
  /\ LeaseStatus(Latest) = "ISSUED"
  /\ Ready(projection) /\ Observable = projection.current
  /\ GatePublication
  /\ gate' = Latest
  /\ UNCHANGED <<campaign, lock, run, issued, claimed, receipt, sources, budget, lateAt>>

\* The claim needs the lock, and looks at neither the campaign nor the clock.
GateClaim ==
  /\ gate # 0 /\ Free(NoProcess) /\ gate \notin claimed
  /\ claimed' = claimed \cup {gate} /\ gate' = 0
  /\ UNCHANGED <<campaign, lock, run, issued, receipt, sources, budget, lateAt>>

GateRefuse ==
  /\ gate # 0 /\ gate' = 0
  /\ UNCHANGED <<campaign, lock, run, issued, claimed, receipt, sources, budget, lateAt>>

-----------------------------------------------------------------------------
(* The watch: where a run begins, and how it ends.                         *)

WatchedAt(q) == SelectInSeq(log, LAMBDA e : e.type = "WATCH" /\ e.by = q)
Observed(q) == WatchedAt(q) > 0

\* Mutation: the search begins at the start of the log.
EventAfter_Any(i, type) == SelectInSeq(log, LAMBDA e : e.type = type)
EventAfter(i, type) == SelectInSubSeq(log, i + 1, Len(log), LAMBDA e : e.type = type)

\* _retryable_receipt.
Retryable(q) == receipt[q].result = "FAILED" /\ receipt[q].phase \in {"PUBLICATION", "VERIFICATION"}
Final(q) == receipt[q] # NotWatched /\ ~Retryable(q)

\* The first run on a lease: it has to be issued and current.  The observation
\* is an event of its own, and so ends the lease.
Observe ==
  LET q == Latest IN
  /\ At(Watcher, "idle") /\ Free(Watcher) /\ q > 0
  /\ ~Observed(q) /\ ~Final(q)
  /\ LeaseStatus(q) = "ISSUED" /\ MayRecordWatch(projection)
  /\ lock' = Watcher
  /\ run' = [run EXCEPT ![Watcher] = [Idle EXCEPT !.at = "reconciling", !.lease = q]]
  /\ Appended(Watcher, "WATCH", 0, projection, publication)
  /\ lateAt' = [lateAt EXCEPT ![q] = late]
  /\ UNCHANGED <<issued, claimed, gate, receipt, sources, budget>>

\* A later run, after a crash or a failure to publish or verify.
Rerun ==
  LET q == Latest
      reconciled == EventAfter(WatchedAt(q), "RECONCILED")
      evaluated == EventAfter(WatchedAt(q), "EVALUATED") IN
  /\ At(Watcher, "idle") /\ Free(Watcher) /\ q > 0
  /\ Observed(q) /\ ~Final(q)
  /\ lock' = Watcher
  /\ run' = [run EXCEPT ![Watcher] =
               [Idle EXCEPT !.lease = q,
                            !.at = IF reconciled = 0 THEN "reconciling"
                                   ELSE IF evaluated = 0 THEN "evaluating"
                                   ELSE "publishing"]]
  /\ UNCHANGED <<campaign, issued, claimed, gate, receipt, sources, budget, lateAt>>

\* `campaign evaluate` appends nothing to a campaign that is decided.
Start(command) ==
  /\ At(Operator, "idle") /\ commands > 0 /\ commands' = commands - 1
  /\ command = "evaluating" => projection.state \notin {"BLOCKED", "READY"}
  /\ run' = [run EXCEPT ![Operator].at = command]
  /\ UNCHANGED <<campaign, lock, issued, claimed, gate, receipt, sources, faults, lateAt>>

\* A process stops; the operating system frees its lock.
Stop(w) ==
  /\ run' = [run EXCEPT ![w] = Idle]
  /\ lock' = IF lock = w THEN NoProcess ELSE lock

\* The phase a watch reports when it fails.
PhaseAt(point) ==
  CASE point \in {"reconciling", "staling", "recording", "evaluating"} -> "RECONCILIATION"
    [] point \in {"publishing", "writing", "written"} -> "PUBLICATION"
    [] point \in {"verifying", "reread"} -> "VERIFICATION"

\* A refusal or an exception ends the command; a watch leaves a receipt.
Fails(w, result) ==
  /\ Stop(w)
  /\ receipt' = IF w = Watcher
                THEN [receipt EXCEPT ![run[w].lease] =
                        [result |-> result, phase |-> PhaseAt(run[w].at)]]
                ELSE receipt

Unchanged == UNCHANGED <<issued, claimed, gate, sources, budget, lateAt>>

\* DataHub is not reachable, refuses, pages inconsistently, indexes too late,
\* shows another scope, or an exception is raised.  A refusal reported as PARTIAL
\* ends a watch as UNAVAILABLE does.
Fault(w) ==
  /\ run[w].at \in {"reconciling", "recording", "publishing", "writing", "verifying"}
  /\ faults > 0 /\ faults' = faults - 1
  /\ \E result \in {"FAILED", "UNAVAILABLE"} : Fails(w, result)
  /\ UNCHANGED <<campaign, issued, claimed, gate, sources, commands, lateAt>>

Crash(w) ==
  /\ ~At(w, "idle")
  /\ faults > 0 /\ faults' = faults - 1
  /\ Stop(w)
  /\ UNCHANGED <<campaign, issued, claimed, gate, receipt, sources, commands, lateAt>>

\* The operator finds the store locked, or the projector refuses.
EventRefused(w, accepted) ==
  /\ IF w = Watcher THEN ~accepted ELSE ~(accepted /\ Free(w))
  /\ Fails(w, "FAILED")
  /\ UNCHANGED campaign /\ Unchanged

\* The process goes on at a point with the fields its later steps read.
Proceed(w, fields) == run' = [run EXCEPT ![w] = [fields EXCEPT !.lease = run[w].lease]]

\* After an operator's command is done it stops; the watch goes on to its next phase.
Then(w, point) == Proceed(w, [Idle EXCEPT !.at = IF w = Watcher THEN point ELSE "idle"])

-----------------------------------------------------------------------------
(* reconcile.                                                              *)

\* DataHub's inventory and a reread of the Git source.
ReadSources(w) ==
  /\ At(w, "reconciling")
  /\ \E complete, intact \in BOOLEAN :
       Proceed(w, [Idle EXCEPT
                     !.at = IF ~intact /\ \E c \in projection.known \ {Late} :
                                            projection.disp[c] = "VALIDATED"
                            THEN "staling" ELSE "recording",
                     !.observed = Observable,
                     !.complete = complete /\ intact])
  /\ UNCHANGED <<campaign, lock, receipt>> /\ Unchanged

\* The consumer whose source is no longer the validated one.
Migrated == CHOOSE c \in Consumers : c # Late

RecordStale(w) ==
  /\ At(w, "staling")
  /\ \/ /\ Free(w) /\ MayChangeDisposition(projection, Migrated, "STALE")
        /\ Goto(w, "recording")
        /\ Appended(w, "STALE", 0,
                    DispositionChanged(projection, Migrated, "STALE", NoPlan), publication)
        /\ UNCHANGED <<lock, receipt>> /\ Unchanged
     \/ EventRefused(w, MayChangeDisposition(projection, Migrated, "STALE"))

RecordReconciliation(w) ==
  LET observed == run[w].observed IN
  /\ At(w, "recording")
  /\ \/ /\ Free(w) /\ MayRecordReconciliation(projection)
        /\ Proceed(w, [Idle EXCEPT !.at = "evaluating"])
        /\ Appended(w, "RECONCILED", 0,
                    ReconciliationRecorded(projection, observed,
                                           [c \in Consumers |-> "IDENTIFIED"],
                                           [live |-> TRUE, complete |-> run[w].complete]),
                    publication)
        /\ UNCHANGED <<lock, receipt>> /\ Unchanged
     \/ EventRefused(w, MayRecordReconciliation(projection))

\* evaluate computes the decision from its own read, the projector repeats it.
Evaluate(w) ==
  LET accepted == MayEvaluate(projection, Decision(projection), projection.time) IN
  /\ At(w, "evaluating")
  /\ \/ /\ Free(w) /\ accepted
        /\ Then(w, "publishing")
        /\ Appended(w, "EVALUATED", 0, PolicyEvaluated(projection), publication)
        /\ UNCHANGED <<lock, receipt>> /\ Unchanged
     \/ EventRefused(w, accepted)

-----------------------------------------------------------------------------
(* publish.                                                                *)

\* Mutation: a summary recorded before a crash is published again.
Resumes_Publishing(w) == TRUE

\* A watch publishes unless a publication follows its evaluation.
Resumes(w) ==
  w = Operator \/ EventAfter(EventAfter(WatchedAt(run[w].lease), "EVALUATED"), "PUBLISHED") = 0

\* Mutation: the document on record is not looked up.
KnownDocument_None == 0
KnownDocument == publication.urn

ReadManifest(w) ==
  /\ At(w, "publishing")
  /\ IF Resumes(w)
     THEN Proceed(w, [Idle EXCEPT !.at = "writing", !.of = Manifest, !.urn = KnownDocument])
     ELSE Goto(w, "verifying")
  /\ UNCHANGED <<campaign, lock, receipt>> /\ Unchanged

\* The document on record already reads back as the summary.
ReuseWrite(w) ==
  /\ At(w, "writing")
  /\ run[w].urn > 0 /\ documents[run[w].urn] = run[w].of
  /\ Goto(w, "written")
  /\ UNCHANGED <<campaign, lock, receipt>> /\ Unchanged

\* save_document: to the document on record, or to one that DataHub creates.
\* The answer may be lost, and with it the identity of a new document.
Write(w) ==
  LET unused == {u \in 1 .. MaxDocuments : documents[u] = 0}
      urn == IF run[w].urn > 0 THEN run[w].urn ELSE Min(unused) IN
  /\ At(w, "writing")
  /\ IF run[w].urn > 0 THEN documents[run[w].urn] # run[w].of ELSE unused # {}
  /\ documents' = [documents EXCEPT ![urn] = run[w].of]
  /\ \/ /\ run' = [run EXCEPT ![w].at = "written", ![w].urn = urn]
        /\ UNCHANGED <<lock, receipt, faults>>
     \/ /\ faults > 0 /\ faults' = faults - 1
        /\ Fails(w, "UNAVAILABLE")
  /\ UNCHANGED <<campaign, issued, claimed, gate, late, commands, lateAt>>

\* The key is the summary's digest; the projector keeps the document's identity.
RecordPublication(w) ==
  LET of == run[w].of  urn == run[w].urn
      same == SelectInSeq(log, LAMBDA e : e.type = "PUBLISHED" /\ e.of = of) > 0
      accepted == publication.urn \in {0, urn} IN
  /\ At(w, "written")
  /\ \/ /\ Free(w) /\ ~same /\ accepted
        /\ Then(w, "verifying")
        /\ Appended(w, "PUBLISHED", of, projection,
                    [of |-> of, urn |-> urn, verified |-> FALSE])
        /\ UNCHANGED <<lock, receipt>> /\ Unchanged
     \/ /\ Free(w) /\ same /\ accepted
        /\ Then(w, "verifying")
        /\ UNCHANGED <<campaign, lock, receipt>> /\ Unchanged
     \/ EventRefused(w, accepted)

-----------------------------------------------------------------------------
(* verify.                                                                 *)

\* A watch verifies unless a verification follows its publication.
Verified(w) ==
  /\ w = Watcher
  /\ LET evaluated == EventAfter(WatchedAt(run[w].lease), "EVALUATED")
         published == EventAfter(evaluated, "PUBLISHED")
     IN published > 0 /\ EventAfter(published, "VERIFIED") > 0

ReadBack(w) ==
  /\ At(w, "verifying")
  /\ \/ /\ Verified(w) /\ Goto(w, "done")
     \/ /\ ~Verified(w) /\ Reconstructible /\ ReadsBack
        /\ IF publication.verified
           THEN Then(w, "done")
           ELSE Proceed(w, [Idle EXCEPT !.at = "reread", !.of = publication.of,
                                        !.urn = publication.urn])
  /\ UNCHANGED <<campaign, lock, receipt>> /\ Unchanged

\* The manifest published is not the one before its event, or DataHub holds
\* another summary for as long as it is asked.
ReadBackRefused(w) ==
  /\ At(w, "verifying")
  /\ ~Verified(w) /\ ~(Reconstructible /\ ReadsBack)
  /\ Fails(w, "FAILED")
  /\ UNCHANGED campaign /\ Unchanged

RecordVerification(w) ==
  LET accepted == /\ publication.of = run[w].of /\ publication.urn = run[w].urn
                  /\ ~publication.verified IN
  /\ At(w, "reread")
  /\ \/ /\ Free(w) /\ accepted
        /\ Then(w, "done")
        /\ Appended(w, "VERIFIED", 0, projection, [publication EXCEPT !.verified = TRUE])
        /\ UNCHANGED <<lock, receipt>> /\ Unchanged
     \/ EventRefused(w, accepted)

\* Mutation: the decision is reported as it is.
SuccessfulResult_Decision == Decision(projection)

\* _successful_result, of the manifest as it is now.
SuccessfulResult ==
  IF ~projection.envelope.complete THEN "PARTIAL"
  ELSE IF Decision(projection) # "READY_TO_RETIRE" THEN "REVERSED"
  ELSE "UNCHANGED"

WriteReceipt ==
  /\ At(Watcher, "done")
  /\ Stop(Watcher)
  /\ receipt' = [receipt EXCEPT ![run[Watcher].lease] =
                   [result |-> SuccessfulResult, phase |-> "NONE"]]
  /\ UNCHANGED campaign /\ Unchanged

-----------------------------------------------------------------------------
Step(w) ==
  \/ ReadSources(w) \/ RecordStale(w) \/ RecordReconciliation(w) \/ Evaluate(w)
  \/ ReadManifest(w) \/ ReuseWrite(w) \/ Write(w) \/ RecordPublication(w)
  \/ ReadBack(w) \/ ReadBackRefused(w) \/ RecordVerification(w)

\* The late consumer is used, and its use reaches DataHub.
Appear ==
  /\ ~late /\ late' = TRUE
  /\ UNCHANGED <<campaign, lock, run, issued, claimed, gate, receipt, documents, budget, lateAt>>

\* The expiry passes; it matters while the lease is in force.
Expire ==
  /\ Latest > 0 /\ LeaseStatus(Latest) = "ISSUED"
  /\ issued' = [issued EXCEPT ![Latest].expired = TRUE]
  /\ UNCHANGED <<campaign, lock, run, claimed, gate, receipt, sources, budget, lateAt>>

Watch == Observe \/ Rerun \/ Step(Watcher) \/ WriteReceipt

Next ==
  \/ IssueLease \/ GateVerify \/ GateClaim \/ GateRefuse
  \/ Watch \/ Step(Operator)
  \/ \E command \in Commands : Start(command)
  \/ \E w \in Processes : Fault(w) \/ Crash(w)
  \/ Appear \/ Expire

\* A scheduler keeps running the watch on what it has not finished, and a run
\* takes its next step: the lock is not waited for and native calls time out.
Spec ==
  Init /\ [][Next]_vars
  /\ WF_vars(Rerun) /\ WF_vars(Step(Watcher) \/ WriteReceipt)

-----------------------------------------------------------------------------
TypeOK ==
  /\ log \in Seq(Events) /\ Len(log) <= MaxManifest
  /\ projection \in Projections /\ publication \in Publications
  /\ lock \in {Watcher, NoProcess}
  /\ \A w \in Processes : run[w].at \in Points /\ run[w].lease \in 0 .. Latest
  /\ Latest <= MaxLeases /\ claimed \subseteq 1 .. Latest /\ gate \in 0 .. Latest
  /\ receipt \in [Leases -> {NotWatched} \cup [result : Results, phase : Phases]]

\* Whatever the gate, the watch, other commands and the clock do to a lease, it
\* never comes back.
Lease == INSTANCE RetirementLease WITH status <- [q \in Leases |-> LeaseStatus(q)]
ImplementsLease == Lease!Spec

\* However often a watch is interrupted, it appends each kind of event once.
WatchIsDoneOnce ==
  \A q \in Leases, type \in EventTypes :
     Cardinality({i \in DOMAIN log : log[i].type = type /\ log[i].by = q}) <= 1

\* A lease is consumed only for a summary that was read back from DataHub and
\* tells the decision and the evidence that the lease relies on.
ClaimedOnPublished ==
  \A q \in claimed :
     \E i, j \in 1 .. issued[q].manifest :
        /\ i < j /\ log[i].type = "PUBLISHED" /\ log[j].type = "VERIFIED"
        /\ log[i].of = i - 1 /\ log[i - 1].ready
        /\ \A k \in i .. issued[q].manifest : log[k].type # "RECONCILED"

\* A watch does not report UNCHANGED over a consumer that the sources showed when
\* it observed, unless another process's reconciliation stood in for its own.
UnchangedIsFresh ==
  \A q \in Leases :
     receipt[q].result = "UNCHANGED" /\ lateAt[q]
       => \E i \in WatchedAt(q) + 1 .. Len(log) : log[i].type = "RECONCILED" /\ log[i].by # q

\* An observed lease ends with a receipt that is final, unless a newer lease is
\* issued or the document on record must be published anew.
WatchEnds ==
  \/ \A q \in Leases : Observed(q) ~> Final(q) \/ q # Latest
  \/ <>[](publication.urn > 0 /\ ~(Reconstructible /\ ReadsBack))

-----------------------------------------------------------------------------
(* A statement of the repository that the code does not keep.              *)

\* CONTINUOUS_RECONCILIATION.md: after the observation "the old lease is no longer
\* usable".
RevokedLeaseIsNotUsed == [][\A q \in claimed' \ claimed : ~Observed(q)]_vars
=============================================================================
