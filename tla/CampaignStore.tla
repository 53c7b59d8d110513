--------------------------- MODULE CampaignStore ---------------------------
(***************************************************************************)
(* The event log of one campaign under concurrent callers (store.py).      *)
(* Every caller is a process of its own: it validates its request on an    *)
(* unlocked read, takes the store lock without waiting for it, projects    *)
(* the log with the new event, commits, rewrites the cached manifest and   *)
(* releases the lock.  `campaign inspect` and the like rewrite the cache    *)
(* without the lock.  A caller may die between any two steps.              *)
(*                                                                         *)
(* All events carry the same time, so no receipt expires here: time is the *)
(* subject of CampaignKernel.                                              *)
(***************************************************************************)
EXTENDS CampaignProjection, Sequences, SequencesExt

CONSTANTS Callers,    \* processes that open the store
          Base,       \* the projection of the log as it stands at the start
          Requests,   \* the calls they make (see Event)
          NoCaller,   \* the lock is free
          MaxEvents   \* bound on the events appended

ASSUME BaseAssumption == Base \in Projections
ASSUME CallersAssumption == IsFiniteSet(Callers) /\ NoCaller \notin Callers
ASSUME MaxEventsAssumption == MaxEvents \in Nat

(***************************************************************************)
(* A request is [type, key, payload]; its payload is                      *)
(*   CONSUMER_DISPOSITION_CHANGED  [consumer, disposition, plan]           *)
(*   RECEIPT_ACCEPTED              [consumer, plan]                        *)
(*   RECONCILIATION_RECORDED       [observed]                              *)
(* and two requests have none: POLICY_EVALUATED, whose key and payload are *)
(* formed on the way, and INSPECT, which appends nothing.                   *)
(***************************************************************************)
Inspect == [type |-> "INSPECT"]
EvaluateRequest == [type |-> "POLICY_EVALUATED"]

DispositionPayloads ==
  [consumer : Consumers, disposition : Dispositions, plan : Plans \cup {NoPlan}]
ReceiptPayloads == [consumer : Consumers, plan : Plans]
ReconciliationPayloads == [observed : SUBSET Consumers]

WellFormed(e) ==
  \/ e.type = "CONSUMER_DISPOSITION_CHANGED" /\ e.payload \in DispositionPayloads
  \/ e.type = "RECEIPT_ACCEPTED" /\ e.payload \in ReceiptPayloads
  \/ e.type = "RECONCILIATION_RECORDED" /\ e.payload \in ReconciliationPayloads

ASSUME RequestsAssumption == \A r \in Requests \ {Inspect, EvaluateRequest} : WellFormed(r)

VARIABLES
  log,     \* the events appended to the log, Base standing for those before
  replay,  \* the projections of its prefixes, Base first: replay computes them
           \* anew at every read, and always gives the same
  cache,   \* the cached manifest, as the length of the log it was made from
  lock,    \* who holds the store lock
  call     \* what each caller is doing

stream == <<log, replay>>
vars == <<log, replay, cache, lock, call>>

Idle == [at |-> "idle", request |-> Inspect, event |-> Inspect,
         cached |-> 0, seen |-> 0, error |-> "none"]

Points == {"idle", "materializing", "replaying", "replayed", "deciding", "prepared",
           "locked", "projected"}

\* How the last call ended, as far as a property tells it apart: "none" stands
\* for success, for a store found locked and for a crash.
Errors == {"none", "refused", "conflict", "mismatch"}

Init ==
  /\ log = <<>> /\ replay = <<Base>>
  /\ cache = 0
  /\ lock = NoCaller
  /\ call = [w \in Callers |-> Idle]

At(w, point) == call[w].at = point
Finish(w, error) == call' = [call EXCEPT ![w] = [Idle EXCEPT !.error = error]]
Release(w) == lock' = IF lock = w THEN NoCaller ELSE lock

-----------------------------------------------------------------------------
(* Replay.                                                                 *)

Accepts(p, e) ==
  CASE e.type = "CONSUMER_DISPOSITION_CHANGED" ->
         MayChangeDisposition(p, e.payload.consumer, e.payload.disposition)
    [] e.type = "RECEIPT_ACCEPTED" -> MayAcceptReceipt(p, e.payload.consumer)
    [] e.type = "RECONCILIATION_RECORDED" -> MayRecordReconciliation(p)
    [] e.type = "POLICY_EVALUATED" -> MayEvaluate(p, e.payload.decision, p.time)

Applied(p, e) ==
  CASE e.type = "CONSUMER_DISPOSITION_CHANGED" ->
         DispositionChanged(p, e.payload.consumer, e.payload.disposition, e.payload.plan)
    [] e.type = "RECEIPT_ACCEPTED" ->
         ReceiptAccepted(p, e.payload.consumer, [plan |-> e.payload.plan, expires |-> Never])
    [] e.type = "RECONCILIATION_RECORDED" ->
         ReconciliationRecorded(p, e.payload.observed,
                                [c \in Consumers |-> "OPAQUE"],
                                [live |-> TRUE, complete |-> TRUE])
    [] e.type = "POLICY_EVALUATED" -> PolicyEvaluated(p)

\* What replaying the log gives.
Now == Last(replay)

\* Mutation: nothing is looked up.
EventsWithKey_None(key) == {}

EventsWithKey(key) == {e \in ToSet(log) : e.key = key}

-----------------------------------------------------------------------------
(* Before the lock.                                                        *)

\* The bound: every call under way may still append.
Room == Len(log) + Cardinality({w \in Callers : ~At(w, "idle")}) < MaxEvents

\* What a caller checks on its unlocked read: a receipt binds the consumer's
\* current plan.  The other requests are checked by the projector alone.
Validated(r) ==
  r.type = "RECEIPT_ACCEPTED" =>
     /\ Now.disp[r.payload.consumer] = "APPLIED"
     /\ r.payload.plan = Now.plan[r.payload.consumer]

Submit(w, r) ==
  /\ At(w, "idle") /\ r.type \notin {"INSPECT", "POLICY_EVALUATED"} /\ Room
  /\ Validated(r)
  /\ call' = [call EXCEPT ![w] = [Idle EXCEPT !.at = "prepared", !.request = r,
                                              !.event = r]]
  /\ UNCHANGED <<stream, cache, lock>>

\* `campaign inspect` materializes; `campaign evaluate` does so first, to take
\* its idempotency key from the manifest.
ReadManifest(w, r) ==
  /\ At(w, "idle")
  /\ \/ r = Inspect
     \/ r = EvaluateRequest /\ Now.state \notin {"READY", "BLOCKED"} /\ Room
  /\ call' = [call EXCEPT ![w] = [Idle EXCEPT !.at = "materializing", !.request = r]]
  /\ UNCHANGED <<stream, cache, lock>>

\* evaluate computes the decision on another unlocked read.
Decide(w) ==
  /\ At(w, "deciding")
  /\ call' = [call EXCEPT ![w].at = "prepared",
                          ![w].event = [type |-> "POLICY_EVALUATED",
                                        key |-> [of |-> call[w].seen, op |-> "evaluation"],
                                        payload |-> [decision |-> Decision(Now)]]]
  /\ UNCHANGED <<stream, cache, lock>>

-----------------------------------------------------------------------------
(* Under the lock.                                                         *)

\* Mutation: the lock is taken whoever holds it.
Acquire_Shared(w) ==
  /\ At(w, "prepared")
  /\ lock' = w
  /\ call' = [call EXCEPT ![w].at = "locked"]
  /\ UNCHANGED <<stream, cache>>

Acquire(w) ==
  /\ At(w, "prepared")
  /\ lock = NoCaller
  /\ lock' = w
  /\ call' = [call EXCEPT ![w].at = "locked"]
  /\ UNCHANGED <<stream, cache>>

\* Mutation: the lock is waited for.
RefuseLocked_Waits(w) == FALSE /\ UNCHANGED vars

\* The lock is not waited for.
RefuseLocked(w) ==
  /\ At(w, "prepared")
  /\ lock # NoCaller
  /\ Finish(w, "none")
  /\ UNCHANGED <<stream, cache, lock>>

\* The key is in the log with the same content: the request was served before.
AnswerRetry(w) ==
  /\ At(w, "locked")
  /\ call[w].event \in EventsWithKey(call[w].event.key)
  /\ call' = [call EXCEPT ![w].at = "materializing"]
  /\ UNCHANGED <<stream, cache, lock>>

\* Mutation: a refusal leaves the lock taken.
RefuseAppend_KeepsLock(w) ==
  LET e == call[w].event  same == EventsWithKey(e.key) IN
  /\ At(w, "locked")
  /\ \/ same # {} /\ e \notin same /\ Finish(w, "conflict")
     \/ same = {} /\ ~Accepts(Now, e) /\ Finish(w, "refused")
  /\ UNCHANGED <<stream, cache, lock>>

\* The key is in the log with other content, or the projector refuses.
RefuseAppend(w) ==
  LET e == call[w].event  same == EventsWithKey(e.key) IN
  /\ At(w, "locked")
  /\ \/ same # {} /\ e \notin same /\ Finish(w, "conflict")
     \/ same = {} /\ ~Accepts(Now, e) /\ Finish(w, "refused")
  /\ Release(w)
  /\ UNCHANGED <<stream, cache>>

\* The projector accepts the log as read with the new event.
ProjectEvent(w) ==
  /\ At(w, "locked")
  /\ EventsWithKey(call[w].event.key) = {}
  /\ Accepts(Now, call[w].event)
  /\ call' = [call EXCEPT ![w].at = "projected", ![w].seen = Len(log)]
  /\ UNCHANGED <<stream, cache, lock>>

\* One transaction; sequence numbers and keys are unique in the database.
Commit(w) ==
  /\ At(w, "projected")
  /\ call[w].seen = Len(log)
  /\ \A e \in ToSet(log) : e.key # call[w].event.key
  /\ log' = Append(log, call[w].event)
  /\ replay' = Append(replay, Applied(Now, call[w].event))
  /\ call' = [call EXCEPT ![w].at = "materializing"]
  /\ UNCHANGED <<cache, lock>>

-----------------------------------------------------------------------------
(* materialize, with the lock or without it.                               *)

ReadCache(w) ==
  /\ At(w, "materializing")
  /\ call' = [call EXCEPT ![w].at = "replaying", ![w].cached = cache]
  /\ UNCHANGED <<stream, cache, lock>>

\* The cached history has to be a prefix of the one replayed.
ReadLog(w) ==
  /\ At(w, "replaying")
  /\ IF call[w].cached > Len(log)
     THEN Finish(w, "mismatch") /\ Release(w)
     ELSE /\ call' = [call EXCEPT ![w].at = "replayed", ![w].seen = Len(log)]
          /\ UNCHANGED lock
  /\ UNCHANGED <<stream, cache>>

\* Mutation: the replayed history is compared with the cache as it is now.
WriteCache_ComparesLate(w) ==
  /\ At(w, "replayed")
  /\ IF cache > call[w].seen
     THEN Finish(w, "mismatch") /\ Release(w) /\ UNCHANGED cache
     ELSE /\ cache' = call[w].seen
          /\ IF call[w].request = EvaluateRequest /\ call[w].event = Inspect
             THEN call' = [call EXCEPT ![w].at = "deciding"] /\ UNCHANGED lock
             ELSE Finish(w, "none") /\ Release(w)
  /\ UNCHANGED stream

\* The last writer wins, whatever the others replayed meanwhile.
WriteCache(w) ==
  /\ At(w, "replayed")
  /\ cache' = call[w].seen
  /\ IF call[w].request = EvaluateRequest /\ call[w].event = Inspect
     THEN call' = [call EXCEPT ![w].at = "deciding"] /\ UNCHANGED lock
     ELSE Finish(w, "none") /\ Release(w)
  /\ UNCHANGED stream

\* A death, a full disk, or a database busy with another caller's cache write:
\* what was not committed is rolled back, and the lock is freed.
Crash(w) ==
  /\ ~At(w, "idle")
  /\ Finish(w, "none")
  /\ Release(w)
  /\ UNCHANGED <<stream, cache>>

-----------------------------------------------------------------------------
Proceed(w) ==
  \/ Decide(w)
  \/ Acquire(w) \/ RefuseLocked(w)
  \/ AnswerRetry(w) \/ RefuseAppend(w) \/ ProjectEvent(w) \/ Commit(w)
  \/ ReadCache(w) \/ ReadLog(w) \/ WriteCache(w)

Next ==
  \E w \in Callers :
     \/ \E r \in Requests : Submit(w, r) \/ ReadManifest(w, r)
     \/ Proceed(w)
     \/ Crash(w)

\* A caller that has begun takes its next step: it waits for nobody.
Spec == Init /\ [][Next]_vars /\ \A w \in Callers : WF_vars(Proceed(w))

-----------------------------------------------------------------------------
\* The values the variables take; the log replays to a projection.
TypeOK ==
  /\ cache \in 0 .. Len(log) /\ Len(log) <= MaxEvents
  /\ Len(replay) = Len(log) + 1 /\ ToSet(replay) \subseteq Projections
  /\ lock \in Callers \cup {NoCaller}
  /\ \A w \in Callers :
        /\ call[w].at \in Points /\ call[w].error \in Errors
        /\ call[w].cached \in 0 .. MaxEvents /\ call[w].seen \in 0 .. MaxEvents

\* A decision on record is the policy's decision on the history before it,
\* though the caller computed it before it had the lock: READY is never
\* recorded over a consumer that went stale meanwhile.
DecisionsAreCurrent ==
  \A i \in 1 .. Len(log) :
     log[i].type = "POLICY_EVALUATED" =>
        log[i].payload.decision = Decision(replay[i])

\* The single writer: what a caller projected is what it appends to, so the
\* database never refuses a sequence number.
ProjectedIsCurrent ==
  \A w \in Callers : At(w, "projected") => call[w].seen = Len(log)

\* A retry of a call that died between its commit and its answer is answered
\* as served: it is not refused as an illegal second transition.
RetryIsAnswered ==
  [][\A w \in Callers :
        At(w, "locked") /\ call[w].event \in ToSet(log)
          => call'[w].error \notin {"refused", "conflict"} /\ log' = log]_vars

\* No caller ever takes the cache for corrupt because of the others, although
\* the cache is rewritten without the lock and may fall behind the log.
CacheIsTrusted == \A w \in Callers : call[w].error # "mismatch"

\* Nobody waits and nobody is locked out for ever: every call returns, and the
\* lock a caller takes is given back, whoever dies and whatever is refused.
CallsReturn == \A w \in Callers : ~At(w, "idle") ~> At(w, "idle")
LockIsFreed == \A w \in Callers : lock = w ~> lock # w
=============================================================================
