----------------------- MODULE CampaignStore_proofs -----------------------
(***************************************************************************)
(* Proofs about CampaignStore, for every finite set of callers, every set  *)
(* of well-formed requests, every log they start from and every bound.     *)
(***************************************************************************)
EXTENDS CampaignStore, FiniteSetTheorems, TLAPS

-----------------------------------------------------------------------------
(***************************************************************************)
(* The effects of the events that a log holds yield projections.           *)
(***************************************************************************)
LEMMA ReconciliationRecordedTyped ==
  ASSUME NEW pp \in Projections, NEW observed \in SUBSET Consumers,
         NEW d \in [Consumers -> Dispositions], NEW env \in Envelopes
  PROVE  ReconciliationRecorded(pp, observed, d, env) \in Projections
<1>1. NoReceipt \in Receipts
  BY MaxTimeAssumption DEF NoReceipt, Receipts, Expiries, Never
<1>2. Entered(pp, observed \ pp.known, d) \in Projections
  BY <1>1 DEF Entered, Projections
<1>3. "RECONCILING" \in CampaignStates
  BY DEF CampaignStates
<1>4. QED
  BY <1>2, <1>3 DEF ReconciliationRecorded, Projections

LEMMA DispositionChangedTyped ==
  ASSUME NEW pp \in Projections, NEW c \in Consumers, NEW d \in Dispositions,
         NEW q \in Plans \cup {NoPlan}
  PROVE  DispositionChanged(pp, c, d, q) \in Projections
  BY DEF DispositionChanged, Projections

LEMMA ReceiptAcceptedTyped ==
  ASSUME NEW pp \in Projections, NEW c \in Consumers, NEW r \in Receipts
  PROVE  ReceiptAccepted(pp, c, r) \in Projections
<1>1. "VALIDATED" \in Dispositions
  BY DEF Dispositions
<1>2. QED
  BY <1>1 DEF ReceiptAccepted, Projections

LEMMA PolicyEvaluatedTyped ==
  ASSUME NEW pp \in Projections
  PROVE  PolicyEvaluated(pp) \in Projections
<1>1. EvaluatedState(pp) \in CampaignStates
  BY DEF EvaluatedState, CampaignStates
<1>2. QED
  BY <1>1 DEF PolicyEvaluated, Projections

-----------------------------------------------------------------------------
\* The events a log can hold: requests, and evaluations formed on the way.
Evaluations ==
  [type : {"POLICY_EVALUATED"}, key : [of : Nat, op : {"evaluation"}],
   payload : [decision : Decisions]]
Logged == (Requests \ {Inspect, EvaluateRequest}) \cup Evaluations

Calls ==
  [at : Points, request : Requests \cup {Inspect, EvaluateRequest},
   event : Logged \cup {Inspect}, cached : Nat, seen : Nat, error : Errors]

\* A call that may still append.
Appending(c) ==
  \/ c.at \in {"deciding", "prepared", "locked", "projected"}
  \/ /\ c.at \in {"materializing", "replaying", "replayed"}
     /\ c.request = EvaluateRequest /\ c.event = Inspect
Pending == {w \in Callers : Appending(call[w])}

-----------------------------------------------------------------------------
(* The operators.                                                          *)

\* The policy decides one of its four decisions.
LEMMA DecisionTyped ==
  ASSUME NEW pp
  PROVE  Decision(pp) \in Decisions
  BY DEF Decision, evaluate_policy, Decisions

\* What the log replays to after an event of the log is a projection.
LEMMA AppliedTyped ==
  ASSUME NEW pp \in Projections, NEW e \in Logged
  PROVE  Applied(pp, e) \in Projections
<1>1. CASE e \in Evaluations
  <2>1. e.type = "POLICY_EVALUATED"
    BY <1>1 DEF Evaluations
  <2>2. Applied(pp, e) = PolicyEvaluated(pp)
    BY <2>1 DEF Applied
  <2>3. QED
    BY <2>2, PolicyEvaluatedTyped
<1>2. CASE e \in Requests \ {Inspect, EvaluateRequest}
  <2>1. WellFormed(e)
    BY <1>2, RequestsAssumption
  <2>2. CASE e.type = "CONSUMER_DISPOSITION_CHANGED" /\ e.payload \in DispositionPayloads
    <3>1. /\ e.payload.consumer \in Consumers /\ e.payload.disposition \in Dispositions
          /\ e.payload.plan \in Plans \cup {NoPlan}
      BY <2>2 DEF DispositionPayloads
    <3>2. Applied(pp, e) = DispositionChanged(pp, e.payload.consumer, e.payload.disposition,
                                              e.payload.plan)
      BY <2>2 DEF Applied
    <3>3. QED
      BY <3>1, <3>2, DispositionChangedTyped
  <2>3. CASE e.type = "RECEIPT_ACCEPTED" /\ e.payload \in ReceiptPayloads
    <3> DEFINE r == [plan |-> e.payload.plan, expires |-> Never]
    <3>1. e.payload.consumer \in Consumers /\ r \in Receipts
      BY <2>3, MaxTimeAssumption DEF ReceiptPayloads, Receipts, Expiries, Never
    <3>2. Applied(pp, e) = ReceiptAccepted(pp, e.payload.consumer, r)
      BY <2>3 DEF Applied
    <3> HIDE DEF r
    <3>3. QED
      BY <3>1, <3>2, ReceiptAcceptedTyped
  <2>4. CASE e.type = "RECONCILIATION_RECORDED" /\ e.payload \in ReconciliationPayloads
    <3> DEFINE d == [c \in Consumers |-> "OPAQUE"]
               env == [live |-> TRUE, complete |-> TRUE]
    <3>1. e.payload.observed \in SUBSET Consumers
      BY <2>4 DEF ReconciliationPayloads
    <3>2. d \in [Consumers -> Dispositions] /\ env \in Envelopes
      BY DEF Dispositions, Envelopes
    <3>3. Applied(pp, e) = ReconciliationRecorded(pp, e.payload.observed, d, env)
      BY <2>4 DEF Applied
    <3> HIDE DEF d, env
    <3>4. QED
      BY <3>1, <3>2, <3>3, ReconciliationRecordedTyped
  <2>5. QED
    BY <2>1, <2>2, <2>3, <2>4 DEF WellFormed
<1>3. QED
  BY <1>1, <1>2 DEF Logged

\* What is logged is not the placeholder of a call that has no event yet.
LEMMA LoggedIsAnEvent == Inspect \notin Logged /\ EvaluateRequest \notin Logged
<1>1. \A e \in Evaluations : e.type = "POLICY_EVALUATED" /\ e.payload \in [decision : Decisions]
  BY DEF Evaluations
<1>2. Inspect \notin Evaluations
  BY <1>1 DEF Inspect
<1>3. EvaluateRequest \notin Evaluations
  BY DEF EvaluateRequest, Evaluations
<1>4. QED
  BY <1>2, <1>3 DEF Logged
-----------------------------------------------------------------------------
(***************************************************************************)
(* The inductive invariant.  Whoever is past Acquire holds the lock, so    *)
(* that one caller at a time has projected, what it projected is accepted  *)
(* by the log as it stands, and nobody else can commit under it: that is   *)
(* why a decision computed before the lock is right when it is recorded.   *)
(* No cache a caller read is ahead of the log, which only grows: that is   *)
(* why unlocked cache writes are never taken for corruption.               *)
(***************************************************************************)
StoreTyped ==
  /\ log \in Seq(Logged) /\ replay \in Seq(Projections) /\ Len(replay) = Len(log) + 1
  /\ cache \in 0 .. Len(log)
  /\ lock \in Callers \cup {NoCaller}
  /\ call \in [Callers -> Calls]

Sound(w) ==
  /\ call[w].cached <= Len(log) /\ call[w].seen <= Len(log)
  /\ call[w].error # "mismatch"
  /\ ~At(w, "idle") => call[w].error = "none"
  /\ call[w].at \in {"prepared", "locked", "projected"} => call[w].event \in Logged
  /\ call[w].at \in {"locked", "projected"} => lock = w
  /\ At(w, "projected") =>
        /\ call[w].seen = Len(log)
        /\ EventsWithKey(call[w].event.key) = {}
        /\ Accepts(Now, call[w].event)

RoomIsKept == Len(log) + Cardinality(Pending) <= MaxEvents

StoreInv ==
  StoreTyped /\ (\A w \in Callers : Sound(w)) /\ DecisionsAreCurrent /\ RoomIsKept

\* What the log replays to is a projection.
LEMMA NowTyped == StoreTyped => Now \in Projections /\ Now = replay[Len(log) + 1]
  BY DEF StoreTyped, Now, Last

\* The store as a campaign's callers find it.
LEMMA StoreInit == Init => StoreInv
<1> SUFFICES ASSUME Init PROVE StoreInv
  OBVIOUS
<1>1. Idle \in Calls
  BY DEF Idle, Calls, Points, Errors
<1>2. StoreTyped
  <2>1. log \in Seq(Logged) /\ Len(log) = 0
    BY DEF Init
  <2>2. replay \in Seq(Projections) /\ Len(replay) = 1
    BY BaseAssumption DEF Init
  <2>3. cache = 0 /\ lock = NoCaller /\ call \in [Callers -> Calls]
    BY <1>1 DEF Init
  <2>4. QED
    BY <2>1, <2>2, <2>3 DEF StoreTyped
<1>3. \A w \in Callers : Sound(w)
  BY DEF Init, Idle, Sound, At
<1>4. Pending = {}
  BY DEF Init, Idle, Pending, Appending
<1>5. RoomIsKept
  BY <1>4, FS_EmptySet, MaxEventsAssumption DEF Init, RoomIsKept
<1>6. DecisionsAreCurrent
  BY DEF Init, DecisionsAreCurrent
<1>7. QED
  BY <1>2, <1>3, <1>5, <1>6 DEF StoreInv

-----------------------------------------------------------------------------
(* What a step of one caller leaves of the others.                         *)

\* A call that only w's step changed is as sound as it was, if the log grew by
\* nothing or under w's lock, and the lock changed hands only from or to w.
LEMMA OthersStaySound ==
  ASSUME StoreInv, NEW w \in Callers, NEW v \in Callers, v # w, call'[v] = call[v],
         \/ log' = log /\ replay' = replay
         \/ lock = w /\ Len(log') >= Len(log) /\ Len(log') \in Nat,
         lock' = lock \/ lock \in {w, NoCaller}
  PROVE  Sound(v)'
<1>1. Sound(v) /\ call[v] \in Calls /\ Len(log) \in Nat
  BY DEF StoreInv, StoreTyped
<1>2. call[v].at \in {"locked", "projected"} => lock = v /\ lock' = v /\ log' = log /\ replay' = replay
  BY <1>1, CallersAssumption DEF Sound
<1>3. call[v].cached <= Len(log') /\ call[v].seen <= Len(log')
  <2>1. call[v].cached \in Nat /\ call[v].seen \in Nat
    BY <1>1 DEF Calls
  <2>2. Len(log') \in Nat /\ Len(log') >= Len(log)
    BY <1>1
  <2>3. QED
    BY <1>1, <2>1, <2>2 DEF Sound
<1>4. At(v, "projected") =>
        /\ call[v].seen = Len(log')
        /\ EventsWithKey(call[v].event.key)' = {}
        /\ Accepts(Now, call[v].event)'
  BY <1>1, <1>2 DEF Sound, At, EventsWithKey, Accepts, Now
<1>5. QED
  BY <1>1, <1>2, <1>3, <1>4 DEF Sound, At

\* Where no call begins to append, the room is kept.
LEMMA RoomStays ==
  ASSUME StoreInv, Len(log') = Len(log), Pending' \subseteq Pending
  PROVE  RoomIsKept'
<1>1. IsFiniteSet(Pending) /\ Cardinality(Pending) \in Nat
  BY CallersAssumption, FS_Subset, FS_CardinalityType DEF Pending
<1>2. Cardinality(Pending') <= Cardinality(Pending) /\ Cardinality(Pending') \in Nat
  BY <1>1, FS_Subset, FS_CardinalityType
<1>3. QED
  BY <1>1, <1>2, MaxEventsAssumption DEF StoreInv, StoreTyped, RoomIsKept

\* Where one call begins to append, there was room for it.
LEMMA RoomIsTaken ==
  ASSUME StoreInv, NEW w \in Callers, At(w, "idle"), Room, Len(log') = Len(log),
         Pending' \subseteq Pending \cup {w}
  PROVE  RoomIsKept'
<1> DEFINE busy == {v \in Callers : ~At(v, "idle")}
<1>1. /\ IsFiniteSet(busy) /\ Cardinality(busy) \in Nat
      /\ IsFiniteSet(busy \cup {w}) /\ Cardinality(busy \cup {w}) <= Cardinality(busy) + 1
  BY CallersAssumption, FS_Subset, FS_CardinalityType, FS_AddElement
<1>2. Pending \subseteq busy
  BY DEF Pending, Appending, At
<1>3. Cardinality(Pending') <= Cardinality(busy \cup {w}) /\ Cardinality(Pending') \in Nat
  <2>1. Pending' \in SUBSET (busy \cup {w})
    BY <1>2
  <2>2. QED
    BY <1>1, <2>1, FS_Subset, FS_CardinalityType
<1>4. Cardinality(busy \cup {w}) \in Nat
  BY <1>1, FS_CardinalityType
<1>5. Len(log) + Cardinality(busy) < MaxEvents
  BY DEF Room
<1>6. Len(log) \in Nat
  BY DEF StoreInv, StoreTyped
<1> HIDE DEF busy
<1>7. QED
  BY <1>1, <1>3, <1>4, <1>5, <1>6, MaxEventsAssumption DEF RoomIsKept
\* A step of one caller that appends nothing keeps the invariant, if its own
\* call stays sound and it begins to append only where there is room.
LEMMA QuietStep ==
  ASSUME StoreInv, NEW w \in Callers, NEW c \in Calls, call' = [call EXCEPT ![w] = c],
         UNCHANGED stream, cache' \in 0 .. Len(log),
         lock' = lock \/ (lock \in {w, NoCaller} /\ lock' \in {w, NoCaller}),
         Appending(c) => Appending(call[w]) \/ (At(w, "idle") /\ Room),
         Sound(w)'
  PROVE  StoreInv'
<1>1. call'[w] = c /\ \A v \in Callers \ {w} : call'[v] = call[v]
  BY DEF StoreInv, StoreTyped
<1>2. log' = log /\ replay' = replay
  BY DEF stream
<1>3. StoreTyped'
  <2>1. lock' \in Callers \cup {NoCaller}
    BY DEF StoreInv, StoreTyped
  <2>2. call' \in [Callers -> Calls]
    BY DEF StoreInv, StoreTyped
  <2>3. QED
    BY <1>2, <2>1, <2>2 DEF StoreInv, StoreTyped
<1>4. \A v \in Callers : Sound(v)'
  <2>1. TAKE v \in Callers
  <2>2. CASE v # w
    BY <1>1, <1>2, <2>2, OthersStaySound
  <2>3. QED
    BY <2>2
<1>5. DecisionsAreCurrent'
  BY <1>2 DEF StoreInv, DecisionsAreCurrent
<1>6. RoomIsKept'
  <2>1. CASE Appending(c) => Appending(call[w])
    <3>1. Pending' \subseteq Pending
      BY <1>1, <2>1 DEF Pending
    <3>2. QED
      BY <1>2, <3>1, RoomStays
  <2>2. CASE At(w, "idle") /\ Room
    <3>1. Pending' \subseteq Pending \cup {w}
      BY <1>1 DEF Pending
    <3>2. QED
      BY <1>2, <2>2, <3>1, RoomIsTaken
  <2>3. QED
    BY <2>1, <2>2
<1>7. QED
  BY <1>3, <1>4, <1>5, <1>6 DEF StoreInv

\* A call that ends, without the cache found corrupt, keeps the invariant.
LEMMA FinishStep ==
  ASSUME StoreInv, NEW w \in Callers, NEW error \in Errors, error # "mismatch",
         Finish(w, error), Release(w), UNCHANGED stream, cache' \in 0 .. Len(log)
  PROVE  StoreInv'
<1> DEFINE c == [Idle EXCEPT !.error = error]
<1>1. /\ c \in Calls /\ c.at = "idle" /\ c.error = error
      /\ c.cached = 0 /\ c.seen = 0 /\ ~Appending(c)
  BY DEF Idle, Calls, Points, Appending
<1> HIDE DEF c
<1>2. call' = [call EXCEPT ![w] = c]
  BY DEF Finish, c
<1>3. call'[w] = c
  BY <1>2 DEF StoreInv, StoreTyped
<1>4. Sound(w)'
  <2>1. log' = log /\ Len(log) \in Nat
    BY DEF StoreInv, StoreTyped, stream
  <2>2. QED
    BY <1>1, <1>3, <2>1 DEF Sound, At
<1>5. lock' = lock \/ (lock \in {w, NoCaller} /\ lock' \in {w, NoCaller})
  BY DEF Release
<1>6. QED
  BY <1>1, <1>2, <1>4, <1>5, QuietStep

-----------------------------------------------------------------------------
(* Before the lock.                                                        *)

LEMMA SubmitStep ==
  ASSUME StoreInv, NEW w \in Callers, NEW r \in Requests, Submit(w, r)
  PROVE  StoreInv'
<1> DEFINE c == [Idle EXCEPT !.at = "prepared", !.request = r, !.event = r]
<1>1. r \in Logged
  BY DEF Submit, Logged, Inspect, EvaluateRequest
<1>2. /\ c \in Calls /\ c.at = "prepared" /\ c.event = r /\ c.error = "none"
      /\ c.cached = 0 /\ c.seen = 0
  BY <1>1 DEF Idle, Calls, Points, Errors
<1> HIDE DEF c
<1>3. call' = [call EXCEPT ![w] = c] /\ UNCHANGED <<stream, cache, lock>>
  BY DEF Submit, c
<1>4. call'[w] = c /\ Len(log') \in Nat /\ cache' \in 0 .. Len(log)
  BY <1>3 DEF StoreInv, StoreTyped, stream
<1>5. Sound(w)'
  BY <1>1, <1>2, <1>4 DEF Sound, At
<1>6. At(w, "idle") /\ Room
  BY DEF Submit
<1>7. QED
  BY <1>2, <1>3, <1>4, <1>5, <1>6, QuietStep

LEMMA ReadManifestStep ==
  ASSUME StoreInv, NEW w \in Callers, NEW r \in Requests, ReadManifest(w, r)
  PROVE  StoreInv'
<1> DEFINE c == [Idle EXCEPT !.at = "materializing", !.request = r]
<1>1. /\ c \in Calls /\ c.at = "materializing" /\ c.request = r /\ c.error = "none"
      /\ c.cached = 0 /\ c.seen = 0
  BY DEF Idle, Calls, Points, Errors
<1> HIDE DEF c
<1>2. call' = [call EXCEPT ![w] = c] /\ UNCHANGED <<stream, cache, lock>>
  BY DEF ReadManifest, c
<1>3. call'[w] = c /\ Len(log') \in Nat /\ cache' \in 0 .. Len(log)
  BY <1>2 DEF StoreInv, StoreTyped, stream
<1>4. Sound(w)'
  BY <1>1, <1>3 DEF Sound, At
<1>5. Appending(c) => At(w, "idle") /\ Room
  BY <1>1 DEF ReadManifest, Appending, Inspect, EvaluateRequest
<1>6. QED
  BY <1>1, <1>2, <1>3, <1>4, <1>5, QuietStep

LEMMA DecideStep ==
  ASSUME StoreInv, NEW w \in Callers, Decide(w)
  PROVE  StoreInv'
<1> DEFINE e == [type |-> "POLICY_EVALUATED",
                 key |-> [of |-> call[w].seen, op |-> "evaluation"],
                 payload |-> [decision |-> Decision(Now)]]
           c == [call[w] EXCEPT !.at = "prepared", !.event = e]
<1>1. call[w] \in Calls /\ Sound(w) /\ call[w].seen \in Nat /\ At(w, "deciding")
  BY DEF StoreInv, StoreTyped, Calls, Decide
<1>2. e \in Logged
  BY <1>1, DecisionTyped DEF Logged, Evaluations
<1> HIDE DEF e
<1>3. /\ c \in Calls /\ c.at = "prepared" /\ c.event = e /\ c.error = call[w].error
      /\ c.cached = call[w].cached /\ c.seen = call[w].seen
  BY <1>1, <1>2 DEF Calls, Points
<1> HIDE DEF c
<1>4. call' = [call EXCEPT ![w] = c] /\ UNCHANGED <<stream, cache, lock>>
  BY DEF Decide, c, e
<1>5. call'[w] = c /\ log' = log /\ cache' \in 0 .. Len(log)
  BY <1>4 DEF StoreInv, StoreTyped, stream
<1>6. Sound(w)'
  BY <1>1, <1>2, <1>3, <1>5 DEF Sound, At
<1>7. Appending(call[w])
  BY <1>1 DEF Appending, At
<1>8. QED
  BY <1>3, <1>4, <1>5, <1>6, <1>7, QuietStep
-----------------------------------------------------------------------------
(* Under the lock.                                                         *)

\* A call that only moves on to another point.
LEMMA PointTyped ==
  ASSUME StoreInv, NEW w \in Callers, NEW point \in Points
  PROVE  LET c == [call[w] EXCEPT !.at = point] IN
         /\ c \in Calls /\ c.at = point /\ c.request = call[w].request
         /\ c.event = call[w].event /\ c.error = call[w].error
         /\ c.cached = call[w].cached /\ c.seen = call[w].seen
         /\ [call EXCEPT ![w].at = point] = [call EXCEPT ![w] = c]
         /\ [call EXCEPT ![w] = c][w] = c
  BY DEF StoreInv, StoreTyped, Calls

LEMMA AcquireStep ==
  ASSUME StoreInv, NEW w \in Callers, Acquire(w)
  PROVE  StoreInv'
<1> DEFINE c == [call[w] EXCEPT !.at = "locked"]
<1>1. /\ c \in Calls /\ c.at = "locked" /\ c.event = call[w].event /\ c.error = call[w].error
      /\ c.cached = call[w].cached /\ c.seen = call[w].seen
      /\ call' = [call EXCEPT ![w] = c] /\ call'[w] = c
  BY PointTyped DEF Points, Acquire
<1> HIDE DEF c
<1>2. /\ At(w, "prepared") /\ lock = NoCaller /\ lock' = w /\ UNCHANGED <<stream, cache>>
  BY DEF Acquire
<1>3. Sound(w) /\ log' = log /\ cache' \in 0 .. Len(log) /\ UNCHANGED stream
  BY <1>2 DEF StoreInv, StoreTyped, stream
<1>4. Sound(w)'
  BY <1>1, <1>2, <1>3 DEF Sound, At
<1>5. Appending(call[w])
  BY <1>2 DEF Appending, At
<1>6. QED
  BY <1>1, <1>2, <1>3, <1>4, <1>5, QuietStep

LEMMA RefuseLockedStep ==
  ASSUME StoreInv, NEW w \in Callers, RefuseLocked(w)
  PROVE  StoreInv'
<1> DEFINE c == [Idle EXCEPT !.error = "none"]
<1>1. /\ c \in Calls /\ c.at = "idle" /\ c.error = "none"
      /\ c.cached = 0 /\ c.seen = 0 /\ ~Appending(c)
  BY DEF Idle, Calls, Points, Errors, Appending
<1> HIDE DEF c
<1>2. call' = [call EXCEPT ![w] = c] /\ UNCHANGED <<stream, cache, lock>>
  BY DEF RefuseLocked, Finish, c
<1>3. call'[w] = c /\ Len(log') \in Nat /\ cache' \in 0 .. Len(log)
  BY <1>2 DEF StoreInv, StoreTyped, stream
<1>4. Sound(w)'
  BY <1>1, <1>3 DEF Sound, At
<1>5. QED
  BY <1>1, <1>2, <1>3, <1>4, QuietStep

LEMMA AnswerRetryStep ==
  ASSUME StoreInv, NEW w \in Callers, AnswerRetry(w)
  PROVE  StoreInv'
<1> DEFINE c == [call[w] EXCEPT !.at = "materializing"]
<1>1. /\ c \in Calls /\ c.at = "materializing" /\ c.error = call[w].error
      /\ c.cached = call[w].cached /\ c.seen = call[w].seen
      /\ call' = [call EXCEPT ![w] = c] /\ call'[w] = c
  BY PointTyped DEF Points, AnswerRetry
<1> HIDE DEF c
<1>2. At(w, "locked") /\ UNCHANGED <<stream, cache, lock>>
  BY DEF AnswerRetry
<1>3. Sound(w) /\ log' = log /\ cache' \in 0 .. Len(log)
  BY <1>2 DEF StoreInv, StoreTyped, stream
<1>4. Sound(w)'
  BY <1>1, <1>2, <1>3 DEF Sound, At
<1>5. Appending(call[w])
  BY <1>2 DEF Appending, At
<1>6. QED
  BY <1>1, <1>2, <1>3, <1>4, <1>5, QuietStep

LEMMA RefuseAppendStep ==
  ASSUME StoreInv, NEW w \in Callers, RefuseAppend(w)
  PROVE  StoreInv'
<1>1. \E error \in {"conflict", "refused"} : Finish(w, error)
  BY DEF RefuseAppend
<1>2. Release(w) /\ UNCHANGED stream /\ cache' \in 0 .. Len(log)
  BY DEF RefuseAppend, StoreInv, StoreTyped
<1>3. QED
  BY <1>1, <1>2, FinishStep DEF Errors

LEMMA ProjectEventStep ==
  ASSUME StoreInv, NEW w \in Callers, ProjectEvent(w)
  PROVE  StoreInv'
<1> DEFINE c == [call[w] EXCEPT !.at = "projected", !.seen = Len(log)]
<1>1. call[w] \in Calls /\ Sound(w) /\ Len(log) \in Nat
  BY DEF StoreInv, StoreTyped
<1>2. /\ c \in Calls /\ c.at = "projected" /\ c.event = call[w].event
      /\ c.error = call[w].error /\ c.cached = call[w].cached /\ c.seen = Len(log)
  BY <1>1 DEF Calls, Points
<1> HIDE DEF c
<1>3. call' = [call EXCEPT ![w] = c]
  BY DEF ProjectEvent, c
<1>4. /\ At(w, "locked") /\ UNCHANGED <<stream, cache, lock>>
      /\ EventsWithKey(call[w].event.key) = {} /\ Accepts(Now, call[w].event)
  BY DEF ProjectEvent
<1>5. /\ call'[w] = c /\ log' = log /\ replay' = replay /\ lock' = lock
      /\ cache' \in 0 .. Len(log)
  BY <1>3, <1>4 DEF StoreInv, StoreTyped, stream
<1>6. /\ \A k : EventsWithKey(k)' = EventsWithKey(k)
      /\ \A r : Accepts(Now, r)' <=> Accepts(Now, r)
  BY <1>5 DEF EventsWithKey, Now
<1>7. Sound(w)'
  BY <1>1, <1>2, <1>4, <1>5, <1>6 DEF Sound, At
<1>8. Appending(call[w])
  BY <1>4 DEF Appending, At
<1>9. QED
  BY <1>2, <1>3, <1>4, <1>5, <1>7, <1>8, QuietStep

\* A commit: what w projected under its lock goes to the end of the log.
LEMMA CommitStep ==
  ASSUME StoreInv, NEW w \in Callers, Commit(w)
  PROVE  StoreInv'
<1> DEFINE c == [call[w] EXCEPT !.at = "materializing"]
           e == call[w].event
<1>1. /\ c \in Calls /\ c.at = "materializing" /\ c.error = call[w].error
      /\ c.cached = call[w].cached /\ c.seen = call[w].seen /\ c.event = e
      /\ call' = [call EXCEPT ![w] = c] /\ call'[w] = c
  BY PointTyped DEF Points, Commit
<1> HIDE DEF c
<1>2. /\ At(w, "projected") /\ call[w].seen = Len(log) /\ UNCHANGED <<cache, lock>>
      /\ log' = Append(log, e) /\ replay' = Append(replay, Applied(Now, e))
  BY DEF Commit
<1>3. /\ Sound(w) /\ lock = w /\ e \in Logged /\ Accepts(Now, e)
      /\ log \in Seq(Logged) /\ replay \in Seq(Projections) /\ Len(replay) = Len(log) + 1
      /\ Now \in Projections /\ Now = replay[Len(log) + 1] /\ Len(log) \in Nat
  <2>1. StoreTyped /\ Sound(w)
    BY DEF StoreInv
  <2>2. lock = w /\ e \in Logged /\ Accepts(Now, e)
    BY <1>2, <2>1 DEF Sound, At
  <2>3. QED
    BY <2>1, <2>2, NowTyped DEF StoreTyped
<1> HIDE DEF e
<1>4. /\ log' \in Seq(Logged) /\ Len(log') = Len(log) + 1 /\ log'[Len(log) + 1] = e
      /\ \A i \in 1 .. Len(log) : log'[i] = log[i]
  BY <1>2, <1>3
<1>5. /\ replay' \in Seq(Projections) /\ Len(replay') = Len(log) + 2
      /\ \A i \in 1 .. Len(log) + 1 : replay'[i] = replay[i]
  <2>1. Applied(Now, e) \in Projections
    BY <1>3, AppliedTyped
  <2>2. QED
    BY <1>2, <1>3, <2>1
<1>6. StoreTyped'
  <2>1. call' \in [Callers -> Calls] /\ cache' \in 0 .. Len(log')
    BY <1>1, <1>2, <1>3, <1>4 DEF StoreInv, StoreTyped
  <2>2. QED
    BY <1>2, <1>4, <1>5, <2>1 DEF StoreInv, StoreTyped
<1>7. \A v \in Callers : Sound(v)'
  <2>1. TAKE v \in Callers
  <2>2. CASE v # w
    <3>1. call'[v] = call[v]
      BY <1>1, <2>2 DEF StoreInv, StoreTyped
    <3>2. lock' = lock /\ Len(log') \in Nat /\ Len(log') >= Len(log)
      BY <1>2, <1>3, <1>4
    <3>3. QED
      BY <1>3, <2>2, <3>1, <3>2, OthersStaySound
  <2>3. CASE v = w
    BY <1>1, <1>2, <1>3, <1>4, <2>3 DEF Sound, At, Calls
  <2>4. QED
    BY <2>2, <2>3
<1>8. DecisionsAreCurrent'
  <2>1. ASSUME NEW i \in 1 .. Len(log'), log'[i].type = "POLICY_EVALUATED"
        PROVE  log'[i].payload.decision = Decision(replay'[i])
    <3>1. CASE i \in 1 .. Len(log)
      BY <1>4, <1>5, <2>1, <3>1 DEF StoreInv, DecisionsAreCurrent
    <3>2. CASE i = Len(log) + 1
      <4>1. e.type = "POLICY_EVALUATED" /\ replay'[i] = Now
        BY <1>3, <1>4, <1>5, <2>1, <3>2
      <4>2. e.payload.decision = Decision(Now)
        BY <1>3, <4>1 DEF Accepts, MayEvaluate
      <4>3. QED
        BY <1>4, <3>2, <4>1, <4>2
    <3>3. QED
      BY <1>3, <1>4, <3>1, <3>2
  <2>2. QED
    BY <2>1 DEF DecisionsAreCurrent
<1>9. RoomIsKept'
  <2>1. w \in Pending
    BY <1>2 DEF Pending, Appending, At
  <2>2. Pending' \subseteq Pending \ {w}
    <3>1. ~Appending(c)
      BY <1>1, <1>3, LoggedIsAnEvent DEF Appending
    <3>2. \A v \in Callers \ {w} : call'[v] = call[v]
      BY <1>1 DEF StoreInv, StoreTyped
    <3>3. QED
      BY <1>1, <3>1, <3>2 DEF Pending
  <2>3. IsFiniteSet(Pending) /\ Cardinality(Pending) \in Nat
    BY CallersAssumption, FS_Subset, FS_CardinalityType DEF Pending
  <2>4. IsFiniteSet(Pending \ {w}) /\ Cardinality(Pending \ {w}) = Cardinality(Pending) - 1
    BY <2>1, <2>3, FS_RemoveElement
  <2>5. /\ Cardinality(Pending') \in Nat
        /\ Cardinality(Pending') <= Cardinality(Pending \ {w})
    BY <2>2, <2>4, FS_Subset, FS_CardinalityType
  <2>6. QED
    BY <1>3, <1>4, <2>3, <2>4, <2>5, MaxEventsAssumption DEF StoreInv, RoomIsKept
<1>10. QED
  BY <1>6, <1>7, <1>8, <1>9 DEF StoreInv

-----------------------------------------------------------------------------
(* materialize, and the death of a caller.                                 *)

LEMMA ReadCacheStep ==
  ASSUME StoreInv, NEW w \in Callers, ReadCache(w)
  PROVE  StoreInv'
<1> DEFINE c == [call[w] EXCEPT !.at = "replaying", !.cached = cache]
<1>1. /\ call[w] \in Calls /\ Sound(w) /\ cache \in Nat
      /\ cache \in 0 .. Len(log) /\ Len(log) \in Nat
  BY DEF StoreInv, StoreTyped
<1>2. /\ c \in Calls /\ c.at = "replaying" /\ c.event = call[w].event
      /\ c.request = call[w].request
      /\ c.error = call[w].error /\ c.cached = cache /\ c.seen = call[w].seen
  BY <1>1 DEF Calls, Points
<1> HIDE DEF c
<1>3. /\ call' = [call EXCEPT ![w] = c] /\ At(w, "materializing")
      /\ UNCHANGED <<stream, cache, lock>>
  BY DEF ReadCache, c
<1>4. call'[w] = c /\ log' = log /\ cache' \in 0 .. Len(log)
  BY <1>3 DEF StoreInv, StoreTyped, stream
<1>5. Sound(w)'
  BY <1>1, <1>2, <1>3, <1>4 DEF Sound, At
<1>6. Appending(c) => Appending(call[w])
  BY <1>2, <1>3 DEF Appending, At
<1>7. QED
  BY <1>2, <1>3, <1>4, <1>5, <1>6, QuietStep

\* The cache read earlier is not ahead of a log that only grows.
LEMMA ReadLogStep ==
  ASSUME StoreInv, NEW w \in Callers, ReadLog(w)
  PROVE  StoreInv'
<1> DEFINE c == [call[w] EXCEPT !.at = "replayed", !.seen = Len(log)]
<1>1. call[w] \in Calls /\ Sound(w) /\ cache \in 0 .. Len(log) /\ Len(log) \in Nat
  BY DEF StoreInv, StoreTyped
<1>2. /\ c \in Calls /\ c.at = "replayed" /\ c.event = call[w].event
      /\ c.request = call[w].request
      /\ c.error = call[w].error /\ c.cached = call[w].cached /\ c.seen = Len(log)
  BY <1>1 DEF Calls, Points
<1>3. ~(call[w].cached > Len(log))
  BY <1>1 DEF Sound, Calls
<1>4. /\ call' = [call EXCEPT ![w] = c] /\ At(w, "replaying")
      /\ UNCHANGED <<stream, cache, lock>>
  BY <1>3 DEF ReadLog
<1> HIDE DEF c
<1>5. call'[w] = c /\ log' = log /\ cache' \in 0 .. Len(log)
  BY <1>4 DEF StoreInv, StoreTyped, stream
<1>6. Sound(w)'
  BY <1>1, <1>2, <1>3, <1>4, <1>5 DEF Sound, At
<1>7. Appending(c) => Appending(call[w])
  BY <1>2, <1>4 DEF Appending, At
<1>8. QED
  BY <1>2, <1>4, <1>5, <1>6, <1>7, QuietStep

LEMMA WriteCacheStep ==
  ASSUME StoreInv, NEW w \in Callers, WriteCache(w)
  PROVE  StoreInv'
<1>1. /\ call[w] \in Calls /\ Sound(w) /\ At(w, "replayed") /\ UNCHANGED stream
      /\ log' = log /\ cache' \in 0 .. Len(log)
  <2>1. call[w] \in Calls /\ Sound(w) /\ Len(log) \in Nat
    BY DEF StoreInv, StoreTyped
  <2>2. At(w, "replayed") /\ UNCHANGED stream /\ log' = log /\ cache' = call[w].seen
    BY DEF WriteCache, stream
  <2>3. call[w].seen \in 0 .. Len(log)
    BY <2>1 DEF Sound, Calls
  <2>4. QED
    BY <2>1, <2>2, <2>3
<1>2. CASE call[w].request = EvaluateRequest /\ call[w].event = Inspect
  <2> DEFINE c == [call[w] EXCEPT !.at = "deciding"]
  <2>1. /\ c \in Calls /\ c.at = "deciding" /\ c.error = call[w].error
        /\ c.cached = call[w].cached /\ c.seen = call[w].seen
        /\ call' = [call EXCEPT ![w] = c] /\ call'[w] = c
    <3>1. call' = [call EXCEPT ![w].at = "deciding"]
      BY <1>2 DEF WriteCache
    <3>2. QED
      BY <3>1, PointTyped DEF Points
  <2> HIDE DEF c
  <2>2. lock' = lock /\ Appending(call[w])
    BY <1>1, <1>2 DEF WriteCache, Appending, At
  <2>3. Sound(w)'
    BY <1>1, <2>1 DEF Sound, At
  <2>4. QED
    BY <1>1, <2>1, <2>2, <2>3, QuietStep
<1>3. CASE ~(call[w].request = EvaluateRequest /\ call[w].event = Inspect)
  <2>1. Finish(w, "none") /\ Release(w)
    BY <1>3 DEF WriteCache
  <2>2. QED
    BY <1>1, <2>1, FinishStep DEF Errors
<1>4. QED
  BY <1>2, <1>3

LEMMA CrashStep ==
  ASSUME StoreInv, NEW w \in Callers, Crash(w)
  PROVE  StoreInv'
<1>1. Finish(w, "none") /\ Release(w) /\ UNCHANGED stream /\ cache' \in 0 .. Len(log)
  BY DEF Crash, StoreInv, StoreTyped
<1>2. QED
  BY <1>1, FinishStep DEF Errors

\* Every step of every caller keeps the invariant.
LEMMA StoreStep == StoreInv /\ [Next]_vars => StoreInv'
<1> SUFFICES ASSUME StoreInv, [Next]_vars PROVE StoreInv'
  OBVIOUS
<1>1. CASE UNCHANGED vars
  BY <1>1 DEF vars, StoreInv, StoreTyped, Sound, At, EventsWithKey, Accepts, Now,
              DecisionsAreCurrent, RoomIsKept, Pending, Appending
<1>2. ASSUME NEW w \in Callers,
             \/ \E r \in Requests : Submit(w, r) \/ ReadManifest(w, r)
             \/ Proceed(w)
             \/ Crash(w)
      PROVE  StoreInv'
  BY <1>2, SubmitStep, ReadManifestStep, DecideStep, AcquireStep, RefuseLockedStep,
     AnswerRetryStep, RefuseAppendStep, ProjectEventStep, CommitStep, ReadCacheStep,
     ReadLogStep, WriteCacheStep, CrashStep DEF Proceed
<1>3. QED
  BY <1>1, <1>2 DEF Next

LEMMA StoreInvariance == Spec => []StoreInv
  BY StoreInit, StoreStep, PTL DEF Spec
\* Whatever the callers do, the variables keep their types, the log stays
\* within its bound and replays to a projection.
THEOREM StoreTypeCorrect == Spec => []TypeOK
<1>1. StoreInv => TypeOK
  <2> SUFFICES ASSUME StoreInv PROVE TypeOK
    OBVIOUS
  <2>1. Len(log) \in Nat /\ Cardinality(Pending) \in Nat
    <3>1. IsFiniteSet(Pending)
      BY CallersAssumption, FS_Subset DEF Pending
    <3>2. QED
      BY <3>1, FS_CardinalityType DEF StoreInv, StoreTyped
  <2>2. Len(log) <= MaxEvents
    BY <2>1, MaxEventsAssumption DEF StoreInv, RoomIsKept
  <2>3. ASSUME NEW w \in Callers
        PROVE  /\ call[w].at \in Points /\ call[w].error \in Errors
               /\ call[w].cached \in 0 .. MaxEvents /\ call[w].seen \in 0 .. MaxEvents
    <3>1. call[w] \in Calls /\ Sound(w)
      BY DEF StoreInv, StoreTyped
    <3>2. QED
      BY <2>1, <2>2, <3>1, MaxEventsAssumption DEF Sound, Calls
  <2>4. ToSet(replay) \subseteq Projections
    BY DEF StoreInv, StoreTyped, ToSet
  <2>5. QED
    BY <2>2, <2>3, <2>4 DEF TypeOK, StoreInv, StoreTyped
<1>2. QED
  BY <1>1, StoreInvariance, PTL

\* A decision on record is the policy's on the history before it, although it
\* was computed before the lock was taken (store.py evaluate).
THEOREM RecordedDecisionsAreCurrent == Spec => []DecisionsAreCurrent
  BY StoreInvariance, PTL DEF StoreInv

\* What a caller projected is what it appends to (store.py _append).
THEOREM SingleWriter == Spec => []ProjectedIsCurrent
<1>1. StoreInv => ProjectedIsCurrent
  BY DEF StoreInv, Sound, ProjectedIsCurrent
<1>2. QED
  BY <1>1, StoreInvariance, PTL

\* What passed the checks under the lock is committed: the unique sequence
\* numbers and keys of the database refuse nothing (store.py _append).
CommitIsAccepted ==
  \A w \in Callers :
     At(w, "projected") =>
        /\ lock = w /\ call[w].seen = Len(log)
        /\ \A e \in ToSet(log) : e.key # call[w].event.key

THEOREM DatabaseRefusesNothing == Spec => []CommitIsAccepted
<1>1. StoreInv => CommitIsAccepted
  BY DEF StoreInv, Sound, At, EventsWithKey, CommitIsAccepted
<1>2. QED
  BY <1>1, StoreInvariance, PTL

\* No caller takes the cached manifest for corrupt (store.py materialize).
THEOREM CacheIsNeverMistrusted == Spec => []CacheIsTrusted
<1>1. StoreInv => CacheIsTrusted
  BY DEF StoreInv, Sound, CacheIsTrusted
<1>2. QED
  BY <1>1, StoreInvariance, PTL

\* A call whose event is in the log already is answered as served, and nothing
\* is appended while it holds the lock.
THEOREM RetriesAreAnswered == Spec => RetryIsAnswered
<1> DEFINE answered ==
      \A w \in Callers :
        At(w, "locked") /\ call[w].event \in ToSet(log)
          => call'[w].error \notin {"refused", "conflict"} /\ log' = log
<1>1. ASSUME StoreInv, [Next]_vars PROVE [answered]_vars
  <2> SUFFICES ASSUME Next, NEW w \in Callers, At(w, "locked"), call[w].event \in ToSet(log)
               PROVE  call'[w].error \notin {"refused", "conflict"} /\ log' = log
    BY <1>1
  <2>1. /\ lock = w /\ call[w].error = "none" /\ call \in [Callers -> Calls]
        /\ call[w].event \in EventsWithKey(call[w].event.key)
    BY <1>1 DEF StoreInv, StoreTyped, Sound, At, EventsWithKey
  <2>2. PICK v \in Callers : \/ \E r \in Requests : Submit(v, r) \/ ReadManifest(v, r)
                             \/ Proceed(v)
                             \/ Crash(v)
    BY DEF Next
  <2>3. ~Commit(v)
    BY <1>1, <2>1 DEF StoreInv, Sound, At, Commit
  <2>4. log' = log
    BY <2>2, <2>3 DEF Submit, ReadManifest, Proceed, Decide, Acquire, RefuseLocked, AnswerRetry,
                      RefuseAppend, ProjectEvent, ReadCache, ReadLog, WriteCache, Crash, stream
  <2>5. CASE v # w
    <3>1. call'[w] = call[w]
      BY <2>1, <2>2, <2>3, <2>5
         DEF Submit, ReadManifest, Proceed, Decide, Acquire, RefuseLocked, AnswerRetry,
             RefuseAppend, ProjectEvent, ReadCache, ReadLog, WriteCache, Crash, Finish
    <3>2. QED
      BY <2>1, <2>4, <3>1
  <2>6. CASE v = w
    <3>1. AnswerRetry(w) \/ Crash(w)
      BY <2>1, <2>2, <2>3, <2>6
         DEF Submit, ReadManifest, Proceed, Decide, Acquire, RefuseLocked,
             RefuseAppend, ProjectEvent, ReadCache, ReadLog, WriteCache, At
    <3>2. CASE AnswerRetry(w)
      BY <2>1, <2>4, <3>2 DEF AnswerRetry
    <3>3. CASE Crash(w)
      BY <2>1, <2>4, <3>3 DEF Crash, Finish
    <3>4. QED
      BY <3>1, <3>2, <3>3
  <2>7. QED
    BY <2>5, <2>6
<1>2. QED
  BY <1>1, StoreInvariance, PTL DEF Spec, RetryIsAnswered
=============================================================================
