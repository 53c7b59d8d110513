------------------------- MODULE LeaseWatch_proofs -------------------------
(***************************************************************************)
(* Proofs about LeaseWatch, for every set of consumers and plans, every    *)
(* log that a campaign may begin with and every bound on leases, commands, *)
(* faults and documents.                                                   *)
(***************************************************************************)
EXTENDS LeaseWatch, SequenceTheorems, FiniteSetTheorems, WellFoundedInduction, TLAPS

\* What the fields of an event and of a publication range over, bounds aside.
Entries == [type : EventTypes, by : Nat, of : Nat, ready : BOOLEAN]
OnRecords == [of : Nat, urn : 0 .. MaxDocuments, verified : BOOLEAN]
Runs == [at : Points, lease : Nat, observed : SUBSET Consumers, complete : BOOLEAN,
         stale : BOOLEAN, of : Nat, urn : 0 .. MaxDocuments]
Issued == [manifest : Nat, expired : BOOLEAN]
Receipted == [Leases -> {NotWatched} \cup [result : Results, phase : Phases]]

-----------------------------------------------------------------------------
(***************************************************************************)
(* The inductive invariant, in parts.                                      *)
(*                                                                         *)
(* Types, and who runs: the operator holds no lease; the watch holds the   *)
(* lock and the latest lease from its first step to its last, so nobody    *)
(* else appends meanwhile.                                                 *)
(***************************************************************************)
CampaignTyped ==
  log \in Seq(Entries) /\ projection \in Projections /\ publication \in OnRecords

LeasesTyped ==
  /\ issued \in Seq(Issued) /\ Latest <= MaxLeases
  /\ claimed \subseteq 1 .. Latest /\ gate \in 0 .. Latest
  /\ late \in BOOLEAN /\ lateAt \in [Leases -> BOOLEAN]
  /\ receipt \in Receipted

RunsTyped ==
  /\ run \in [Processes -> Runs]
  /\ run[Operator].lease = 0 /\ run[Operator].at # "done"
  /\ IF run[Watcher].at = "idle" THEN lock = NoProcess /\ run[Watcher].lease = 0
     ELSE lock = Watcher /\ run[Watcher].lease = Latest /\ Latest > 0

(***************************************************************************)
(* Leases: each is of a manifest of its own, one that the log has reached. *)
(***************************************************************************)
LeasesDiffer ==
  /\ \A q \in 1 .. Latest : issued[q].manifest <= Manifest
  /\ \A q, r \in 1 .. Latest : q # r => issued[q].manifest # issued[r].manifest

(***************************************************************************)
(* What the watch of a lease has appended, and what follows it.            *)
(***************************************************************************)
Is(type, i) == i \in DOMAIN log /\ log[i].type = type
ByWatch(q, type, i) == Is(type, i) /\ log[i].by = q
Has(q, type) == \E i \in DOMAIN log : ByWatch(q, type, i)

ReconciledAfter(q) ==
  \E i, j \in DOMAIN log : i < j /\ ByWatch(q, "WATCH", i) /\ Is("RECONCILED", j)
EvaluatedAfter(q) ==
  \E i, j \in DOMAIN log : i < j /\ ByWatch(q, "WATCH", i) /\ Is("EVALUATED", j)
PublishedAfter(q) ==
  \E i, j, k \in DOMAIN log :
     i < j /\ j < k /\ ByWatch(q, "WATCH", i) /\ Is("EVALUATED", j) /\ Is("PUBLISHED", k)
VerifiedAfter(q) ==
  \E i, j, k, l \in DOMAIN log :
     /\ i < j /\ j < k /\ k < l /\ ByWatch(q, "WATCH", i)
     /\ Is("EVALUATED", j) /\ Is("PUBLISHED", k) /\ Is("VERIFIED", l)

\* A watch appends no event twice, its observation first, and the later events
\* after those that its next run looks for.
WatchOrder ==
  \A q \in Leases :
     /\ \A type \in EventTypes, i, j \in DOMAIN log :
           ByWatch(q, type, i) /\ ByWatch(q, type, j) => i = j
     /\ \A type \in EventTypes, j \in DOMAIN log :
           type # "WATCH" /\ ByWatch(q, type, j)
             => \E i \in DOMAIN log : i < j /\ ByWatch(q, "WATCH", i)
     /\ Has(q, "STALE") => Migrated \in projection.known /\ projection.disp[Migrated] = "STALE"
     /\ Has(q, "EVALUATED") \/ Has(q, "PUBLISHED") \/ Has(q, "VERIFIED") => ReconciledAfter(q)
     /\ Has(q, "PUBLISHED") => PublishedAfter(q)
     /\ Has(q, "VERIFIED") => VerifiedAfter(q)

PublishedBefore ==
  /\ \A i \in DOMAIN log : log[i].type = "PUBLISHED" => log[i].of < i
  /\ \A w \in Processes : run[w].at \in {"writing", "written"} => run[w].of <= Manifest

\* What a run of the watch relies on at each of its steps.
WatchKnows ==
  LET r == run[Watcher]  q == r.lease IN
  r.at # "idle" =>
     /\ Has(q, "WATCH")
     /\ r.at \in {"reconciling", "staling", "recording"} => ~ReconciledAfter(q)
     /\ r.at \notin {"reconciling", "staling", "recording"} => ReconciledAfter(q)
     /\ r.at = "evaluating" =>
           ~Has(q, "EVALUATED") /\ ~Has(q, "PUBLISHED") /\ ~Has(q, "VERIFIED")
     /\ r.at \in {"publishing", "writing", "written"} => EvaluatedAfter(q)
     /\ r.at \in {"writing", "written"} => ~PublishedAfter(q) /\ r.of = Manifest
     /\ r.at \in {"verifying", "reread"} => PublishedAfter(q)
     /\ r.at = "reread" => ~VerifiedAfter(q)

WatchInv == WatchOrder /\ PublishedBefore /\ WatchKnows

(***************************************************************************)
(* Consumption: the publication on record is the last in the log, and what *)
(* the gate found when it verified a lease lies in the log before the      *)
(* manifest of the lease, where nothing changes any more.                  *)
(***************************************************************************)
Sealed(q) ==
  \E i, j \in 1 .. issued[q].manifest :
     /\ i < j /\ log[i].type = "PUBLISHED" /\ log[j].type = "VERIFIED"
     /\ i - 1 \in DOMAIN log /\ log[i].of = i - 1 /\ log[i - 1].ready
     /\ \A k \in i .. issued[q].manifest : log[k].type # "RECONCILED"

ClaimInv ==
  /\ OnRecord(log, publication)
  /\ \A q \in claimed \cup ({gate} \ {0}) : Sealed(q)

(***************************************************************************)
(* Freshness: the late consumer, once the sources show it, is in what a    *)
(* watch observes and so among the consumers of the projection, where it   *)
(* is new, until somebody else reconciles.                                 *)
(***************************************************************************)
Foreign(q) ==
  \E i, j \in DOMAIN log :
     i < j /\ ByWatch(q, "WATCH", i) /\ Is("RECONCILED", j) /\ log[j].by # q

FreshInv ==
  /\ projection.inventory = BaseProjection.inventory
  /\ \A q \in Leases : lateAt[q] =>
        /\ late
        /\ Has(q, "RECONCILED") /\ ~Foreign(q) => Late \in projection.current
        /\ receipt[q].result = "UNCHANGED" => Foreign(q)
  /\ run[Watcher].at \in {"staling", "recording"} /\ lateAt[run[Watcher].lease]
       => Late \in run[Watcher].observed

-----------------------------------------------------------------------------
(* Types, and who runs.                                                    *)

LEMMA BoundsAre == MaxLeases \in Nat /\ MaxDocuments \in Nat
  BY BoundsAssumption

LEMMA IdleIs ==
  /\ Idle \in Runs /\ Idle.at = "idle" /\ Idle.lease = 0
  /\ \A point \in Points : [Idle EXCEPT !.at = point] \in Runs
<1>1. 0 \in 0 .. MaxDocuments
  BY BoundsAre
<1>2. QED
  BY <1>1 DEF Idle, Runs, Points

LEMMA ProcessesAre == Processes = {Watcher, Operator} /\ Watcher # Operator /\ NoProcess # Watcher
  BY ProcessAssumption DEF Processes

\* A process that goes on keeps its lease, and the watch stays running.
LEMMA MoveTyped ==
  ASSUME RunsTyped, NEW w \in Processes, NEW s \in Runs, run' = [run EXCEPT ![w] = s],
         s.lease = run[w].lease, UNCHANGED <<lock, issued>>,
         w = Watcher => run[w].at # "idle" /\ s.at # "idle",
         w = Operator => s.at # "done"
  PROVE  /\ RunsTyped'
         /\ run'[w] = s /\ \A v \in Processes \ {w} : run'[v] = run[v]
<1>1. /\ run' \in [Processes -> Runs] /\ run'[w] = s
      /\ \A v \in Processes \ {w} : run'[v] = run[v]
  BY DEF RunsTyped
<1>2. QED
  BY <1>1, ProcessesAre DEF RunsTyped, Latest

\* Goto is such a step.
LEMMA GotoIs ==
  ASSUME RunsTyped, NEW w \in Processes, NEW point \in Points, Goto(w, point)
  PROVE  LET s == [run[w] EXCEPT !.at = point] IN
         /\ run' = [run EXCEPT ![w] = s] /\ s \in Runs /\ s.at = point
         /\ s.lease = run[w].lease /\ s.observed = run[w].observed /\ s.of = run[w].of
         /\ s.urn = run[w].urn
  BY DEF RunsTyped, Goto, Runs

\* So is Proceed.
LEMMA ProceedIs ==
  ASSUME RunsTyped, NEW w \in Processes, NEW fields \in Runs, Proceed(w, fields)
  PROVE  LET s == [fields EXCEPT !.lease = run[w].lease] IN
         /\ run' = [run EXCEPT ![w] = s] /\ s \in Runs /\ s.at = fields.at
         /\ s.lease = run[w].lease /\ s.observed = fields.observed /\ s.of = fields.of
         /\ s.urn = fields.urn
  BY DEF RunsTyped, Proceed, Runs

\* Then ends a command of the operator, and goes on with the watch.
LEMMA ThenIs ==
  ASSUME RunsTyped, NEW w \in Processes, NEW point \in Points, Then(w, point)
  PROVE  \E s \in Runs :
           /\ run' = [run EXCEPT ![w] = s] /\ s.lease = run[w].lease
           /\ s.at = IF w = Watcher THEN point ELSE "idle"
<1> DEFINE at == IF w = Watcher THEN point ELSE "idle"
           fields == [Idle EXCEPT !.at = at]
           s == [fields EXCEPT !.lease = run[w].lease]
<1>1. fields \in Runs /\ fields.at = at
  BY IdleIs DEF Points, Idle
<1>2. Proceed(w, fields)
  BY DEF Then
<1> HIDE DEF fields
<1>3. run' = [run EXCEPT ![w] = s] /\ s \in Runs /\ s.at = at /\ s.lease = run[w].lease
  BY <1>1, <1>2, ProceedIs
<1> HIDE DEF s
<1>4. QED
  BY <1>3

\* A process that stops gives back its lock.
LEMMA StopTyped ==
  ASSUME RunsTyped, NEW w \in Processes, Stop(w), UNCHANGED issued
  PROVE  /\ RunsTyped'
         /\ run'[w] = Idle /\ \A v \in Processes \ {w} : run'[v] = run[v]
<1>1. /\ run' \in [Processes -> Runs] /\ run'[w] = Idle
      /\ \A v \in Processes \ {w} : run'[v] = run[v]
  BY IdleIs DEF RunsTyped, Stop
<1>2. lock' = IF lock = w THEN NoProcess ELSE lock
  BY DEF Stop
<1>3. QED
  BY <1>1, <1>2, IdleIs, ProcessesAre DEF RunsTyped, Latest

\* The receipt of a watch that fails does not say UNCHANGED.
LEMMA FailsTyped ==
  ASSUME LeasesTyped, RunsTyped, NEW w \in Processes, run[w].at \in Points \ {"idle", "done"},
         NEW result \in {"FAILED", "UNAVAILABLE"}, Fails(w, result)
  PROVE  /\ receipt' \in Receipted
         /\ \A q \in Leases : receipt'[q].result = "UNCHANGED" => receipt[q].result = "UNCHANGED"
<1> DEFINE report == [result |-> result, phase |-> PhaseAt(run[w].at)]
<1>1. PhaseAt(run[w].at) \in Phases
  BY DEF PhaseAt, Points, Phases
<1>2. report \in [result : Results, phase : Phases] /\ report.result # "UNCHANGED"
  BY <1>1 DEF Results
<1>3. receipt' = receipt \/ receipt' = [receipt EXCEPT ![run[w].lease] = report]
  BY DEF Fails
<1> HIDE DEF report
<1>4. QED
  BY <1>2, <1>3 DEF LeasesTyped, Receipted

-----------------------------------------------------------------------------
(***************************************************************************)
(* What the steps of a run do, as far as the invariant can tell: the run   *)
(* ends, goes on without an event, or appends one.                         *)
(***************************************************************************)
Typed == CampaignTyped /\ LeasesTyped /\ RunsTyped
Kept == UNCHANGED <<issued, claimed, gate, late, lateAt>>
Onward(w, point) == IF w = Watcher THEN point ELSE "idle"

Ended(w) ==
  /\ run[w].at # "idle" /\ Stop(w) /\ UNCHANGED campaign /\ Kept
  /\ receipt' \in Receipted
  /\ \A q \in Leases : receipt'[q].result = "UNCHANGED" => receipt[q].result = "UNCHANGED"

Goes(w, s) ==
  /\ s \in Runs /\ run' = [run EXCEPT ![w] = s] /\ s.lease = run[w].lease
  /\ UNCHANGED <<lock, receipt>> /\ Kept

SameIsPublished(of) == \E i \in DOMAIN log : log[i].type = "PUBLISHED" /\ log[i].of = of

Moved(w, s) ==
  LET r == run[w] IN
  /\ Goes(w, s) /\ UNCHANGED campaign
  /\ \/ r.at = "reconciling" /\ s.at \in {"staling", "recording"} /\ s.observed = Observable
     \/ r.at = "publishing" /\ Resumes(w) /\ s.at = "writing" /\ s.of = Manifest
     \/ r.at = "publishing" /\ ~Resumes(w) /\ s.at = "verifying"
     \/ r.at = "writing" /\ s.at = "written" /\ s.of = r.of
     \/ r.at = "written" /\ SameIsPublished(r.of) /\ s.at = Onward(w, "verifying")
     \/ r.at = "verifying" /\ s.at = Onward(w, "done")
     \/ r.at = "verifying" /\ ~Verified(w) /\ s.at = "reread"

Added(w, s, e) ==
  LET r == run[w] IN
  /\ Goes(w, s) /\ Free(w)
  /\ e \in Entries /\ e.by = r.lease /\ log' = Append(log, e)
  /\ e.type # "PUBLISHED" => e.of = 0
  /\ \/ /\ r.at = "staling" /\ s.at = "recording" /\ s.observed = r.observed
        /\ e.type = "STALE" /\ MayChangeDisposition(projection, Migrated, "STALE")
        /\ projection' = DispositionChanged(projection, Migrated, "STALE", NoPlan)
        /\ publication' = publication
     \/ /\ r.at = "recording" /\ s.at = "evaluating" /\ e.type = "RECONCILED"
        /\ \E env \in Envelopes :
              projection' = ReconciliationRecorded(projection, r.observed,
                                                   [c \in Consumers |-> "IDENTIFIED"], env)
        /\ publication' = publication
     \/ /\ r.at = "evaluating" /\ s.at = Onward(w, "publishing") /\ e.type = "EVALUATED"
        /\ projection' = PolicyEvaluated(projection) /\ publication' = publication
     \/ /\ r.at = "written" /\ s.at = Onward(w, "verifying")
        /\ e.type = "PUBLISHED" /\ e.of = r.of
        /\ projection' = projection
        /\ publication' = [of |-> r.of, urn |-> r.urn, verified |-> FALSE]
     \/ /\ r.at = "reread" /\ s.at = Onward(w, "done") /\ e.type = "VERIFIED"
        /\ publication.of = r.of
        /\ projection' = projection
        /\ publication' = [publication EXCEPT !.verified = TRUE]

Does(w) == Ended(w) \/ (\E s : Moved(w, s)) \/ \E s, e : Added(w, s, e)

\* A run that is refused ends.
LEMMA RefusedEnds ==
  ASSUME Typed, NEW w \in Processes, run[w].at \in Points \ {"idle", "done"},
         NEW accepted, EventRefused(w, accepted)
  PROVE  Ended(w)
<1>1. Fails(w, "FAILED") /\ UNCHANGED campaign /\ Kept
  BY DEF EventRefused, Unchanged, Kept, sources
<1>2. QED
  BY <1>1, FailsTyped DEF Typed, Ended, Fails

\* What an event looks like.
LEMMA AppendedIs ==
  ASSUME Typed, NEW w \in Processes, NEW type \in EventTypes, NEW of \in Nat,
         NEW s \in Runs, run' = [run EXCEPT ![w] = s], s.lease = run[w].lease, NEW pp
  PROVE  LET e == [type |-> type, by |-> run'[w].lease, of |-> of, ready |-> Ready(pp)] IN
         e \in Entries /\ e.type = type /\ e.by = run[w].lease /\ e.of = of
<1>1. run'[w].lease = run[w].lease /\ run[w].lease \in Nat
  BY DEF Typed, RunsTyped, Runs
<1>2. Ready(pp) \in BOOLEAN
  BY DEF Ready
<1>3. QED
  BY <1>1, <1>2 DEF Entries

LEMMA ReadSourcesDoes == ASSUME Typed, NEW w \in Processes, ReadSources(w) PROVE Does(w)
<1>1. PICK complete \in BOOLEAN, intact \in BOOLEAN :
        Proceed(w, [Idle EXCEPT
                     !.at = IF ~intact /\ \E c \in projection.known \ {Late} :
                                            projection.disp[c] = "VALIDATED"
                            THEN "staling" ELSE "recording",
                     !.observed = Observable,
                     !.complete = complete /\ intact])
  BY DEF ReadSources
<1> DEFINE at == IF ~intact /\ \E c \in projection.known \ {Late} :
                                  projection.disp[c] = "VALIDATED"
                 THEN "staling" ELSE "recording"
           both == complete /\ intact
           fields == [Idle EXCEPT !.at = at, !.observed = Observable, !.complete = both]
           s == [fields EXCEPT !.lease = run[w].lease]
<1>2. /\ at \in {"staling", "recording"} /\ Observable \in SUBSET Consumers
      /\ both \in BOOLEAN
  BY LateAssumption DEF Typed, CampaignTyped, Projections, Observable
<1> HIDE DEF at, both
<1>3. fields \in Runs /\ fields.at = at /\ fields.observed = Observable
  <2>1. Idle \in Runs /\ at \in Points
    BY <1>2, IdleIs DEF Points
  <2>2. QED
    BY <1>2, <2>1 DEF Runs
<1>4. Proceed(w, fields)
  BY <1>1 DEF at, both
<1> HIDE DEF fields
<1>5. /\ run' = [run EXCEPT ![w] = s] /\ s \in Runs /\ s.at = at /\ s.observed = Observable
      /\ s.lease = run[w].lease
  BY <1>3, <1>4, ProceedIs DEF Typed
<1> HIDE DEF s
<1>6. Goes(w, s) /\ UNCHANGED campaign /\ run[w].at = "reconciling"
  BY <1>5 DEF ReadSources, Unchanged, Goes, Kept, At, sources
<1>7. Moved(w, s)
  BY <1>2, <1>5, <1>6 DEF Moved
<1>8. QED
  BY <1>7 DEF Does

LEMMA RecordStaleDoes == ASSUME Typed, NEW w \in Processes, RecordStale(w) PROVE Does(w)
<1>1. run[w].at = "staling"
  BY DEF RecordStale, At
<1>2. CASE EventRefused(w, MayChangeDisposition(projection, Migrated, "STALE"))
  BY <1>1, <1>2, RefusedEnds DEF Does, Points
<1>3. CASE ~EventRefused(w, MayChangeDisposition(projection, Migrated, "STALE"))
  <2> DEFINE s == [run[w] EXCEPT !.at = "recording"]
             pp == DispositionChanged(projection, Migrated, "STALE", NoPlan)
  <2>1. /\ Free(w) /\ MayChangeDisposition(projection, Migrated, "STALE")
        /\ Goto(w, "recording") /\ Appended(w, "STALE", 0, pp, publication)
        /\ UNCHANGED <<lock, receipt>> /\ Kept
    BY <1>3 DEF RecordStale, Unchanged, Kept, sources
  <2>2. /\ run' = [run EXCEPT ![w] = s] /\ s \in Runs /\ s.at = "recording"
        /\ s.lease = run[w].lease /\ s.observed = run[w].observed
    BY <2>1, GotoIs DEF Typed, Points
  <2> HIDE DEF s, pp
  <2> DEFINE e == [type |-> "STALE", by |-> run'[w].lease, of |-> 0, ready |-> Ready(pp)]
  <2>3. e \in Entries /\ e.type = "STALE" /\ e.by = run[w].lease /\ e.of = 0
    BY <2>2, AppendedIs DEF EventTypes
  <2>4. log' = Append(log, e) /\ projection' = pp /\ publication' = publication
    BY <2>1 DEF Appended
  <2> HIDE DEF e
  <2>5. Added(w, s, e)
    BY <1>1, <2>1, <2>2, <2>3, <2>4 DEF Added, Goes, pp
  <2>6. QED
    BY <2>5 DEF Does
<1>4. QED
  BY <1>2, <1>3

LEMMA RecordReconciliationDoes ==
  ASSUME Typed, NEW w \in Processes, RecordReconciliation(w) PROVE Does(w)
<1>1. run[w].at = "recording"
  BY DEF RecordReconciliation, At
<1>2. CASE EventRefused(w, MayRecordReconciliation(projection))
  BY <1>1, <1>2, RefusedEnds DEF Does, Points
<1>3. CASE ~EventRefused(w, MayRecordReconciliation(projection))
  <2> DEFINE fields == [Idle EXCEPT !.at = "evaluating"]
             s == [fields EXCEPT !.lease = run[w].lease]
             env == [live |-> TRUE, complete |-> run[w].complete]
             pp == ReconciliationRecorded(projection, run[w].observed,
                                          [c \in Consumers |-> "IDENTIFIED"], env)
             e == [type |-> "RECONCILED", by |-> run'[w].lease, of |-> 0, ready |-> Ready(pp)]
  <2>1. /\ Free(w) /\ Proceed(w, fields) /\ Appended(w, "RECONCILED", 0, pp, publication)
        /\ UNCHANGED <<lock, receipt>> /\ Kept
    BY <1>3 DEF RecordReconciliation, Unchanged, Kept, sources
  <2>2. fields \in Runs /\ fields.at = "evaluating"
    BY IdleIs DEF Points, Idle
  <2>3. env \in Envelopes
    BY DEF Envelopes, Typed, RunsTyped, Runs
  <2> HIDE DEF fields, env
  <2>4. /\ run' = [run EXCEPT ![w] = s] /\ s \in Runs /\ s.at = "evaluating"
        /\ s.lease = run[w].lease
    BY <2>1, <2>2, ProceedIs DEF Typed
  <2> HIDE DEF s, pp
  <2>5. e \in Entries /\ e.type = "RECONCILED" /\ e.by = run[w].lease /\ e.of = 0
    BY <2>4, AppendedIs DEF EventTypes
  <2>6. log' = Append(log, e) /\ projection' = pp /\ publication' = publication
    BY <2>1 DEF Appended
  <2> HIDE DEF e
  <2>7. Added(w, s, e)
    BY <1>1, <2>1, <2>3, <2>4, <2>5, <2>6 DEF Added, Goes, pp
  <2>8. QED
    BY <2>7 DEF Does
<1>4. QED
  BY <1>2, <1>3

LEMMA EvaluateDoes == ASSUME Typed, NEW w \in Processes, Evaluate(w) PROVE Does(w)
<1> DEFINE accepted == MayEvaluate(projection, Decision(projection), projection.time)
<1>1. run[w].at = "evaluating"
  BY DEF Evaluate, At
<1>2. CASE EventRefused(w, accepted)
  BY <1>1, <1>2, RefusedEnds DEF Does, Points
<1>3. CASE ~EventRefused(w, accepted)
  <2> DEFINE pp == PolicyEvaluated(projection)
             e == [type |-> "EVALUATED", by |-> run'[w].lease, of |-> 0, ready |-> Ready(pp)]
  <2>1. /\ Free(w) /\ Then(w, "publishing") /\ Appended(w, "EVALUATED", 0, pp, publication)
        /\ UNCHANGED <<lock, receipt>> /\ Kept
    BY <1>3 DEF Evaluate, Unchanged, Kept, sources
  <2>2. PICK s \in Runs : /\ run' = [run EXCEPT ![w] = s] /\ s.lease = run[w].lease
                          /\ s.at = Onward(w, "publishing")
    BY <2>1, ThenIs DEF Typed, Points, Onward
  <2> HIDE DEF pp
  <2>3. e \in Entries /\ e.type = "EVALUATED" /\ e.by = run[w].lease /\ e.of = 0
    BY <2>2, AppendedIs DEF EventTypes
  <2>4. log' = Append(log, e) /\ projection' = pp /\ publication' = publication
    BY <2>1 DEF Appended
  <2> HIDE DEF e
  <2>5. Added(w, s, e)
    BY <1>1, <2>1, <2>2, <2>3, <2>4 DEF Added, Goes, pp
  <2>6. QED
    BY <2>5 DEF Does
<1>4. QED
  BY <1>2, <1>3

LEMMA ReadManifestDoes == ASSUME Typed, NEW w \in Processes, ReadManifest(w) PROVE Does(w)
<1>1. /\ run[w].at = "publishing" /\ UNCHANGED <<campaign, lock, receipt>> /\ Kept
  BY DEF ReadManifest, At, Unchanged, Kept, sources
<1>2. CASE Resumes(w)
  <2> DEFINE of == Manifest
             urn == KnownDocument
             fields == [Idle EXCEPT !.at = "writing", !.of = of, !.urn = urn]
             s == [fields EXCEPT !.lease = run[w].lease]
  <2>1. of \in Nat /\ urn \in 0 .. MaxDocuments
    BY DEF Typed, CampaignTyped, OnRecords, Manifest, KnownDocument
  <2>2. Proceed(w, fields)
    BY <1>2 DEF ReadManifest
  <2> HIDE DEF of, urn
  <2>3. fields \in Runs /\ fields.at = "writing" /\ fields.of = of
    <3>1. Idle \in Runs /\ "writing" \in Points
      BY IdleIs DEF Points
    <3>2. QED
      BY <2>1, <3>1 DEF Runs
  <2> HIDE DEF fields
  <2>4. /\ run' = [run EXCEPT ![w] = s] /\ s \in Runs /\ s.at = "writing" /\ s.of = of
        /\ s.lease = run[w].lease
    BY <2>2, <2>3, ProceedIs DEF Typed
  <2> HIDE DEF s
  <2>5. Moved(w, s)
    BY <1>1, <1>2, <2>4 DEF Moved, Goes, of
  <2>6. QED
    BY <2>5 DEF Does
<1>3. CASE ~Resumes(w)
  <2> DEFINE s == [run[w] EXCEPT !.at = "verifying"]
  <2>1. Goto(w, "verifying")
    BY <1>3 DEF ReadManifest
  <2>2. /\ run' = [run EXCEPT ![w] = s] /\ s \in Runs /\ s.at = "verifying"
        /\ s.lease = run[w].lease
    BY <2>1, GotoIs DEF Typed, Points
  <2> HIDE DEF s
  <2>3. Moved(w, s)
    BY <1>1, <1>3, <2>2 DEF Moved, Goes
  <2>4. QED
    BY <2>3 DEF Does
<1>4. QED
  BY <1>2, <1>3

LEMMA ReuseWriteDoes == ASSUME Typed, NEW w \in Processes, ReuseWrite(w) PROVE Does(w)
<1> DEFINE s == [run[w] EXCEPT !.at = "written"]
<1>1. /\ run[w].at = "writing" /\ UNCHANGED <<campaign, lock, receipt>> /\ Kept
      /\ Goto(w, "written")
  BY DEF ReuseWrite, At, Unchanged, Kept, sources
<1>2. /\ run' = [run EXCEPT ![w] = s] /\ s \in Runs /\ s.at = "written"
      /\ s.lease = run[w].lease /\ s.of = run[w].of
  BY <1>1, GotoIs DEF Typed, Points
<1> HIDE DEF s
<1>3. Moved(w, s)
  BY <1>1, <1>2 DEF Moved, Goes
<1>4. QED
  BY <1>3 DEF Does

\* The community modules' Min chooses a member that no other is below.
LEMMA MinIsMember ==
  ASSUME NEW S \in SUBSET Nat, S # {}
  PROVE  Min(S) \in S /\ \A y \in S : Min(S) <= y
<1> DEFINE R == OpToRel(<, Nat)
<1>1. IsWellFoundedOn(R, Nat)
  BY NatLessThanWellFounded
<1>2. \A x, y \in Nat : <<y, x>> \in R <=> y < x
  BY DEF OpToRel
<1> HIDE DEF R
<1>3. PICK x \in S : \A y \in S : ~(<<y, x>> \in R)
  BY <1>1, WFMin, Zenon
<1>4. \A y \in S : ~(y < x)
  BY <1>2, <1>3, Zenon
<1>5. \A y \in S : x <= y
  BY <1>4
<1>6. QED
  BY <1>5 DEF Min

LEMMA WriteDoes == ASSUME Typed, NEW w \in Processes, Write(w) PROVE Does(w)
<1> DEFINE unused == {u \in 1 .. MaxDocuments : documents[u] = 0}
           urn == IF run[w].urn > 0 THEN run[w].urn ELSE Min(unused)
           s == [run[w] EXCEPT !.at = "written", !.urn = urn]
<1>1. /\ run[w].at = "writing" /\ UNCHANGED campaign /\ Kept
      /\ run[w].urn > 0 \/ unused # {}
  BY DEF Write, At, Kept
<1>2. run[w].urn \in 0 .. MaxDocuments
  BY DEF Typed, RunsTyped, Runs
<1>3. urn \in 0 .. MaxDocuments
  <2>1. unused \in SUBSET Nat /\ unused \subseteq 0 .. MaxDocuments
    BY BoundsAre
  <2> HIDE DEF unused
  <2>2. QED
    BY <1>1, <1>2, <2>1, MinIsMember
<1> HIDE DEF unused, urn
<1>4. CASE /\ run' = [run EXCEPT ![w].at = "written", ![w].urn = urn]
           /\ UNCHANGED <<lock, receipt>>
  <2>1. run \in [Processes -> Runs] /\ run[w] \in Runs /\ "written" \in Points
    BY DEF Typed, RunsTyped, Points
  <2>2. /\ s \in Runs /\ s.at = "written" /\ s.lease = run[w].lease /\ s.of = run[w].of
    BY <1>3, <2>1 DEF Runs
  <2>3. run' = [run EXCEPT ![w] = s]
    BY <1>4, <2>1
  <2> HIDE DEF s
  <2>4. Moved(w, s)
    BY <1>1, <1>4, <2>2, <2>3 DEF Moved, Goes
  <2>5. QED
    BY <2>4 DEF Does
<1>5. CASE Fails(w, "UNAVAILABLE")
  BY <1>1, <1>5, FailsTyped DEF Typed, Ended, Fails, Does, Points
<1>6. QED
  BY <1>4, <1>5 DEF Write, urn, unused

LEMMA RecordPublicationDoes ==
  ASSUME Typed, NEW w \in Processes, RecordPublication(w) PROVE Does(w)
<1> DEFINE of == run[w].of
           accepted == publication.urn \in {0, run[w].urn}
           same == SelectInSeq(log, LAMBDA e : e.type = "PUBLISHED" /\ e.of = run[w].of) > 0
<1>1. run[w].at = "written" /\ of \in Nat
  BY DEF RecordPublication, At, Typed, RunsTyped, Runs
<1>2. same => SameIsPublished(of)
  BY DEF SelectInSeq, SameIsPublished
<1>3. CASE EventRefused(w, accepted)
  BY <1>1, <1>3, RefusedEnds DEF Does, Points
<1>4. CASE ~EventRefused(w, accepted)
  <2>1. /\ Free(w) /\ Then(w, "verifying") /\ UNCHANGED <<lock, receipt>> /\ Kept
        /\ \/ /\ same /\ UNCHANGED campaign
           \/ Appended(w, "PUBLISHED", of, projection,
                       [of |-> of, urn |-> run[w].urn, verified |-> FALSE])
    BY <1>4 DEF RecordPublication, Unchanged, Kept, sources
  <2>2. PICK s \in Runs : /\ run' = [run EXCEPT ![w] = s] /\ s.lease = run[w].lease
                          /\ s.at = Onward(w, "verifying")
    BY <2>1, ThenIs DEF Typed, Points, Onward
  <2> HIDE DEF same, of
  <2>3. CASE same /\ UNCHANGED campaign
    <3>1. Moved(w, s)
      BY <1>1, <1>2, <2>1, <2>2, <2>3 DEF Moved, Goes, of
    <3>2. QED
      BY <3>1 DEF Does
  <2>4. CASE Appended(w, "PUBLISHED", of, projection,
                      [of |-> of, urn |-> run[w].urn, verified |-> FALSE])
    <3> DEFINE e == [type |-> "PUBLISHED", by |-> run'[w].lease, of |-> of,
                     ready |-> Ready(projection)]
    <3>1. e \in Entries /\ e.type = "PUBLISHED" /\ e.by = run[w].lease /\ e.of = of
      BY <1>1, <2>2, AppendedIs DEF EventTypes
    <3>2. /\ log' = Append(log, e) /\ projection' = projection
          /\ publication' = [of |-> of, urn |-> run[w].urn, verified |-> FALSE]
      BY <2>4 DEF Appended
    <3> HIDE DEF e
    <3>3. Added(w, s, e)
      BY <1>1, <2>1, <2>2, <3>1, <3>2 DEF Added, Goes, of
    <3>4. QED
      BY <3>3 DEF Does
  <2>5. QED
    BY <2>1, <2>3, <2>4
<1>5. QED
  BY <1>3, <1>4

LEMMA ReadBackDoes == ASSUME Typed, NEW w \in Processes, ReadBack(w) PROVE Does(w)
<1>1. /\ run[w].at = "verifying" /\ UNCHANGED <<campaign, lock, receipt>> /\ Kept
  BY DEF ReadBack, At, Unchanged, Kept, sources
<1>2. CASE Verified(w) /\ Goto(w, "done")
  <2> DEFINE s == [run[w] EXCEPT !.at = "done"]
  <2>1. /\ run' = [run EXCEPT ![w] = s] /\ s \in Runs /\ s.at = "done"
        /\ s.lease = run[w].lease
    BY <1>2, GotoIs DEF Typed, Points
  <2> HIDE DEF s
  <2>2. w = Watcher
    BY <1>2 DEF Verified
  <2>3. Moved(w, s)
    BY <1>1, <2>1, <2>2 DEF Moved, Goes, Onward
  <2>4. QED
    BY <2>3 DEF Does
<1>3. CASE Then(w, "done")
  <2>1. PICK s \in Runs : /\ run' = [run EXCEPT ![w] = s] /\ s.lease = run[w].lease
                          /\ s.at = Onward(w, "done")
    BY <1>3, ThenIs DEF Typed, Points, Onward
  <2>2. Moved(w, s)
    BY <1>1, <2>1 DEF Moved, Goes
  <2>3. QED
    BY <2>2 DEF Does
<1>4. CASE /\ ~Verified(w) /\ Reconstructible
           /\ Proceed(w, [Idle EXCEPT !.at = "reread", !.of = publication.of,
                                      !.urn = publication.urn])
  <2> DEFINE of == publication.of
             urn == publication.urn
             fields == [Idle EXCEPT !.at = "reread", !.of = of, !.urn = urn]
             s == [fields EXCEPT !.lease = run[w].lease]
  <2>1. of \in Nat /\ urn \in 0 .. MaxDocuments
    BY DEF Typed, CampaignTyped, OnRecords
  <2>2. Proceed(w, fields)
    BY <1>4
  <2> HIDE DEF of, urn
  <2>3. fields \in Runs /\ fields.at = "reread"
    <3>1. Idle \in Runs /\ "reread" \in Points
      BY IdleIs DEF Points
    <3>2. QED
      BY <2>1, <3>1 DEF Runs
  <2> HIDE DEF fields
  <2>4. /\ run' = [run EXCEPT ![w] = s] /\ s \in Runs /\ s.at = "reread"
        /\ s.lease = run[w].lease
    BY <2>2, <2>3, ProceedIs DEF Typed
  <2> HIDE DEF s
  <2>5. Moved(w, s)
    BY <1>1, <1>4, <2>4 DEF Moved, Goes
  <2>6. QED
    BY <2>5 DEF Does
<1>5. QED
  BY <1>2, <1>3, <1>4 DEF ReadBack

LEMMA ReadBackRefusedDoes ==
  ASSUME Typed, NEW w \in Processes, ReadBackRefused(w) PROVE Does(w)
<1>1. run[w].at = "verifying" /\ Fails(w, "FAILED") /\ UNCHANGED campaign /\ Kept
  BY DEF ReadBackRefused, At, Unchanged, Kept, sources
<1>2. QED
  BY <1>1, FailsTyped DEF Typed, Ended, Fails, Does, Points

LEMMA RecordVerificationDoes ==
  ASSUME Typed, NEW w \in Processes, RecordVerification(w) PROVE Does(w)
<1> DEFINE accepted == /\ publication.of = run[w].of /\ publication.urn = run[w].urn
                       /\ ~publication.verified
<1>1. run[w].at = "reread"
  BY DEF RecordVerification, At
<1>2. CASE EventRefused(w, accepted)
  BY <1>1, <1>2, RefusedEnds DEF Does, Points
<1>3. CASE ~EventRefused(w, accepted)
  <2> DEFINE pub == [publication EXCEPT !.verified = TRUE]
             e == [type |-> "VERIFIED", by |-> run'[w].lease, of |-> 0,
                   ready |-> Ready(projection)]
  <2>1. /\ Free(w) /\ publication.of = run[w].of /\ Then(w, "done")
        /\ Appended(w, "VERIFIED", 0, projection, pub)
        /\ UNCHANGED <<lock, receipt>> /\ Kept
    BY <1>3 DEF RecordVerification, Unchanged, Kept, sources
  <2>2. PICK s \in Runs : /\ run' = [run EXCEPT ![w] = s] /\ s.lease = run[w].lease
                          /\ s.at = Onward(w, "done")
    BY <2>1, ThenIs DEF Typed, Points, Onward
  <2> HIDE DEF pub
  <2>3. e \in Entries /\ e.type = "VERIFIED" /\ e.by = run[w].lease /\ e.of = 0
    BY <2>2, AppendedIs DEF EventTypes
  <2>4. log' = Append(log, e) /\ projection' = projection /\ publication' = pub
    BY <2>1 DEF Appended
  <2> HIDE DEF e
  <2>5. Added(w, s, e)
    BY <1>1, <2>1, <2>2, <2>3, <2>4 DEF Added, Goes, pub
  <2>6. QED
    BY <2>5 DEF Does
<1>4. QED
  BY <1>2, <1>3

\* A fault ends a run, and so does a crash.
LEMMA FaultEnds == ASSUME Typed, NEW w \in Processes, Fault(w) PROVE Ended(w)
<1>1. /\ run[w].at \in Points \ {"idle", "done"} /\ UNCHANGED campaign /\ Kept
      /\ \E result \in {"FAILED", "UNAVAILABLE"} : Fails(w, result)
  BY DEF Fault, Points, Kept, sources
<1>2. QED
  BY <1>1, FailsTyped DEF Typed, Ended, Fails

LEMMA CrashEnds == ASSUME Typed, NEW w \in Processes, Crash(w) PROVE Ended(w)
  BY DEF Crash, At, Ended, Kept, sources, Typed, LeasesTyped

\* Whatever a run does is one of these.
LEMMA RunDoes ==
  ASSUME Typed, NEW w \in Processes, Step(w) \/ Fault(w) \/ Crash(w)
  PROVE  Does(w)
  BY ReadSourcesDoes, RecordStaleDoes, RecordReconciliationDoes, EvaluateDoes, ReadManifestDoes,
     ReuseWriteDoes, WriteDoes, RecordPublicationDoes, ReadBackDoes, ReadBackRefusedDoes,
     RecordVerificationDoes, FaultEnds, CrashEnds DEF Step, Does

-----------------------------------------------------------------------------
(* Types are kept.                                                         *)

LEMMA EndedTyped == ASSUME Typed, NEW w \in Processes, Ended(w) PROVE Typed'
<1>1. RunsTyped'
  BY StopTyped DEF Typed, Ended, Kept
<1>2. CampaignTyped'
  BY DEF Typed, Ended, CampaignTyped, campaign
<1>3. LeasesTyped'
  BY DEF Typed, Ended, Kept, LeasesTyped, Latest
<1>4. QED
  BY <1>1, <1>2, <1>3 DEF Typed

\* A process that goes on with or without an event.
LEMMA GoesTyped ==
  ASSUME Typed, NEW w \in Processes, NEW s, Goes(w, s), run[w].at # "idle",
         w = Watcher => s.at # "idle", w = Operator => s.at # "done"
  PROVE  /\ LeasesTyped' /\ RunsTyped'
         /\ run'[w] = s /\ \A v \in Processes \ {w} : run'[v] = run[v]
<1>1. RunsTyped' /\ run'[w] = s /\ \A v \in Processes \ {w} : run'[v] = run[v]
  BY MoveTyped DEF Typed, Goes, Kept
<1>2. LeasesTyped'
  BY DEF Typed, Goes, Kept, LeasesTyped, Latest
<1>3. QED
  BY <1>1, <1>2

\* Where the steps without an event, and those with one, lead.
LEMMA MovedLeads ==
  ASSUME Typed, NEW w \in Processes, NEW s, Moved(w, s)
  PROVE  run[w].at # "idle" /\ (w = Watcher => s.at # "idle") /\ (w = Operator => s.at # "done")
  BY ProcessesAre DEF Moved, Onward, Verified

LEMMA AddedLeads ==
  ASSUME Typed, NEW w \in Processes, NEW s, NEW e, Added(w, s, e)
  PROVE  run[w].at # "idle" /\ (w = Watcher => s.at # "idle") /\ (w = Operator => s.at # "done")
  BY ProcessesAre DEF Added, Onward

LEMMA MovedTyped ==
  ASSUME Typed, NEW w \in Processes, NEW s, Moved(w, s)
  PROVE  Typed' /\ run'[w] = s /\ \A v \in Processes \ {w} : run'[v] = run[v]
<1>1. Goes(w, s) /\ UNCHANGED campaign
  BY DEF Moved
<1>2. /\ LeasesTyped' /\ RunsTyped'
      /\ run'[w] = s /\ \A v \in Processes \ {w} : run'[v] = run[v]
  BY <1>1, MovedLeads, GoesTyped
<1>3. CampaignTyped'
  BY <1>1 DEF Typed, CampaignTyped, campaign
<1>4. QED
  BY <1>2, <1>3 DEF Typed

\* A reconciliation and an evaluation yield projections.
LEMMA ReconciliationRecordedTyped ==
  ASSUME NEW pp \in Projections, NEW observed \in SUBSET Consumers,
         NEW d \in [Consumers -> Dispositions], NEW env \in Envelopes
  PROVE  ReconciliationRecorded(pp, observed, d, env) \in Projections
<1>1. NoReceipt \in Receipts
  BY MaxTimeAssumption DEF NoReceipt, Receipts, Expiries, Never
<1>2. Entered(pp, observed \ pp.known, d) \in Projections
  BY <1>1 DEF Entered, Projections
<1>3. "RECONCILING" \in CampaignStates
  BY DEF CampaignStates
<1>4. QED
  BY <1>2, <1>3 DEF ReconciliationRecorded, Projections

LEMMA PolicyEvaluatedTyped ==
  ASSUME NEW pp \in Projections
  PROVE  PolicyEvaluated(pp) \in Projections
<1>1. EvaluatedState(pp) \in CampaignStates
  BY DEF EvaluatedState, CampaignStates
<1>2. QED
  BY <1>1 DEF PolicyEvaluated, Projections

LEMMA AddedTyped ==
  ASSUME Typed, NEW w \in Processes, NEW s, NEW e, Added(w, s, e)
  PROVE  Typed' /\ run'[w] = s /\ \A v \in Processes \ {w} : run'[v] = run[v]
<1>1. /\ Goes(w, s) /\ e \in Entries /\ log' = Append(log, e)
      /\ projection \in Projections /\ publication \in OnRecords /\ run[w] \in Runs
  BY DEF Added, Typed, CampaignTyped, RunsTyped
<1>2. /\ LeasesTyped' /\ RunsTyped'
      /\ run'[w] = s /\ \A v \in Processes \ {w} : run'[v] = run[v]
  BY <1>1, AddedLeads, GoesTyped
<1>3. projection' \in Projections
  <2>1. CASE /\ MayChangeDisposition(projection, Migrated, "STALE")
             /\ projection' = DispositionChanged(projection, Migrated, "STALE", NoPlan)
    <3>1. Migrated \in Consumers /\ "STALE" \in Dispositions
      BY <1>1, <2>1 DEF MayChangeDisposition, Projections, Dispositions
    <3>2. QED
      BY <1>1, <2>1, <3>1 DEF DispositionChanged, Projections
  <2>2. CASE \E env \in Envelopes :
                projection' = ReconciliationRecorded(projection, run[w].observed,
                                                     [c \in Consumers |-> "IDENTIFIED"], env)
    <3>1. /\ [c \in Consumers |-> "IDENTIFIED"] \in [Consumers -> Dispositions]
          /\ run[w].observed \in SUBSET Consumers
      BY <1>1 DEF Dispositions, Runs
    <3>2. QED
      BY <1>1, <2>2, <3>1, ReconciliationRecordedTyped
  <2>3. CASE projection' = PolicyEvaluated(projection)
    BY <1>1, <2>3, PolicyEvaluatedTyped
  <2>4. CASE projection' = projection
    BY <1>1, <2>4
  <2>5. QED
    BY <2>1, <2>2, <2>3, <2>4 DEF Added
<1>4. publication' \in OnRecords
  <2>1. /\ [publication EXCEPT !.verified = TRUE] \in OnRecords
        /\ [of |-> run[w].of, urn |-> run[w].urn, verified |-> FALSE] \in OnRecords
    BY <1>1 DEF OnRecords, Runs
  <2>2. QED
    BY <1>1, <2>1 DEF Added
<1>5. log' \in Seq(Entries)
  BY <1>1 DEF Typed, CampaignTyped
<1>6. QED
  BY <1>2, <1>3, <1>4, <1>5 DEF Typed, CampaignTyped

-----------------------------------------------------------------------------
(* The log.                                                                *)

LEMMA LogSame ==
  ASSUME UNCHANGED log, NEW q
  PROVE  /\ \A type : Has(q, type)' = Has(q, type)
         /\ ReconciledAfter(q)' = ReconciledAfter(q) /\ EvaluatedAfter(q)' = EvaluatedAfter(q)
         /\ PublishedAfter(q)' = PublishedAfter(q) /\ VerifiedAfter(q)' = VerifiedAfter(q)
         /\ Foreign(q)' = Foreign(q)
  BY DEF Has, ReconciledAfter, EvaluatedAfter, PublishedAfter, VerifiedAfter, Foreign, ByWatch, Is

LEMMA LogGrows ==
  ASSUME CampaignTyped, NEW e \in Entries, log' = Append(log, e)
  PROVE  /\ DOMAIN log = 1 .. Manifest /\ Manifest \in Nat /\ Manifest' = Manifest + 1
         /\ DOMAIN log' = 1 .. Manifest + 1 /\ log'[Manifest + 1] = e
         /\ \A i \in 1 .. Manifest : log'[i] = log[i]
  BY DEF CampaignTyped, Manifest

\* What has happened stays, and what has not takes an event to happen.
LEMMA PredicatesGrow ==
  ASSUME CampaignTyped, NEW e \in Entries, log' = Append(log, e), NEW q
  PROVE  /\ \A type : Has(q, type)' <=> Has(q, type) \/ (e.type = type /\ e.by = q)
         /\ ReconciledAfter(q)' <=>
              ReconciledAfter(q) \/ (Has(q, "WATCH") /\ e.type = "RECONCILED")
         /\ EvaluatedAfter(q)' <=>
              EvaluatedAfter(q) \/ (Has(q, "WATCH") /\ e.type = "EVALUATED")
         /\ PublishedAfter(q)' <=>
              PublishedAfter(q) \/ (EvaluatedAfter(q) /\ e.type = "PUBLISHED")
         /\ VerifiedAfter(q)' <=>
              VerifiedAfter(q) \/ (PublishedAfter(q) /\ e.type = "VERIFIED")
         /\ Foreign(q)' <=>
              Foreign(q) \/ (Has(q, "WATCH") /\ e.type = "RECONCILED" /\ e.by # q)
<1> DEFINE n == Manifest + 1
<1>1. /\ DOMAIN log = 1 .. Manifest /\ Manifest \in Nat
      /\ DOMAIN log' = 1 .. n /\ log'[n] = e
      /\ \A i \in 1 .. Manifest : log'[i] = log[i]
  BY LogGrows
<1>2. \A type, i : Is(type, i)' <=> Is(type, i) \/ (i = n /\ e.type = type)
  BY <1>1 DEF Is
<1>3. \A type, i : ByWatch(q, type, i)' <=>
                     ByWatch(q, type, i) \/ (i = n /\ e.type = type /\ e.by = q)
  BY <1>1, <1>2 DEF ByWatch, Is
<1>4. \A type, i : /\ Is(type, i) => i \in 1 .. Manifest
                   /\ ByWatch(q, type, i) => i \in 1 .. Manifest
  BY <1>1 DEF Is, ByWatch
<1>5. 1 .. Manifest \subseteq 1 .. n /\ n \in 1 .. n /\ n \notin 1 .. Manifest
      /\ \A i \in 1 .. Manifest : i < n /\ ~(n < i)
  BY <1>1
<1>6. \A type : Has(q, type)' <=> Has(q, type) \/ (e.type = type /\ e.by = q)
  BY <1>1, <1>3, <1>4, <1>5 DEF Has
<1> HIDE DEF n
<1>7. ReconciledAfter(q)' <=> ReconciledAfter(q) \/ (Has(q, "WATCH") /\ e.type = "RECONCILED")
  BY <1>1, <1>2, <1>3, <1>4, <1>5 DEF ReconciledAfter, Has
<1>8. EvaluatedAfter(q)' <=> EvaluatedAfter(q) \/ (Has(q, "WATCH") /\ e.type = "EVALUATED")
  BY <1>1, <1>2, <1>3, <1>4, <1>5 DEF EvaluatedAfter, Has
<1>9. PublishedAfter(q)' <=> PublishedAfter(q) \/ (EvaluatedAfter(q) /\ e.type = "PUBLISHED")
  BY <1>1, <1>2, <1>3, <1>4, <1>5 DEF PublishedAfter, EvaluatedAfter
<1>10. VerifiedAfter(q)' <=> VerifiedAfter(q) \/ (PublishedAfter(q) /\ e.type = "VERIFIED")
  BY <1>1, <1>2, <1>3, <1>4, <1>5 DEF VerifiedAfter, PublishedAfter
<1>11. Foreign(q)' <=>
         Foreign(q) \/ (Has(q, "WATCH") /\ e.type = "RECONCILED" /\ e.by # q)
  BY <1>1, <1>2, <1>3, <1>4, <1>5 DEF Foreign, Has
<1>12. QED
  BY <1>6, <1>7, <1>8, <1>9, <1>10, <1>11

\* WatchedAt finds the observation of a lease, if there is one.
LEMMA WatchedAtIs ==
  ASSUME CampaignTyped, NEW q
  PROVE  /\ WatchedAt(q) \in Nat /\ (Observed(q) <=> Has(q, "WATCH"))
         /\ WatchedAt(q) > 0 => ByWatch(q, "WATCH", WatchedAt(q))
<1> DEFINE I == {i \in 1 .. Len(log) : log[i].type = "WATCH" /\ log[i].by = q}
<1>1. WatchedAt(q) = IF I # {} THEN Min(I) ELSE 0
  BY DEF WatchedAt, SelectInSeq
<1>2. I \in SUBSET Nat /\ DOMAIN log = 1 .. Len(log) /\ Len(log) \in Nat
  BY DEF CampaignTyped
<1>3. I # {} <=> Has(q, "WATCH")
  BY <1>2 DEF Has, ByWatch, Is
<1>4. I # {} => Min(I) \in I
  BY <1>2, MinIsMember
<1>5. \A i \in I : i \in Nat /\ i > 0 /\ ByWatch(q, "WATCH", i)
  BY <1>2 DEF ByWatch, Is
<1> HIDE DEF I
<1>6. QED
  BY <1>1, <1>3, <1>4, <1>5 DEF Observed

\* EventAfter finds the first event of a type that follows another.
LEMMA EventAfterIs ==
  ASSUME CampaignTyped, NEW i \in Nat, NEW type
  PROVE  /\ EventAfter(i, type) \in Nat
         /\ EventAfter(i, type) > 0 => Is(type, EventAfter(i, type)) /\ i < EventAfter(i, type)
         /\ \A j \in DOMAIN log : i < j /\ Is(type, j)
              => EventAfter(i, type) > 0 /\ EventAfter(i, type) <= j
<1> DEFINE I == {j \in i + 1 .. Len(log) : log[j].type = type}
<1>1. EventAfter(i, type) = IF I # {} THEN Min(I) ELSE 0
  BY DEF EventAfter, SelectInSubSeq
<1>2. I \in SUBSET Nat /\ DOMAIN log = 1 .. Len(log) /\ Len(log) \in Nat
  BY DEF CampaignTyped
<1>3. \A j \in DOMAIN log : i < j /\ Is(type, j) => j \in I
  BY <1>2 DEF Is
<1>4. I # {} => Min(I) \in I /\ \A j \in I : Min(I) <= j
  BY <1>2, MinIsMember
<1>5. \A j \in I : j \in Nat /\ j > 0 /\ i < j /\ Is(type, j)
  BY <1>2 DEF Is
<1> HIDE DEF I
<1>6. QED
  BY <1>1, <1>3, <1>4, <1>5

\* What the watch looks up is what the invariant speaks of: its observation is
\* the only one, and the first of the events that follow is as good as any.
LEMMA LookedUp ==
  ASSUME CampaignTyped, WatchOrder, NEW q \in Leases, Has(q, "WATCH")
  PROVE  LET watched == WatchedAt(q)
             evaluated == EventAfter(watched, "EVALUATED")
             published == EventAfter(evaluated, "PUBLISHED") IN
         /\ EventAfter(watched, "RECONCILED") = 0 <=> ~ReconciledAfter(q)
         /\ evaluated = 0 <=> ~EvaluatedAfter(q)
         /\ EvaluatedAfter(q) => (published = 0 <=> ~PublishedAfter(q))
         /\ PublishedAfter(q) => published > 0
         /\ PublishedAfter(q) => (EventAfter(published, "VERIFIED") > 0 <=> VerifiedAfter(q))
<1> DEFINE watched == WatchedAt(q)
           evaluated == EventAfter(watched, "EVALUATED")
           published == EventAfter(evaluated, "PUBLISHED")
           verified == EventAfter(published, "VERIFIED")
           reconciled == EventAfter(watched, "RECONCILED")
<1>1. watched \in Nat /\ ByWatch(q, "WATCH", watched)
  BY WatchedAtIs DEF Observed
<1>2. \A i : ByWatch(q, "WATCH", i) => i = watched
  BY <1>1 DEF WatchOrder, ByWatch, Is, EventTypes
<1>3. DOMAIN log \subseteq Nat
  BY DEF CampaignTyped
<1>4. /\ reconciled \in Nat
      /\ reconciled > 0 => Is("RECONCILED", reconciled) /\ watched < reconciled
      /\ \A j \in DOMAIN log : watched < j /\ Is("RECONCILED", j) => reconciled > 0
  BY <1>1, EventAfterIs
<1>5. /\ evaluated \in Nat
      /\ evaluated > 0 => Is("EVALUATED", evaluated) /\ watched < evaluated
      /\ \A j \in DOMAIN log : watched < j /\ Is("EVALUATED", j) => evaluated > 0 /\ evaluated <= j
  BY <1>1, EventAfterIs
<1> HIDE DEF watched, evaluated, reconciled
<1>6. /\ published \in Nat
      /\ published > 0 => Is("PUBLISHED", published) /\ evaluated < published
      /\ \A j \in DOMAIN log : evaluated < j /\ Is("PUBLISHED", j)
                                 => published > 0 /\ published <= j
  BY <1>5, EventAfterIs
<1> HIDE DEF published
<1>7. /\ verified \in Nat
      /\ verified > 0 => Is("VERIFIED", verified) /\ published < verified
      /\ \A j \in DOMAIN log : published < j /\ Is("VERIFIED", j) => verified > 0
  BY <1>6, EventAfterIs
<1> HIDE DEF verified
<1>8. \A type, i : Is(type, i) => i \in DOMAIN log
  BY DEF Is
<1>9. reconciled = 0 <=> ~ReconciledAfter(q)
  BY <1>1, <1>2, <1>4, <1>8 DEF ReconciledAfter, ByWatch
<1>10. evaluated = 0 <=> ~EvaluatedAfter(q)
  BY <1>1, <1>2, <1>5, <1>8 DEF EvaluatedAfter, ByWatch
<1>11. EvaluatedAfter(q) /\ published > 0 => PublishedAfter(q)
  BY <1>1, <1>5, <1>6, <1>8, <1>10 DEF PublishedAfter, ByWatch
<1>12. PublishedAfter(q) => published > 0 /\ evaluated > 0
  BY <1>2, <1>3, <1>5, <1>6, <1>8 DEF PublishedAfter
<1>13. PublishedAfter(q) /\ verified > 0 => VerifiedAfter(q)
  BY <1>1, <1>5, <1>6, <1>7, <1>8, <1>12 DEF VerifiedAfter, ByWatch
<1>14. VerifiedAfter(q) => verified > 0
  BY <1>2, <1>3, <1>5, <1>6, <1>7, <1>8 DEF VerifiedAfter
<1>15. QED
  BY <1>6, <1>9, <1>10, <1>11, <1>12, <1>13, <1>14
     DEF watched, evaluated, published, verified, reconciled

-----------------------------------------------------------------------------
(* What the watch of a lease has appended.                                 *)

LEMMA OrderSame ==
  ASSUME WatchOrder, UNCHANGED <<log, projection>>
  PROVE  WatchOrder'
<1>1. \A q : /\ \A type : Has(q, type)' = Has(q, type)
             /\ ReconciledAfter(q)' = ReconciledAfter(q)
             /\ PublishedAfter(q)' = PublishedAfter(q) /\ VerifiedAfter(q)' = VerifiedAfter(q)
  BY LogSame
<1>2. \A q, type, i : ByWatch(q, type, i)' <=> ByWatch(q, type, i)
  BY DEF ByWatch, Is
<1>3. QED
  BY <1>1, <1>2 DEF WatchOrder

\* An event keeps the order if it is nobody's, or one that the watch of its
\* lease has not appended yet and that follows what it should follow.
LEMMA OrderGrows ==
  ASSUME CampaignTyped, WatchOrder, NEW e \in Entries, log' = Append(log, e),
         e.by \in Leases =>
           /\ ~Has(e.by, e.type)
           /\ e.type # "WATCH" => Has(e.by, "WATCH")
           /\ e.type = "STALE" =>
                Migrated \in projection'.known /\ projection'.disp[Migrated] = "STALE"
           /\ e.type \in {"EVALUATED", "PUBLISHED", "VERIFIED"} => ReconciledAfter(e.by)
           /\ e.type = "PUBLISHED" => EvaluatedAfter(e.by)
           /\ e.type = "VERIFIED" => PublishedAfter(e.by),
         Migrated \in projection.known /\ projection.disp[Migrated] = "STALE"
           => Migrated \in projection'.known /\ projection'.disp[Migrated] = "STALE"
  PROVE  WatchOrder'
<1> SUFFICES ASSUME NEW q \in Leases
    PROVE  (/\ \A type \in EventTypes, i, j \in DOMAIN log :
                 ByWatch(q, type, i) /\ ByWatch(q, type, j) => i = j
            /\ \A type \in EventTypes, j \in DOMAIN log :
                 type # "WATCH" /\ ByWatch(q, type, j)
                   => \E i \in DOMAIN log : i < j /\ ByWatch(q, "WATCH", i)
            /\ Has(q, "STALE") =>
                 Migrated \in projection.known /\ projection.disp[Migrated] = "STALE"
            /\ Has(q, "EVALUATED") \/ Has(q, "PUBLISHED") \/ Has(q, "VERIFIED")
                 => ReconciledAfter(q)
            /\ Has(q, "PUBLISHED") => PublishedAfter(q)
            /\ Has(q, "VERIFIED") => VerifiedAfter(q))'
  BY DEF WatchOrder
<1> DEFINE n == Manifest + 1
<1>1. /\ DOMAIN log = 1 .. Manifest /\ Manifest \in Nat
      /\ DOMAIN log' = 1 .. n /\ log'[n] = e
      /\ \A i \in 1 .. Manifest : log'[i] = log[i]
  BY LogGrows
<1>2. \A type, i : ByWatch(q, type, i)' <=>
                     ByWatch(q, type, i) \/ (i = n /\ e.type = type /\ e.by = q)
  BY <1>1 DEF ByWatch, Is
<1>3. \A type, i : ByWatch(q, type, i) => i \in 1 .. Manifest /\ Has(q, type)
  BY <1>1 DEF ByWatch, Is, Has
<1>4. 1 .. Manifest \subseteq 1 .. n /\ n \in 1 .. n /\ n \notin 1 .. Manifest
      /\ \A i \in 1 .. Manifest : i < n
  BY <1>1
<1> HIDE DEF n
<1>5. (\A type \in EventTypes, i, j \in DOMAIN log :
         ByWatch(q, type, i) /\ ByWatch(q, type, j) => i = j)'
  <2> SUFFICES ASSUME NEW type \in EventTypes, NEW i \in 1 .. n, NEW j \in 1 .. n,
                      ByWatch(q, type, i)', ByWatch(q, type, j)'
               PROVE  i = j
    BY <1>1
  <2>1. CASE e.type = type /\ e.by = q
    <3>1. ~Has(q, type)
      BY <2>1
    <3>2. QED
      BY <1>2, <1>3, <3>1
  <2>2. CASE ~(e.type = type /\ e.by = q)
    <3>1. ByWatch(q, type, i) /\ ByWatch(q, type, j)
      BY <1>2, <2>2
    <3>2. QED
      BY <1>1, <1>3, <3>1 DEF WatchOrder
  <2>3. QED
    BY <2>1, <2>2
<1>6. (\A type \in EventTypes, j \in DOMAIN log :
         type # "WATCH" /\ ByWatch(q, type, j)
           => \E i \in DOMAIN log : i < j /\ ByWatch(q, "WATCH", i))'
  <2> SUFFICES ASSUME NEW type \in EventTypes, NEW j \in 1 .. n,
                      type # "WATCH", ByWatch(q, type, j)'
               PROVE  \E i \in 1 .. n : i < j /\ ByWatch(q, "WATCH", i)'
    BY <1>1
  <2>1. CASE ByWatch(q, type, j)
    <3>1. PICK i \in 1 .. Manifest : i < j /\ ByWatch(q, "WATCH", i)
      BY <1>1, <1>3, <2>1 DEF WatchOrder
    <3>2. QED
      BY <1>2, <1>4, <3>1
  <2>2. CASE j = n /\ e.type = type /\ e.by = q
    <3>1. PICK i \in 1 .. Manifest : ByWatch(q, "WATCH", i)
      BY <1>1, <2>2 DEF Has
    <3>2. QED
      BY <1>2, <1>4, <2>2, <3>1
  <2>3. QED
    BY <1>2, <2>1, <2>2
<1>7. /\ \A type : Has(q, type)' <=> Has(q, type) \/ (e.type = type /\ e.by = q)
      /\ ReconciledAfter(q) => ReconciledAfter(q)'
      /\ PublishedAfter(q)' <=> PublishedAfter(q) \/ (EvaluatedAfter(q) /\ e.type = "PUBLISHED")
      /\ VerifiedAfter(q)' <=> VerifiedAfter(q) \/ (PublishedAfter(q) /\ e.type = "VERIFIED")
  BY PredicatesGrow
<1>8. (/\ Has(q, "STALE") =>
            Migrated \in projection.known /\ projection.disp[Migrated] = "STALE"
       /\ Has(q, "EVALUATED") \/ Has(q, "PUBLISHED") \/ Has(q, "VERIFIED")
            => ReconciledAfter(q)
       /\ Has(q, "PUBLISHED") => PublishedAfter(q)
       /\ Has(q, "VERIFIED") => VerifiedAfter(q))'
  BY <1>7 DEF WatchOrder
<1>9. QED
  BY <1>5, <1>6, <1>8

\* A consumer that is stale stays so: there is nobody to migrate it again.
LEMMA StaleStays ==
  ASSUME Typed, NEW w \in Processes, NEW s, NEW e, Added(w, s, e),
         Migrated \in projection.known, projection.disp[Migrated] = "STALE"
  PROVE  Migrated \in projection'.known /\ projection'.disp[Migrated] = "STALE"
<1>1. projection \in Projections /\ Migrated \in Consumers
  BY DEF Typed, CampaignTyped, Projections
<1>2. CASE projection' = DispositionChanged(projection, Migrated, "STALE", NoPlan)
  BY <1>1, <1>2 DEF DispositionChanged, Projections
<1>3. CASE \E env \in Envelopes :
              projection' = ReconciliationRecorded(projection, run[w].observed,
                                                   [c \in Consumers |-> "IDENTIFIED"], env)
  BY <1>1, <1>3 DEF ReconciliationRecorded, Entered, Projections
<1>4. CASE projection' = PolicyEvaluated(projection)
  BY <1>1, <1>4 DEF PolicyEvaluated, Projections
<1>5. QED
  BY <1>2, <1>3, <1>4 DEF Added

-----------------------------------------------------------------------------
(* The watch invariant is kept by what runs do.                            *)

\* A watch that runs is the watch of the latest lease.
LEMMA WatchIs ==
  ASSUME Typed, run[Watcher].at # "idle"
  PROVE  run[Watcher].lease \in Leases /\ run[Watcher].lease = Latest /\ lock = Watcher
<1>1. Latest \in Nat
  BY DEF Typed, LeasesTyped, Latest
<1>2. QED
  BY <1>1, BoundsAre DEF Typed, LeasesTyped, RunsTyped, Leases

\* An event that the operator appends finds the watch stopped.
LEMMA OperatorFree ==
  ASSUME Typed, Free(Operator)
  PROVE  run[Watcher].at = "idle"
  BY ProcessesAre, ProcessAssumption DEF Typed, RunsTyped, Free

LEMMA KnowsSame ==
  ASSUME WatchKnows, UNCHANGED log, run'[Watcher] = run[Watcher]
  PROVE  WatchKnows'
<1> DEFINE q == run[Watcher].lease
<1>1. \A p : /\ \A type : Has(p, type)' = Has(p, type)
             /\ ReconciledAfter(p)' = ReconciledAfter(p) /\ EvaluatedAfter(p)' = EvaluatedAfter(p)
             /\ PublishedAfter(p)' = PublishedAfter(p) /\ VerifiedAfter(p)' = VerifiedAfter(p)
  BY LogSame
<1>2. Manifest' = Manifest
  BY DEF Manifest
<1>3. QED
  BY <1>1, <1>2 DEF WatchKnows

LEMMA StopWatch ==
  ASSUME Typed, WatchInv, NEW w \in Processes, Stop(w), UNCHANGED campaign, Kept PROVE WatchInv'
<1>1. /\ UNCHANGED <<log, projection>>
      /\ run'[w] = Idle /\ \A v \in Processes \ {w} : run'[v] = run[v]
  BY StopTyped DEF campaign, Kept, Typed
<1>2. WatchOrder'
  BY <1>1, OrderSame DEF WatchInv
<1>3. PublishedBefore'
  BY <1>1, IdleIs DEF WatchInv, PublishedBefore, Manifest
<1>4. WatchKnows'
  <2>1. CASE w = Watcher
    BY <1>1, <2>1, IdleIs DEF WatchKnows
  <2>2. CASE w # Watcher
    BY <1>1, <2>2, KnowsSame, ProcessesAre DEF WatchInv
  <2>3. QED
    BY <2>1, <2>2
<1>5. QED
  BY <1>2, <1>3, <1>4 DEF WatchInv

LEMMA MovedWatch ==
  ASSUME Typed, WatchInv, NEW w \in Processes, NEW s, Moved(w, s) PROVE WatchInv'
<1>1. /\ UNCHANGED <<log, projection, publication>> /\ s.lease = run[w].lease
      /\ run'[w] = s /\ \A v \in Processes \ {w} : run'[v] = run[v]
  BY MovedTyped DEF Moved, Goes, campaign
<1>2. WatchOrder'
  BY <1>1, OrderSame DEF WatchInv
<1>3. Manifest' = Manifest /\ Manifest \in Nat
  BY <1>1 DEF Manifest, Typed, CampaignTyped
<1>4. PublishedBefore'
  <2>1. s.at \in {"writing", "written"} => s.of <= Manifest
    BY <1>3 DEF Moved, Onward, WatchInv, PublishedBefore
  <2>2. QED
    BY <1>1, <1>3, <2>1 DEF WatchInv, PublishedBefore
<1>5. WatchKnows'
  <2>1. CASE w # Watcher
    BY <1>1, <2>1, KnowsSame, ProcessesAre DEF WatchInv
  <2>2. CASE w = Watcher
    <3> DEFINE r == run[Watcher]
               q == r.lease
    <3>1. r.at # "idle" /\ q \in Leases
      BY <2>2, MovedLeads, WatchIs
    <3>2. Has(q, "WATCH")
      BY <3>1 DEF WatchInv, WatchKnows
    <3>3. /\ Resumes(Watcher) /\ EvaluatedAfter(q) => ~PublishedAfter(q)
          /\ ~Resumes(Watcher) /\ EvaluatedAfter(q) => PublishedAfter(q)
          /\ ~Verified(Watcher) /\ PublishedAfter(q) => ~VerifiedAfter(q)
      BY <3>1, <3>2, LookedUp, ProcessesAre DEF Resumes, Verified, Typed, WatchInv
    <3>4. \/ r.at = "reconciling" /\ s.at \in {"staling", "recording"}
          \/ r.at = "publishing" /\ Resumes(w) /\ s.at = "writing" /\ s.of = Manifest
          \/ r.at = "publishing" /\ ~Resumes(w) /\ s.at = "verifying"
          \/ r.at = "writing" /\ s.at = "written" /\ s.of = r.of
          \/ r.at = "verifying" /\ s.at = "done"
          \/ r.at = "verifying" /\ ~Verified(w) /\ s.at = "reread"
      <4>1. r.at = "written" => ~SameIsPublished(r.of)
        BY <1>3 DEF SameIsPublished, WatchInv, PublishedBefore, WatchKnows, Typed, CampaignTyped,
                    Entries, Manifest
      <4>2. QED
        BY <2>2, <4>1 DEF Moved, Onward
    <3>5. \A p : /\ \A type : Has(p, type)' = Has(p, type)
                 /\ ReconciledAfter(p)' = ReconciledAfter(p)
                 /\ EvaluatedAfter(p)' = EvaluatedAfter(p)
                 /\ PublishedAfter(p)' = PublishedAfter(p) /\ VerifiedAfter(p)' = VerifiedAfter(p)
      BY <1>1, LogSame
    <3>6. run'[Watcher] = s /\ s.lease = q
      BY <1>1, <2>2
    <3>7. /\ r.at \in {"reconciling", "staling", "recording"} => ~ReconciledAfter(q)
          /\ r.at \notin {"reconciling", "staling", "recording"} => ReconciledAfter(q)
          /\ r.at \in {"publishing", "writing", "written"} => EvaluatedAfter(q)
          /\ r.at \in {"writing", "written"} => ~PublishedAfter(q) /\ r.of = Manifest
          /\ r.at \in {"verifying", "reread"} => PublishedAfter(q)
      BY <3>1 DEF WatchInv, WatchKnows
    <3> HIDE DEF r, q
    <3>8. QED
      BY <1>3, <2>2, <3>2, <3>3, <3>4, <3>5, <3>6, <3>7 DEF WatchKnows
  <2>3. QED
    BY <2>1, <2>2
<1>6. QED
  BY <1>2, <1>4, <1>5 DEF WatchInv

\* Nothing that the watch of a lease appends comes before its reconciliation
\* but the stale disposition.
LEMMA NotYet ==
  ASSUME CampaignTyped, WatchOrder, NEW q \in Leases
  PROVE  /\ ~ReconciledAfter(q) => \A type \in {"RECONCILED", "EVALUATED", "PUBLISHED", "VERIFIED"} :
                                      ~Has(q, type)
         /\ ~PublishedAfter(q) => ~Has(q, "PUBLISHED")
         /\ ~VerifiedAfter(q) => ~Has(q, "VERIFIED")
<1>1. Has(q, "RECONCILED") => ReconciledAfter(q)
  <2>1. ASSUME NEW j \in DOMAIN log, ByWatch(q, "RECONCILED", j) PROVE ReconciledAfter(q)
    <3>1. "RECONCILED" \in EventTypes
      BY DEF EventTypes
    <3>2. PICK i \in DOMAIN log : i < j /\ ByWatch(q, "WATCH", i)
      BY <2>1, <3>1 DEF WatchOrder
    <3>3. QED
      BY <2>1, <3>2 DEF ReconciledAfter, ByWatch
  <2>2. QED
    BY <2>1 DEF Has
<1>2. QED
  BY <1>1 DEF WatchOrder

LEMMA AddedWatch ==
  ASSUME Typed, WatchInv, NEW w \in Processes, NEW s, NEW e, Added(w, s, e) PROVE WatchInv'
<1>1. /\ log' = Append(log, e) /\ e \in Entries /\ CampaignTyped /\ e.by = run[w].lease
      /\ s.lease = run[w].lease
      /\ run'[w] = s /\ \A v \in Processes \ {w} : run'[v] = run[v]
  BY AddedTyped DEF Added, Goes, Typed
<1>2. /\ DOMAIN log = 1 .. Manifest /\ Manifest \in Nat /\ Manifest' = Manifest + 1
      /\ DOMAIN log' = 1 .. Manifest + 1 /\ log'[Manifest + 1] = e
      /\ \A i \in 1 .. Manifest : log'[i] = log[i]
  BY <1>1, LogGrows
<1>3. Migrated \in projection.known /\ projection.disp[Migrated] = "STALE"
        => Migrated \in projection'.known /\ projection'.disp[Migrated] = "STALE"
  BY StaleStays
<1>4. e.type = "PUBLISHED" => run[w].at = "written" /\ e.of = run[w].of
  BY DEF Added
<1>5. s.at \notin {"writing", "written"}
  BY DEF Added, Onward
<1>6. PublishedBefore'
  <2>1. e.type = "PUBLISHED" => e.of < Manifest + 1
    BY <1>1, <1>2, <1>4 DEF WatchInv, PublishedBefore, Entries
  <2>2. (\A i \in DOMAIN log : log[i].type = "PUBLISHED" => log[i].of < i)'
    BY <1>2, <2>1 DEF WatchInv, PublishedBefore
  <2>3. (\A v \in Processes : run[v].at \in {"writing", "written"} => run[v].of <= Manifest)'
    <3> SUFFICES ASSUME NEW v \in Processes, run'[v].at \in {"writing", "written"}
                 PROVE  run'[v].of <= Manifest + 1
      BY <1>2
    <3>1. run'[v] = run[v]
      BY <1>1, <1>5
    <3>2. run[v].of \in Nat
      BY DEF Typed, RunsTyped, Runs
    <3>3. QED
      BY <1>2, <3>1, <3>2 DEF WatchInv, PublishedBefore
  <2>4. QED
    BY <2>2, <2>3 DEF PublishedBefore
<1>7. CASE w = Operator
  <2>1. e.by \notin Leases
    BY <1>1, <1>7, BoundsAre DEF Typed, RunsTyped, Leases
  <2>2. WatchOrder'
    BY <1>1, <1>3, <2>1, OrderGrows DEF WatchInv
  <2>3. run'[Watcher] = run[Watcher] /\ run[Watcher].at = "idle"
    BY <1>1, <1>7, OperatorFree, ProcessesAre DEF Added
  <2>4. WatchKnows'
    BY <2>3 DEF WatchKnows
  <2>5. QED
    BY <1>6, <2>2, <2>4 DEF WatchInv
<1>8. CASE w = Watcher
  <2> DEFINE r == run[Watcher]
             q == r.lease
  <2>1. r.at # "idle" /\ q \in Leases /\ e.by = q
    BY <1>1, <1>8, AddedLeads, WatchIs
  <2>2. /\ Has(q, "WATCH")
        /\ r.at \in {"reconciling", "staling", "recording"} => ~ReconciledAfter(q)
        /\ r.at \notin {"reconciling", "staling", "recording"} => ReconciledAfter(q)
        /\ r.at = "evaluating" =>
              ~Has(q, "EVALUATED") /\ ~Has(q, "PUBLISHED") /\ ~Has(q, "VERIFIED")
        /\ r.at \in {"publishing", "writing", "written"} => EvaluatedAfter(q)
        /\ r.at \in {"writing", "written"} => ~PublishedAfter(q) /\ r.of = Manifest
        /\ r.at \in {"verifying", "reread"} => PublishedAfter(q)
        /\ r.at = "reread" => ~VerifiedAfter(q)
    BY <2>1 DEF WatchInv, WatchKnows
  <2>3. /\ ~ReconciledAfter(q) => \A type \in {"RECONCILED", "EVALUATED", "PUBLISHED", "VERIFIED"} :
                                     ~Has(q, type)
        /\ ~PublishedAfter(q) => ~Has(q, "PUBLISHED")
        /\ ~VerifiedAfter(q) => ~Has(q, "VERIFIED")
    BY <1>1, <2>1, NotYet DEF WatchInv
  <2>4. \A p :
          /\ \A type : Has(p, type)' <=> Has(p, type) \/ (e.type = type /\ e.by = p)
          /\ ReconciledAfter(p)' <=> ReconciledAfter(p) \/ (Has(p, "WATCH") /\ e.type = "RECONCILED")
          /\ EvaluatedAfter(p)' <=> EvaluatedAfter(p) \/ (Has(p, "WATCH") /\ e.type = "EVALUATED")
          /\ PublishedAfter(p)' <=> PublishedAfter(p) \/ (EvaluatedAfter(p) /\ e.type = "PUBLISHED")
          /\ VerifiedAfter(p)' <=> VerifiedAfter(p) \/ (PublishedAfter(p) /\ e.type = "VERIFIED")
    BY <1>1, PredicatesGrow
  <2>5. \/ r.at = "staling" /\ s.at = "recording" /\ e.type = "STALE"
        \/ r.at = "recording" /\ s.at = "evaluating" /\ e.type = "RECONCILED"
        \/ r.at = "evaluating" /\ s.at = "publishing" /\ e.type = "EVALUATED"
        \/ r.at = "written" /\ s.at = "verifying" /\ e.type = "PUBLISHED"
        \/ r.at = "reread" /\ s.at = "done" /\ e.type = "VERIFIED"
    BY <1>8 DEF Added, Onward
  <2>6. r.at = "staling" =>
          /\ ~Has(q, "STALE")
          /\ Migrated \in projection'.known /\ projection'.disp[Migrated] = "STALE"
    <3>1. SUFFICES ASSUME r.at = "staling"
                   PROVE  /\ ~Has(q, "STALE")
                          /\ Migrated \in projection'.known
                          /\ projection'.disp[Migrated] = "STALE"
      OBVIOUS
    <3>2. /\ MayChangeDisposition(projection, Migrated, "STALE")
          /\ projection' = DispositionChanged(projection, Migrated, "STALE", NoPlan)
      BY <1>8, <3>1 DEF Added
    <3>3. projection \in Projections /\ Migrated \in projection.known
          /\ projection.disp[Migrated] # "STALE"
      BY <3>2 DEF Typed, CampaignTyped, MayChangeDisposition, ConsumerMay, CONSUMER_TRANSITIONS
    <3>4. Migrated \in projection'.known /\ projection'.disp[Migrated] = "STALE"
      BY <3>2, <3>3 DEF DispositionChanged, Projections
    <3>5. QED
      BY <2>1, <3>3, <3>4 DEF WatchInv, WatchOrder
  <2> HIDE DEF r, q
  <2>7. WatchOrder'
    BY <1>1, <1>3, <2>1, <2>2, <2>3, <2>5, <2>6, OrderGrows DEF WatchInv
  <2>8. run'[Watcher] = s /\ s.lease = q
    BY <1>1, <1>8 DEF q, r
  <2>9. WatchKnows'
    BY <2>1, <2>2, <2>3, <2>4, <2>5, <2>8 DEF WatchKnows
  <2>10. QED
    BY <1>6, <2>7, <2>9 DEF WatchInv
<1>9. QED
  BY <1>7, <1>8, ProcessesAre

-----------------------------------------------------------------------------
(* Leases and their consumption.                                           *)

LEMMA IssuedIs ==
  ASSUME Typed, NEW q \in 1 .. Latest
  PROVE  issued[q] \in Issued /\ issued[q].manifest \in Nat
<1>1. issued[q] \in Issued
  BY DEF Typed, LeasesTyped, Latest
<1>2. QED
  BY <1>1 DEF Issued

\* Steps that issue nothing keep the leases apart.
LEMMA DifferStay ==
  ASSUME Typed, LeasesDiffer, UNCHANGED issued,
         log' = log \/ \E e \in Entries : log' = Append(log, e)
  PROVE  LeasesDiffer'
<1>1. Manifest \in Nat /\ Manifest <= Manifest' /\ Manifest' \in Nat
  BY LogGrows DEF Typed, CampaignTyped, Manifest
<1>2. \A q \in 1 .. Latest : issued[q].manifest \in Nat
  BY IssuedIs
<1>3. issued' = issued /\ Latest' = Latest
  BY DEF Latest
<1>4. QED
  BY <1>1, <1>2, <1>3 DEF LeasesDiffer

\* What the log holds up to the manifest of a lease stays.
LEMMA SealedStays ==
  ASSUME Typed, LeasesDiffer, NEW q \in 1 .. Latest, Sealed(q),
         issued'[q].manifest = issued[q].manifest,
         log' = log \/ \E e \in Entries : log' = Append(log, e)
  PROVE  Sealed(q)'
<1> DEFINE m == issued[q].manifest
<1>1. /\ DOMAIN log = 1 .. Manifest /\ Manifest \in Nat /\ DOMAIN log \subseteq DOMAIN log'
      /\ \A i \in 1 .. Manifest : log'[i] = log[i]
  BY LogGrows DEF Typed, CampaignTyped, Manifest
<1>2. m \in Nat /\ m <= Manifest
  BY IssuedIs DEF LeasesDiffer
<1>3. PICK i, j \in 1 .. m :
        /\ i < j /\ log[i].type = "PUBLISHED" /\ log[j].type = "VERIFIED"
        /\ i - 1 \in DOMAIN log /\ log[i].of = i - 1 /\ log[i - 1].ready
        /\ \A k \in i .. m : log[k].type # "RECONCILED"
  BY DEF Sealed
<1>4. issued'[q].manifest = m
  OBVIOUS
<1> HIDE DEF m
<1>5. \A k \in i .. m : k \in 1 .. Manifest
  <2>1. i \in Nat /\ 1 <= i
    BY <1>2
  <2>2. QED
    BY <1>1, <1>2, <2>1
<1>6. i \in 1 .. Manifest /\ j \in 1 .. Manifest /\ i - 1 \in 1 .. Manifest
  BY <1>1, <1>2, <1>3
<1>7. /\ log'[i].type = "PUBLISHED" /\ log'[j].type = "VERIFIED"
      /\ i - 1 \in DOMAIN log' /\ log'[i].of = i - 1 /\ log'[i - 1].ready
      /\ \A k \in i .. m : log'[k].type # "RECONCILED"
  BY <1>1, <1>3, <1>5, <1>6
<1>8. QED
  BY <1>3, <1>4, <1>7 DEF Sealed

\* What is on record is what the log says, whatever is appended.
LEMMA OnRecordStays ==
  ASSUME Typed, OnRecord(log, publication), NEW e \in Entries, log' = Append(log, e),
         \/ e.type \notin {"PUBLISHED", "VERIFIED"} /\ publication' = publication
         \/ /\ e.type = "PUBLISHED" /\ e.of = publication'.of
            /\ ~publication'.verified
         \/ e.type = "VERIFIED" /\ publication' = [publication EXCEPT !.verified = TRUE]
  PROVE  OnRecord(log, publication)'
<1> DEFINE n == Manifest + 1
<1>1. CampaignTyped /\ publication \in OnRecords
  BY DEF Typed, CampaignTyped
<1>2. /\ DOMAIN log = 1 .. Manifest /\ Manifest \in Nat
      /\ DOMAIN log' = 1 .. n /\ log'[n] = e /\ Len(log) = Manifest /\ Len(log') = n
      /\ \A i \in 1 .. Manifest : log'[i] = log[i]
  BY <1>1, LogGrows DEF Manifest
<1>3. CASE e.type = "PUBLISHED"
  <2>1. publication'.of = e.of /\ ~publication'.verified
    BY <1>3
  <2>2. n \in DOMAIN log' /\ \A k \in n + 1 .. Len(log') : FALSE
    BY <1>2
  <2>3. log'[n].type = "PUBLISHED" /\ log'[n].of = publication'.of
    BY <1>2, <1>3, <2>1
  <2>4. QED
    BY <2>1, <2>2, <2>3 DEF OnRecord
<1>4. CASE e.type # "PUBLISHED"
  <2>1. publication'.of = publication.of
    BY <1>1, <1>4 DEF OnRecords
  <2>2. publication'.verified => publication.verified \/ e.type = "VERIFIED"
    BY <1>4
  <2> SUFFICES ASSUME publication.of > 0
               PROVE  \E i \in DOMAIN log' :
                        /\ log'[i].type = "PUBLISHED" /\ log'[i].of = publication'.of
                        /\ \A k \in i + 1 .. n : log'[k].type # "PUBLISHED"
                        /\ publication'.verified =>
                             \E j \in i + 1 .. n : log'[j].type = "VERIFIED"
    BY <1>2, <2>1 DEF OnRecord
  <2>3. PICK i \in 1 .. Manifest :
          /\ log[i].type = "PUBLISHED" /\ log[i].of = publication.of
          /\ \A k \in i + 1 .. Manifest : log[k].type # "PUBLISHED"
          /\ publication.verified => \E j \in i + 1 .. Manifest : log[j].type = "VERIFIED"
    BY <1>2 DEF OnRecord
  <2> HIDE DEF n
  <2>4. i \in 1 .. n /\ n \in i + 1 .. n
    BY <1>2 DEF n
  <2>5. \A k \in i + 1 .. n : k = n \/ k \in i + 1 .. Manifest
    BY <1>2 DEF n
  <2>6. \A k \in i + 1 .. Manifest : k \in 1 .. Manifest /\ k \in i + 1 .. n
    BY <1>2 DEF n
  <2>7. \A k \in i + 1 .. n : log'[k].type # "PUBLISHED"
    BY <1>2, <1>4, <2>3, <2>5, <2>6
  <2>8. publication'.verified => \E j \in i + 1 .. n : log'[j].type = "VERIFIED"
    <3>1. CASE e.type = "VERIFIED"
      BY <1>2, <2>4, <3>1
    <3>2. CASE publication.verified
      BY <1>2, <2>3, <2>6, <3>2
    <3>3. QED
      BY <2>2, <3>1, <3>2
  <2>9. QED
    BY <1>2, <2>1, <2>3, <2>4, <2>7, <2>8
<1>5. QED
  BY <1>3, <1>4

\* Whatever a run does, what is on record and what was sealed stay.
LEMMA ClaimDoes ==
  ASSUME Typed, LeasesDiffer, ClaimInv, NEW w \in Processes, Does(w)
  PROVE  LeasesDiffer' /\ ClaimInv'
<1>1. /\ Kept
      /\ log' = log \/ \E e \in Entries : log' = Append(log, e)
  BY DEF Does, Ended, Moved, Added, Goes, campaign
<1>2. LeasesDiffer'
  BY <1>1, DifferStay DEF Kept
<1>3. OnRecord(log, publication)'
  <2>1. CASE UNCHANGED campaign
    BY <2>1 DEF campaign, ClaimInv
  <2>2. ASSUME NEW s, NEW e, Added(w, s, e) PROVE OnRecord(log, publication)'
    <3>1. /\ e \in Entries /\ log' = Append(log, e)
          /\ \/ e.type \notin {"PUBLISHED", "VERIFIED"} /\ publication' = publication
             \/ e.type = "PUBLISHED" /\ e.of = publication'.of /\ ~publication'.verified
             \/ e.type = "VERIFIED" /\ publication' = [publication EXCEPT !.verified = TRUE]
      BY <2>2 DEF Added
    <3>2. QED
      BY <3>1, OnRecordStays DEF ClaimInv
  <2>3. QED
    BY <2>1, <2>2 DEF Does, Ended, Moved
<1>4. ASSUME NEW q \in claimed \cup ({gate} \ {0}) PROVE Sealed(q)'
  <2>1. q \in 1 .. Latest
    BY DEF Typed, LeasesTyped, Latest
  <2>2. issued' = issued
    BY <1>1 DEF Kept
  <2>3. QED
    BY <1>1, <2>1, <2>2, SealedStays DEF ClaimInv
<1>5. QED
  BY <1>1, <1>2, <1>3, <1>4 DEF ClaimInv, Kept

-----------------------------------------------------------------------------
(* Freshness.                                                              *)

\* A consumer that is no part of the inventory makes the campaign unsafe.
LEMMA LateIsUnsafe ==
  ASSUME NEW p \in Projections, Late \in p.current, p.inventory = BaseProjection.inventory
  PROVE  Decision(p) = "UNSAFE"
<1>1. Late \in new_consumers(PolicyInputs(p))
  BY LateAssumption DEF new_consumers, PolicyInputs
<1>2. QED
  BY <1>1 DEF Decision, evaluate_policy, HasUnsafe

\* What the events of a run do to the membership.
LEMMA MembershipIs ==
  ASSUME Typed, NEW w \in Processes, NEW s, NEW e, Added(w, s, e)
  PROVE  /\ projection'.inventory = projection.inventory
         /\ projection'.current = IF e.type = "RECONCILED" THEN run[w].observed
                                  ELSE projection.current
<1>1. projection \in Projections
  BY DEF Typed, CampaignTyped
<1>2. CASE /\ e.type = "STALE"
           /\ projection' = DispositionChanged(projection, Migrated, "STALE", NoPlan)
  BY <1>1, <1>2 DEF DispositionChanged, Projections
<1>3. CASE /\ e.type = "RECONCILED"
           /\ \E env \in Envelopes :
                projection' = ReconciliationRecorded(projection, run[w].observed,
                                                     [c \in Consumers |-> "IDENTIFIED"], env)
  BY <1>1, <1>3 DEF ReconciliationRecorded, Entered, Projections
<1>4. CASE e.type = "EVALUATED" /\ projection' = PolicyEvaluated(projection)
  BY <1>1, <1>4 DEF PolicyEvaluated, Projections
<1>5. CASE e.type \in {"PUBLISHED", "VERIFIED"} /\ projection' = projection
  BY <1>5
<1>6. QED
  BY <1>2, <1>3, <1>4, <1>5 DEF Added

\* A watch that has seen a reconciliation after its observation, but made none,
\* relies on another's.
LEMMA ReconciledByWhom ==
  ASSUME NEW q, ReconciledAfter(q)
  PROVE  Has(q, "RECONCILED") \/ Foreign(q)
<1>1. PICK i, j \in DOMAIN log : i < j /\ ByWatch(q, "WATCH", i) /\ Is("RECONCILED", j)
  BY DEF ReconciledAfter
<1>2. CASE log[j].by = q
  BY <1>1, <1>2 DEF Has, ByWatch
<1>3. CASE log[j].by # q
  BY <1>1, <1>3 DEF Foreign
<1>4. QED
  BY <1>2, <1>3

\* The conjunct of the freshness invariant about one lease.
FreshLease(q) ==
  lateAt[q] =>
    /\ late
    /\ Has(q, "RECONCILED") /\ ~Foreign(q) => Late \in projection.current
    /\ receipt[q].result = "UNCHANGED" => Foreign(q)

LEMMA EndedFresh == ASSUME Typed, FreshInv, NEW w \in Processes, Ended(w) PROVE FreshInv'
<1>1. /\ UNCHANGED <<log, projection, late, lateAt>>
      /\ run'[w] = Idle /\ \A v \in Processes \ {w} : run'[v] = run[v]
      /\ \A q \in Leases : receipt'[q].result = "UNCHANGED" => receipt[q].result = "UNCHANGED"
  BY StopTyped DEF Ended, campaign, Kept, Typed
<1>2. \A q : Has(q, "RECONCILED")' = Has(q, "RECONCILED") /\ Foreign(q)' = Foreign(q)
  BY <1>1, LogSame
<1>3. run'[Watcher].at # "idle" => run'[Watcher] = run[Watcher]
  BY <1>1, IdleIs, ProcessesAre
<1>4. QED
  BY <1>1, <1>2, <1>3 DEF FreshInv

LEMMA MovedFresh ==
  ASSUME Typed, FreshInv, NEW w \in Processes, NEW s, Moved(w, s) PROVE FreshInv'
<1>1. /\ UNCHANGED <<log, projection, late, lateAt, receipt>> /\ s.lease = run[w].lease
      /\ run'[w] = s /\ \A v \in Processes \ {w} : run'[v] = run[v]
  BY MovedTyped DEF Moved, Goes, Kept, campaign
<1>2. \A q : Has(q, "RECONCILED")' = Has(q, "RECONCILED") /\ Foreign(q)' = Foreign(q)
  BY <1>1, LogSame
<1>3. (run[Watcher].at \in {"staling", "recording"} /\ lateAt[run[Watcher].lease]
         => Late \in run[Watcher].observed)'
  <2>1. CASE w # Watcher
    BY <1>1, <2>1, ProcessesAre DEF FreshInv
  <2>2. CASE w = Watcher
    <3>1. s.at \in {"staling", "recording"} => s.observed = Observable
      BY <2>2 DEF Moved, Onward
    <3>2. s.lease \in Leases
      BY <1>1, <2>2, MovedLeads, WatchIs
    <3>3. lateAt[s.lease] => late
      BY <3>2 DEF FreshInv
    <3>4. late => Late \in Observable
      BY DEF Observable
    <3>5. QED
      BY <1>1, <2>2, <3>1, <3>3, <3>4
  <2>3. QED
    BY <2>1, <2>2
<1>4. QED
  BY <1>1, <1>2, <1>3 DEF FreshInv

LEMMA AddedFresh ==
  ASSUME Typed, WatchInv, FreshInv, NEW w \in Processes, NEW s, NEW e, Added(w, s, e)
  PROVE  FreshInv'
<1>1. /\ log' = Append(log, e) /\ e \in Entries /\ CampaignTyped /\ e.by = run[w].lease
      /\ UNCHANGED <<late, lateAt, receipt>> /\ s.lease = run[w].lease
      /\ run'[w] = s /\ \A v \in Processes \ {w} : run'[v] = run[v]
  BY AddedTyped DEF Added, Goes, Kept, Typed
<1>2. /\ projection'.inventory = projection.inventory
      /\ projection'.current = IF e.type = "RECONCILED" THEN run[w].observed
                               ELSE projection.current
  BY MembershipIs
<1>3. \A q : /\ Has(q, "RECONCILED")' <=>
                  Has(q, "RECONCILED") \/ (e.type = "RECONCILED" /\ e.by = q)
             /\ Foreign(q)' <=>
                  Foreign(q) \/ (Has(q, "WATCH") /\ e.type = "RECONCILED" /\ e.by # q)
  BY <1>1, PredicatesGrow
<1>4. e.type = "RECONCILED" => run[w].at = "recording"
  BY DEF Added
<1>5. s.at = "recording" => run[w].at = "staling" /\ s.observed = run[w].observed
  BY DEF Added, Onward
<1>6. s.at # "staling"
  BY DEF Added, Onward
<1>7. (run[Watcher].at \in {"staling", "recording"} /\ lateAt[run[Watcher].lease]
         => Late \in run[Watcher].observed)'
  BY <1>1, <1>5, <1>6, ProcessesAre DEF FreshInv
<1>8. \A q \in Leases : FreshLease(q)'
  <2> SUFFICES ASSUME NEW q \in Leases, lateAt[q] PROVE FreshLease(q)'
    BY <1>1 DEF FreshLease
  <2>1. late /\ (receipt[q].result = "UNCHANGED" => Foreign(q))
        /\ (Has(q, "RECONCILED") /\ ~Foreign(q) => Late \in projection.current)
    BY DEF FreshInv
  <2>2. ASSUME Has(q, "RECONCILED")', ~Foreign(q)' PROVE Late \in projection'.current
    <3>1. CASE e.type # "RECONCILED"
      BY <1>2, <1>3, <2>1, <2>2, <3>1
    <3>2. CASE e.type = "RECONCILED" /\ e.by = q
      <4>1. w = Watcher
        <5>1. run[Operator].lease = 0 /\ 0 \notin Leases
          BY BoundsAre DEF Typed, RunsTyped, Leases
        <5>2. QED
          BY <1>1, <3>2, <5>1, ProcessesAre
      <4>2. QED
        BY <1>1, <1>2, <1>4, <3>2, <4>1 DEF FreshInv
    <3>3. CASE e.type = "RECONCILED" /\ e.by # q
      <4>1. Has(q, "RECONCILED")
        BY <1>3, <2>2, <3>3
      <4>2. Has(q, "WATCH")
        <5>1. "RECONCILED" \in EventTypes
          BY DEF EventTypes
        <5>2. QED
          BY <4>1, <5>1 DEF WatchInv, WatchOrder, Has
      <4>3. QED
        BY <1>3, <2>2, <3>3, <4>2
    <3>4. QED
      BY <3>1, <3>2, <3>3
  <2>3. QED
    BY <1>1, <1>3, <2>1, <2>2 DEF FreshLease
<1>9. QED
  BY <1>2, <1>7, <1>8 DEF FreshInv, FreshLease

-----------------------------------------------------------------------------
(***************************************************************************)
(* The whole invariant, and the steps outside the runs.                    *)
(***************************************************************************)
LeaseInv == Typed /\ LeasesDiffer /\ WatchInv /\ ClaimInv /\ FreshInv

\* Whatever a run does keeps it.
LEMMA DoesInv == ASSUME LeaseInv, NEW w \in Processes, Does(w) PROVE LeaseInv'
<1>1. LeasesDiffer' /\ ClaimInv'
  BY ClaimDoes DEF LeaseInv
<1>2. CASE Ended(w)
  BY <1>1, <1>2, EndedTyped, StopWatch, EndedFresh DEF LeaseInv, Ended
<1>3. CASE \E s : Moved(w, s)
  BY <1>1, <1>3, MovedTyped, MovedWatch, MovedFresh DEF LeaseInv
<1>4. CASE \E s, e : Added(w, s, e)
  BY <1>1, <1>4, AddedTyped, AddedWatch, AddedFresh DEF LeaseInv
<1>5. QED
  BY <1>2, <1>3, <1>4 DEF Does

\* A step that leaves the campaign and the runs alone.
LEMMA QuietWatch == ASSUME WatchInv, UNCHANGED <<log, projection, run>> PROVE WatchInv'
<1>1. WatchOrder'
  BY OrderSame DEF WatchInv
<1>2. WatchKnows'
  BY KnowsSame DEF WatchInv
<1>3. PublishedBefore'
  BY DEF WatchInv, PublishedBefore, Manifest
<1>4. QED
  BY <1>1, <1>2, <1>3 DEF WatchInv

LEMMA QuietFresh ==
  ASSUME FreshInv, UNCHANGED <<log, projection, run, receipt, lateAt>>, late => late'
  PROVE  FreshInv'
<1>1. \A q : Has(q, "RECONCILED")' = Has(q, "RECONCILED") /\ Foreign(q)' = Foreign(q)
  BY LogSame
<1>2. QED
  BY <1>1 DEF FreshInv

LEMMA QuietClaims ==
  ASSUME Typed, LeasesDiffer, ClaimInv, UNCHANGED <<log, publication>>,
         \A q \in 1 .. Latest : issued'[q].manifest = issued[q].manifest,
         \A q \in claimed' \cup ({gate'} \ {0}) :
            q \in 1 .. Latest /\ (q \in claimed \cup ({gate} \ {0}) \/ Sealed(q))
  PROVE  ClaimInv'
<1>1. OnRecord(log, publication)'
  BY DEF ClaimInv
<1>2. ASSUME NEW q \in claimed' \cup ({gate'} \ {0}) PROVE Sealed(q)'
  <2>1. q \in 1 .. Latest /\ Sealed(q)
    BY DEF ClaimInv
  <2>2. QED
    BY <2>1, SealedStays
<1>3. QED
  BY <1>1, <1>2 DEF ClaimInv

LEMMA ClaimsRange == ASSUME Typed PROVE \A q \in claimed \cup ({gate} \ {0}) : q \in 1 .. Latest
  BY DEF Typed, LeasesTyped, Latest

LEMMA IssueLeaseInv == ASSUME LeaseInv, IssueLease PROVE LeaseInv'
<1> DEFINE new == [manifest |-> Manifest, expired |-> FALSE]
<1>1. /\ issued' = Append(issued, new) /\ Latest < MaxLeases
      /\ \A q \in 1 .. Latest : issued[q].manifest # Manifest
      /\ UNCHANGED <<log, projection, publication, lock, run, claimed, gate, receipt, late, lateAt>>
      /\ lock = NoProcess
  BY DEF IssueLease, campaign, sources, Free
<1>2. Manifest \in Nat /\ Manifest' = Manifest
  BY <1>1 DEF LeaseInv, Typed, CampaignTyped, Manifest
<1>3. new \in Issued /\ new.manifest = Manifest
  BY <1>2 DEF Issued
<1> HIDE DEF new
<1>4. /\ issued \in Seq(Issued) /\ Latest \in Nat /\ Latest' = Latest + 1
      /\ issued' \in Seq(Issued) /\ issued'[Latest + 1] = new
      /\ \A q \in 1 .. Latest : issued'[q] = issued[q]
  BY <1>1, <1>3 DEF LeaseInv, Typed, LeasesTyped, Latest
<1>5. run[Watcher].at = "idle"
  BY <1>1, ProcessesAre DEF LeaseInv, Typed, RunsTyped
<1>6. Typed'
  <2>1. CampaignTyped'
    BY <1>1 DEF LeaseInv, Typed, CampaignTyped
  <2>2. RunsTyped'
    BY <1>1, <1>5 DEF LeaseInv, Typed, RunsTyped
  <2>3. LeasesTyped'
    BY <1>1, <1>4, BoundsAre DEF LeaseInv, Typed, LeasesTyped
  <2>4. QED
    BY <2>1, <2>2, <2>3 DEF Typed
<1>7. LeasesDiffer'
  <2>1. \A q \in 1 .. Latest + 1 : q \in 1 .. Latest \/ q = Latest + 1
    BY <1>4
  <2>2. \A q \in 1 .. Latest : issued'[q].manifest <= Manifest
    BY <1>4 DEF LeaseInv, LeasesDiffer
  <2>3. issued'[Latest + 1].manifest = Manifest
    BY <1>3, <1>4
  <2>4. \A q \in 1 .. Latest + 1 : issued'[q].manifest <= Manifest'
    BY <1>2, <2>1, <2>2, <2>3
  <2>5. ASSUME NEW q \in 1 .. Latest + 1, NEW r \in 1 .. Latest + 1, q # r
        PROVE  issued'[q].manifest # issued'[r].manifest
    BY <1>1, <1>4, <2>1, <2>3, <2>5 DEF LeaseInv, LeasesDiffer
  <2>6. QED
    BY <1>4, <2>4, <2>5 DEF LeasesDiffer
<1>8. ClaimInv'
  BY <1>1, <1>4, QuietClaims, ClaimsRange DEF LeaseInv
<1>9. WatchInv' /\ FreshInv'
  BY <1>1, QuietWatch, QuietFresh DEF LeaseInv
<1>10. QED
  BY <1>6, <1>7, <1>8, <1>9 DEF LeaseInv

\* A step that leaves the campaign, the runs and the manifests of the leases alone.
LEMMA QuietInv ==
  ASSUME LeaseInv, UNCHANGED <<log, projection, publication, lock, run, receipt, lateAt>>,
         late => late', late' \in BOOLEAN,
         issued' \in Seq(Issued), Latest' = Latest,
         \A q \in 1 .. Latest : issued'[q].manifest = issued[q].manifest,
         claimed' \subseteq 1 .. Latest, gate' \in 0 .. Latest,
         \A q \in claimed' \cup ({gate'} \ {0}) :
            q \in claimed \cup ({gate} \ {0}) \/ Sealed(q)
  PROVE  LeaseInv'
<1>1. Typed'
  <2>1. CampaignTyped' /\ RunsTyped'
    BY DEF LeaseInv, Typed, CampaignTyped, RunsTyped
  <2>2. LeasesTyped'
    BY DEF LeaseInv, Typed, LeasesTyped
  <2>3. QED
    BY <2>1, <2>2 DEF Typed
<1>2. LeasesDiffer'
  BY DEF LeaseInv, LeasesDiffer, Manifest
<1>3. Latest \in Nat
  BY DEF LeaseInv, Typed, LeasesTyped, Latest
<1>4. ClaimInv'
  <2>1. \A q \in claimed' \cup ({gate'} \ {0}) : q \in 1 .. Latest
    BY <1>3
  <2>2. QED
    BY <2>1, QuietClaims DEF LeaseInv
<1>5. WatchInv' /\ FreshInv'
  BY QuietWatch, QuietFresh DEF LeaseInv
<1>6. QED
  BY <1>1, <1>2, <1>4, <1>5 DEF LeaseInv

\* Max, likewise.
LEMMA MaxIsMember ==
  ASSUME NEW n \in Nat, NEW S \in SUBSET (1 .. n), S # {}
  PROVE  Max(S) \in S /\ \A y \in S : Max(S) >= y
<1> DEFINE T == {n - x : x \in S}
<1>0. \A x \in S : x \in Nat /\ n - x \in Nat
  OBVIOUS
<1>1. T \in SUBSET Nat /\ T # {}
  BY <1>0
<1>2. Min(T) \in T /\ \A y \in T : Min(T) <= y
  BY <1>1, MinIsMember
<1>3. PICK x \in S : Min(T) = n - x
  BY <1>2
<1>4. \A y \in S : n - x <= n - y
  BY <1>2, <1>3
<1>5. \A y \in S : x >= y
  BY <1>0, <1>4
<1>6. QED
  BY <1>5 DEF Max

\* The status of a lease, guard by guard.
StatusGuards ==
  \A q \in Nat :
     LeaseStatus(q) = IF q > Latest THEN "NONE"
                      ELSE IF q \in claimed THEN "CONSUMED"
                      ELSE IF Manifest # issued[q].manifest THEN "INVALIDATED"
                      ELSE IF issued[q].expired THEN "EXPIRED" ELSE "ISSUED"

LEMMA StatusIs == Typed => StatusGuards
<1> SUFFICES ASSUME Typed, NEW q \in Nat
    PROVE  LeaseStatus(q) = IF q > Latest THEN "NONE"
                            ELSE IF q \in claimed THEN "CONSUMED"
                            ELSE IF Manifest # issued[q].manifest THEN "INVALIDATED"
                            ELSE IF issued[q].expired THEN "EXPIRED" ELSE "ISSUED"
  BY DEF StatusGuards
<1>1. Latest \in Nat /\ Len(issued) = Latest
  BY DEF Typed, LeasesTyped, Latest
<1>2. CASE q > Latest
  BY <1>1, <1>2 DEF LeaseStatus
<1>3. CASE q <= Latest /\ q \in claimed
  BY <1>1, <1>3 DEF LeaseStatus
<1>4. CASE q <= Latest /\ q \notin claimed /\ Manifest # issued[q].manifest
  BY <1>1, <1>4 DEF LeaseStatus
<1>5. CASE q <= Latest /\ q \notin claimed /\ Manifest = issued[q].manifest
  BY <1>1, <1>5 DEF LeaseStatus
<1>6. QED
  BY <1>1, <1>2, <1>3, <1>4, <1>5

\* What the gate verifies is in the log before the manifest of the lease.
LEMMA VerifiedIsSealed == ASSUME LeaseInv, GateVerify PROVE Sealed(Latest)
<1> DEFINE of == publication.of
           I == {i \in 1 .. Len(log) : log[i].type = "PUBLISHED" /\ log[i].of = of}
<1>0. Latest \in Nat /\ Typed
  BY DEF LeaseInv, Typed, LeasesTyped, Latest
<1>1. Latest > 0 /\ Manifest = issued[Latest].manifest
  BY <1>0, StatusIs DEF GateVerify, StatusGuards
<1>2. /\ publication.verified /\ of > 0 /\ PublishedAt - 1 = of /\ log[of].ready
      /\ \A i \in of + 1 .. Manifest : log[i].type # "RECONCILED"
  BY DEF GateVerify, GatePublication, Reconstructible
<1>3. PublishedAt = IF I # {} THEN Max(I) ELSE 0
  BY DEF PublishedAt, SelectLastInSeq
<1>4. of \in Nat /\ Manifest \in Nat /\ DOMAIN log = 1 .. Manifest
  BY DEF LeaseInv, Typed, CampaignTyped, OnRecords, Manifest
<1>5. I \in SUBSET (1 .. Manifest)
  BY DEF Manifest
<1>6. PICK i \in DOMAIN log :
        /\ log[i].type = "PUBLISHED" /\ log[i].of = of
        /\ \A k \in i + 1 .. Manifest : log[k].type # "PUBLISHED"
        /\ \E j \in i + 1 .. Manifest : log[j].type = "VERIFIED"
  BY <1>2 DEF LeaseInv, ClaimInv, OnRecord, Manifest
<1>7. i \in I
  BY <1>6 DEF Manifest
<1>8. Max(I) \in I /\ Max(I) >= i
  BY <1>4, <1>5, <1>7, MaxIsMember
<1>9. \A k \in I : k \in 1 .. Manifest /\ log[k].type = "PUBLISHED"
  BY <1>5
<1> HIDE DEF I, of
<1>10. Max(I) = i
  BY <1>4, <1>6, <1>8, <1>9
<1>11. i - 1 = of
  BY <1>2, <1>3, <1>7, <1>10
<1>12. PICK j \in i + 1 .. Manifest : log[j].type = "VERIFIED"
  BY <1>6
<1>13. i \in 1 .. Manifest /\ j \in 1 .. Manifest /\ i < j /\ i - 1 \in DOMAIN log
       /\ \A k \in i .. Manifest : k \in of + 1 .. Manifest
  BY <1>2, <1>4, <1>6, <1>11, <1>12
<1>14. QED
  BY <1>1, <1>2, <1>6, <1>11, <1>12, <1>13 DEF Sealed

LEMMA GateInv ==
  ASSUME LeaseInv, GateVerify \/ GateClaim \/ GateRefuse PROVE LeaseInv'
<1>1. /\ UNCHANGED <<log, projection, publication, lock, run, receipt, late, lateAt, issued>>
      /\ \/ claimed' = claimed /\ gate' = Latest /\ Sealed(Latest)
         \/ claimed' = claimed \cup {gate} /\ gate' = 0 /\ gate # 0
         \/ claimed' = claimed /\ gate' = 0
  BY VerifiedIsSealed DEF GateVerify, GateClaim, GateRefuse, campaign, sources
<1>2. /\ issued \in Seq(Issued) /\ late \in BOOLEAN /\ Latest \in Nat
      /\ claimed \subseteq 1 .. Latest /\ gate \in 0 .. Latest
  BY DEF LeaseInv, Typed, LeasesTyped, Latest
<1>3. Latest' = Latest
  BY <1>1 DEF Latest
<1>4. claimed' \subseteq 1 .. Latest /\ gate' \in 0 .. Latest
  <2>1. gate # 0 => gate \in 1 .. Latest
    BY <1>2
  <2>2. claimed' \subseteq claimed \cup ({gate} \ {0}) /\ gate' \in {Latest, 0}
    BY <1>1
  <2>3. {Latest, 0} \subseteq 0 .. Latest
    BY <1>2
  <2>4. QED
    BY <1>2, <2>1, <2>2, <2>3
<1>5. QED
  BY <1>1, <1>2, <1>3, <1>4, QuietInv

LEMMA AppearInv == ASSUME LeaseInv, Appear PROVE LeaseInv'
<1>1. /\ UNCHANGED <<log, projection, publication, lock, run, receipt, lateAt, issued, claimed, gate>>
      /\ late' = TRUE
  BY DEF Appear, campaign
<1>2. /\ issued \in Seq(Issued) /\ claimed \subseteq 1 .. Latest /\ gate \in 0 .. Latest
  BY DEF LeaseInv, Typed, LeasesTyped
<1>3. Latest' = Latest
  BY <1>1 DEF Latest
<1>4. QED
  BY <1>1, <1>2, <1>3, QuietInv

\* The latest lease expires, and its manifest stays.
LEMMA ExpireIs ==
  ASSUME Typed, Expire
  PROVE  /\ issued' \in Seq(Issued) /\ Latest' = Latest
         /\ \A q \in 1 .. Latest : issued'[q].manifest = issued[q].manifest
         /\ \A q \in 1 .. Latest : q # Latest => issued'[q] = issued[q]
         /\ issued'[Latest].expired
<1>1. issued' = [issued EXCEPT ![Latest].expired = TRUE] /\ Latest > 0
  BY DEF Expire
<1>2. issued \in Seq(Issued) /\ Latest \in Nat /\ Latest = Len(issued)
  BY DEF Typed, LeasesTyped, Latest
<1> DEFINE x == [issued[Latest] EXCEPT !.expired = TRUE]
           new == [issued EXCEPT ![Latest] = x]
<1>3. Latest \in 1 .. Len(issued) /\ issued[Latest] \in Issued
  BY <1>1, <1>2
<1>4. x \in Issued /\ x.manifest = issued[Latest].manifest /\ x.expired
  BY <1>3 DEF Issued
<1>5. issued' = new
  BY <1>1
<1> HIDE DEF x
<1>6. /\ new \in Seq(Issued) /\ Len(new) = Len(issued)
      /\ \A q \in 1 .. Len(issued) : new[q] = IF q = Latest THEN x ELSE issued[q]
  <2>1. issued \in Seq(Issued) /\ x \in Issued /\ Latest \in 1 .. Len(issued)
    BY <1>2, <1>3, <1>4
  <2>2. QED
    BY ONLY <2>1, ExceptSeq
<1> HIDE DEF new
<1>7. Latest' = Latest
  BY <1>5, <1>6 DEF Latest
<1>8. QED
  BY <1>2, <1>3, <1>4, <1>5, <1>6, <1>7

LEMMA ExpireInv == ASSUME LeaseInv, Expire PROVE LeaseInv'
<1>1. UNCHANGED <<log, projection, publication, lock, run, receipt, late, lateAt, claimed, gate>>
  BY DEF Expire, campaign, sources
<1>2. /\ claimed \subseteq 1 .. Latest /\ gate \in 0 .. Latest /\ late \in BOOLEAN
  BY DEF LeaseInv, Typed, LeasesTyped
<1>3. /\ issued' \in Seq(Issued) /\ Latest' = Latest
      /\ \A q \in 1 .. Latest : issued'[q].manifest = issued[q].manifest
  BY ExpireIs DEF LeaseInv
<1>4. QED
  BY <1>1, <1>2, <1>3, QuietInv

\* The operator starts a command.
LEMMA StartInv == ASSUME LeaseInv, NEW command \in Commands, Start(command) PROVE LeaseInv'
<1> DEFINE s == [run[Operator] EXCEPT !.at = command]
<1>1. /\ run[Operator].at = "idle" /\ run' = [run EXCEPT ![Operator].at = command]
      /\ UNCHANGED <<log, projection, publication, lock, issued, claimed, gate, receipt, late,
                      lateAt>>
  BY DEF Start, At, campaign, sources
<1>2. command \in {"reconciling", "evaluating", "publishing", "verifying"}
  BY CommandsAssumption
<1>3. /\ run \in [Processes -> Runs] /\ run[Operator] \in Runs /\ run[Operator].lease = 0
      /\ Operator \in Processes /\ Watcher \in Processes
  BY ProcessesAre DEF LeaseInv, Typed, RunsTyped
<1>4. s \in Runs /\ s.at = command /\ s.lease = 0
  BY <1>2, <1>3 DEF Runs, Points
<1>5. run' = [run EXCEPT ![Operator] = s]
  BY <1>1, <1>3
<1> HIDE DEF s
<1>6. run' \in [Processes -> Runs] /\ run'[Operator] = s /\ run'[Watcher] = run[Watcher]
  BY <1>3, <1>4, <1>5, ProcessesAre
<1>7. Typed'
  <2>1. CampaignTyped' /\ LeasesTyped'
    BY <1>1 DEF LeaseInv, Typed, CampaignTyped, LeasesTyped, Latest
  <2>2. RunsTyped'
    BY <1>1, <1>2, <1>4, <1>6 DEF LeaseInv, Typed, RunsTyped, Latest
  <2>3. QED
    BY <2>1, <2>2 DEF Typed
<1>8. LeasesDiffer'
  BY <1>1 DEF LeaseInv, LeasesDiffer, Latest, Manifest
<1>9. WatchInv'
  <2>1. WatchOrder' /\ WatchKnows'
    BY <1>1, <1>6, OrderSame, KnowsSame DEF LeaseInv, WatchInv
  <2>2. PublishedBefore'
    BY <1>1, <1>2, <1>4, <1>6, ProcessesAre DEF LeaseInv, WatchInv, PublishedBefore, Manifest
  <2>3. QED
    BY <2>1, <2>2 DEF WatchInv
<1>10. ClaimInv'
  BY <1>1, QuietClaims, ClaimsRange DEF LeaseInv
<1>11. FreshInv'
  <2>1. \A q : Has(q, "RECONCILED")' = Has(q, "RECONCILED") /\ Foreign(q)' = Foreign(q)
    BY <1>1, LogSame
  <2>2. QED
    BY <1>1, <1>6, <2>1 DEF LeaseInv, FreshInv
<1>12. QED
  BY <1>7, <1>8, <1>9, <1>10, <1>11 DEF LeaseInv

\* A later run of the watch begins.
LEMMA RerunInv == ASSUME LeaseInv, Rerun PROVE LeaseInv'
<1> DEFINE q == Latest
           reconciled == EventAfter(WatchedAt(q), "RECONCILED")
           evaluated == EventAfter(WatchedAt(q), "EVALUATED")
           at == IF reconciled = 0 THEN "reconciling"
                 ELSE IF evaluated = 0 THEN "evaluating" ELSE "publishing"
           s == [Idle EXCEPT !.lease = q, !.at = at]
<1>1. /\ run[Watcher].at = "idle" /\ q > 0 /\ Observed(q) /\ lock' = Watcher
      /\ run' = [run EXCEPT ![Watcher] = s]
      /\ UNCHANGED <<log, projection, publication, issued, claimed, gate, receipt, late, lateAt>>
  BY DEF Rerun, At, campaign, sources
<1>2. q \in Nat /\ q \in Leases /\ Latest' = Latest
  BY <1>1, BoundsAre DEF LeaseInv, Typed, LeasesTyped, Latest, Leases
<1>3. /\ Has(q, "WATCH")
      /\ reconciled = 0 <=> ~ReconciledAfter(q)
      /\ evaluated = 0 <=> ~EvaluatedAfter(q)
  BY <1>1, <1>2, WatchedAtIs, LookedUp DEF LeaseInv, Typed, WatchInv
<1> HIDE DEF reconciled, evaluated
<1>4. /\ at \in {"reconciling", "evaluating", "publishing"}
      /\ at = "reconciling" <=> ~ReconciledAfter(q)
      /\ at = "evaluating" => ~EvaluatedAfter(q)
      /\ at = "publishing" => EvaluatedAfter(q)
  BY <1>3
<1> HIDE DEF at
<1>5. s \in Runs /\ s.at = at /\ s.lease = q
  <2>1. Idle \in Runs /\ at \in Points
    BY <1>4, IdleIs DEF Points
  <2>2. QED
    BY <1>2, <2>1 DEF Runs
<1> HIDE DEF s
<1>6. run' \in [Processes -> Runs] /\ run'[Watcher] = s /\ run'[Operator] = run[Operator]
  BY <1>1, <1>5, ProcessesAre DEF LeaseInv, Typed, RunsTyped
<1>7. Typed'
  <2>1. CampaignTyped' /\ LeasesTyped'
    BY <1>1 DEF LeaseInv, Typed, CampaignTyped, LeasesTyped, Latest
  <2>2. RunsTyped'
    BY <1>1, <1>2, <1>4, <1>5, <1>6 DEF LeaseInv, Typed, RunsTyped
  <2>3. QED
    BY <2>1, <2>2 DEF Typed
<1>8. LeasesDiffer'
  BY <1>1 DEF LeaseInv, LeasesDiffer, Latest, Manifest
<1>9. WatchInv'
  <2>1. WatchOrder'
    BY <1>1, OrderSame DEF LeaseInv, WatchInv
  <2>2. PublishedBefore'
    BY <1>1, <1>4, <1>5, <1>6, ProcessesAre DEF LeaseInv, WatchInv, PublishedBefore, Manifest
  <2>3. ~EvaluatedAfter(q) =>
           ~Has(q, "EVALUATED") /\ ~Has(q, "PUBLISHED") /\ ~Has(q, "VERIFIED")
    <3>1. Has(q, "EVALUATED") => EvaluatedAfter(q)
      <4>1. ASSUME NEW j \in DOMAIN log, ByWatch(q, "EVALUATED", j) PROVE EvaluatedAfter(q)
        <5>1. "EVALUATED" \in EventTypes
          BY DEF EventTypes
        <5>2. PICK i \in DOMAIN log : i < j /\ ByWatch(q, "WATCH", i)
          BY <1>2, <4>1, <5>1 DEF LeaseInv, WatchInv, WatchOrder
        <5>3. QED
          BY <4>1, <5>2 DEF EvaluatedAfter, ByWatch
      <4>2. QED
        BY <4>1 DEF Has
    <3>2. PublishedAfter(q) \/ VerifiedAfter(q) => EvaluatedAfter(q)
      BY DEF PublishedAfter, VerifiedAfter, EvaluatedAfter
    <3>3. QED
      BY <1>2, <3>1, <3>2 DEF LeaseInv, WatchInv, WatchOrder
  <2>4. \A p : /\ \A type : Has(p, type)' = Has(p, type)
               /\ ReconciledAfter(p)' = ReconciledAfter(p)
               /\ EvaluatedAfter(p)' = EvaluatedAfter(p)
    BY <1>1, LogSame
  <2> HIDE DEF q
  <2>5. WatchKnows'
    BY <1>3, <1>4, <1>5, <1>6, <2>3, <2>4 DEF WatchKnows
  <2>6. QED
    BY <2>1, <2>2, <2>5 DEF WatchInv
<1>10. ClaimInv'
  BY <1>1, QuietClaims, ClaimsRange DEF LeaseInv
<1>11. FreshInv'
  <2>1. \A p : Has(p, "RECONCILED")' = Has(p, "RECONCILED") /\ Foreign(p)' = Foreign(p)
    BY <1>1, LogSame
  <2>2. QED
    BY <1>1, <1>4, <1>5, <1>6, <2>1 DEF LeaseInv, FreshInv
<1>12. QED
  BY <1>7, <1>8, <1>9, <1>10, <1>11 DEF LeaseInv

\* The observation.
LEMMA ObserveInv == ASSUME LeaseInv, Observe PROVE LeaseInv'
<1> DEFINE q == Latest
           s == [Idle EXCEPT !.at = "reconciling", !.lease = q]
           e == [type |-> "WATCH", by |-> run'[Watcher].lease, of |-> 0,
                 ready |-> Ready(projection)]
<1>1. /\ run[Watcher].at = "idle" /\ q > 0 /\ ~Observed(q) /\ ~Final(q) /\ lock' = Watcher
      /\ run' = [run EXCEPT ![Watcher] = s] /\ log' = Append(log, e)
      /\ lateAt' = [lateAt EXCEPT ![q] = late]
      /\ UNCHANGED <<projection, publication, issued, claimed, gate, receipt, late>>
  BY DEF Observe, Appended, At, sources
<1>2. q \in Nat /\ q \in Leases /\ Latest' = Latest
  BY <1>1, BoundsAre DEF LeaseInv, Typed, LeasesTyped, Latest, Leases
<1>3. s \in Runs /\ s.at = "reconciling" /\ s.lease = q
  <2>1. Idle \in Runs /\ "reconciling" \in Points
    BY IdleIs DEF Points
  <2>2. QED
    BY <1>2, <2>1 DEF Runs
<1> HIDE DEF s
<1>4. run' \in [Processes -> Runs] /\ run'[Watcher] = s /\ run'[Operator] = run[Operator]
  BY <1>1, <1>3, ProcessesAre DEF LeaseInv, Typed, RunsTyped
<1>5. e \in Entries /\ e.type = "WATCH" /\ e.by = q
  <2>1. Ready(projection) \in BOOLEAN /\ "WATCH" \in EventTypes
    BY DEF Ready, EventTypes
  <2>2. QED
    BY <1>2, <1>3, <1>4, <2>1 DEF Entries
<1> HIDE DEF e
<1>6. CampaignTyped
  BY DEF LeaseInv, Typed
<1>7. ~Has(q, "WATCH")
  BY <1>1, <1>6, WatchedAtIs
<1>8. \A p : /\ \A type : Has(p, type)' <=> Has(p, type) \/ (e.type = type /\ e.by = p)
             /\ ReconciledAfter(p)' <=>
                  ReconciledAfter(p) \/ (Has(p, "WATCH") /\ e.type = "RECONCILED")
             /\ Foreign(p)' <=>
                  Foreign(p) \/ (Has(p, "WATCH") /\ e.type = "RECONCILED" /\ e.by # p)
  BY <1>1, <1>5, <1>6, PredicatesGrow
<1>9. Typed'
  <2>1. CampaignTyped'
    BY <1>1, <1>5 DEF LeaseInv, Typed, CampaignTyped
  <2>2. lateAt' \in [Leases -> BOOLEAN]
    BY <1>1, <1>2 DEF LeaseInv, Typed, LeasesTyped
  <2>3. LeasesTyped'
    BY <1>1, <1>2, <2>2 DEF LeaseInv, Typed, LeasesTyped
  <2>4. RunsTyped'
    BY <1>1, <1>2, <1>3, <1>4 DEF LeaseInv, Typed, RunsTyped
  <2>5. QED
    BY <2>1, <2>3, <2>4 DEF Typed
<1>10. LeasesDiffer'
  BY <1>1, <1>5, DifferStay DEF LeaseInv
<1>11. WatchInv'
  <2>1. WatchOrder'
    BY <1>1, <1>5, <1>6, <1>7, OrderGrows DEF LeaseInv, WatchInv
  <2>2. PublishedBefore'
    <3>1. /\ DOMAIN log = 1 .. Manifest /\ Manifest \in Nat /\ Manifest' = Manifest + 1
          /\ DOMAIN log' = 1 .. Manifest + 1 /\ log'[Manifest + 1] = e
          /\ \A i \in 1 .. Manifest : log'[i] = log[i]
      BY <1>1, <1>5, <1>6, LogGrows
    <3>2. (\A i \in DOMAIN log : log[i].type = "PUBLISHED" => log[i].of < i)'
      BY <1>5, <3>1 DEF LeaseInv, WatchInv, PublishedBefore
    <3>3. run[Operator].of \in Nat
      BY ProcessesAre DEF LeaseInv, Typed, RunsTyped, Runs
    <3>4. (\A v \in Processes : run[v].at \in {"writing", "written"} => run[v].of <= Manifest)'
      BY <1>3, <1>4, <3>1, <3>3, ProcessesAre DEF LeaseInv, WatchInv, PublishedBefore
    <3>5. QED
      BY <3>2, <3>4 DEF PublishedBefore
  <2>3. ~ReconciledAfter(q)
    BY <1>7 DEF ReconciledAfter, Has
  <2> HIDE DEF q
  <2>4. WatchKnows'
    BY <1>3, <1>4, <1>5, <1>7, <1>8, <2>3 DEF WatchKnows
  <2>5. QED
    BY <2>1, <2>2, <2>4 DEF WatchInv
<1>12. ClaimInv'
  <2>1. OnRecord(log, publication)'
    BY <1>1, <1>5, OnRecordStays DEF LeaseInv, ClaimInv
  <2>2. ASSUME NEW p \in claimed' \cup ({gate'} \ {0}) PROVE Sealed(p)'
    BY <1>1, <1>5, ClaimsRange, SealedStays DEF LeaseInv, ClaimInv
  <2>3. QED
    BY <2>1, <2>2 DEF ClaimInv
<1>13. FreshInv'
  <2>1. receipt[q].result # "UNCHANGED"
    BY <1>1 DEF Final, Retryable, NotWatched
  <2>2. ~Has(q, "RECONCILED")
    <3>1. "RECONCILED" \in EventTypes
      BY DEF EventTypes
    <3>2. QED
      BY <1>2, <1>7, <3>1 DEF LeaseInv, WatchInv, WatchOrder, Has
  <2>3. lateAt' \in [Leases -> BOOLEAN] /\ lateAt'[q] = late
        /\ \A p \in Leases : p # q => lateAt'[p] = lateAt[p]
    BY <1>1, <1>2 DEF LeaseInv, Typed, LeasesTyped
  <2> HIDE DEF q
  <2>4. \A p \in Leases : FreshLease(p)'
    BY <1>1, <1>5, <1>8, <2>1, <2>2, <2>3 DEF LeaseInv, FreshInv, FreshLease
  <2>5. QED
    BY <1>1, <1>3, <1>4, <2>4 DEF LeaseInv, FreshInv, FreshLease
<1>14. QED
  BY <1>9, <1>10, <1>11, <1>12, <1>13 DEF LeaseInv

\* A watch that is done reports.
LEMMA WriteReceiptInv == ASSUME LeaseInv, WriteReceipt PROVE LeaseInv'
<1> DEFINE q == run[Watcher].lease
           report == [result |-> SuccessfulResult, phase |-> "NONE"]
<1>1. /\ run[Watcher].at = "done" /\ Stop(Watcher) /\ UNCHANGED campaign /\ Kept
      /\ receipt' = [receipt EXCEPT ![q] = report]
      /\ UNCHANGED <<log, projection, publication, issued, claimed, gate, late, lateAt>>
  BY DEF WriteReceipt, At, Unchanged, Kept, campaign, sources
<1>2. q \in Leases /\ Watcher \in Processes
  BY <1>1, WatchIs, ProcessesAre DEF LeaseInv
<1>3. SuccessfulResult \in Results
  BY DEF SuccessfulResult, Results
<1>4. report \in [result : Results, phase : Phases] /\ report.result = SuccessfulResult
  BY <1>3 DEF Phases
<1> HIDE DEF report
<1>5. /\ receipt' \in Receipted /\ receipt'[q] = report
      /\ \A p \in Leases : p # q => receipt'[p] = receipt[p]
  BY <1>1, <1>2, <1>4 DEF LeaseInv, Typed, LeasesTyped, Receipted
<1>6. Typed'
  <2>1. RunsTyped'
    BY <1>1, <1>2, StopTyped DEF LeaseInv, Typed
  <2>2. CampaignTyped' /\ LeasesTyped'
    BY <1>1, <1>5 DEF LeaseInv, Typed, CampaignTyped, LeasesTyped, Latest
  <2>3. QED
    BY <2>1, <2>2 DEF Typed
<1>7. LeasesDiffer'
  BY <1>1 DEF LeaseInv, LeasesDiffer, Latest, Manifest
<1>8. WatchInv'
  BY <1>1, <1>2, StopWatch DEF LeaseInv
<1>9. ClaimInv'
  BY <1>1, QuietClaims, ClaimsRange DEF LeaseInv
<1>10. FreshInv'
  <2>1. \A p : Has(p, "RECONCILED")' = Has(p, "RECONCILED") /\ Foreign(p)' = Foreign(p)
    BY <1>1, LogSame
  <2>2. run'[Watcher].at = "idle"
    BY <1>1, <1>2, StopTyped, IdleIs DEF LeaseInv, Typed
  <2>3. lateAt[q] /\ report.result = "UNCHANGED" => Foreign(q)
    <3>1. ReconciledAfter(q)
      BY <1>1 DEF LeaseInv, WatchInv, WatchKnows
    <3>2. lateAt[q] /\ ~Foreign(q) => Late \in projection.current
      BY <1>2, <3>1, ReconciledByWhom DEF LeaseInv, FreshInv
    <3>3. projection \in Projections /\ projection.inventory = BaseProjection.inventory
      BY DEF LeaseInv, Typed, CampaignTyped, FreshInv
    <3>4. lateAt[q] /\ ~Foreign(q) => Decision(projection) = "UNSAFE"
      BY <3>2, <3>3, LateIsUnsafe
    <3>5. QED
      BY <1>4, <3>4 DEF SuccessfulResult
  <2> HIDE DEF q
  <2>4. \A p \in Leases : FreshLease(p)'
    BY <1>1, <1>5, <2>1, <2>3 DEF LeaseInv, FreshInv, FreshLease
  <2>5. QED
    BY <1>1, <2>2, <2>4 DEF LeaseInv, FreshInv, FreshLease
<1>11. QED
  BY <1>6, <1>7, <1>8, <1>9, <1>10 DEF LeaseInv

-----------------------------------------------------------------------------
(* The invariant holds.                                                    *)

LEMMA InitInv == ASSUME Init PROVE LeaseInv
<1>1. /\ BaseLog \in Seq(Entries) /\ BasePublication \in OnRecords
      /\ \A i \in DOMAIN BaseLog :
            BaseLog[i].by = 0 /\ (BaseLog[i].type = "PUBLISHED" => BaseLog[i].of < i)
      /\ OnRecord(BaseLog, BasePublication)
  <2>1. Events \subseteq Entries /\ Publications \subseteq OnRecords
    BY DEF Events, Entries, Publications, OnRecords
  <2>2. QED
    BY <2>1, BaseAssumption
<1>2. CampaignTyped
  BY <1>1, ProjectionAssumption DEF Init, CampaignTyped
<1>3. LeasesTyped
  <2>1. issued = <<>> /\ Latest = 0
    BY DEF Init, Latest
  <2>2. issued \in Seq(Issued) /\ Latest <= MaxLeases
    BY <2>1, BoundsAre
  <2>3. receipt \in Receipted
    BY DEF Init, Receipted
  <2>4. claimed \subseteq 1 .. Latest /\ gate \in 0 .. Latest
    BY <2>1 DEF Init
  <2>5. late \in BOOLEAN /\ lateAt \in [Leases -> BOOLEAN]
    BY DEF Init
  <2>6. QED
    BY <2>1, <2>2, <2>3, <2>4, <2>5 DEF LeasesTyped
<1>4. RunsTyped /\ run[Watcher].at = "idle" /\ run[Operator].at = "idle"
  BY IdleIs, ProcessesAre DEF Init, RunsTyped
<1>5. LeasesDiffer
  BY DEF Init, LeasesDiffer, Latest
<1>6. \A q \in Leases : \A type, i : ~ByWatch(q, type, i)
  <2>1. 0 \notin Leases
    BY BoundsAre DEF Leases
  <2>2. QED
    BY <1>1, <2>1 DEF Init, ByWatch, Is
<1>7. WatchInv
  BY <1>1, <1>4, <1>6, ProcessesAre DEF Init, WatchInv, WatchOrder, PublishedBefore, WatchKnows, Has
<1>8. ClaimInv
  BY <1>1 DEF Init, ClaimInv
<1>9. FreshInv
  BY <1>4 DEF Init, FreshInv
<1>10. QED
  BY <1>2, <1>3, <1>4, <1>5, <1>7, <1>8, <1>9 DEF LeaseInv, Typed

LEMMA NextInv == ASSUME LeaseInv, [Next]_vars PROVE LeaseInv'
<1>1. ASSUME NEW w \in Processes, Step(w) \/ Fault(w) \/ Crash(w) PROVE LeaseInv'
  BY <1>1, RunDoes, DoesInv DEF LeaseInv
<1>2. CASE UNCHANGED vars
  <2>1. UNCHANGED <<log, projection, publication, lock, run, issued, claimed, gate, receipt, late,
                    lateAt>>
    BY <1>2 DEF vars, campaign, sources
  <2>2. /\ issued \in Seq(Issued) /\ claimed \subseteq 1 .. Latest /\ gate \in 0 .. Latest
        /\ late \in BOOLEAN
    BY DEF LeaseInv, Typed, LeasesTyped
  <2>3. Latest' = Latest
    BY <2>1 DEF Latest
  <2>4. QED
    BY <2>1, <2>2, <2>3, QuietInv
<1>3. QED
  BY <1>1, <1>2, ProcessesAre, IssueLeaseInv, GateInv, ObserveInv, RerunInv, WriteReceiptInv,
     StartInv, AppearInv, ExpireInv DEF Next, Watch

\* WF conjuncts aside, the specification is this.
LEMMA Safety == Spec => Init /\ [][Next]_vars
  BY PTL DEF Spec

LEMMA Invariance == Spec => []LeaseInv
  BY InitInv, NextInv, Safety, PTL

-----------------------------------------------------------------------------
(* The properties.                                                         *)

\* However often a watch crashes, fails and is run again, and whatever the operator
\* appends meanwhile, it appends each kind of event once: what watch.py looks up in
\* the log before each phase is enough to go on where it stopped.
THEOREM WatchesAreDoneOnce == Spec => []WatchIsDoneOnce
<1>1. LeaseInv => WatchIsDoneOnce
  <2> SUFFICES ASSUME LeaseInv, NEW q \in Leases, NEW type \in EventTypes
      PROVE  Cardinality({i \in DOMAIN log : log[i].type = type /\ log[i].by = q}) <= 1
    BY DEF WatchIsDoneOnce
  <2> DEFINE S == {i \in DOMAIN log : log[i].type = type /\ log[i].by = q}
  <2>1. \A i, j \in S : i = j
    BY DEF LeaseInv, WatchInv, WatchOrder, ByWatch, Is
  <2> HIDE DEF S
  <2>2. S = {} \/ \E x : S = {x}
    BY <2>1
  <2>3. Cardinality(S) <= 1
    <3>1. CASE S = {}
      BY <3>1, FS_EmptySet
    <3>2. ASSUME NEW x, S = {x} PROVE Cardinality(S) <= 1
      <4>1. Cardinality({x}) = 1
        BY FS_Singleton
      <4>2. QED
        BY <3>2, <4>1
    <3>3. QED
      BY <2>2, <3>1, <3>2
  <2>4. QED
    BY <2>3 DEF S
<1>2. QED
  BY <1>1, Invariance, PTL

\* The gate consumes a lease only for a summary that was published and read back
\* before the lease was issued, that renders the manifest just before its own event
\* and a ready decision, with no reconciliation since (gate.py _verify_publication),
\* although the claim itself looks at nothing.
THEOREM ClaimsArePublished == Spec => []ClaimedOnPublished
<1>1. LeaseInv => ClaimedOnPublished
  BY DEF LeaseInv, ClaimInv, Sealed, ClaimedOnPublished
<1>2. QED
  BY <1>1, Invariance, PTL

\* A watch reports UNCHANGED over a consumer that the sources showed when it
\* observed only if another process's reconciliation stood in for its own.
THEOREM UnchangedMeansFresh == Spec => []UnchangedIsFresh
<1>1. LeaseInv => UnchangedIsFresh
  <2> SUFFICES ASSUME LeaseInv, NEW q \in Leases, receipt[q].result = "UNCHANGED", lateAt[q]
      PROVE  \E i \in WatchedAt(q) + 1 .. Len(log) :
                log[i].type = "RECONCILED" /\ log[i].by # q
    BY DEF UnchangedIsFresh
  <2>1. PICK i, j \in DOMAIN log :
          i < j /\ ByWatch(q, "WATCH", i) /\ Is("RECONCILED", j) /\ log[j].by # q
    BY DEF LeaseInv, FreshInv, Foreign
  <2>2. CampaignTyped /\ WatchOrder
    BY DEF LeaseInv, Typed, WatchInv
  <2>3. Observed(q)
    BY <2>1, <2>2, WatchedAtIs DEF Has
  <2>4. ByWatch(q, "WATCH", WatchedAt(q)) /\ WatchedAt(q) \in DOMAIN log
    BY <2>2, <2>3, WatchedAtIs DEF Observed, ByWatch, Is
  <2>5. WatchedAt(q) = i
    <3>1. "WATCH" \in EventTypes
      BY DEF EventTypes
    <3>2. QED
      BY <2>1, <2>2, <2>4, <3>1 DEF WatchOrder
  <2>6. DOMAIN log = 1 .. Len(log) /\ Len(log) \in Nat
    BY <2>2 DEF CampaignTyped
  <2>7. j \in WatchedAt(q) + 1 .. Len(log)
    BY <2>1, <2>5, <2>6
  <2>8. QED
    BY <2>1, <2>7 DEF Is
<1>2. QED
  BY <1>1, Invariance, PTL

-----------------------------------------------------------------------------
(* The lease is what RetirementLease promises.                             *)

LEMMA StatusIsNext == Typed' => StatusGuards'
  BY StatusIs, PTL

\* The status that the abstract lease has.
Statuses == [q \in Leases |-> LeaseStatus(q)]

LEMMA OneMoves ==
  ASSUME NEW q \in Leases, NEW to, LeaseStatus(q)' = to,
         \A p \in Leases \ {q} : LeaseStatus(p)' = LeaseStatus(p)
  PROVE  Statuses' = [Statuses EXCEPT ![q] = to]
  BY DEF Statuses

LEMMA NoneMoves ==
  ASSUME \A q \in Leases : LeaseStatus(q)' = LeaseStatus(q)
  PROVE  Statuses' = Statuses
  BY DEF Statuses

\* A status is read from the leases, their consumption and the length of the log.
LEMMA StatusSame ==
  ASSUME Typed, Typed', UNCHANGED <<issued, claimed, log>>
  PROVE  Statuses' = Statuses
<1>1. Latest' = Latest /\ Manifest' = Manifest
  BY DEF Latest, Manifest
<1>2. Leases \subseteq Nat
  BY BoundsAre DEF Leases
<1>3. \A q \in Leases : LeaseStatus(q)' = LeaseStatus(q)
  BY <1>1, <1>2, StatusIs, StatusIsNext DEF StatusGuards
<1>4. QED
  BY <1>3, NoneMoves

\* An event invalidates the lease in force, if there is one, and no other.
LEMMA EventMoves ==
  ASSUME Typed, Typed', LeasesDiffer, UNCHANGED <<issued, claimed>>,
         NEW e \in Entries, log' = Append(log, e)
  PROVE  \/ Statuses' = Statuses
         \/ \E q \in Leases : /\ LeaseStatus(q) \in {"ISSUED", "EXPIRED"}
                             /\ Statuses' = [Statuses EXCEPT ![q] = "INVALIDATED"]
<1>1. Latest' = Latest /\ Manifest' = Manifest + 1 /\ Manifest \in Nat /\ Latest \in Nat
  BY LogGrows DEF Typed, LeasesTyped, Latest
<1>2. Leases \subseteq Nat /\ \A q \in Leases : q > Latest \/ q \in 1 .. Latest
  BY <1>1, BoundsAre DEF Leases
<1>3. \A q \in 1 .. Latest : issued[q].manifest \in Nat /\ issued[q].manifest <= Manifest
  BY IssuedIs DEF LeasesDiffer
<1>4. \A q \in 1 .. Latest : Manifest' # issued[q].manifest
  BY <1>1, <1>3
<1>5. StatusGuards /\ StatusGuards'
  BY StatusIs, StatusIsNext
<1>6. ASSUME NEW q \in Leases,
             q > Latest \/ q \in claimed \/ Manifest # issued[q].manifest
      PROVE  LeaseStatus(q)' = LeaseStatus(q)
  BY <1>1, <1>2, <1>4, <1>5, <1>6 DEF StatusGuards
<1>7. CASE \E q \in Leases : q \in 1 .. Latest /\ q \notin claimed /\ Manifest = issued[q].manifest
  <2>1. PICK q \in Leases : q \in 1 .. Latest /\ q \notin claimed /\ Manifest = issued[q].manifest
    BY <1>7
  <2>2. LeaseStatus(q) \in {"ISSUED", "EXPIRED"} /\ LeaseStatus(q)' = "INVALIDATED"
    BY <1>1, <1>2, <1>4, <1>5, <2>1 DEF StatusGuards
  <2>3. \A p \in Leases \ {q} : LeaseStatus(p)' = LeaseStatus(p)
    BY <1>2, <1>6, <2>1 DEF LeasesDiffer
  <2>4. QED
    BY <2>2, <2>3, OneMoves
<1>8. CASE \A q \in Leases : ~(q \in 1 .. Latest /\ q \notin claimed /\ Manifest = issued[q].manifest)
  BY <1>2, <1>6, <1>8, NoneMoves
<1>9. QED
  BY <1>7, <1>8

\* A new lease is issued, and the others are left as they are.
LEMMA IssueMoves ==
  ASSUME LeaseInv, Typed', IssueLease
  PROVE  \E q \in Leases : LeaseStatus(q) = "NONE" /\ Statuses' = [Statuses EXCEPT ![q] = "ISSUED"]
<1> DEFINE new == [manifest |-> Manifest, expired |-> FALSE]
<1>0. PICK q : q = Latest + 1
  OBVIOUS
<1>1. /\ issued' = Append(issued, new) /\ claimed' = claimed /\ Manifest' = Manifest
      /\ Latest < MaxLeases
  BY DEF IssueLease, campaign, Manifest
<1>2. /\ issued \in Seq(Issued) /\ Latest \in Nat /\ claimed \subseteq 1 .. Latest
      /\ Latest = Len(issued)
  BY DEF LeaseInv, Typed, LeasesTyped, Latest
<1>3. /\ Latest' = q /\ issued'[q].manifest = Manifest /\ ~issued'[q].expired
      /\ \A p \in 1 .. Latest : issued'[p] = issued[p]
  <2>1. new \in Issued /\ new.manifest = Manifest /\ ~new.expired
    BY DEF LeaseInv, Typed, CampaignTyped, Manifest, Issued
  <2> HIDE DEF new
  <2>2. QED
    BY <1>0, <1>1, <1>2, <2>1 DEF Latest
<1>4. q \in Leases /\ q \in Nat /\ q > Latest /\ q \notin claimed /\ Leases \subseteq Nat
      /\ \A p \in Leases \ {q} : p \in 1 .. Latest \/ p > q
  BY <1>0, <1>1, <1>2, BoundsAre DEF Leases
<1>5. StatusGuards /\ StatusGuards'
  BY StatusIs, StatusIsNext DEF LeaseInv
<1>6. LeaseStatus(q) = "NONE"
  BY <1>4, <1>5 DEF StatusGuards
<1>7. LeaseStatus(q)' = "ISSUED"
  <2>1. claimed' = claimed /\ Manifest' = Manifest /\ ~(q > Latest')
    BY <1>1, <1>3, <1>4
  <2>2. QED
    BY <1>3, <1>4, <1>5, <2>1 DEF StatusGuards
<1>8. \A p \in Leases \ {q} : LeaseStatus(p)' = LeaseStatus(p)
  <2> SUFFICES ASSUME NEW p \in Leases \ {q} PROVE LeaseStatus(p)' = LeaseStatus(p)
    OBVIOUS
  <2>1. CASE p \in 1 .. Latest
    <3>1. ~(p > Latest) /\ ~(p > q)
      BY <1>0, <1>2, <2>1
    <3>2. QED
      BY <1>1, <1>3, <1>4, <1>5, <2>1, <3>1 DEF StatusGuards
  <2>2. CASE p > q
    <3>1. p > Latest
      BY <1>0, <1>2, <1>4, <2>2
    <3>2. QED
      BY <1>3, <1>4, <1>5, <2>2, <3>1 DEF StatusGuards
  <2>3. QED
    BY <1>4, <2>1, <2>2
<1>9. QED
  BY <1>4, <1>6, <1>7, <1>8, OneMoves

\* The lease that the gate has verified is consumed.
LEMMA ClaimMoves ==
  ASSUME LeaseInv, Typed', GateClaim
  PROVE  \E q \in Leases : /\ LeaseStatus(q) \in {"ISSUED", "EXPIRED", "INVALIDATED"}
                          /\ Statuses' = [Statuses EXCEPT ![q] = "CONSUMED"]
<1>1. /\ gate # 0 /\ gate \notin claimed /\ claimed' = claimed \cup {gate}
      /\ issued' = issued /\ Latest' = Latest /\ Manifest' = Manifest
  BY DEF GateClaim, campaign, Manifest, Latest
<1>2. gate \in 0 .. Latest /\ Latest \in Nat /\ Latest <= MaxLeases
  BY DEF LeaseInv, Typed, LeasesTyped, Latest
<1>3. gate \in Leases /\ gate \in Nat /\ ~(gate > Latest) /\ Leases \subseteq Nat
  BY <1>1, <1>2, BoundsAre DEF Leases
<1>4. StatusGuards /\ StatusGuards'
  BY StatusIs, StatusIsNext DEF LeaseInv
<1>5. LeaseStatus(gate) \in {"ISSUED", "EXPIRED", "INVALIDATED"}
  BY <1>1, <1>3, <1>4 DEF StatusGuards
<1>6. \A p \in Leases : LeaseStatus(p)' = IF p = gate THEN "CONSUMED" ELSE LeaseStatus(p)
  BY <1>1, <1>3, <1>4 DEF StatusGuards
<1>7. Statuses' = [Statuses EXCEPT ![gate] = "CONSUMED"]
  BY <1>6 DEF Statuses
<1>8. QED
  BY <1>3, <1>5, <1>7

\* The lease in force expires.
LEMMA ExpireMoves ==
  ASSUME LeaseInv, Typed', Expire
  PROVE  \E q \in Leases : LeaseStatus(q) = "ISSUED" /\ Statuses' = [Statuses EXCEPT ![q] = "EXPIRED"]
<1>1. PICK q : q = Latest
  OBVIOUS
<1>2. /\ q > 0 /\ LeaseStatus(q) = "ISSUED" /\ claimed' = claimed /\ Manifest' = Manifest
  BY <1>1 DEF Expire, campaign, Manifest
<1>3. q \in Nat /\ q <= MaxLeases
  BY <1>1 DEF LeaseInv, Typed, LeasesTyped, Latest
<1>4. /\ Latest' = q /\ issued'[q].manifest = issued[q].manifest /\ issued'[q].expired
      /\ \A p \in 1 .. q : p # q => issued'[p] = issued[p]
  <2>1. q \in 1 .. Latest
    BY <1>1, <1>2, <1>3
  <2>2. QED
    BY <1>1, <2>1, ExpireIs DEF LeaseInv
<1>5. q \in Leases /\ Leases \subseteq Nat /\ \A p \in Leases : p > q \/ p \in 1 .. q
  BY <1>2, <1>3, BoundsAre DEF Leases
<1>6. StatusGuards /\ StatusGuards'
  BY StatusIs, StatusIsNext DEF LeaseInv
<1>7. LeaseStatus(q)' = "EXPIRED"
  BY <1>1, <1>2, <1>3, <1>4, <1>6 DEF StatusGuards
<1>8. \A p \in Leases \ {q} : LeaseStatus(p)' = LeaseStatus(p)
  BY <1>1, <1>2, <1>4, <1>5, <1>6 DEF StatusGuards
<1>9. QED
  BY <1>2, <1>5, <1>7, <1>8, OneMoves

LEMMA LeaseInit == Init => Lease!Init
<1> SUFFICES ASSUME Init PROVE Statuses = [q \in Leases |-> "NONE"]
  BY DEF Lease!Init, Statuses
<1>1. Typed
  BY InitInv DEF LeaseInv
<1>2. Leases \subseteq Nat /\ \A q \in Leases : q > Latest
  BY BoundsAre DEF Leases, Init, Latest
<1>3. QED
  BY <1>1, <1>2, StatusIs DEF Statuses, StatusGuards

\* A step that issues, consumes and appends nothing leaves every status.
LEMMA LeaseStep == LeaseInv /\ LeaseInv' /\ [Next]_vars => [Lease!Next]_Statuses
<1> SUFFICES ASSUME LeaseInv, LeaseInv', [Next]_vars PROVE Lease!Next \/ Statuses' = Statuses
  OBVIOUS
<1>1. Typed /\ Typed' /\ LeasesDiffer
  BY DEF LeaseInv
<1>2. \A q \in Leases : Statuses[q] = LeaseStatus(q)
  BY DEF Statuses
<1>3. CASE IssueLease
  <2>1. PICK q \in Leases :
          LeaseStatus(q) = "NONE" /\ Statuses' = [Statuses EXCEPT ![q] = "ISSUED"]
    BY <1>1, <1>3, IssueMoves
  <2>2. Statuses[q] \in {"NONE"}
    BY <1>2, <2>1
  <2>3. Lease!Issue(q)
    BY <2>1, <2>2 DEF Lease!Issue, Lease!Move, Statuses
  <2>4. QED
    BY <2>3 DEF Lease!Next
<1>4. CASE GateClaim
  <2>1. PICK q \in Leases : /\ LeaseStatus(q) \in {"ISSUED", "EXPIRED", "INVALIDATED"}
                            /\ Statuses' = [Statuses EXCEPT ![q] = "CONSUMED"]
    BY <1>1, <1>4, ClaimMoves
  <2>2. Statuses[q] \in Lease!Statuses \ {"NONE", "CONSUMED"}
    BY <1>2, <2>1 DEF Lease!Statuses, Lease!Ended
  <2>3. Lease!Consume(q)
    BY <2>1, <2>2 DEF Lease!Consume, Lease!Move, Statuses
  <2>4. QED
    BY <2>3 DEF Lease!Next
<1>5. CASE Expire
  <2>1. PICK q \in Leases :
          LeaseStatus(q) = "ISSUED" /\ Statuses' = [Statuses EXCEPT ![q] = "EXPIRED"]
    BY <1>1, <1>5, ExpireMoves
  <2>2. Statuses[q] \in {"ISSUED"}
    BY <1>2, <2>1
  <2>3. Lease!Expire(q)
    BY <2>1, <2>2 DEF Lease!Expire, Lease!Move, Statuses
  <2>4. QED
    BY <2>3 DEF Lease!Next
<1>6. CASE UNCHANGED <<issued, claimed, log>>
  BY <1>1, <1>6, StatusSame
<1>7. CASE UNCHANGED <<issued, claimed>> /\ \E e \in Entries : log' = Append(log, e)
  <2>1. CASE \E q \in Leases : /\ LeaseStatus(q) \in {"ISSUED", "EXPIRED"}
                                /\ Statuses' = [Statuses EXCEPT ![q] = "INVALIDATED"]
    <3>1. PICK q \in Leases : /\ LeaseStatus(q) \in {"ISSUED", "EXPIRED"}
                              /\ Statuses' = [Statuses EXCEPT ![q] = "INVALIDATED"]
      BY <2>1
    <3>2. Statuses[q] \in {"ISSUED", "EXPIRED"}
      BY <1>2, <3>1
    <3>3. Lease!Invalidate(q)
      BY <3>1, <3>2 DEF Lease!Invalidate, Lease!Move, Statuses
    <3>4. QED
      BY <3>3 DEF Lease!Next
  <2>2. QED
    BY <1>1, <1>7, <2>1, EventMoves
<1>8. ASSUME NEW w \in Processes, Step(w) \/ Fault(w) \/ Crash(w)
      PROVE  Lease!Next \/ Statuses' = Statuses
  <2>1. Does(w)
    BY <1>1, <1>8, RunDoes
  <2>2. /\ UNCHANGED <<issued, claimed>>
        /\ log' = log \/ \E e \in Entries : log' = Append(log, e)
    BY <2>1 DEF Does, Ended, Moved, Added, Goes, Kept, campaign
  <2>3. QED
    BY <1>6, <1>7, <2>2
<1>9. CASE Observe
  <2>1. UNCHANGED <<issued, claimed>> /\ \E x : log' = Append(log, x)
    BY <1>9 DEF Observe, Appended
  <2>2. PICK x : log' = Append(log, x)
    BY <2>1
  <2>3. log \in Seq(Entries) /\ log' \in Seq(Entries)
    BY <1>1 DEF Typed, CampaignTyped
  <2>4. Len(log) \in Nat /\ Len(log') = Len(log) + 1 /\ log'[Len(log) + 1] = x
    BY <2>2, <2>3
  <2>5. x \in Entries
    BY <2>3, <2>4
  <2>6. QED
    BY <1>7, <2>1, <2>2, <2>5
<1>10. CASE GateVerify \/ GateRefuse \/ Rerun \/ WriteReceipt \/ Appear
            \/ (\E command \in Commands : Start(command)) \/ UNCHANGED vars
  <2>1. UNCHANGED <<issued, claimed, log>>
    BY <1>10 DEF GateVerify, GateRefuse, Rerun, WriteReceipt, Appear, Start, Unchanged, vars,
                 campaign
  <2>2. QED
    BY <1>6, <2>1
<1>11. QED
  BY <1>3, <1>4, <1>5, <1>8, <1>9, <1>10, ProcessesAre DEF Next, Watch

\* Whatever the gate, the watch, the commands of an operator and the clock do, a
\* lease is issued once, and one that expired, was invalidated or was consumed does
\* not come back (gate.py project_retirement_lease).
THEOREM LeaseNeverComesBack == Spec => ImplementsLease
<1>1. LeaseInv /\ LeaseInv' /\ [Next]_vars => [Lease!Next]_([q \in Leases |-> LeaseStatus(q)])
  BY LeaseStep DEF Statuses
<1>2. QED
  BY <1>1, LeaseInit, Invariance, Safety, PTL DEF ImplementsLease, Lease!Spec

-----------------------------------------------------------------------------
(***************************************************************************)
(* The log is bounded: a watch appends each kind of event once, and each   *)
(* command of the operator at most three events.                           *)
(***************************************************************************)
Unappended == {x \in Leases \X EventTypes : ~Has(x[1], x[2])}
Left(at) ==
  CASE at \in {"reconciling", "staling"} -> 3
    [] at = "recording" -> 2
    [] at \in {"evaluating", "publishing", "writing", "written", "verifying", "reread"} -> 1
    [] OTHER -> 0

BoundInv ==
  /\ commands \in Nat /\ log \in Seq(Events) /\ publication \in Publications
  /\ Manifest + Cardinality(Unappended) + 3 * commands + Left(run[Operator].at) <= MaxManifest

LEMMA LeftIs == ASSUME NEW at PROVE Left(at) \in 0 .. 3 /\ Left("idle") = 0
  BY DEF Left

LEMMA PairsAre ==
  /\ IsFiniteSet(Leases \X EventTypes) /\ Cardinality(Leases \X EventTypes) = 6 * MaxLeases
<1>1. IsFiniteSet(Leases) /\ Cardinality(Leases) = MaxLeases
  BY BoundsAre, FS_Interval DEF Leases
<1>2. IsFiniteSet(EventTypes) /\ Cardinality(EventTypes) = 6
  <2>1. IsFiniteSet({}) /\ Cardinality({}) = 0
    BY FS_EmptySet
  <2> DEFINE A == {"WATCH"}
             B == A \cup {"STALE"}
             C == B \cup {"RECONCILED"}
             D == C \cup {"EVALUATED"}
             E == D \cup {"PUBLISHED"}
             F == E \cup {"VERIFIED"}
  <2>2. IsFiniteSet(A) /\ Cardinality(A) = 1
    BY FS_Singleton
  <2>3. IsFiniteSet(B) /\ Cardinality(B) = 2
    BY <2>2, FS_AddElement
  <2>4. IsFiniteSet(C) /\ Cardinality(C) = 3
    <3>1. "RECONCILED" \notin B
      OBVIOUS
    <3> HIDE DEF B
    <3>2. QED
      BY <2>3, <3>1, FS_AddElement
  <2>5. IsFiniteSet(D) /\ Cardinality(D) = 4
    <3>1. "EVALUATED" \notin C
      OBVIOUS
    <3> HIDE DEF C
    <3>2. QED
      BY <2>4, <3>1, FS_AddElement
  <2>6. IsFiniteSet(E) /\ Cardinality(E) = 5
    <3>1. "PUBLISHED" \notin D
      OBVIOUS
    <3> HIDE DEF D
    <3>2. QED
      BY <2>5, <3>1, FS_AddElement
  <2>7. IsFiniteSet(F) /\ Cardinality(F) = 6
    <3>1. "VERIFIED" \notin E
      OBVIOUS
    <3> HIDE DEF E
    <3>2. QED
      BY <2>6, <3>1, FS_AddElement
  <2>8. F = EventTypes
    BY DEF EventTypes
  <2>9. QED
    BY <2>7, <2>8
<1>3. QED
  BY <1>1, <1>2, BoundsAre, FS_Product

LEMMA UnappendedIs ==
  IsFiniteSet(Unappended) /\ Cardinality(Unappended) \in Nat
  /\ Cardinality(Unappended) <= 6 * MaxLeases
  BY PairsAre, FS_Subset, FS_CardinalityType DEF Unappended

LEMMA UnappendedSame ==
  ASSUME UNCHANGED log
  PROVE  Unappended' = Unappended
  BY LogSame DEF Unappended

\* An event of a watch is the first of its kind.
LEMMA UnappendedShrinks ==
  ASSUME CampaignTyped, WatchOrder', NEW e \in Entries, log' = Append(log, e)
  PROVE  IF e.by \in Leases
         THEN Cardinality(Unappended') = Cardinality(Unappended) - 1
         ELSE Unappended' = Unappended
<1>1. \A q, type : Has(q, type)' <=> Has(q, type) \/ (e.type = type /\ e.by = q)
  BY PredicatesGrow
<1>2. CASE e.by \notin Leases
  BY <1>1, <1>2 DEF Unappended
<1>3. CASE e.by \in Leases
  <2>1. e.type \in EventTypes
    BY DEF Entries
  <2>2. ~Has(e.by, e.type)
    <3> SUFFICES ASSUME NEW i \in DOMAIN log, ByWatch(e.by, e.type, i) PROVE FALSE
      BY DEF Has
    <3>1. /\ DOMAIN log = 1 .. Manifest /\ Manifest \in Nat
          /\ DOMAIN log' = 1 .. Manifest + 1 /\ log'[Manifest + 1] = e /\ log'[i] = log[i]
      BY LogGrows
    <3>2. /\ Manifest + 1 \in DOMAIN log' /\ i \in DOMAIN log' /\ i # Manifest + 1
      BY <3>1
    <3>3. ASSUME NEW q \in Leases, NEW type \in EventTypes, q = e.by, type = e.type,
                 NEW n, n = Manifest + 1
          PROVE  FALSE
      <4>1. ByWatch(q, type, i)' /\ ByWatch(q, type, n)'
        BY <3>1, <3>2, <3>3 DEF ByWatch, Is
      <4>2. QED
        BY <3>2, <3>3, <4>1 DEF WatchOrder
    <3>4. QED
      BY <1>3, <2>1, <3>3
  <2> DEFINE x == <<e.by, e.type>>
  <2>3. x \in Unappended
    BY <1>3, <2>1, <2>2 DEF Unappended
  <2>4. Unappended' = Unappended \ {x}
    BY <1>1 DEF Unappended
  <2> HIDE DEF x
  <2>5. QED
    BY <1>3, <2>3, <2>4, UnappendedIs, FS_RemoveElement
<1>4. QED
  BY <1>2, <1>3

LEMMA BoundInit == ASSUME Init PROVE BoundInv
<1>1. commands = MaxCommands /\ MaxCommands \in Nat /\ log \in Seq(Events)
      /\ publication \in Publications /\ Manifest = Len(BaseLog) /\ Len(BaseLog) \in Nat
  BY BoundsAssumption, BaseAssumption DEF Init, Manifest
<1>2. Left(run[Operator].at) = 0
  BY ProcessesAre, IdleIs, LeftIs DEF Init
<1>3. Cardinality(Unappended) \in Nat /\ Cardinality(Unappended) <= 6 * MaxLeases
  BY UnappendedIs
<1>4. Manifest + Cardinality(Unappended) + 3 * commands + Left(run[Operator].at) <= MaxManifest
  BY <1>1, <1>2, <1>3, BoundsAre DEF MaxManifest
<1>5. QED
  BY <1>1, <1>4 DEF BoundInv

LEMMA UnappendedIsNext == Cardinality(Unappended') \in Nat
<1>1. Unappended' \subseteq Leases \X EventTypes
  BY DEF Unappended
<1>2. QED
  BY <1>1, PairsAre, FS_Subset, FS_CardinalityType

LEMMA MaxManifestIs == MaxManifest \in Nat
  BY BoundsAssumption, BaseAssumption DEF MaxManifest

\* An event of a run.
LEMMA AddedBound ==
  ASSUME LeaseInv, LeaseInv', BoundInv, commands' = commands,
         NEW w \in Processes, NEW s, NEW e, Added(w, s, e)
  PROVE  BoundInv'
<1>1. /\ log' = Append(log, e) /\ e \in Entries /\ e.by = run[w].lease
      /\ run'[w] = s /\ \A v \in Processes \ {w} : run'[v] = run[v]
      /\ CampaignTyped /\ WatchOrder'
  BY AddedTyped DEF Added, LeaseInv, Typed, WatchInv
<1>2. Manifest \in Nat /\ Manifest' = Manifest + 1 /\ Manifest' \in Nat
  BY <1>1, LogGrows
<1>3. Cardinality(Unappended) \in Nat /\ Cardinality(Unappended') \in Nat
  BY UnappendedIs, UnappendedIsNext
<1>4. /\ MaxManifest \in Nat /\ commands \in Nat
      /\ Manifest + Cardinality(Unappended) + 3 * commands + Left(run[Operator].at) <= MaxManifest
  BY MaxManifestIs DEF BoundInv
<1>5. /\ Left(run[Operator].at) \in Nat /\ Left(run'[Operator].at) \in Nat
  BY LeftIs
<1>6. \/ e.by \in Leases /\ run'[Operator] = run[Operator]
      \/ e.by \notin Leases /\ Left(run'[Operator].at) < Left(run[Operator].at)
  <2>1. CASE w = Watcher
    BY <1>1, <2>1, AddedLeads, WatchIs, ProcessesAre DEF LeaseInv
  <2>2. CASE w = Operator
    <3>1. e.by \notin Leases
      <4>1. run[Operator].lease = 0 /\ 0 \notin Leases
        BY BoundsAre DEF LeaseInv, Typed, RunsTyped, Leases
      <4>2. QED
        BY <1>1, <2>2, <4>1
    <3>2. \/ run[w].at = "staling" /\ s.at = "recording"
          \/ run[w].at = "recording" /\ s.at = "evaluating"
          \/ run[w].at \in {"evaluating", "written", "reread"} /\ s.at = "idle"
      BY <2>2, ProcessesAre DEF Added, Onward
    <3>3. Left(s.at) < Left(run[w].at)
      BY <3>2 DEF Left
    <3>4. QED
      BY <1>1, <2>2, <3>1, <3>3
  <2>3. QED
    BY <2>1, <2>2, ProcessesAre
<1>7. IF e.by \in Leases THEN Cardinality(Unappended') = Cardinality(Unappended) - 1
      ELSE Unappended' = Unappended
  BY <1>1, UnappendedShrinks
<1>8. Manifest' + Cardinality(Unappended') + 3 * commands + Left(run'[Operator].at) <= MaxManifest
  <2>1. CASE e.by \in Leases
    BY <1>2, <1>3, <1>4, <1>5, <1>6, <1>7, <2>1
  <2>2. CASE e.by \notin Leases
    BY <1>2, <1>3, <1>4, <1>5, <1>6, <1>7, <2>2
  <2>3. QED
    BY <2>1, <2>2
<1>9. Manifest <= MaxManifest
  BY <1>2, <1>3, <1>4, <1>5
<1>10. run[w].at = "written" => run[w].of \in 0 .. MaxManifest
  <2>1. run[w].of \in Nat
    BY DEF LeaseInv, Typed, RunsTyped, Runs
  <2>2. QED
    BY <1>2, <1>4, <1>9, <2>1 DEF LeaseInv, WatchInv, PublishedBefore
<1>11. log' \in Seq(Events)
  <2>1. e.by \in 0 .. MaxLeases
    <3>1. 0 \in 0 .. MaxLeases /\ Leases \subseteq 0 .. MaxLeases
      BY BoundsAre DEF Leases
    <3>2. CASE w = Watcher
      BY <1>1, <3>1, <3>2, AddedLeads, WatchIs DEF LeaseInv
    <3>3. CASE w = Operator
      BY <1>1, <3>1, <3>3 DEF LeaseInv, Typed, RunsTyped
    <3>4. QED
      BY <3>2, <3>3, ProcessesAre
  <2>2. e.of \in 0 .. MaxManifest
    <3>1. 0 \in 0 .. MaxManifest
      BY <1>4
    <3>2. \/ e.type # "PUBLISHED" /\ e.of = 0
          \/ run[w].at = "written" /\ e.of = run[w].of
      BY DEF Added
    <3>3. QED
      BY <1>10, <3>1, <3>2
  <2>3. e \in Events
    BY <1>1, <2>1, <2>2 DEF Entries, Events
  <2>4. QED
    BY <1>1, <2>3 DEF BoundInv
<1>12. publication' \in Publications
  <2>1. publication' \in OnRecords /\ publication \in Publications
    BY DEF LeaseInv, Typed, CampaignTyped, BoundInv
  <2>2. publication'.of \in {publication.of, run[w].of}
        /\ (publication'.of # publication.of => run[w].at = "written")
    BY <2>1 DEF Added, Publications
  <2>3. publication'.of \in 0 .. MaxManifest
    BY <1>10, <2>1, <2>2 DEF Publications
  <2>4. QED
    BY <2>1, <2>3 DEF OnRecords, Publications
<1>13. QED
  BY <1>4, <1>8, <1>11, <1>12 DEF BoundInv

\* A step without an event.
LEMMA QuietBound ==
  ASSUME LeaseInv, BoundInv, UNCHANGED <<log, publication>>, commands' \in Nat,
         3 * commands' + Left(run'[Operator].at) <= 3 * commands + Left(run[Operator].at)
  PROVE  BoundInv'
<1>1. Unappended' = Unappended /\ Manifest' = Manifest
  BY UnappendedSame DEF Manifest
<1>2. Manifest \in Nat /\ Cardinality(Unappended) \in Nat /\ MaxManifest \in Nat
      /\ commands \in Nat /\ Left(run'[Operator].at) \in Nat /\ Left(run[Operator].at) \in Nat
  <2>1. Manifest \in Nat
    BY DEF LeaseInv, Typed, CampaignTyped, Manifest
  <2>2. Cardinality(Unappended) \in Nat
    BY UnappendedIs
  <2>3. commands \in Nat
    BY DEF BoundInv
  <2>4. QED
    BY <2>1, <2>2, <2>3, LeftIs, MaxManifestIs
<1>3. Manifest + Cardinality(Unappended) + 3 * commands + Left(run[Operator].at) <= MaxManifest
  BY DEF BoundInv
<1>4. Manifest + Cardinality(Unappended) + 3 * commands' + Left(run'[Operator].at) <= MaxManifest
  BY <1>2, <1>3
<1>5. QED
  BY <1>1, <1>4 DEF BoundInv

LEMMA BoundStep == ASSUME LeaseInv, LeaseInv', BoundInv, [Next]_vars PROVE BoundInv'
<1>1. commands \in Nat /\ \A at : Left(at) \in 0 .. 3
  BY LeftIs DEF BoundInv
<1>2. ASSUME UNCHANGED <<log, publication, commands>>, run'[Operator] = run[Operator] PROVE BoundInv'
  <2>1. Left(run[Operator].at) \in Nat
    BY <1>1
  <2>2. QED
    BY <1>1, <1>2, <2>1, QuietBound
<1>3. ASSUME NEW w \in Processes, Step(w) \/ Fault(w) \/ Crash(w) PROVE BoundInv'
  <2>1. commands' = commands
    BY <1>3 DEF Step, Fault, Crash, ReadSources, RecordStale, RecordReconciliation, Evaluate,
                ReadManifest, ReuseWrite, Write, RecordPublication, ReadBack, ReadBackRefused,
                RecordVerification, EventRefused, Unchanged, budget
  <2>2. Does(w)
    BY <1>3, RunDoes DEF LeaseInv
  <2>3. CASE Ended(w)
    <3>1. UNCHANGED <<log, publication>> /\ run'[w] = Idle
          /\ \A v \in Processes \ {w} : run'[v] = run[v]
      BY <2>3, StopTyped DEF Ended, campaign, Kept, LeaseInv, Typed
    <3>2. Left(run'[Operator].at) <= Left(run[Operator].at)
      <4>1. run'[Operator] = run[Operator] \/ run'[Operator].at = "idle"
        BY <3>1, IdleIs, ProcessesAre
      <4>2. QED
        BY <1>1, <4>1, LeftIs
    <3>3. QED
      BY <1>1, <2>1, <3>1, <3>2, QuietBound
  <2>4. CASE \E s : Moved(w, s)
    <3>1. PICK s : Moved(w, s)
      BY <2>4
    <3>2. UNCHANGED <<log, publication>> /\ run'[w] = s
          /\ \A v \in Processes \ {w} : run'[v] = run[v]
      BY <3>1, MovedTyped DEF Moved, campaign, LeaseInv
    <3>3. Left(run'[Operator].at) <= Left(run[Operator].at)
      <4>1. CASE w = Operator
        <5>1. \/ run[w].at = "reconciling" /\ s.at \in {"staling", "recording"}
              \/ /\ run[w].at \in {"publishing", "writing", "written", "verifying"}
                 /\ s.at \in {"writing", "verifying", "written", "reread", "idle"}
          BY <3>1, <4>1, ProcessesAre DEF Moved, Onward
        <5>2. Left(s.at) <= Left(run[w].at)
          BY <5>1 DEF Left
        <5>3. QED
          BY <3>2, <4>1, <5>2
      <4>2. CASE w # Operator
        BY <1>1, <3>2, <4>2, ProcessesAre
      <4>3. QED
        BY <4>1, <4>2
    <3>4. QED
      BY <1>1, <2>1, <3>2, <3>3, QuietBound
  <2>5. CASE \E s, e : Added(w, s, e)
    BY <2>1, <2>5, AddedBound
  <2>6. QED
    BY <2>2, <2>3, <2>4, <2>5 DEF Does
<1>4. CASE Observe
  <2> DEFINE e == [type |-> "WATCH", by |-> run'[Watcher].lease, of |-> 0,
                   ready |-> Ready(projection)]
  <2>1. log' = Append(log, e) /\ publication' = publication /\ commands' = commands
        /\ run' = [run EXCEPT ![Watcher] = [Idle EXCEPT !.at = "reconciling", !.lease = Latest]]
        /\ run[Watcher].at = "idle"
    BY <1>4 DEF Observe, Appended, budget, At
  <2>2. run'[Operator] = run[Operator] /\ run'[Watcher].at = "reconciling"
    BY <2>1, ProcessesAre DEF LeaseInv, Typed, RunsTyped, Idle
  <2>3. run'[Watcher].lease \in Leases
    <3>1. run'[Watcher].lease = Latest' /\ Latest' > 0 /\ Latest' <= MaxLeases /\ Latest' \in Nat
      BY <2>2 DEF LeaseInv, Typed, RunsTyped, LeasesTyped, Latest
    <3>2. QED
      BY <3>1, BoundsAre DEF Leases
  <2>4. e \in Entries /\ e.by \in Leases /\ e.type = "WATCH" /\ e.of = 0
    <3>1. Ready(projection) \in BOOLEAN /\ "WATCH" \in EventTypes /\ Leases \subseteq Nat
      BY BoundsAre DEF Ready, EventTypes, Leases
    <3>2. QED
      BY <2>3, <3>1 DEF Entries
  <2> HIDE DEF e
  <2>5. Cardinality(Unappended') = Cardinality(Unappended) - 1
    <3>1. CampaignTyped /\ WatchOrder'
      BY DEF LeaseInv, Typed, WatchInv
    <3>2. QED
      BY <2>1, <2>4, <3>1, UnappendedShrinks
  <2>6. Manifest \in Nat /\ Manifest' = Manifest + 1
    BY <2>1, <2>4, LogGrows DEF LeaseInv, Typed
  <2>7. e \in Events
    <3>1. e.by \in 0 .. MaxLeases /\ e.of \in 0 .. MaxManifest
      BY <2>4, BoundsAre, MaxManifestIs DEF Leases
    <3>2. QED
      BY <2>4, <3>1 DEF Entries, Events
  <2>8. log' \in Seq(Events) /\ publication' \in Publications
    BY <2>1, <2>7 DEF BoundInv
  <2>9. /\ Cardinality(Unappended) \in Nat /\ Cardinality(Unappended') \in Nat
        /\ Left(run[Operator].at) \in Nat /\ MaxManifest \in Nat
    BY <1>1, UnappendedIs, UnappendedIsNext, MaxManifestIs
  <2>10. Manifest' + Cardinality(Unappended') + 3 * commands + Left(run[Operator].at) <= MaxManifest
    BY <1>1, <2>5, <2>6, <2>9 DEF BoundInv
  <2>11. QED
    BY <1>1, <2>1, <2>2, <2>8, <2>10 DEF BoundInv
<1>5. ASSUME NEW command \in Commands, Start(command) PROVE BoundInv'
  <2>1. /\ run[Operator].at = "idle" /\ commands > 0 /\ commands' = commands - 1
        /\ UNCHANGED <<log, publication>> /\ run' = [run EXCEPT ![Operator].at = command]
    BY <1>5 DEF Start, At, campaign
  <2>2. Left(run[Operator].at) = 0 /\ Left(run'[Operator].at) \in 0 .. 3 /\ commands' \in Nat
    BY <1>1, <2>1, LeftIs
  <2>3. 3 * commands' + Left(run'[Operator].at) <= 3 * commands + Left(run[Operator].at)
    BY <1>1, <2>1, <2>2
  <2>4. QED
    BY <2>1, <2>2, <2>3, QuietBound
<1>6. CASE Rerun \/ WriteReceipt
  <2>1. UNCHANGED <<log, publication, commands>>
    BY <1>6 DEF Rerun, WriteReceipt, Unchanged, campaign, budget
  <2>2. \E s : run' = [run EXCEPT ![Watcher] = s]
    BY <1>6 DEF Rerun, WriteReceipt, Stop
  <2>3. run'[Operator] = run[Operator]
    BY <2>2, ProcessesAre DEF LeaseInv, Typed, RunsTyped
  <2>4. QED
    BY <1>2, <2>1, <2>3
<1>7. CASE IssueLease \/ GateVerify \/ GateClaim \/ GateRefuse \/ Appear \/ Expire \/ UNCHANGED vars
  <2>1. UNCHANGED <<log, publication, commands, run>>
    BY <1>7 DEF IssueLease, GateVerify, GateClaim, GateRefuse, Appear, Expire, vars, campaign, budget
  <2>2. QED
    BY <1>2, <2>1
<1>8. QED
  BY <1>3, <1>4, <1>5, <1>6, <1>7, ProcessesAre DEF Next, Watch

LEMMA Bounded == Spec => []BoundInv
  BY BoundInit, BoundStep, Invariance, Safety, PTL

\* Types, and the bound of the log: six events for each lease, since no watch
\* repeats one, and three for each command of the operator.
THEOREM WatchTypeCorrect == Spec => []TypeOK
<1>1. LeaseInv /\ BoundInv => TypeOK
  <2> SUFFICES ASSUME LeaseInv, BoundInv PROVE TypeOK
    OBVIOUS
  <2>1. Typed
    BY DEF LeaseInv
  <2>2. Len(log) <= MaxManifest
    <3>1. Manifest \in Nat /\ Cardinality(Unappended) \in Nat /\ MaxManifest \in Nat
          /\ commands \in Nat /\ Left(run[Operator].at) \in Nat
      BY <2>1, UnappendedIs, LeftIs, MaxManifestIs DEF Typed, CampaignTyped, Manifest, BoundInv
    <3>2. Manifest <= MaxManifest
      BY <3>1 DEF BoundInv
    <3>3. QED
      BY <3>2 DEF Manifest
  <2>3. Latest \in Nat
    BY <2>1 DEF Typed, LeasesTyped, Latest
  <2>4. \A w \in Processes : run[w].at \in Points /\ run[w].lease \in 0 .. Latest
    <3>1. \A w \in Processes : run[w] \in Runs
      BY <2>1 DEF Typed, RunsTyped
    <3>2. \A w \in Processes : run[w].at \in Points
      BY <3>1 DEF Runs
    <3>3. run[Operator].lease = 0 /\ run[Watcher].lease \in {0, Latest}
      BY <2>1 DEF Typed, RunsTyped
    <3>4. QED
      BY <2>3, <3>2, <3>3, ProcessesAre
  <2>5. lock \in {Watcher, NoProcess}
    BY <2>1 DEF Typed, RunsTyped
  <2>6. QED
    BY <2>1, <2>2, <2>4, <2>5
       DEF TypeOK, Typed, CampaignTyped, LeasesTyped, BoundInv, Receipted
<1>2. QED
  BY <1>1, Invariance, Bounded, PTL
=============================================================================
