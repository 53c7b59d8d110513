-------------------------- MODULE DataHubInventory --------------------------
(***************************************************************************)
(* How a DataHub inventory is read (datahub.py, page_downstream and what   *)
(* inventory makes of it).  Downstream consumers are listed by degree, one *)
(* bucket of degrees after the other and a bucket page by page, from an    *)
(* offset.  The graph changes while it is read; a page may be short, hold  *)
(* malformed items or repeat others, say of itself that it is partial or   *)
(* cached, or fail.                                                        *)
(*                                                                         *)
(* The order of a listing is not fixed: a page is any selection of what    *)
(* its bucket holds at that moment.  Its total is the size of the bucket.  *)
(***************************************************************************)
EXTENDS Naturals, FiniteSets

CONSTANTS Entities,
          MaxHops,     \* max_hops of the specification
          PageSize,    \* settings.page_size
          MaxChanges   \* bound on the changes of the graph during one inventory

\* degree_values: the last bucket holds every greater degree.
LastBucket == IF MaxHops <= 1 THEN 1 ELSE IF MaxHops = 2 THEN 2 ELSE 3
Buckets == 1 .. LastBucket
Upstream == 0  \* the degree of an entity that is no consumer
Unknown == 1 + Cardinality(Entities)  \* no total was advertised yet

ASSUME PageAssumption == PageSize \in Nat \ {0}
ASSUME HopsAssumption == MaxHops \in Nat
ASSUME ChangesAssumption == MaxChanges \in Nat
ASSUME EntitiesAssumption == IsFiniteSet(Entities)

VARIABLES
  degree,     \* DataHub: the bucket each entity is in
  changes,    \* how many changes remain
  bucket, offset,  \* what is asked for next
  expected,   \* the total the first page of this bucket advertised
  reported,   \* the totals of the buckets before it
  seen,       \* the consumers returned
  status,     \* of the evidence
  at,         \* "paging", "waiting" for an answer, "closing" or "done"
  steady,     \* ghost: entities that never changed since the first page,
  kinds       \*   and the kinds of change there were

graph == <<degree, changes, steady, kinds>>
\* Names with a prefix: Boundaries_proofs is about this module and another.
inventoryVars == <<graph, bucket, offset, expected, reported, seen, status, at>>

InventoryInit ==
  /\ degree \in [Entities -> Buckets \cup {Upstream}]
  /\ changes = MaxChanges
  /\ bucket = 1 /\ offset = 0 /\ expected = Unknown /\ reported = 0
  /\ seen = {} /\ status = "COMPLETE" /\ at = "paging"
  /\ steady = Entities /\ kinds = {}

Held == {e \in Entities : degree[e] = bucket}
Least(m, n) == IF m <= n THEN m ELSE n
Advertised(n) == IF n = Unknown THEN 0 ELSE n

-----------------------------------------------------------------------------
(* The graph.                                                              *)

Change(e, d, kind) ==
  /\ changes > 0 /\ changes' = changes - 1
  /\ degree' = [degree EXCEPT ![e] = d]
  /\ steady' = steady \ {e} /\ kinds' = kinds \cup {kind}
  /\ UNCHANGED <<bucket, offset, expected, reported, seen, status, at>>

EdgeAppears(e, d) == degree[e] = Upstream /\ Change(e, d, "joined")
EdgeVanishes(e) == degree[e] # Upstream /\ Change(e, Upstream, "left")

-----------------------------------------------------------------------------
(* Paging.                                                                 *)

\* Mutation: the last bucket is not the last.
NextBucket_PastLast(first) ==
  /\ reported' = reported + Advertised(first)
  /\ IF bucket > LastBucket
     THEN at' = "closing" /\ UNCHANGED <<bucket, offset, expected>>
     ELSE bucket' = bucket + 1 /\ offset' = 0 /\ expected' = Unknown /\ at' = "paging"

\* After a bucket: what it advertised first is added to the total.
NextBucket(first) ==
  /\ reported' = reported + Advertised(first)
  /\ IF bucket = LastBucket
     THEN at' = "closing" /\ UNCHANGED <<bucket, offset, expected>>
     ELSE bucket' = bucket + 1 /\ offset' = 0 /\ expected' = Unknown /\ at' = "paging"

\* Mutation: an empty page does not end its bucket.
Advance_Stubborn(first, returned) ==
  IF offset + returned >= first
  THEN NextBucket(first)
  ELSE /\ offset' = offset + returned /\ expected' = first
       /\ at' = "paging" /\ UNCHANGED <<bucket, reported>>

\* Where the next page begins, or the end of the bucket.
Advance(first, returned) ==
  IF offset + returned >= first \/ returned = 0
  THEN NextBucket(first)
  ELSE /\ offset' = offset + returned /\ expected' = first
       /\ at' = "paging" /\ UNCHANGED <<bucket, reported>>

\* Mutation: another total than at first is no contradiction.
Contradicted_NeverByTotal(items, total, first, returned, flagged) ==
  \/ flagged
  \/ items \cap seen # {}
  \/ returned = 0 /\ offset < first

\* What makes the evidence partial: a page that says it is, another total than at
\* first, a consumer returned before, or an empty page before the total.
Contradicted(items, total, first, returned, flagged) ==
  \/ flagged
  \/ total # first
  \/ items \cap seen # {}
  \/ returned = 0 /\ offset < first

Request ==
  /\ at = "paging" /\ at' = "waiting"
  /\ UNCHANGED <<graph, bucket, offset, expected, reported, seen, status>>

\* A page of `items` and `malformed` ones that name no entity.
Page(items, malformed, flagged) ==
  LET total == Cardinality(Held)
      first == IF expected = Unknown THEN total ELSE expected
      returned == Cardinality(items) + malformed IN
  /\ at = "waiting"
  /\ items \subseteq Held
  /\ returned <= Least(PageSize, IF offset < total THEN total - offset ELSE 0)
  /\ seen' = seen \cup items
  /\ status' = IF Contradicted(items, total, first, returned, flagged)
               THEN "PARTIAL" ELSE status
  /\ Advance(first, returned)
  /\ UNCHANGED graph

\* A refusal or a page that cannot be read gives its bucket up.
PageFails ==
  /\ at = "waiting"
  /\ status' = "PARTIAL"
  /\ NextBucket(expected)
  /\ UNCHANGED <<graph, seen>>

Miscounted == Cardinality(seen) # reported

\* The status of the envelope: a source that is too old is stale, however it was
\* paged.
Close(stale) ==
  /\ at = "closing" /\ at' = "done"
  /\ status' = IF stale THEN "STALE" ELSE IF Miscounted THEN "PARTIAL" ELSE status
  /\ UNCHANGED <<graph, bucket, offset, expected, reported, seen>>

Read ==
  \/ Request
  \/ \E items \in SUBSET Entities, malformed \in 0 .. 1, flagged \in BOOLEAN :
        Page(items, malformed, flagged)
  \/ PageFails
  \/ \E stale \in BOOLEAN : Close(stale)

InventoryNext ==
  \/ \E e \in Entities : EdgeVanishes(e) \/ \E d \in Buckets : EdgeAppears(e, d)
  \/ Read

\* The reader goes on: each request has a timeout.
InventorySpec == InventoryInit /\ [][InventoryNext]_inventoryVars /\ WF_inventoryVars(Read)

-----------------------------------------------------------------------------
\* The types of the variables.
InventoryTypeOK ==
  /\ degree \in [Entities -> Buckets \cup {Upstream}]
  /\ changes \in 0 .. MaxChanges /\ kinds \subseteq {"joined", "left"}
  /\ bucket \in Buckets /\ offset \in 0 .. Cardinality(Entities)
  /\ expected \in 0 .. Unknown /\ reported \in Nat
  /\ seen \subseteq Entities /\ steady \subseteq Entities
  /\ status \in {"COMPLETE", "PARTIAL", "STALE"} /\ at \in {"paging", "waiting", "closing", "done"}

\* Evidence is COMPLETE only when every consumer that was downstream, at one
\* degree, from the first page to the last was returned: whatever pages repeat,
\* cut short or reorder, and while others join the graph, or while others leave
\* it, no combination of page faults cancels out in the counts page_downstream
\* compares.  When one consumer leaves and another joins between two pages they
\* do cancel out, and nothing in the answers tells.
CompleteReportsTheSteady ==
  at = "done" /\ status = "COMPLETE" /\ kinds # {"joined", "left"}
    => {e \in steady : degree[e] # Upstream} \subseteq seen

\* Every inventory ends, however the server answers.
PagingEnds == <>(at = "done")
=============================================================================
