-------------------------- MODULE Boundaries_proofs --------------------------
(***************************************************************************)
(* Proofs about the two modules of the program's boundaries: what is read  *)
(* from DataHub (DataHubInventory), for every finite set of entities,      *)
(* every number of hops, size of a page and bound on the changes of the    *)
(* graph; and what is sent to GitHub (SemanticPullRequest), for every set  *)
(* of generated tests, any number of processes and every bound on commits, *)
(* checks and faults.                                                      *)
(***************************************************************************)
EXTENDS DataHubInventory, SemanticPullRequest, FiniteSetTheorems, SequenceTheorems, TLAPS

-----------------------------------------------------------------------------
(***************************************************************************)
(* DataHubInventory.                                                       *)
(***************************************************************************)

-----------------------------------------------------------------------------
(***************************************************************************)
(* The inductive invariant, in parts: what holds as long as the evidence   *)
(* is complete.                                                            *)
(*                                                                         *)
(* Where the reader is: a bucket it goes on with has more than was listed. *)
(***************************************************************************)
Paging == at \in {"paging", "waiting"}
Counted == IF Paging THEN reported + offset ELSE reported
OneKind == kinds # {"joined", "left"}

Placed ==
  status = "COMPLETE" =>
    /\ Paging => IF expected = Unknown THEN offset = 0 ELSE offset < expected
    /\ ~Paging => bucket = LastBucket

(***************************************************************************)
(* The counts: no more consumers were returned than were counted, a        *)
(* malformed item being counted and not returned; in the end, as many.     *)
(***************************************************************************)
NeverOvercounted ==
  status = "COMPLETE" =>
    /\ Cardinality(seen) <= Counted
    /\ at = "done" => Cardinality(seen) = Counted

(***************************************************************************)
(* Where those returned are now: at a degree that was listed, and still    *)
(* downstream if none left.                                                *)
(***************************************************************************)
SeenWereListed ==
  status = "COMPLETE" /\ OneKind => \A e \in seen :
    /\ "left" \notin kinds => degree[e] # Upstream
    /\ degree[e] <= bucket
    /\ Paging /\ expected = Unknown => degree[e] < bucket

(***************************************************************************)
(* The bucket that is listed: when none join, it has no more than its      *)
(* first page said; and as long as nothing is missing and none has left it *)
(* since, those of it that were returned are as many as were listed.       *)
(***************************************************************************)
Intact == "left" \notin kinds \/ expected = Unknown \/ Cardinality(Held) = expected

BucketIsCounted ==
  status = "COMPLETE" /\ Paging =>
    /\ "joined" \notin kinds /\ expected # Unknown => Cardinality(Held) <= expected
    /\ OneKind /\ Intact /\ Cardinality(seen) = Counted
         => Cardinality(seen \cap Held) = offset

(***************************************************************************)
(* The buckets listed before: nobody that stayed is missing.               *)
(***************************************************************************)
Finished(d) == IF Paging THEN d < bucket ELSE d <= bucket

ListedAreSeen ==
  status = "COMPLETE" /\ OneKind /\ Cardinality(seen) = Counted
    => \A e \in steady : degree[e] # Upstream /\ Finished(degree[e]) => e \in seen

InventoryInv == Placed /\ NeverOvercounted /\ SeenWereListed /\ BucketIsCounted /\ ListedAreSeen

-----------------------------------------------------------------------------
(***************************************************************************)
(* Operators and sets.                                                     *)
(***************************************************************************)
LEMMA BucketsAreNumbers ==
  /\ LastBucket \in Nat \ {0} /\ 1 \in Buckets /\ LastBucket \in Buckets
  /\ \A d \in Buckets : d \in Nat /\ d # Upstream /\ d <= LastBucket
  /\ \A d \in Buckets : d # LastBucket => d + 1 \in Buckets
  BY HopsAssumption, SMT DEF LastBucket, Buckets, Upstream

LEMMA SubsetsAreCounted ==
  /\ Cardinality(Entities) \in Nat /\ Unknown \in Nat /\ Unknown > Cardinality(Entities)
  /\ \A S \in SUBSET Entities :
       /\ IsFiniteSet(S) /\ Cardinality(S) \in Nat /\ Cardinality(S) <= Cardinality(Entities)
       /\ Cardinality(S) # Unknown
<1>1. Cardinality(Entities) \in Nat
  BY EntitiesAssumption, FS_CardinalityType
<1>2. \A S \in SUBSET Entities : IsFiniteSet(S) /\ Cardinality(S) <= Cardinality(Entities)
  BY EntitiesAssumption, FS_Subset
<1>3. \A S \in SUBSET Entities : Cardinality(S) \in Nat
  BY <1>2, FS_CardinalityType
<1> QED
  BY <1>1, <1>2, <1>3, SMT DEF Unknown

\* Two sets with nothing in common count together what each counts.
LEMMA DisjointSetsAdd ==
  ASSUME NEW S \in SUBSET Entities, NEW T \in SUBSET Entities, S \cap T = {}
  PROVE  Cardinality(S \cup T) = Cardinality(S) + Cardinality(T)
<1>1. Cardinality(S \cup T) = Cardinality(S) + Cardinality(T) - Cardinality(S \cap T)
  BY SubsetsAreCounted, FS_Union
<1>2. Cardinality(S \cap T) = 0
  BY FS_EmptySet
<1> QED
  BY <1>1, <1>2, SubsetsAreCounted, SMT

-----------------------------------------------------------------------------
(***************************************************************************)
(* Types.                                                                  *)
(***************************************************************************)
LEMMA InitTypes == InventoryInit => InventoryTypeOK
  BY BucketsAreNumbers, SubsetsAreCounted, ChangesAssumption, SMT DEF InventoryInit, InventoryTypeOK

LEMMA ChangeTypes ==
  ASSUME InventoryTypeOK, NEW e \in Entities, NEW d \in Buckets \cup {Upstream},
         NEW kind \in {"joined", "left"}, Change(e, d, kind)
  PROVE  InventoryTypeOK'
  BY ChangesAssumption, SMT DEF Change, InventoryTypeOK

LEMMA NextBucketTypes ==
  ASSUME InventoryTypeOK, NEW first \in 0 .. Unknown, NextBucket(first)
  PROVE  /\ bucket' \in Buckets /\ offset' \in 0 .. Cardinality(Entities)
         /\ expected' \in 0 .. Unknown /\ reported' \in Nat
         /\ at' \in {"paging", "waiting", "closing", "done"}
  BY BucketsAreNumbers, SubsetsAreCounted, SMT DEF NextBucket, Advertised, InventoryTypeOK

LEMMA PageTypes ==
  ASSUME InventoryTypeOK, NEW items \in SUBSET Entities, NEW malformed \in 0 .. 1,
         NEW flagged \in BOOLEAN, Page(items, malformed, flagged)
  PROVE  InventoryTypeOK'
<1> DEFINE total == Cardinality(Held)
           first == IF expected = Unknown THEN total ELSE expected
           returned == Cardinality(items) + malformed
<1>1. total \in 0 .. Cardinality(Entities)
  BY SubsetsAreCounted DEF Held
<1>2. first \in 0 .. Cardinality(Entities)
  BY <1>1, SubsetsAreCounted, SMT DEF InventoryTypeOK, Unknown
<1>3. returned \in Nat
  BY SubsetsAreCounted, SMT
<1>4. Advance(first, returned)
  BY DEF Page
<1> HIDE DEF total, first, returned
<1>5. /\ bucket' \in Buckets /\ offset' \in 0 .. Cardinality(Entities)
      /\ expected' \in 0 .. Unknown /\ reported' \in Nat
      /\ at' \in {"paging", "waiting", "closing", "done"}
  <2>1. CASE NextBucket(first)
    BY <1>2, <2>1, NextBucketTypes, SubsetsAreCounted, SMT
  <2>2. CASE ~ (offset + returned >= first \/ returned = 0)
    BY <1>2, <1>3, <1>4, <2>2, SubsetsAreCounted, SMT DEF Advance, InventoryTypeOK
  <2> QED
    BY <1>4, <2>1, <2>2 DEF Advance
<1>6. seen' \subseteq Entities /\ status' \in {"COMPLETE", "PARTIAL", "STALE"}
  BY DEF Page, InventoryTypeOK
<1> QED
  BY <1>5, <1>6 DEF Page, InventoryTypeOK, graph

LEMMA NextTypes == InventoryTypeOK /\ [InventoryNext]_inventoryVars => InventoryTypeOK'
<1> SUFFICES ASSUME InventoryTypeOK, [InventoryNext]_inventoryVars PROVE InventoryTypeOK'
  OBVIOUS
<1>1. CASE UNCHANGED inventoryVars
  BY <1>1 DEF inventoryVars, graph, InventoryTypeOK
<1>2. ASSUME NEW e \in Entities, EdgeVanishes(e) PROVE InventoryTypeOK'
  BY <1>2, ChangeTypes DEF EdgeVanishes
<1>3. ASSUME NEW e \in Entities, NEW d \in Buckets, EdgeAppears(e, d) PROVE InventoryTypeOK'
  BY <1>3, ChangeTypes DEF EdgeAppears
<1>4. CASE Request
  BY <1>4 DEF Request, InventoryTypeOK, graph
<1>5. ASSUME NEW items \in SUBSET Entities, NEW malformed \in 0 .. 1,
             NEW flagged \in BOOLEAN, Page(items, malformed, flagged)
      PROVE  InventoryTypeOK'
  BY <1>5, PageTypes
<1>6. CASE PageFails
  <2>1. expected \in 0 .. Unknown /\ NextBucket(expected)
    BY <1>6 DEF PageFails, InventoryTypeOK
  <2>2. /\ bucket' \in Buckets /\ offset' \in 0 .. Cardinality(Entities)
        /\ expected' \in 0 .. Unknown /\ reported' \in Nat
        /\ at' \in {"paging", "waiting", "closing", "done"}
    BY <2>1, NextBucketTypes
  <2> QED
    BY <1>6, <2>2 DEF PageFails, InventoryTypeOK, graph
<1>7. ASSUME NEW stale \in BOOLEAN, Close(stale) PROVE InventoryTypeOK'
  BY <1>7 DEF Close, InventoryTypeOK, graph
<1> QED
  BY <1>1, <1>2, <1>3, <1>4, <1>5, <1>6, <1>7 DEF InventoryNext, Read

LEMMA InventorySpecSteps == InventorySpec => InventoryInit /\ [][InventoryNext]_inventoryVars
  BY PTL DEF InventorySpec

\* The reader's position, totals and evidence and the graph keep to their types:
\* no page takes it past the last bucket, or to an offset that no listing has.
THEOREM InventoryTypeCorrect == InventorySpec => []InventoryTypeOK
  BY InitTypes, NextTypes, InventorySpecSteps, PTL

-----------------------------------------------------------------------------
(***************************************************************************)
(* The initial states, and the steps of the graph.                         *)
(***************************************************************************)
LEMMA InitInv == InventoryInit => InventoryInv
<1> SUFFICES ASSUME InventoryInit PROVE InventoryInv
  OBVIOUS
<1>1. /\ bucket = 1 /\ offset = 0 /\ expected = Unknown /\ reported = 0 /\ Paging
      /\ at = "paging" /\ seen = {} /\ steady = Entities
  BY DEF InventoryInit, Paging
<1>2. Cardinality(seen) = 0 /\ Cardinality(seen \cap Held) = 0
  BY <1>1, FS_EmptySet
<1>3. Counted = 0
  BY <1>1, SMT DEF Counted
<1>4. \A e \in Entities : degree[e] # Upstream => ~ (degree[e] < bucket)
  BY <1>1, BucketsAreNumbers, SMT DEF InventoryInit, Upstream, Buckets
<1>5. Placed /\ NeverOvercounted /\ SeenWereListed
  BY <1>1, <1>2, <1>3, SMT DEF Placed, NeverOvercounted, SeenWereListed
<1>6. BucketIsCounted
  BY <1>1, <1>2 DEF BucketIsCounted
<1>7. ListedAreSeen
  BY <1>1, <1>4 DEF ListedAreSeen, Finished
<1> QED
  BY <1>5, <1>6, <1>7 DEF InventoryInv

\* One leaves: its bucket shrinks, and counts no more unless none of it left.
LEMMA VanishesInv ==
  ASSUME InventoryTypeOK, InventoryInv, NEW e \in Entities, EdgeVanishes(e)
  PROVE  InventoryInv'
<1>1. /\ UNCHANGED <<bucket, offset, expected, reported, seen, status, at>>
      /\ kinds' = kinds \cup {"left"} /\ steady' = steady \ {e}
      /\ degree' = [degree EXCEPT ![e] = Upstream] /\ degree[e] # Upstream
  BY DEF EdgeVanishes, Change
<1>2. /\ degree'[e] = Upstream
      /\ \A x \in Entities : x # e => degree'[x] = degree[x]
  BY <1>1 DEF InventoryTypeOK
<1>3. bucket # Upstream /\ bucket \in Nat /\ bucket > Upstream
  BY BucketsAreNumbers, SMT DEF InventoryTypeOK, Buckets, Upstream
<1>4. Held' = Held \ {e}
  BY <1>1, <1>2, <1>3 DEF Held
<1>5. Held \in SUBSET Entities /\ Held' \in SUBSET Entities
  BY <1>4 DEF Held
<1>6. /\ Cardinality(Held) \in Nat
      /\ Cardinality(Held') = IF e \in Held THEN Cardinality(Held) - 1 ELSE Cardinality(Held)
  BY <1>4, <1>5, SubsetsAreCounted, FS_RemoveElement
<1>7. OneKind' => OneKind /\ "joined" \notin kinds
  BY <1>1 DEF OneKind, InventoryTypeOK
<1>8. Placed' /\ NeverOvercounted'
  BY <1>1 DEF InventoryInv, Placed, NeverOvercounted, Paging, Counted
<1>9. SeenWereListed'
  <2> SUFFICES ASSUME status' = "COMPLETE", OneKind', NEW x \in seen'
               PROVE  /\ ("left" \notin kinds)' => degree'[x] # Upstream
                      /\ degree'[x] <= bucket'
                      /\ (Paging /\ expected = Unknown)' => degree'[x] < bucket'
    BY DEF SeenWereListed
  <2>1. /\ degree[x] <= bucket
        /\ Paging /\ expected = Unknown => degree[x] < bucket
    BY <1>1, <1>7 DEF InventoryInv, SeenWereListed
  <2>2. x \in Entities /\ (Paging /\ expected = Unknown)' = (Paging /\ expected = Unknown)
    BY <1>1 DEF InventoryTypeOK, Paging
  <2>3. Upstream <= bucket /\ Upstream < bucket
    BY <1>3, SMT DEF Upstream
  <2> QED
    BY <1>1, <1>2, <2>1, <2>2, <2>3
<1>10. BucketIsCounted'
  <2> SUFFICES ASSUME status' = "COMPLETE", Paging'
               PROVE  /\ ("joined" \notin kinds /\ expected # Unknown)'
                           => Cardinality(Held') <= expected'
                      /\ OneKind' /\ Intact' /\ (Cardinality(seen) = Counted)'
                           => Cardinality((seen \cap Held)') = offset'
    BY DEF BucketIsCounted
  <2>1. /\ "joined" \notin kinds /\ expected # Unknown => Cardinality(Held) <= expected
        /\ OneKind /\ Intact /\ Cardinality(seen) = Counted
             => Cardinality(seen \cap Held) = offset
    BY <1>1 DEF InventoryInv, BucketIsCounted, Paging
  <2>2. ("joined" \notin kinds /\ expected # Unknown)' => Cardinality(Held') <= expected'
    BY <1>1, <1>6, <2>1, SMT DEF InventoryTypeOK
  <2>3. ASSUME OneKind', Intact', (Cardinality(seen) = Counted)'
        PROVE  Cardinality((seen \cap Held)') = offset'
    <3>1. Cardinality(seen) = Counted
      BY <1>1, <2>3 DEF Counted, Paging
    <3>2. CASE e \in Held
      <4>1. expected = Unknown
        BY <1>1, <1>6, <1>7, <2>1, <2>3, <3>2, SMT DEF Intact, InventoryTypeOK
      <4>2. e \notin seen
        <5>1. degree[e] = bucket
          BY <3>2 DEF Held
        <5>2. e \in seen => degree[e] < bucket
          BY <1>1, <1>7, <2>3, <4>1 DEF InventoryInv, SeenWereListed, Paging
        <5> QED
          BY <1>3, <5>1, <5>2, SMT
      <4>3. (seen \cap Held)' = seen \cap Held
        BY <1>1, <1>4, <4>2
      <4> QED
        BY <1>1, <1>7, <2>1, <2>3, <3>1, <4>1, <4>3 DEF Intact
    <3>3. CASE e \notin Held
      <4>1. Held' = Held
        BY <1>4, <3>3
      <4>2. (seen \cap Held)' = seen \cap Held
        BY <1>1, <4>1
      <4>3. Intact
        BY <1>1, <2>3, <4>1 DEF Intact
      <4> QED
        BY <1>1, <1>7, <2>1, <2>3, <3>1, <4>2, <4>3
    <3> QED
      BY <3>2, <3>3
  <2> QED
    BY <2>2, <2>3
<1>11. ListedAreSeen'
  <2> SUFFICES ASSUME status' = "COMPLETE", OneKind', (Cardinality(seen) = Counted)',
                      NEW x \in steady', degree'[x] # Upstream, Finished(degree[x])'
               PROVE  x \in seen'
    BY DEF ListedAreSeen
  <2>1. x \in steady /\ x \in Entities /\ x # e /\ degree'[x] = degree[x]
    BY <1>1, <1>2 DEF InventoryTypeOK
  <2>2. Finished(degree[x]) /\ Cardinality(seen) = Counted
    BY <1>1, <2>1 DEF Finished, Counted, Paging
  <2> QED
    BY <1>1, <1>7, <2>1, <2>2 DEF InventoryInv, ListedAreSeen
<1> QED
  BY <1>8, <1>9, <1>10, <1>11 DEF InventoryInv

\* One joins: when none left it was not returned before, so it changes no count.
LEMMA AppearsInv ==
  ASSUME InventoryTypeOK, InventoryInv, NEW e \in Entities, NEW d \in Buckets, EdgeAppears(e, d)
  PROVE  InventoryInv'
<1>1. /\ UNCHANGED <<bucket, offset, expected, reported, seen, status, at>>
      /\ kinds' = kinds \cup {"joined"} /\ steady' = steady \ {e}
      /\ degree' = [degree EXCEPT ![e] = d] /\ degree[e] = Upstream
  BY DEF EdgeAppears, Change
<1>2. /\ degree'[e] = d
      /\ \A x \in Entities : x # e => degree'[x] = degree[x]
  BY <1>1 DEF InventoryTypeOK
<1>3. bucket # Upstream
  BY BucketsAreNumbers DEF InventoryTypeOK
<1>4. Held \subseteq Held' /\ Held' \subseteq Held \cup {e}
  BY <1>1, <1>2, <1>3 DEF Held
<1>5. OneKind' => OneKind /\ "left" \notin kinds
  BY <1>1 DEF OneKind, InventoryTypeOK
<1>6. status = "COMPLETE" /\ OneKind' => e \notin seen
  BY <1>1, <1>5 DEF InventoryInv, SeenWereListed
<1>7. Placed' /\ NeverOvercounted'
  BY <1>1 DEF InventoryInv, Placed, NeverOvercounted, Paging, Counted
<1>8. SeenWereListed'
  <2> SUFFICES ASSUME status' = "COMPLETE", OneKind', NEW x \in seen'
               PROVE  /\ ("left" \notin kinds)' => degree'[x] # Upstream
                      /\ degree'[x] <= bucket'
                      /\ (Paging /\ expected = Unknown)' => degree'[x] < bucket'
    BY DEF SeenWereListed
  <2>1. x \in Entities /\ degree'[x] = degree[x]
    BY <1>1, <1>2, <1>6 DEF InventoryTypeOK
  <2>2. /\ "left" \notin kinds => degree[x] # Upstream
        /\ degree[x] <= bucket
        /\ Paging /\ expected = Unknown => degree[x] < bucket
    BY <1>1, <1>5 DEF InventoryInv, SeenWereListed
  <2>3. (Paging /\ expected = Unknown)' = (Paging /\ expected = Unknown)
    BY <1>1 DEF Paging
  <2> QED
    BY <1>1, <2>1, <2>2, <2>3
<1>9. BucketIsCounted'
  <2> SUFFICES ASSUME status' = "COMPLETE", Paging', OneKind', Intact',
                      (Cardinality(seen) = Counted)'
               PROVE  Cardinality((seen \cap Held)') = offset'
    BY <1>1 DEF BucketIsCounted
  <2>1. (seen \cap Held)' = seen \cap Held
    BY <1>1, <1>4, <1>6
  <2>2. Intact /\ Paging /\ Cardinality(seen) = Counted
    BY <1>1, <1>5 DEF Intact, Paging, Counted
  <2> QED
    BY <1>1, <1>5, <2>1, <2>2 DEF InventoryInv, BucketIsCounted
<1>10. ListedAreSeen'
  <2> SUFFICES ASSUME status' = "COMPLETE", OneKind', (Cardinality(seen) = Counted)',
                      NEW x \in steady', degree'[x] # Upstream, Finished(degree[x])'
               PROVE  x \in seen'
    BY DEF ListedAreSeen
  <2>1. x \in steady /\ x \in Entities /\ x # e /\ degree'[x] = degree[x]
    BY <1>1, <1>2 DEF InventoryTypeOK
  <2>2. Finished(degree[x]) /\ Cardinality(seen) = Counted
    BY <1>1, <2>1 DEF Finished, Counted, Paging
  <2> QED
    BY <1>1, <1>5, <2>1, <2>2 DEF InventoryInv, ListedAreSeen
<1> QED
  BY <1>7, <1>8, <1>9, <1>10 DEF InventoryInv

LEMMA DegreesAreNumbers == InventoryTypeOK => \A x \in Entities : degree[x] \in Nat
<1>1. InventoryTypeOK => \A x \in Entities : degree[x] \in Buckets \cup {Upstream}
  BY DEF InventoryTypeOK
<1>2. \A d \in Buckets : d \in Nat
  BY BucketsAreNumbers
<1>3. Upstream \in Nat
  BY SMT DEF Upstream
<1> QED
  BY <1>1, <1>2, <1>3

-----------------------------------------------------------------------------
(***************************************************************************)
(* The steps of the reader.                                                *)
(*                                                                         *)
(* What is known after a page when the evidence is still complete: it said *)
(* what the first one said, held only consumers that were not returned     *)
(* before, and not more than were missing.  `many` consumers came of       *)
(* `counted` items; a bucket that ends was counted to its total.           *)
(***************************************************************************)
Complete(items, first, many, counted) ==
  /\ status = "COMPLETE" /\ at = "waiting" /\ UNCHANGED graph
  /\ items \subseteq Held /\ items \cap seen = {} /\ seen' = seen \cup items
  /\ first = Cardinality(Held) /\ (expected = Unknown => offset = 0)
  /\ expected # Unknown => expected = first
  /\ many = Cardinality(items) /\ many <= counted

Continues(first, counted) ==
  /\ offset + counted < first /\ offset' = offset + counted /\ expected' = first
  /\ at' = "paging" /\ UNCHANGED <<bucket, reported>>

Ends(first, counted) ==
  /\ offset + counted = first /\ reported' = reported + first
  /\ IF bucket = LastBucket
     THEN at' = "closing" /\ UNCHANGED <<bucket, offset, expected>>
     ELSE bucket' = bucket + 1 /\ offset' = 0 /\ expected' = Unknown /\ at' = "paging"

LEMMA PageIsComplete ==
  ASSUME InventoryTypeOK, InventoryInv, NEW items \in SUBSET Entities, NEW malformed \in 0 .. 1,
         NEW flagged \in BOOLEAN, Page(items, malformed, flagged), status' = "COMPLETE"
  PROVE  \E first, many, counted \in Nat :
           /\ first # Unknown /\ Complete(items, first, many, counted)
           /\ Continues(first, counted) \/ Ends(first, counted)
<1> DEFINE total == Cardinality(Held)
           first == IF expected = Unknown THEN total ELSE expected
           many == Cardinality(items)
           returned == many + malformed
<1>1. /\ at = "waiting" /\ items \subseteq Held /\ seen' = seen \cup items
      /\ returned <= Least(PageSize, IF offset < total THEN total - offset ELSE 0)
      /\ status' = IF Contradicted(items, total, first, returned, flagged)
                   THEN "PARTIAL" ELSE status
      /\ Advance(first, returned) /\ UNCHANGED graph
  BY DEF Page
<1>2. /\ total \in Nat /\ total # Unknown /\ many \in Nat /\ returned \in Nat
      /\ many <= returned
  <2>1. Held \in SUBSET Entities
    BY DEF Held
  <2>2. total \in Nat /\ total # Unknown /\ many \in Nat
    BY <2>1, SubsetsAreCounted
  <2> HIDE DEF many
  <2> QED
    BY <2>2, SMT
<1>3. expected # Unknown => first = expected
  OBVIOUS
<1> HIDE DEF total, many
<1>4. /\ status = "COMPLETE" /\ total = first /\ items \cap seen = {}
      /\ ~ (returned = 0 /\ offset < first)
  BY <1>1 DEF Contradicted
<1>5. /\ offset \in Nat /\ PageSize \in Nat
      /\ expected = Unknown => offset = 0
      /\ expected # Unknown => offset < first
  BY <1>1, <1>4, PageAssumption, SMT DEF InventoryTypeOK, InventoryInv, Placed, Paging
<1> HIDE DEF first, returned
<1>6. offset + returned <= total
  BY <1>1, <1>2, <1>4, <1>5, SMT DEF Least
<1>7. first \in Nat /\ first # Unknown /\ Complete(items, first, many, returned)
  BY <1>1, <1>2, <1>3, <1>4, <1>5 DEF Complete, total, many
<1>8. Continues(first, returned) \/ Ends(first, returned)
  <2>1. CASE offset + returned >= first \/ returned = 0
    <3>1. NextBucket(first)
      BY <1>1, <2>1 DEF Advance
    <3>2. offset + returned = first
      BY <1>2, <1>4, <1>5, <1>6, <2>1, SMT
    <3> QED
      BY <1>7, <3>1, <3>2 DEF NextBucket, Advertised, Ends
  <2>2. CASE ~ (offset + returned >= first \/ returned = 0)
    <3>1. offset + returned < first
      <4>1. offset \in Nat /\ returned \in Nat /\ first \in Nat
        BY <1>2, <1>5, <1>7
      <4> QED
        BY <2>2, <4>1, SMT
    <3> QED
      BY <1>1, <2>2, <3>1 DEF Advance, Continues
  <2> QED
    BY <2>1, <2>2
<1> QED
  BY <1>2, <1>7, <1>8

\* What such a page adds to the counts.
LEMMA PageAdds ==
  ASSUME InventoryTypeOK, NEW items \in SUBSET Entities, NEW first \in Nat, NEW many \in Nat,
         NEW counted \in Nat, Complete(items, first, many, counted)
  PROVE  /\ Cardinality(seen) \in Nat /\ Cardinality(seen') = Cardinality(seen) + many
         /\ seen' \cap Held = (seen \cap Held) \cup items
         /\ Cardinality(seen \cap Held) \in Nat
         /\ Cardinality(seen' \cap Held) = Cardinality(seen \cap Held) + many
<1>1. seen \in SUBSET Entities /\ (seen \cap Held) \in SUBSET Entities
  BY DEF InventoryTypeOK
<1>2. items \cap seen = {} /\ seen' = seen \cup items /\ many = Cardinality(items)
  BY DEF Complete
<1>3. seen' \cap Held = (seen \cap Held) \cup items
  BY <1>2 DEF Complete
<1>4. seen \cap items = {} /\ (seen \cap Held) \cap items = {}
  BY <1>2
<1>5. Cardinality(seen') = Cardinality(seen) + many
  BY <1>1, <1>2, <1>4, DisjointSetsAdd
<1>6. Cardinality((seen \cap Held) \cup items) = Cardinality(seen \cap Held) + many
  BY <1>1, <1>2, <1>4, DisjointSetsAdd
<1> QED
  BY <1>1, <1>3, <1>5, <1>6, SubsetsAreCounted

\* A consumer returned after the page was at a degree that was listed.
LEMMA PageLists ==
  ASSUME InventoryTypeOK, InventoryInv, NEW items \in SUBSET Entities, NEW first \in Nat, NEW many \in Nat,
         NEW counted \in Nat, Complete(items, first, many, counted), OneKind
  PROVE  /\ \A x \in seen' : degree[x] \in Nat /\ degree[x] <= bucket
         /\ \A x \in seen' : "left" \notin kinds => degree[x] # Upstream
<1>1. bucket \in Nat /\ bucket # Upstream
  BY BucketsAreNumbers DEF InventoryTypeOK
<1>2. \A x \in seen' : x \in seen \/ degree[x] = bucket
  BY DEF Complete, Held
<1>3. \A x \in seen : /\ degree[x] <= bucket
                      /\ "left" \notin kinds => degree[x] # Upstream
  BY DEF InventoryInv, SeenWereListed, Complete
<1>4. \A x \in Entities : degree[x] \in Nat
  BY DegreesAreNumbers
<1>5. \A x \in seen' : x \in Entities
  BY DEF Complete, InventoryTypeOK
<1> QED
  BY <1>1, <1>2, <1>3, <1>4, <1>5, SMT

\* If no item is missing after the page, none was missing before it, and those of
\* its bucket that were returned are as many as were listed of it.
LEMMA NothingWasMissing ==
  ASSUME InventoryTypeOK, InventoryInv, NEW items \in SUBSET Entities, NEW first \in Nat, NEW many \in Nat,
         NEW counted \in Nat, Complete(items, first, many, counted), OneKind,
         Cardinality(seen') = reported + offset + counted
  PROVE  /\ Cardinality(seen) = Counted /\ many = counted
         /\ Cardinality(seen' \cap Held) = offset + counted
<1>1. Paging /\ Intact
  BY DEF Complete, Paging, Intact
<1>2. Counted = reported + offset /\ reported \in Nat /\ offset \in Nat
  BY <1>1, SMT DEF Counted, InventoryTypeOK
<1>3. Cardinality(seen) <= Counted /\ many <= counted
  BY DEF InventoryInv, NeverOvercounted, Complete
<1>4. Cardinality(seen) = Counted /\ many = counted
  <2>1. Cardinality(seen) \in Nat /\ Cardinality(seen') = Cardinality(seen) + many
    BY PageAdds
  <2> QED
    BY <1>2, <1>3, <2>1, SMT
<1>5. Cardinality(seen \cap Held) = offset
  BY <1>1, <1>4 DEF InventoryInv, BucketIsCounted, Complete
<1> QED
  BY <1>4, <1>5, PageAdds

LEMMA ContinuesInv ==
  ASSUME InventoryTypeOK, InventoryInv, NEW items \in SUBSET Entities, NEW first \in Nat, NEW many \in Nat,
         NEW counted \in Nat, first # Unknown,
         Complete(items, first, many, counted), Continues(first, counted)
  PROVE  InventoryInv'
<1>1. /\ degree' = degree /\ steady' = steady /\ kinds' = kinds
      /\ status = "COMPLETE" /\ Paging /\ seen \subseteq seen'
  BY DEF Complete, Paging, graph
<1>2. /\ offset + counted < first /\ offset' = offset + counted /\ expected' = first
      /\ expected' # Unknown /\ at' = "paging" /\ bucket' = bucket /\ reported' = reported
  BY DEF Continues
<1>3. Paging' /\ OneKind' = OneKind /\ Held' = Held
  BY <1>1, <1>2 DEF Paging, OneKind, Held
<1>4. Unknown' = Unknown
  BY DEF Unknown
<1>5. /\ reported \in Nat /\ offset \in Nat /\ Counted = reported + offset
      /\ Counted' = reported + offset + counted
  BY <1>1, <1>2, <1>3, SMT DEF Counted, InventoryTypeOK
<1>6. Placed'
  BY <1>2, <1>3, <1>4 DEF Placed
<1>7. NeverOvercounted'
  <2>1. Cardinality(seen) <= Counted /\ many <= counted
    BY <1>1 DEF InventoryInv, NeverOvercounted, Complete
  <2>2. Cardinality(seen') <= Counted'
    BY <1>5, <2>1, PageAdds, SMT
  <2> QED
    BY <1>2, <2>2 DEF NeverOvercounted
<1>8. SeenWereListed'
  <2>1. OneKind => \A x \in seen' : degree[x] <= bucket
    BY PageLists
  <2>2. OneKind => \A x \in seen' : "left" \notin kinds => degree[x] # Upstream
    BY PageLists
  <2> QED
    BY <1>1, <1>2, <1>3, <1>4, <2>1, <2>2 DEF SeenWereListed
<1>9. BucketIsCounted'
  <2>1. Cardinality(Held') = expected' /\ expected' \in Nat
    BY <1>2, <1>3 DEF Complete
  <2>2. OneKind /\ Cardinality(seen') = Counted' => Cardinality((seen \cap Held)') = offset'
    BY <1>2, <1>3, <1>5, NothingWasMissing
  <2>3. Cardinality(Held') <= expected'
    BY <2>1, SMT
  <2> QED
    BY <1>3, <2>2, <2>3 DEF BucketIsCounted
<1>10. ListedAreSeen'
  <2> SUFFICES ASSUME status' = "COMPLETE", OneKind', (Cardinality(seen) = Counted)',
                      NEW x \in steady', degree'[x] # Upstream, Finished(degree[x])'
               PROVE  x \in seen'
    BY DEF ListedAreSeen
  <2>1. Cardinality(seen) = Counted
    BY <1>3, <1>5, NothingWasMissing
  <2>2. Finished(degree[x])
    BY <1>1, <1>2, <1>3 DEF Finished
  <2> QED
    BY <1>1, <1>3, <2>1, <2>2 DEF InventoryInv, ListedAreSeen
<1> QED
  BY <1>6, <1>7, <1>8, <1>9, <1>10 DEF InventoryInv

\* A bucket ends when it was counted to its total: if no item is missing, what was
\* returned of it is as many as it holds, and that is all of it.
LEMMA EndsInv ==
  ASSUME InventoryTypeOK, InventoryInv, NEW items \in SUBSET Entities, NEW first \in Nat, NEW many \in Nat,
         NEW counted \in Nat, first # Unknown,
         Complete(items, first, many, counted), Ends(first, counted)
  PROVE  InventoryInv'
<1>1. /\ degree' = degree /\ steady' = steady /\ kinds' = kinds
      /\ status = "COMPLETE" /\ Paging /\ seen \subseteq seen'
  BY DEF Complete, Paging, graph
<1>2. /\ offset + counted = first /\ reported' = reported + first
      /\ \/ /\ bucket = LastBucket /\ at' = "closing" /\ bucket' = bucket
         \/ /\ bucket' = bucket + 1 /\ offset' = 0 /\ expected' = Unknown /\ at' = "paging"
  BY DEF Ends
<1>3. OneKind' = OneKind /\ Unknown' = Unknown /\ LastBucket' = LastBucket
  BY <1>1 DEF OneKind, Unknown, LastBucket
<1>4. bucket \in Nat /\ reported \in Nat /\ offset \in Nat /\ Counted = reported + offset
  BY <1>1, BucketsAreNumbers, SMT DEF Counted, InventoryTypeOK
<1>5. Counted' = reported + offset + counted
  <2>1. CASE at' = "closing"
    BY <1>2, <1>4, <2>1, SMT DEF Counted, Paging
  <2>2. CASE at' = "paging" /\ offset' = 0
    BY <1>2, <1>4, <2>2, SMT DEF Counted, Paging
  <2> QED
    BY <1>2, <2>1, <2>2
<1>6. Placed'
  BY <1>2, <1>3 DEF Placed, Paging
<1>7. NeverOvercounted'
  <2>1. Cardinality(seen) <= Counted /\ many <= counted
    BY <1>1 DEF InventoryInv, NeverOvercounted, Complete
  <2>2. Cardinality(seen') <= Counted'
    BY <1>4, <1>5, <2>1, PageAdds, SMT
  <2> QED
    BY <1>2, <2>2 DEF NeverOvercounted
<1>8. OneKind => \A x \in seen' : degree[x] \in Nat /\ degree[x] <= bucket
  BY PageLists
<1>9. SeenWereListed'
  <2>1. OneKind => \A x \in seen' : "left" \notin kinds => degree[x] # Upstream
    BY PageLists
  <2>2. OneKind => \A x \in seen' :
          degree[x] <= bucket' /\ (Paging' => degree[x] < bucket')
    <3>1. CASE at' = "closing" /\ bucket' = bucket
      BY <1>8, <3>1 DEF Paging
    <3>2. CASE bucket' = bucket + 1
      BY <1>4, <1>8, <3>2, SMT
    <3> QED
      BY <1>2, <3>1, <3>2
  <2> QED
    BY <1>1, <1>3, <2>1, <2>2 DEF SeenWereListed
<1>10. BucketIsCounted'
  <2> SUFFICES ASSUME Paging', OneKind PROVE Cardinality((seen \cap Held)') = offset'
    BY <1>2, <1>3 DEF BucketIsCounted, Paging
  <2>1. bucket' = bucket + 1 /\ offset' = 0
    BY <1>2 DEF Paging
  <2>2. \A x \in seen' : degree[x] # bucket'
    BY <1>4, <1>8, <2>1, SMT
  <2>3. (seen \cap Held)' = {}
    BY <1>1, <2>2 DEF Held
  <2> QED
    BY <2>1, <2>3, FS_EmptySet
<1>11. ListedAreSeen'
  <2> SUFFICES ASSUME status' = "COMPLETE", OneKind', (Cardinality(seen) = Counted)',
                      NEW x \in steady', degree'[x] # Upstream, Finished(degree[x])'
               PROVE  x \in seen'
    BY DEF ListedAreSeen
  <2>1. /\ Cardinality(seen) = Counted
        /\ Cardinality(seen' \cap Held) = Cardinality(Held)
    <3>1. OneKind /\ Cardinality(seen') = reported + offset + counted
      BY <1>3, <1>5
    <3>2. Cardinality(seen) = Counted /\ Cardinality(seen' \cap Held) = offset + counted
      BY <3>1, NothingWasMissing
    <3> QED
      BY <1>2, <3>2 DEF Complete
  <2>2. Held \subseteq seen'
    <3>1. Held \in SUBSET Entities /\ seen' \cap Held \in SUBSET Held
      BY DEF Held
    <3>2. Held = seen' \cap Held
      BY <2>1, <3>1, SubsetsAreCounted, FS_Subset
    <3> QED
      BY <3>2
  <2>3. x \in Entities /\ x \in steady /\ degree[x] # Upstream /\ degree[x] \in Nat
    BY <1>1, DegreesAreNumbers DEF InventoryTypeOK
  <2>4. degree[x] < bucket \/ degree[x] = bucket
    <3>1. CASE at' = "closing" /\ bucket' = bucket
      <4>1. degree[x] <= bucket
        BY <1>1, <3>1 DEF Finished, Paging
      <4> QED
        BY <1>4, <2>3, <4>1, SMT
    <3>2. CASE at' = "paging" /\ bucket' = bucket + 1
      <4>1. degree[x] < bucket + 1
        BY <1>1, <3>2 DEF Finished, Paging
      <4> QED
        BY <1>4, <2>3, <4>1, SMT
    <3> QED
      BY <1>2, <3>1, <3>2
  <2>5. CASE degree[x] < bucket
    BY <1>1, <1>3, <2>1, <2>3, <2>5 DEF InventoryInv, ListedAreSeen, Finished
  <2>6. CASE degree[x] = bucket
    BY <2>2, <2>3, <2>6 DEF Held
  <2> QED
    BY <2>4, <2>5, <2>6
<1> QED
  BY <1>6, <1>7, <1>9, <1>10, <1>11 DEF InventoryInv

LEMMA NextInv == InventoryTypeOK /\ InventoryInv /\ [InventoryNext]_inventoryVars => InventoryInv'
<1> SUFFICES ASSUME InventoryTypeOK, InventoryInv, [InventoryNext]_inventoryVars PROVE InventoryInv'
  OBVIOUS
<1> USE DEF InventoryInv, Placed, NeverOvercounted, SeenWereListed, BucketIsCounted, ListedAreSeen
<1>1. CASE UNCHANGED inventoryVars
  BY <1>1 DEF inventoryVars, graph, Paging, Counted, OneKind, Intact, Held, Finished
<1>2. ASSUME NEW e \in Entities, EdgeVanishes(e) PROVE InventoryInv'
  BY <1>2, VanishesInv
<1>3. ASSUME NEW e \in Entities, NEW d \in Buckets, EdgeAppears(e, d) PROVE InventoryInv'
  BY <1>3, AppearsInv
<1>4. CASE Request
  <2>1. Paging' = Paging /\ Counted' = Counted /\ at' # "done"
    BY <1>4 DEF Request, Paging, Counted
  <2> QED
    BY <1>4, <2>1 DEF Request, graph, OneKind, Intact, Held, Finished
<1>5. ASSUME NEW items \in SUBSET Entities, NEW malformed \in 0 .. 1,
             NEW flagged \in BOOLEAN, Page(items, malformed, flagged)
      PROVE  InventoryInv'
  <2>1. CASE status' = "COMPLETE"
    BY <1>5, <2>1, PageIsComplete, ContinuesInv, EndsInv
  <2>2. CASE status' # "COMPLETE"
    BY <1>5, <2>2
  <2> QED
    BY <2>1, <2>2
<1>6. CASE PageFails
  BY <1>6 DEF PageFails, NextBucket, Paging
<1>7. ASSUME NEW stale \in BOOLEAN, Close(stale) PROVE InventoryInv'
  <2> SUFFICES ASSUME status' = "COMPLETE" PROVE InventoryInv'
    OBVIOUS
  <2>1. /\ status = "COMPLETE" /\ ~Miscounted /\ at = "closing" /\ at' = "done"
        /\ UNCHANGED <<degree, steady, kinds, bucket, offset, expected, reported, seen>>
    BY <1>7 DEF Close, graph
  <2>2. ~Paging /\ ~Paging' /\ Counted = reported /\ Counted' = reported
    BY <2>1 DEF Paging, Counted
  <2>3. OneKind' = OneKind /\ LastBucket' = LastBucket /\ Cardinality(seen) = Counted
    BY <2>1, <2>2 DEF OneKind, LastBucket, Miscounted
  <2>4. Placed' /\ NeverOvercounted'
    BY <2>1, <2>2, <2>3
  <2>5. SeenWereListed' /\ BucketIsCounted'
    BY <2>1, <2>2, <2>3
  <2>6. ListedAreSeen'
    BY <2>1, <2>2, <2>3 DEF Finished
  <2> QED
    BY <2>4, <2>5, <2>6
<1> QED
  BY <1>1, <1>2, <1>3, <1>4, <1>5, <1>6, <1>7 DEF InventoryNext, Read

\* In the end every bucket was listed, and every degree is a bucket of its own.
LEMMA InvSuffices == InventoryTypeOK /\ InventoryInv => CompleteReportsTheSteady
<1> SUFFICES ASSUME InventoryTypeOK, InventoryInv, at = "done", status = "COMPLETE", OneKind,
                    NEW x \in steady, degree[x] # Upstream
             PROVE  x \in seen
  BY DEF CompleteReportsTheSteady, OneKind
<1>1. ~Paging /\ bucket = LastBucket /\ Cardinality(seen) = Counted
  BY DEF Paging, InventoryInv, Placed, NeverOvercounted
<1>2. degree[x] <= bucket
  BY <1>1, BucketsAreNumbers DEF InventoryTypeOK
<1> QED
  BY <1>1, <1>2 DEF InventoryInv, ListedAreSeen, Finished

\* Evidence that ends COMPLETE lists every consumer that was downstream at one
\* degree throughout, for every graph, size of a page and depth: the counts that
\* page_downstream compares cannot hide a malformed, repeated or missing item,
\* unless one consumer left and another joined meanwhile.
THEOREM CompleteEvidenceReportsTheSteady == InventorySpec => []CompleteReportsTheSteady
<1>1. InventoryInit => InventoryTypeOK /\ InventoryInv
  BY InitTypes, InitInv
<1>2. InventoryTypeOK /\ InventoryInv /\ [InventoryNext]_inventoryVars => (InventoryTypeOK /\ InventoryInv)'
  BY NextTypes, NextInv
<1>3. InventoryTypeOK /\ InventoryInv => CompleteReportsTheSteady
  BY InvSuffices
<1> QED
  BY <1>1, <1>2, <1>3, InventorySpecSteps, PTL

-----------------------------------------------------------------------------
(***************************************************************************)
(* SemanticPullRequest.                                                    *)
(***************************************************************************)

-----------------------------------------------------------------------------
(***************************************************************************)
(* Ancestors.  The definition is recursive; some function satisfies it,    *)
(* since the ancestors of a commit are the least set that holds it and     *)
(* with each commit its parent.                                            *)
(***************************************************************************)
Ids == {NoCommit} \cup DOMAIN commits
ParentsExist == \A c \in DOMAIN commits : commits[c].parent \in Ids

Closed(S) == \A x \in S : x # NoCommit => commits[x].parent \in S
Line(c) == {a \in Ids : \A S \in SUBSET Ids : c \in S /\ Closed(S) => a \in S}

LEMMA LineUnfolds ==
  ASSUME ParentsExist
  PROVE  /\ Line(NoCommit) = {NoCommit}
         /\ \A c \in Ids \ {NoCommit} : Line(c) = {c} \cup Line(commits[c].parent)
<1>1. Line(NoCommit) = {NoCommit}
  <2>1. {NoCommit} \in SUBSET Ids /\ Closed({NoCommit})
    BY DEF Ids, Closed
  <2> QED
    BY <2>1 DEF Line, Ids
<1>2. ASSUME NEW c \in Ids \ {NoCommit}
      PROVE  Line(c) = {c} \cup Line(commits[c].parent)
  <2>1. commits[c].parent \in Ids
    BY DEF ParentsExist, Ids
  <2>2. Line(c) \subseteq {c} \cup Line(commits[c].parent)
    <3> SUFFICES ASSUME NEW a \in Line(c), a # c PROVE a \in Line(commits[c].parent)
      OBVIOUS
    <3>1. a \in Ids
      BY DEF Line
    <3>2. ASSUME NEW S \in SUBSET Ids, commits[c].parent \in S, Closed(S)
          PROVE  a \in S
      <4>1. S \cup {c} \in SUBSET Ids
        OBVIOUS
      <4>2. Closed(S \cup {c})
        BY <3>2 DEF Closed
      <4> QED
        BY <4>1, <4>2 DEF Line
    <3> QED
      BY <3>1, <3>2 DEF Line
  <2>3. {c} \cup Line(commits[c].parent) \subseteq Line(c)
    <3>1. c \in Line(c)
      BY DEF Line
    <3>2. \A S \in SUBSET Ids : c \in S /\ Closed(S) => commits[c].parent \in S
      BY DEF Closed
    <3> QED
      BY <3>1, <3>2 DEF Line
  <2> QED
    BY <2>2, <2>3
<1> QED
  BY <1>1, <1>2

LEMMA AncestorsUnfold ==
  ASSUME ParentsExist
  PROVE  \A c \in Ids :
           Ancestors[c] = IF c = NoCommit THEN {NoCommit}
                          ELSE {c} \cup Ancestors[commits[c].parent]
<1> DEFINE Lines == [c \in Ids |-> Line(c)]
           Unfolds(f) == f = [c \in Ids |-> IF c = NoCommit THEN {NoCommit}
                                            ELSE {c} \cup f[commits[c].parent]]
<1>1. Unfolds(Lines)
  <2>1. \A c \in Ids : Lines[c] = Line(c)
    OBVIOUS
  <2>2. \A c \in Ids \ {NoCommit} : commits[c].parent \in Ids
    BY DEF ParentsExist, Ids
  <2>3. \A c \in Ids : Line(c) = IF c = NoCommit THEN {NoCommit}
                                 ELSE {c} \cup Lines[commits[c].parent]
    BY <2>1, <2>2, LineUnfolds
  <2> QED
    BY <2>3
<1>2. Ancestors = CHOOSE f : Unfolds(f)
  BY DEF Ancestors, Ids
<1> HIDE DEF Lines
<1>3. Unfolds(Ancestors)
  <2> HIDE DEF Unfolds
  <2> QED
    BY <1>1, <1>2
<1> QED
  BY <1>3

-----------------------------------------------------------------------------
(***************************************************************************)
(* The inductive invariant, in parts.  Types beyond TypeOK: the parent of  *)
(* a commit exists, a request under way pushes a commit that exists, an    *)
(* operation at a pull request has one.                                    *)
(***************************************************************************)
PullRequests == [open : BOOLEAN, head : CommitIds]
CheckRuns == [on : CommitIds, passed : BOOLEAN]
Requests == [op : {"push", "create"}, commit : {NoCommit} \cup CommitIds]
RunFields == {"at", "todo", "commit", "pr", "check"}

HistoryTyped ==
  /\ commits \in Seq(Commits) /\ Len(commits) \in CommitIds /\ ParentsExist
  /\ head \in DOMAIN commits /\ work \in Trees

GitHubTyped ==
  /\ remote \in Ids
  /\ prs \in Seq(PullRequests) /\ \A n \in DOMAIN prs : prs[n].head \in DOMAIN commits
  /\ checks \in Seq(CheckRuns) /\ \A i \in DOMAIN checks : checks[i].on \in DOMAIN commits
  /\ late \subseteq Requests
  /\ \A q \in late : q.op = "push" => q.commit \in DOMAIN commits

RunsTyped ==
  /\ DOMAIN run = Processes
  /\ \A w \in Processes : DOMAIN run[w] = RunFields /\ run[w].at \in Points

RecordsTyped ==
  /\ made \cup bound \subseteq DOMAIN commits
  /\ \A r \in opened : r.pr \in DOMAIN prs
  /\ \A w \in Processes :
       run[w].at \in {"viewing", "fetching", "confirming"} => run[w].pr \in DOMAIN prs

Typed ==
  /\ HistoryTyped /\ GitHubTyped /\ RunsTyped /\ RecordsTyped
  /\ approval \in {"none", "valid", "expired"}

(***************************************************************************)
(* What a record says of the head it names, it says for ever: commits and  *)
(* check runs do not change.  CI evidence, on its way or recorded, names a *)
(* check that passed on its head.                                          *)
(***************************************************************************)
PassedOn(c, i) == i \in DOMAIN checks /\ checks[i].on = c /\ checks[i].passed

EvidenceIsTrue ==
  /\ \A ci \in passed : PassedOn(ci.head, ci.check)
  /\ \A w \in Processes : At(w, "confirming") => PassedOn(run[w].commit, run[w].check)

ReceiptsAreTrue ==
  \A r \in receipts :
    /\ r.pr \in DOMAIN prs /\ r.head \in made \cap bound
    /\ Changed(r.head) = Approved /\ PassedOn(r.head, r.check)

Inv == Typed /\ EvidenceIsTrue /\ ReceiptsAreTrue

(***************************************************************************)
(* What no step takes back.                                                *)
(***************************************************************************)
Extends(s, t) == \A i \in DOMAIN s : i \in DOMAIN t /\ t[i] = s[i]

Grows ==
  /\ Extends(commits, commits') /\ Extends(checks, checks')
  /\ DOMAIN prs \subseteq DOMAIN prs' /\ made \subseteq made' /\ bound \subseteq bound'

-----------------------------------------------------------------------------
(***************************************************************************)
(* Sequences and records.                                                  *)
(***************************************************************************)
LEMMA AppendExtends ==
  ASSUME NEW S, NEW s \in Seq(S), NEW e
  PROVE  /\ Extends(s, Append(s, e)) /\ DOMAIN s \subseteq DOMAIN Append(s, e)
         /\ DOMAIN Append(s, e) = DOMAIN s \cup {Len(s) + 1}
         /\ Append(s, e)[Len(s) + 1] = e /\ Len(Append(s, e)) = Len(s) + 1
  BY SMT DEF Extends

LEMMA MovedTyped ==
  ASSUME prs \in Seq(PullRequests), NEW c \in CommitIds, MoveBranch(c)
  PROVE  /\ prs' \in Seq(PullRequests) /\ DOMAIN prs' = DOMAIN prs /\ remote' = c
         /\ \A n \in DOMAIN prs' : prs'[n].head = c \/ prs'[n].head = prs[n].head
<1>1. \A n \in DOMAIN prs : prs[n] \in PullRequests
  OBVIOUS
<1>2. \A n \in DOMAIN prs : [prs[n] EXCEPT !.head = c] \in PullRequests
  BY <1>1 DEF PullRequests
<1>3. DOMAIN prs' = DOMAIN prs /\ remote' = c
  BY DEF MoveBranch
<1>4. \A n \in DOMAIN prs : prs'[n] = prs[n] \/ prs'[n] = [prs[n] EXCEPT !.head = c]
  BY DEF MoveBranch
<1>5. prs' \in Seq(PullRequests)
  <2>1. prs' \in [1 .. Len(prs) -> PullRequests]
    BY <1>1, <1>2 DEF MoveBranch
  <2> QED
    BY <2>1, SMT
<1>6. \A n \in DOMAIN prs : [prs[n] EXCEPT !.head = c].head = c
  BY <1>1 DEF PullRequests
<1> QED
  BY <1>3, <1>4, <1>5, <1>6

\* What changes when an operation goes on or ends.
LEMMA GotoMoves ==
  ASSUME RunsTyped, NEW w \in Processes, NEW point \in Points, Goto(w, point)
  PROVE  /\ RunsTyped' /\ run'[w].at = point
         /\ run'[w].pr = run[w].pr /\ run'[w].commit = run[w].commit
         /\ run'[w].check = run[w].check
         /\ \A v \in Processes \ {w} : run'[v] = run[v]
  BY DEF RunsTyped, Goto, RunFields

LEMMA StopIdles ==
  ASSUME RunsTyped, NEW w \in Processes, Stop(w)
  PROVE  /\ RunsTyped' /\ run'[w].at = "idle"
         /\ \A v \in Processes \ {w} : run'[v] = run[v]
  BY DEF RunsTyped, Stop, RunFields, Idle, Points

LEMMA BeginStarts ==
  ASSUME RunsTyped, NEW w \in Processes, NEW point \in Points, NEW c, Begin(w, point, c)
  PROVE  /\ RunsTyped' /\ run'[w].at = point /\ run'[w].commit = c
         /\ \A v \in Processes \ {w} : run'[v] = run[v]
  BY DEF RunsTyped, Begin, RunFields, Idle

LEMMA ViewMoves ==
  ASSUME RunsTyped, NEW w \in Processes, NEW n, View(w, n)
  PROVE  /\ RunsTyped' /\ run'[w].at = "viewing" /\ run'[w].pr = n
         /\ \A v \in Processes \ {w} : run'[v] = run[v]
  BY DEF RunsTyped, View, RunFields, Points

LEMMA CommitAdds ==
  ASSUME HistoryTyped, NEW parent \in DOMAIN commits, NEW tree \in Trees,
         Len(commits) < MaxCommits,
         commits' = Append(commits, [parent |-> parent, tree |-> tree])
  PROVE  /\ commits' \in Seq(Commits) /\ Len(commits') \in CommitIds /\ ParentsExist'
         /\ Extends(commits, commits') /\ DOMAIN commits \subseteq DOMAIN commits'
         /\ Len(commits') \in DOMAIN commits'
<1> DEFINE new == [parent |-> parent, tree |-> tree]
<1>1. /\ commits \in Seq(Commits) /\ Len(commits) \in Nat /\ MaxCommits \in Nat
      /\ DOMAIN commits = 1 .. Len(commits)
  BY BoundsAssumption DEF HistoryTyped
<1>2. parent \in 0 .. MaxCommits
  BY <1>1, SMT
<1>3. new \in Commits
  BY <1>2 DEF Commits
<1>4. commits' = Append(commits, new)
  OBVIOUS
<1>5. new.parent = parent
  OBVIOUS
<1> HIDE DEF new
<1>6. commits' \in Seq(Commits) /\ Len(commits') \in CommitIds
  BY <1>1, <1>3, <1>4, SMT DEF CommitIds
<1>7. /\ Extends(commits, commits') /\ DOMAIN commits \subseteq DOMAIN commits'
      /\ DOMAIN commits' = DOMAIN commits \cup {Len(commits) + 1}
      /\ commits'[Len(commits) + 1] = new /\ Len(commits') = Len(commits) + 1
  BY <1>1, <1>4, AppendExtends
<1>8. ParentsExist'
  <2> SUFFICES ASSUME NEW c \in DOMAIN commits' PROVE commits'[c].parent \in Ids'
    BY DEF ParentsExist
  <2>1. CASE c \in DOMAIN commits
    BY <1>7, <2>1 DEF HistoryTyped, ParentsExist, Ids, Extends
  <2>2. CASE c = Len(commits) + 1
    BY <1>5, <1>7, <2>2 DEF Ids
  <2> QED
    BY <1>7, <2>1, <2>2
<1> QED
  BY <1>6, <1>7, <1>8

\* GitHub when only the commits of the clone have grown.
LEMMA GitHubStays ==
  ASSUME GitHubTyped, DOMAIN commits \subseteq DOMAIN commits', UNCHANGED github
  PROVE  GitHubTyped'
  BY DEF GitHubTyped, github, Ids, PullRequests, CheckRuns, Requests

\* Records and operations, when nothing they name is taken back and at most one
\* operation moves.
LEMMA RecordsStay ==
  ASSUME RecordsTyped, Grows, opened' = opened, made' \cup bound' \subseteq DOMAIN commits',
         \A w \in Processes :
            \/ run'[w] = run[w]
            \/ run'[w].at \notin {"viewing", "fetching", "confirming"}
            \/ run'[w].pr \in DOMAIN prs'
  PROVE  RecordsTyped'
  BY DEF RecordsTyped, Grows

\* What grows when the history, the pull requests and the checks do not change.
LEMMA UnchangedGrows ==
  ASSUME UNCHANGED <<commits, checks, prs>>, made \subseteq made', bound \subseteq bound'
  PROVE  Grows
  BY DEF Grows, Extends

-----------------------------------------------------------------------------
(***************************************************************************)
(* Types, action by action, with what the action does not take back.       *)
(*                                                                         *)
(* Operations that only look: they move one process and, at the end, may   *)
(* return a record.                                                        *)
(***************************************************************************)
Looks == UNCHANGED <<commits, clone, github, approval>>

LEMMA LooksTyped ==
  ASSUME Typed, Looks, RunsTyped', made \subseteq made', bound \subseteq bound',
         made' \cup bound' \subseteq DOMAIN commits,
         \A r \in opened' : r.pr \in DOMAIN prs,
         \A w \in Processes :
            \/ run'[w] = run[w]
            \/ run'[w].at \notin {"viewing", "fetching", "confirming"}
            \/ run'[w].pr \in DOMAIN prs
  PROVE  Typed' /\ Grows
<1>1. /\ commits' = commits /\ head' = head /\ work' = work /\ approval' = approval
      /\ prs' = prs /\ checks' = checks /\ UNCHANGED github
  BY DEF Looks, clone, github
<1>2. Grows
  BY <1>1, UnchangedGrows
<1>3. HistoryTyped'
  BY <1>1 DEF Typed, HistoryTyped, ParentsExist, Ids
<1>4. GitHubTyped'
  BY <1>1, GitHubStays DEF Typed
<1>5. RecordsTyped'
  BY <1>1 DEF Typed, RecordsTyped
<1> QED
  BY <1>1, <1>2, <1>3, <1>4, <1>5 DEF Typed

LEMMA BeginsTyped ==
  ASSUME Typed, NEW w \in Processes, NEW c, UNCHANGED records, Looks,
         NEW point \in Points \ {"viewing", "fetching", "confirming"}, Begin(w, point, c)
  PROVE  Typed' /\ Grows
<1>1. /\ RunsTyped' /\ run'[w].at = point
      /\ \A v \in Processes \ {w} : run'[v] = run[v]
  BY BeginStarts DEF Typed
<1>2. /\ made \subseteq made' /\ bound \subseteq bound'
      /\ made' \cup bound' \subseteq DOMAIN commits
      /\ \A r \in opened' : r.pr \in DOMAIN prs
  BY DEF records, Typed, RecordsTyped
<1> QED
  BY <1>1, <1>2, LooksTyped

LEMMA StartsTyped ==
  ASSUME Typed, NEW w \in Processes,
         \/ StartMaterialize(w) \/ CheckChangeSet(w)
         \/ \E c \in CommitIds : StartPush(w, c) \/ StartCreate(w, c)
         \/ \E r \in opened : StartCapture(w, r)
  PROVE  Typed' /\ Grows
<1>1. CASE CheckChangeSet(w)
  BY <1>1, BeginsTyped DEF CheckChangeSet, Points, Looks
<1>2. ASSUME NEW c \in CommitIds, StartPush(w, c) \/ StartCreate(w, c)
      PROVE  Typed' /\ Grows
  BY <1>2, BeginsTyped DEF StartPush, StartCreate, Points, Looks
<1>3. /\ UNCHANGED records => /\ made \subseteq made' /\ bound \subseteq bound'
                              /\ made' \cup bound' \subseteq DOMAIN commits
                              /\ \A r \in opened' : r.pr \in DOMAIN prs
  BY DEF records, Typed, RecordsTyped
<1>4. CASE StartMaterialize(w)
  <2>1. /\ RunsTyped' /\ run'[w].at = "writing"
        /\ \A v \in Processes \ {w} : run'[v] = run[v]
    BY <1>4 DEF StartMaterialize, Typed, RunsTyped, RunFields, Idle, Points
  <2> QED
    BY <1>3, <1>4, <2>1, LooksTyped DEF StartMaterialize, Looks
<1>5. ASSUME NEW r \in opened, StartCapture(w, r) PROVE Typed' /\ Grows
  <2>1. /\ RunsTyped' /\ run'[w].pr = r.pr
        /\ \A v \in Processes \ {w} : run'[v] = run[v]
    BY <1>5 DEF StartCapture, Typed, RunsTyped, RunFields, Idle, Points
  <2>2. r.pr \in DOMAIN prs
    BY DEF Typed, RecordsTyped
  <2> QED
    BY <1>3, <1>5, <2>1, <2>2, LooksTyped DEF StartCapture, Looks
<1> QED
  BY <1>1, <1>2, <1>4, <1>5

LEMMA ReadsTyped ==
  ASSUME Typed, NEW w \in Processes,
         \/ VerifyCommit(w) \/ ListPullRequests(w) \/ RelistPullRequests(w)
         \/ ViewPullRequest(w) \/ FetchChecks(w) \/ ConfirmHead(w)
  PROVE  Typed' /\ Grows
<1>1. /\ made \cup bound \subseteq DOMAIN commits /\ head \in DOMAIN commits
      /\ \A r \in opened : r.pr \in DOMAIN prs
      /\ run[w].at \in {"viewing", "fetching", "confirming"} => run[w].pr \in DOMAIN prs
      /\ RunsTyped
  BY DEF Typed, RecordsTyped, HistoryTyped
<1>2. CASE VerifyCommit(w)
  <2>1. /\ RunsTyped' /\ run'[w].at = "idle"
        /\ \A v \in Processes \ {w} : run'[v] = run[v]
    BY <1>1, <1>2, StopIdles DEF VerifyCommit
  <2>2. made \subseteq made' /\ made' \subseteq DOMAIN commits /\ bound' = bound /\ opened' = opened
    BY <1>1, <1>2 DEF VerifyCommit
  <2> QED
    BY <1>1, <1>2, <2>1, <2>2, LooksTyped DEF VerifyCommit, Looks
<1>3. CASE ListPullRequests(w) \/ RelistPullRequests(w)
  <2>1. UNCHANGED <<made, bound, opened>> /\ Looks
    BY <1>3 DEF ListPullRequests, RelistPullRequests, records, Looks
  <2>2. \/ Goto(w, "creating") \/ Stop(w) \/ \E n \in DOMAIN prs : View(w, n)
    BY <1>3 DEF ListPullRequests, RelistPullRequests, Listed
  <2>3. /\ RunsTyped'
        /\ \/ run'[w].at \notin {"viewing", "fetching", "confirming"}
           \/ run'[w].pr \in DOMAIN prs
        /\ \A v \in Processes \ {w} : run'[v] = run[v]
    <3>1. CASE Goto(w, "creating")
      <4>1. "creating" \in Points
        BY DEF Points
      <4> QED
        BY <1>1, <3>1, <4>1, GotoMoves
    <3>2. CASE Stop(w)
      BY <1>1, <3>2, StopIdles
    <3>3. ASSUME NEW n \in DOMAIN prs, View(w, n)
          PROVE  /\ RunsTyped' /\ run'[w].pr \in DOMAIN prs
                 /\ \A v \in Processes \ {w} : run'[v] = run[v]
      BY <1>1, <3>3, ViewMoves
    <3> QED
      BY <2>2, <3>1, <3>2, <3>3
  <2> QED
    BY <1>1, <2>1, <2>3, LooksTyped
<1>4. CASE ViewPullRequest(w)
  <2>1. /\ RunsTyped' /\ run'[w].at = "idle"
        /\ \A v \in Processes \ {w} : run'[v] = run[v]
    BY <1>1, <1>4, StopIdles DEF ViewPullRequest
  <2>2. made' = made /\ bound' = bound /\ \A r \in opened' : r.pr \in DOMAIN prs
    BY <1>1, <1>4 DEF ViewPullRequest, At
  <2> QED
    BY <1>1, <1>4, <2>1, <2>2, LooksTyped DEF ViewPullRequest, Looks
<1>5. CASE FetchChecks(w)
  <2>1. UNCHANGED <<made, bound, opened>> /\ Looks /\ At(w, "fetching")
    BY <1>5 DEF FetchChecks, records, Looks
  <2>2. \/ Stop(w)
        \/ \E i : run' = [run EXCEPT ![w].at = "confirming", ![w].check = i]
    BY <1>5 DEF FetchChecks
  <2>3. ASSUME NEW i, run' = [run EXCEPT ![w].at = "confirming", ![w].check = i]
        PROVE  /\ RunsTyped' /\ run'[w].pr = run[w].pr
               /\ \A v \in Processes \ {w} : run'[v] = run[v]
    BY <1>1, <2>3 DEF RunsTyped, RunFields, Points
  <2>4. Stop(w) => /\ RunsTyped' /\ run'[w].at = "idle"
                   /\ \A v \in Processes \ {w} : run'[v] = run[v]
    BY <1>1, StopIdles
  <2>5. run[w].pr \in DOMAIN prs
    BY <1>1, <2>1 DEF At
  <2>6. /\ RunsTyped'
        /\ \/ run'[w].at \notin {"viewing", "fetching", "confirming"}
           \/ run'[w].pr \in DOMAIN prs
        /\ \A v \in Processes \ {w} : run'[v] = run[v]
    BY <2>2, <2>3, <2>4, <2>5
  <2> QED
    BY <1>1, <2>1, <2>6, LooksTyped
<1>6. CASE ConfirmHead(w)
  <2>1. /\ RunsTyped' /\ run'[w].at = "idle"
        /\ \A v \in Processes \ {w} : run'[v] = run[v]
    BY <1>1, <1>6, StopIdles DEF ConfirmHead
  <2>2. made' = made /\ bound' = bound /\ opened' = opened
    BY <1>6 DEF ConfirmHead
  <2> QED
    BY <1>1, <1>6, <2>1, <2>2, LooksTyped DEF ConfirmHead, Looks
<1> QED
  BY <1>2, <1>3, <1>4, <1>5, <1>6

(***************************************************************************)
(* Operations and the owner's steps that change the clone.                 *)
(***************************************************************************)
LEMMA CloneTyped ==
  ASSUME Typed, HistoryTyped', UNCHANGED <<github, records, approval>>, RunsTyped',
         Extends(commits, commits'),
         \A w \in Processes :
            \/ run'[w] = run[w]
            \/ run'[w].at \notin {"viewing", "fetching", "confirming"}
  PROVE  Typed' /\ Grows
<1>1. /\ prs' = prs /\ checks' = checks /\ made' = made /\ bound' = bound
      /\ opened' = opened /\ approval' = approval /\ UNCHANGED github
  BY DEF github, records
<1>2. Grows /\ DOMAIN commits \subseteq DOMAIN commits'
  BY <1>1 DEF Grows, Extends
<1>3. GitHubTyped'
  BY <1>1, <1>2, GitHubStays DEF Typed
<1>4. RecordsTyped'
  BY <1>1, <1>2, RecordsStay DEF Typed, RecordsTyped
<1> QED
  BY <1>1, <1>2, <1>3, <1>4 DEF Typed

LEMMA WritesTyped ==
  ASSUME Typed,
         \/ \E w \in Processes : WriteTest(w)
         \/ \E t \in Paths : OwnerEdits(t)
  PROVE  Typed' /\ Grows
<1>1. \A t, v : v \in {"reviewed", "edited"} => [work EXCEPT ![t] = v] \in Trees
  BY DEF Typed, HistoryTyped, Trees
<1>2. work' \in Trees => (UNCHANGED <<commits, head>> => HistoryTyped' /\ Extends(commits, commits'))
  BY DEF Typed, HistoryTyped, ParentsExist, Ids, Extends
<1>3. ASSUME NEW w \in Processes, WriteTest(w) PROVE Typed' /\ Grows
  <2>1. work' \in Trees
    BY <1>1, <1>3 DEF WriteTest, Typed, HistoryTyped
  <2>2. /\ RunsTyped' /\ run'[w].at \in {"idle", "writing"}
        /\ \A v \in Processes \ {w} : run'[v] = run[v]
    <3>1. CASE Stop(w)
      BY <3>1, StopIdles DEF Typed
    <3>2. CASE ~Stop(w)
      BY <1>3, <3>2 DEF WriteTest, At, Typed, RunsTyped, RunFields, Idle, Points
    <3> QED
      BY <3>1, <3>2
  <2> QED
    BY <1>2, <1>3, <2>1, <2>2, CloneTyped DEF WriteTest
<1>4. ASSUME NEW t \in Paths, OwnerEdits(t) PROVE Typed' /\ Grows
  <2>1. work' \in Trees
    BY <1>1, <1>4 DEF OwnerEdits
  <2>2. RunsTyped' /\ run' = run
    BY <1>4 DEF OwnerEdits, Typed, RunsTyped
  <2> QED
    BY <1>2, <1>4, <2>1, <2>2, CloneTyped DEF OwnerEdits
<1> QED
  BY <1>3, <1>4

LEMMA CommitsTyped ==
  ASSUME Typed, OwnerCommits \/ \E w \in Processes : CommitTargets(w)
  PROVE  Typed' /\ Grows
<1>1. head \in DOMAIN commits /\ work \in Trees /\ HistoryTyped
  BY DEF Typed, HistoryTyped
<1>2. ASSUME NEW tree \in Trees, Len(commits) < MaxCommits, work' = work,
             commits' = Append(commits, [parent |-> head, tree |-> tree]),
             head' = Len(commits')
      PROVE  HistoryTyped' /\ Extends(commits, commits')
  BY <1>1, <1>2, CommitAdds DEF HistoryTyped
<1>3. CASE OwnerCommits
  <2>1. HistoryTyped' /\ Extends(commits, commits')
    BY <1>1, <1>2, <1>3 DEF OwnerCommits
  <2>2. RunsTyped' /\ run' = run
    BY <1>3 DEF OwnerCommits, Typed, RunsTyped
  <2> QED
    BY <1>3, <2>1, <2>2, CloneTyped DEF OwnerCommits
<1>4. ASSUME NEW w \in Processes, CommitTargets(w) PROVE Typed' /\ Grows
  <2> DEFINE tree == [t \in Paths |-> IF t \in Approved THEN work[t] ELSE Tree(head)[t]]
  <2>1. tree \in Trees
    <3>1. commits[head] \in Commits
      BY <1>1 DEF HistoryTyped
    <3>2. Tree(head) \in Trees
      BY <3>1 DEF Tree, Commits
    <3> QED
      BY <1>1, <3>2 DEF Trees
  <2>2. /\ UNCHANGED <<work, github, approval, records>>
        /\ \/ UNCHANGED <<commits, head>>
           \/ /\ Len(commits) # MaxCommits
              /\ commits' = Append(commits, [parent |-> head, tree |-> tree])
              /\ head' = Len(commits')
        /\ Goto(w, "verifying") \/ Stop(w)
    BY <1>4 DEF CommitTargets
  <2> HIDE DEF tree
  <2>3. HistoryTyped' /\ Extends(commits, commits')
    <3>1. CASE UNCHANGED <<commits, head>>
      BY <1>1, <2>2, <3>1 DEF HistoryTyped, ParentsExist, Ids, Extends
    <3>2. Len(commits) # MaxCommits => Len(commits) < MaxCommits
      BY <1>1, BoundsAssumption, SMT DEF HistoryTyped, CommitIds
    <3> QED
      BY <1>2, <2>1, <2>2, <3>1, <3>2
  <2>4. /\ RunsTyped' /\ run'[w].at \in {"idle", "verifying"}
        /\ \A v \in Processes \ {w} : run'[v] = run[v]
    <3>1. RunsTyped /\ "verifying" \in Points
      BY DEF Typed, Points
    <3> QED
      BY <2>2, <3>1, GotoMoves, StopIdles
  <2> QED
    BY <2>2, <2>3, <2>4, CloneTyped
<1> QED
  BY <1>3, <1>4

(***************************************************************************)
(* Steps of GitHub, of requests and of the owner there.                    *)
(***************************************************************************)
HeadsExist == \A n \in DOMAIN prs : prs[n].head \in DOMAIN commits

LEMMA PushTyped ==
  ASSUME Typed, NEW c \in DOMAIN commits, Push(c), commits' = commits
  PROVE  /\ remote' \in Ids' /\ prs' \in Seq(PullRequests)
         /\ HeadsExist' /\ DOMAIN prs \subseteq DOMAIN prs'
<1>1. prs \in Seq(PullRequests) /\ HeadsExist /\ remote \in Ids
  BY DEF Typed, GitHubTyped, HeadsExist
<1>2. c \in CommitIds
  BY BoundsAssumption, SMT DEF Typed, HistoryTyped, CommitIds
<1>3. CASE MoveBranch(c)
  BY <1>1, <1>2, <1>3, MovedTyped DEF HeadsExist, Ids
<1>4. CASE UNCHANGED <<remote, prs>>
  BY <1>1, <1>4 DEF HeadsExist, Ids
<1> QED
  BY <1>3, <1>4 DEF Push

LEMMA CreateTyped ==
  ASSUME Typed, Create, commits' = commits
  PROVE  prs' \in Seq(PullRequests) /\ HeadsExist' /\ DOMAIN prs \subseteq DOMAIN prs'
<1>1. prs \in Seq(PullRequests) /\ HeadsExist /\ remote \in Ids
  BY DEF Typed, GitHubTyped, HeadsExist
<1>2. CASE prs' = prs
  BY <1>1, <1>2 DEF HeadsExist
<1>3. CASE remote # NoCommit /\ prs' = Append(prs, [open |-> TRUE, head |-> remote])
  <2> DEFINE new == [open |-> TRUE, head |-> remote]
  <2>1. remote \in DOMAIN commits /\ remote \in CommitIds
    BY <1>1, <1>3, BoundsAssumption, SMT DEF Ids, Typed, HistoryTyped, CommitIds
  <2>2. new \in PullRequests /\ new.head = remote
    BY <2>1 DEF PullRequests
  <2>3. prs' = Append(prs, new)
    BY <1>3
  <2> HIDE DEF new
  <2>4. /\ Extends(prs, prs') /\ DOMAIN prs \subseteq DOMAIN prs'
        /\ DOMAIN prs' = DOMAIN prs \cup {Len(prs) + 1} /\ prs'[Len(prs) + 1] = new
    BY <1>1, <2>3, AppendExtends
  <2>5. prs' \in Seq(PullRequests)
    BY <1>1, <2>2, <2>3, SMT
  <2>6. HeadsExist'
    BY <1>1, <2>1, <2>2, <2>4 DEF HeadsExist, Extends
  <2> QED
    BY <2>4, <2>5, <2>6
<1> QED
  BY <1>2, <1>3 DEF Create

LEMMA RemoteTyped ==
  ASSUME Typed, HistoryTyped', GitHubTyped', RunsTyped', UNCHANGED <<records, approval>>,
         Extends(commits, commits'), Extends(checks, checks'), DOMAIN prs \subseteq DOMAIN prs',
         \A w \in Processes :
            \/ run'[w] = run[w]
            \/ run'[w].at \notin {"viewing", "fetching", "confirming"}
  PROVE  Typed' /\ Grows
<1>1. made' = made /\ bound' = bound /\ opened' = opened /\ approval' = approval
  BY DEF records
<1>2. Grows /\ DOMAIN commits \subseteq DOMAIN commits'
  BY <1>1 DEF Grows, Extends
<1>3. RecordsTyped'
  BY <1>1, <1>2, RecordsStay DEF Typed, RecordsTyped
<1> QED
  BY <1>1, <1>2, <1>3 DEF Typed

LEMMA SendsTyped ==
  ASSUME Typed, NEW w \in Processes, SendPush(w) \/ SendCreate(w)
  PROVE  Typed' /\ Grows
<1>1. /\ commits' = commits /\ checks' = checks /\ UNCHANGED <<records, approval>>
      /\ HistoryTyped' /\ Extends(commits, commits') /\ Extends(checks, checks')
  BY DEF SendPush, SendCreate, clone, Typed, HistoryTyped, ParentsExist, Ids, Extends
<1>2. RunsTyped /\ "relisting" \in Points /\ head \in DOMAIN commits /\ head \in CommitIds
  BY BoundsAssumption, SMT DEF Typed, HistoryTyped, Points, CommitIds
<1>3. /\ RunsTyped' /\ run'[w].at \in {"idle", "relisting"}
      /\ \A v \in Processes \ {w} : run'[v] = run[v]
  BY <1>2, StopIdles, GotoMoves DEF SendPush, SendCreate
<1>4. /\ remote \in Ids /\ prs \in Seq(PullRequests) /\ HeadsExist
      /\ checks \in Seq(CheckRuns) /\ \A i \in DOMAIN checks : checks[i].on \in DOMAIN commits
      /\ late \subseteq Requests
      /\ \A q \in late : q.op = "push" => q.commit \in DOMAIN commits
  BY DEF Typed, GitHubTyped, HeadsExist
<1>5. /\ remote' \in Ids' /\ prs' \in Seq(PullRequests)
      /\ HeadsExist' /\ DOMAIN prs \subseteq DOMAIN prs'
  <2>1. UNCHANGED <<remote, prs>> => /\ remote' \in Ids' /\ prs' \in Seq(PullRequests)
                                     /\ HeadsExist' /\ DOMAIN prs \subseteq DOMAIN prs'
    BY <1>1, <1>4 DEF Ids, HeadsExist
  <2>2. CASE SendPush(w)
    BY <1>1, <1>2, <2>1, <2>2, PushTyped DEF SendPush
  <2>3. CASE SendCreate(w)
    <3>1. remote' = remote /\ remote' \in Ids'
      BY <1>1, <1>4, <2>3 DEF SendCreate, Ids
    <3> QED
      BY <1>1, <2>1, <2>3, <3>1, CreateTyped DEF SendCreate
  <2> QED
    BY <2>2, <2>3
<1>6. /\ late' \subseteq Requests
      /\ \A q \in late' : q.op = "push" => q.commit \in DOMAIN commits'
  <2>1. /\ [op |-> "push", commit |-> head] \in Requests
        /\ [op |-> "create", commit |-> NoCommit] \in Requests
    BY <1>2 DEF Requests
  <2>2. late' \subseteq late \cup {[op |-> "push", commit |-> head],
                                   [op |-> "create", commit |-> NoCommit]}
    BY DEF SendPush, SendCreate
  <2> QED
    BY <1>1, <1>2, <1>4, <2>1, <2>2
<1>7. GitHubTyped'
  BY <1>1, <1>4, <1>5, <1>6 DEF GitHubTyped, HeadsExist, PullRequests, CheckRuns, Requests
<1> QED
  BY <1>1, <1>3, <1>5, <1>7, RemoteTyped

LEMMA LandsTyped ==
  ASSUME Typed, NEW q \in late, Land(q)
  PROVE  Typed' /\ Grows
<1>1. /\ commits' = commits /\ checks' = checks /\ UNCHANGED <<records, approval>>
      /\ HistoryTyped' /\ Extends(commits, commits') /\ Extends(checks, checks')
      /\ RunsTyped' /\ run' = run
  BY DEF Land, clone, Typed, HistoryTyped, ParentsExist, Ids, Extends, RunsTyped
<1>2. /\ remote \in Ids /\ checks \in Seq(CheckRuns)
      /\ \A i \in DOMAIN checks : checks[i].on \in DOMAIN commits
      /\ late' \subseteq Requests /\ late' \subseteq late
      /\ \A x \in late : x.op = "push" => x.commit \in DOMAIN commits
  BY DEF Land, Typed, GitHubTyped
<1>3. /\ remote' \in Ids' /\ prs' \in Seq(PullRequests)
      /\ HeadsExist' /\ DOMAIN prs \subseteq DOMAIN prs'
  <2>1. CASE q.op = "push"
    BY <1>1, <1>2, <2>1, PushTyped DEF Land
  <2>2. CASE q.op # "push"
    <3>1. remote' = remote /\ remote' \in Ids' /\ Create
      BY <1>1, <1>2, <2>2 DEF Land, Ids
    <3> QED
      BY <1>1, <3>1, CreateTyped
  <2> QED
    BY <2>1, <2>2
<1>4. GitHubTyped'
  BY <1>1, <1>2, <1>3 DEF GitHubTyped, HeadsExist, PullRequests, CheckRuns, Requests
<1> QED
  BY <1>1, <1>3, <1>4, RemoteTyped

LEMMA OwnerPushTyped ==
  ASSUME Typed, NEW t \in Paths, OwnerPushes(t)
  PROVE  Typed' /\ Grows
<1> DEFINE tree == [Tree(remote) EXCEPT ![t] = "edited"]
<1>1. HistoryTyped /\ remote \in DOMAIN commits
  BY DEF OwnerPushes, Typed, GitHubTyped, Ids
<1>2. tree \in Trees
  <2>1. commits[remote] \in Commits
    BY <1>1 DEF HistoryTyped
  <2>2. Tree(remote) \in Trees
    BY <2>1 DEF Tree, Commits
  <2> QED
    BY <2>2 DEF Trees
<1>3. /\ Len(commits) < MaxCommits
      /\ commits' = Append(commits, [parent |-> remote, tree |-> tree])
      /\ MoveBranch(Len(commits')) /\ UNCHANGED <<clone, checks, late, approval, records, run>>
  BY DEF OwnerPushes
<1> HIDE DEF tree
<1>4. /\ commits' \in Seq(Commits) /\ Len(commits') \in CommitIds /\ ParentsExist'
      /\ Extends(commits, commits') /\ DOMAIN commits \subseteq DOMAIN commits'
      /\ Len(commits') \in DOMAIN commits'
  BY <1>1, <1>2, <1>3, CommitAdds
<1>5. HistoryTyped' /\ RunsTyped' /\ run' = run
  BY <1>1, <1>3, <1>4 DEF HistoryTyped, clone, Typed, RunsTyped
<1>6. prs \in Seq(PullRequests) /\ HeadsExist
  BY DEF Typed, GitHubTyped, HeadsExist
<1>7. /\ prs' \in Seq(PullRequests) /\ DOMAIN prs' = DOMAIN prs /\ remote' = Len(commits')
      /\ \A n \in DOMAIN prs' : prs'[n].head = Len(commits') \/ prs'[n].head = prs[n].head
  BY <1>3, <1>4, <1>6, MovedTyped
<1>8. remote' \in Ids' /\ HeadsExist'
  BY <1>4, <1>6, <1>7 DEF Ids, HeadsExist
<1>9. GitHubTyped'
  BY <1>3, <1>4, <1>7, <1>8 DEF Typed, GitHubTyped, HeadsExist, PullRequests, CheckRuns, Requests
<1> QED
  BY <1>3, <1>4, <1>5, <1>7, <1>9, RemoteTyped DEF Extends

LEMMA PullRequestsTyped ==
  ASSUME Typed, NEW n \in DOMAIN prs,
         OwnerCloses(n) \/ \E ok \in BOOLEAN : Report(n, ok)
  PROVE  Typed' /\ Grows
<1>1. /\ commits' = commits /\ UNCHANGED <<records, approval, remote, late>>
      /\ HistoryTyped' /\ Extends(commits, commits') /\ RunsTyped' /\ run' = run
  BY DEF OwnerCloses, Report, clone, Typed, HistoryTyped, ParentsExist, Ids, Extends, RunsTyped
<1>2. /\ prs \in Seq(PullRequests) /\ HeadsExist /\ remote \in Ids
      /\ checks \in Seq(CheckRuns) /\ \A i \in DOMAIN checks : checks[i].on \in DOMAIN commits
      /\ late \subseteq Requests
      /\ \A q \in late : q.op = "push" => q.commit \in DOMAIN commits
  BY DEF Typed, GitHubTyped, HeadsExist
<1>3. prs' \in Seq(PullRequests) /\ HeadsExist' /\ DOMAIN prs \subseteq DOMAIN prs'
  <2>1. CASE OwnerCloses(n)
    <3>1. prs[n] \in PullRequests
      BY <1>2
    <3>2. [prs[n] EXCEPT !.open = FALSE] \in PullRequests
      BY <3>1 DEF PullRequests
    <3>3. [prs[n] EXCEPT !.open = FALSE].head = prs[n].head
      BY <3>1 DEF PullRequests
    <3>4. prs' = [prs EXCEPT ![n] = [prs[n] EXCEPT !.open = FALSE]]
      BY <2>1 DEF OwnerCloses
    <3>5. prs' \in Seq(PullRequests) /\ DOMAIN prs' = DOMAIN prs
      <4>1. n \in 1 .. Len(prs)
        BY <1>2, SMT
      <4>2. prs' \in Seq(PullRequests)
        BY <1>2, <3>2, <3>4, <4>1, ExceptSeq
      <4>3. DOMAIN prs' = DOMAIN prs
        BY <3>4
      <4> QED
        BY <4>2, <4>3
    <3>6. \A k \in DOMAIN prs : prs'[k].head = prs[k].head
      BY <1>2, <3>3, <3>4
    <3> QED
      BY <1>1, <1>2, <3>5, <3>6 DEF HeadsExist
  <2>2. CASE prs' = prs
    BY <1>1, <1>2, <2>2 DEF HeadsExist
  <2> QED
    BY <2>1, <2>2 DEF Report
<1>4. /\ checks' \in Seq(CheckRuns) /\ Extends(checks, checks')
      /\ \A i \in DOMAIN checks' : checks'[i].on \in DOMAIN commits
  <2>1. ASSUME NEW ok \in BOOLEAN, Report(n, ok)
        PROVE  /\ checks' \in Seq(CheckRuns) /\ Extends(checks, checks')
               /\ \A i \in DOMAIN checks' : checks'[i].on \in DOMAIN commits
    <3> DEFINE new == [on |-> prs[n].head, passed |-> ok]
    <3>1. prs[n].head \in CommitIds /\ prs[n].head \in DOMAIN commits
      <4>1. prs[n] \in PullRequests
        BY <1>2
      <4> QED
        BY <1>2, <4>1 DEF PullRequests, HeadsExist
    <3>2. new \in CheckRuns /\ new.on = prs[n].head
      BY <3>1 DEF CheckRuns
    <3>3. checks' = Append(checks, new)
      BY <2>1 DEF Report
    <3> HIDE DEF new
    <3>4. /\ Extends(checks, checks')
          /\ DOMAIN checks' = DOMAIN checks \cup {Len(checks) + 1}
          /\ checks'[Len(checks) + 1] = new
      BY <1>2, <3>3, AppendExtends
    <3>5. checks' \in Seq(CheckRuns)
      BY <1>2, <3>2, <3>3, SMT
    <3> QED
      BY <1>2, <3>1, <3>2, <3>4, <3>5 DEF Extends
  <2>2. CASE checks' = checks
    BY <1>2, <2>2 DEF Extends
  <2> QED
    BY <2>1, <2>2 DEF OwnerCloses
<1>5. GitHubTyped'
  BY <1>1, <1>2, <1>3, <1>4 DEF GitHubTyped, HeadsExist, PullRequests, CheckRuns, Requests, Ids
<1> QED
  BY <1>1, <1>3, <1>4, <1>5, RemoteTyped

LEMMA OthersTyped ==
  ASSUME Typed,
         \/ Approve \/ Expire \/ \E w \in Processes : Crash(w)
         \/ \E c \in CommitIds : \/ BindNativeValidation(c)
                                 \/ \E r \in opened, ci \in passed : EmitReceipt(c, r, ci)
  PROVE  Typed' /\ Grows
<1>1. /\ UNCHANGED <<commits, clone, github>> /\ made' = made /\ opened' = opened
      /\ bound \subseteq bound' /\ bound' \subseteq bound \cup made
  BY DEF Approve, Expire, Crash, BindNativeValidation, EmitReceipt, records
<1>2. commits' = commits /\ head' = head /\ work' = work /\ prs' = prs /\ checks' = checks
  BY <1>1 DEF clone, github
<1>3. Grows
  BY <1>1, <1>2, UnchangedGrows
<1>4. HistoryTyped'
  BY <1>2 DEF Typed, HistoryTyped, ParentsExist, Ids
<1>5. GitHubTyped'
  BY <1>1, <1>2, GitHubStays DEF Typed
<1>6. /\ RunsTyped'
      /\ \A w \in Processes : run'[w] = run[w] \/ run'[w].at = "idle"
  <2>1. ASSUME NEW w \in Processes, Crash(w)
        PROVE  /\ RunsTyped'
               /\ \A v \in Processes : run'[v] = run[v] \/ run'[v].at = "idle"
    BY <2>1, StopIdles DEF Crash, Typed
  <2>2. CASE run' = run
    BY <2>2 DEF Typed, RunsTyped
  <2> QED
    BY <2>1, <2>2 DEF Approve, Expire, BindNativeValidation, EmitReceipt
<1>7. RecordsTyped'
  BY <1>1, <1>2, <1>6 DEF Typed, RecordsTyped
<1>8. approval' \in {"none", "valid", "expired"}
  BY DEF Approve, Expire, Crash, BindNativeValidation, EmitReceipt, Typed
<1> QED
  BY <1>3, <1>4, <1>5, <1>6, <1>7, <1>8 DEF Typed

LEMMA NextTyped == Typed /\ Next => Typed' /\ Grows
<1> SUFFICES ASSUME Typed, Next PROVE Typed' /\ Grows
  OBVIOUS
<1>1. ASSUME NEW w \in Processes, Proceed(w) PROVE Typed' /\ Grows
  <2>1. CASE WriteTest(w)
    BY <2>1, WritesTyped
  <2>2. CASE CommitTargets(w)
    BY <2>2, CommitsTyped
  <2>3. CASE SendPush(w) \/ SendCreate(w)
    BY <2>3, SendsTyped
  <2> QED
    BY <1>1, <2>1, <2>2, <2>3, ReadsTyped DEF Proceed
<1>2. ASSUME NEW w \in Processes,
             \/ StartMaterialize(w) \/ CheckChangeSet(w)
             \/ \E c \in CommitIds : StartPush(w, c) \/ StartCreate(w, c)
             \/ \E r \in opened : StartCapture(w, r)
      PROVE  Typed' /\ Grows
  BY <1>2, StartsTyped
<1>3. ASSUME NEW n \in DOMAIN prs, OwnerCloses(n) \/ \E ok \in BOOLEAN : Report(n, ok)
      PROVE  Typed' /\ Grows
  BY <1>3, PullRequestsTyped
<1>4. CASE OwnerCommits \/ \E t \in Paths : OwnerEdits(t) \/ OwnerPushes(t)
  BY <1>4, CommitsTyped, WritesTyped, OwnerPushTyped
<1>5. ASSUME NEW q \in late, Land(q) PROVE Typed' /\ Grows
  BY <1>5, LandsTyped
<1> QED
  BY <1>1, <1>2, <1>3, <1>4, <1>5, OthersTyped DEF Next

LEMMA InitTyped == Init => Typed
<1> SUFFICES ASSUME Init PROVE Typed
  OBVIOUS
<1> DEFINE first == [parent |-> NoCommit, tree |-> Reviewed({Model})]
<1>1. first \in Commits /\ first.parent = NoCommit
  BY BoundsAssumption, SMT DEF Commits, Trees, Reviewed, NoCommit
<1>2. /\ commits = <<first>> /\ head = 1 /\ work = commits[1].tree /\ remote = NoCommit
      /\ prs = <<>> /\ checks = <<>> /\ late = {} /\ approval = "none"
      /\ made = {} /\ opened = {} /\ bound = {} /\ run = [w \in Processes |-> Idle]
  BY DEF Init
<1> HIDE DEF first
<1>3. /\ commits \in Seq(Commits) /\ Len(commits) = 1 /\ DOMAIN commits = {1}
      /\ commits[1] = first
  BY <1>1, <1>2, SMT
<1>4. 1 \in CommitIds
  BY BoundsAssumption, SMT DEF CommitIds
<1>5. work \in Trees
  BY <1>1, <1>2, <1>3 DEF Commits
<1>6. HistoryTyped
  BY <1>1, <1>2, <1>3, <1>4, <1>5 DEF HistoryTyped, ParentsExist, Ids
<1>7. GitHubTyped
  <2>1. /\ prs \in Seq(PullRequests) /\ checks \in Seq(CheckRuns)
        /\ DOMAIN prs = {} /\ DOMAIN checks = {}
    BY <1>2, SMT
  <2> QED
    BY <1>2, <2>1 DEF GitHubTyped, Ids
<1>8. RunsTyped /\ RecordsTyped
  BY <1>2 DEF RunsTyped, RecordsTyped, RunFields, Idle, Points
<1> QED
  BY <1>2, <1>6, <1>7, <1>8 DEF Typed

-----------------------------------------------------------------------------
(***************************************************************************)
(* Evidence and receipts.                                                  *)
(***************************************************************************)
LEMMA PassedStays ==
  ASSUME NEW c, NEW i, PassedOn(c, i), Grows
  PROVE  PassedOn(c, i)'
  BY DEF PassedOn, Grows, Extends

\* Only FetchChecks brings an operation to where a check is confirmed.
LEMMA OnlyFetching ==
  ASSUME RunsTyped, Next
  PROVE  \A w \in Processes : \/ run'[w] = run[w] \/ run'[w].at # "confirming"
                              \/ FetchChecks(w)
<1> DEFINE Elsewhere == \A w \in Processes : \/ run'[w] = run[w] \/ run'[w].at # "confirming"
                                            \/ FetchChecks(w)
<1>1. ASSUME NEW v \in Processes, NEW point \in Points \ {"confirming"}, Goto(v, point)
      PROVE  Elsewhere
  BY <1>1, GotoMoves
<1>2. ASSUME NEW v \in Processes, Stop(v) PROVE Elsewhere
  BY <1>2, StopIdles
<1>3. ASSUME NEW v \in Processes, NEW point \in Points \ {"confirming"}, NEW c,
             Begin(v, point, c)
      PROVE  Elsewhere
  BY <1>3, BeginStarts
<1>4. ASSUME NEW v \in Processes, NEW n, View(v, n) PROVE Elsewhere
  BY <1>4, ViewMoves
<1>5. run' = run => Elsewhere
  OBVIOUS
<1>6. {"committing", "verifying", "pushing", "listing", "creating", "relisting"}
        \subseteq Points \ {"confirming"}
  BY DEF Points
<1>7. ASSUME NEW v \in Processes, WriteTest(v), ~Stop(v) PROVE Elsewhere
  BY <1>7 DEF WriteTest, At, RunsTyped, RunFields, Idle
<1>8. ASSUME NEW v \in Processes, StartMaterialize(v) PROVE Elsewhere
  BY <1>8 DEF StartMaterialize, RunsTyped, Idle
<1>9. ASSUME NEW v \in Processes, NEW r, StartCapture(v, r) PROVE Elsewhere
  BY <1>9 DEF StartCapture, RunsTyped, Idle
<1>10. ASSUME NEW v \in Processes, FetchChecks(v) PROVE Elsewhere
  <2>1. \A w \in Processes \ {v} : run'[w] = run[w]
    BY <1>10 DEF FetchChecks, Stop, RunsTyped
  <2> QED
    BY <1>10, <2>1
<1> HIDE DEF Elsewhere
<1>11. ASSUME NEW v \in Processes, Proceed(v) PROVE Elsewhere
  <2>1. CASE WriteTest(v)
    BY <1>2, <1>7, <2>1
  <2>2. CASE CommitTargets(v)
    BY <1>1, <1>2, <1>6, <2>2 DEF CommitTargets
  <2>3. CASE VerifyCommit(v) \/ SendPush(v) \/ ViewPullRequest(v) \/ ConfirmHead(v)
    BY <1>2, <2>3 DEF VerifyCommit, SendPush, ViewPullRequest, ConfirmHead
  <2>4. CASE ListPullRequests(v) \/ RelistPullRequests(v)
    BY <1>1, <1>2, <1>4, <1>6, <2>4 DEF ListPullRequests, RelistPullRequests
  <2>5. CASE SendCreate(v)
    BY <1>1, <1>6, <2>5 DEF SendCreate
  <2> QED
    BY <1>10, <1>11, <2>1, <2>2, <2>3, <2>4, <2>5 DEF Proceed
<1>12. ASSUME NEW v \in Processes,
              \/ CheckChangeSet(v) \/ Crash(v)
              \/ \E c \in CommitIds : StartPush(v, c) \/ StartCreate(v, c)
       PROVE  Elsewhere
  BY <1>2, <1>3, <1>6, <1>12 DEF CheckChangeSet, Crash, StartPush, StartCreate
<1>13. ASSUME \/ Approve \/ Expire \/ OwnerCommits
              \/ \E t \in Paths : OwnerEdits(t) \/ OwnerPushes(t)
              \/ \E n \in DOMAIN prs : OwnerCloses(n) \/ \E ok \in BOOLEAN : Report(n, ok)
              \/ \E q \in late : Land(q)
              \/ \E c \in CommitIds : \/ BindNativeValidation(c)
                                      \/ \E r \in opened, ci \in passed : EmitReceipt(c, r, ci)
       PROVE  Elsewhere
  BY <1>5, <1>13 DEF Approve, Expire, OwnerCommits, OwnerEdits, OwnerPushes, OwnerCloses,
     Report, Land, BindNativeValidation, EmitReceipt
<1>14. Elsewhere
  BY <1>8, <1>9, <1>11, <1>12, <1>13 DEF Next
<1> QED
  BY <1>14 DEF Elsewhere

LEMMA NextEvidence == Typed /\ EvidenceIsTrue /\ Next => EvidenceIsTrue'
<1> SUFFICES ASSUME Typed, EvidenceIsTrue, Next PROVE EvidenceIsTrue'
  OBVIOUS
<1>1. Grows /\ RunsTyped /\ RunsTyped'
  BY NextTyped DEF Typed
<1>2. ASSUME NEW ci \in passed' PROVE PassedOn(ci.head, ci.check)'
  <2>1. ci \in passed => PassedOn(ci.head, ci.check)
    BY DEF EvidenceIsTrue
  <2>2. ASSUME NEW w \in Processes, ConfirmHead(w), ci \notin passed
        PROVE  PassedOn(ci.head, ci.check)
    <3>1. ci = [head |-> run[w].commit, check |-> run[w].check] /\ At(w, "confirming")
      BY <2>2 DEF ConfirmHead
    <3>2. ci.head = run[w].commit /\ ci.check = run[w].check
      BY <3>1
    <3> QED
      BY <3>1, <3>2 DEF EvidenceIsTrue
  <2>3. passed' = passed \/ \E w \in Processes : ConfirmHead(w)
    BY DEF Next, Proceed, StartMaterialize, CheckChangeSet, StartPush, StartCreate,
       StartCapture, WriteTest, CommitTargets, VerifyCommit, SendPush, ListPullRequests,
       SendCreate, RelistPullRequests, ViewPullRequest, FetchChecks, Crash,
       BindNativeValidation, EmitReceipt, Approve, Expire, OwnerCommits, OwnerEdits,
       OwnerPushes, OwnerCloses, Report, Land, records
  <2>4. PassedOn(ci.head, ci.check)
    BY <2>1, <2>2, <2>3
  <2> QED
    BY <1>1, <2>4, PassedStays
<1>3. ASSUME NEW w \in Processes, At(w, "confirming")'
      PROVE  PassedOn(run[w].commit, run[w].check)'
  <2>1. CASE run'[w] = run[w]
    BY <1>1, <1>3, <2>1, PassedStays DEF EvidenceIsTrue, At
  <2>2. CASE FetchChecks(w)
    <3>1. PICK i \in Passing(run[w].commit) :
            run' = [run EXCEPT ![w].at = "confirming", ![w].check = i]
      <4>1. ~Stop(w)
        BY <1>1, <1>3, StopIdles DEF At
      <4> QED
        BY <2>2, <4>1 DEF FetchChecks
    <3>2. run'[w].check = i /\ run'[w].commit = run[w].commit
      BY <1>1, <3>1 DEF RunsTyped, RunFields
    <3>3. PassedOn(run[w].commit, i)
      BY DEF Passing, ChecksOf, PassedOn
    <3> QED
      BY <1>1, <3>2, <3>3, PassedStays
  <2>3. run'[w] = run[w] \/ FetchChecks(w)
    BY <1>1, <1>3, OnlyFetching DEF At
  <2> QED
    BY <2>1, <2>2, <2>3
<1> QED
  BY <1>2, <1>3 DEF EvidenceIsTrue

\* A receipt is put together of records that name one head: its pull request shows
\* that head now, and the head that a record names changes what it changed then.
LEMMA NextReceipts == Typed /\ EvidenceIsTrue /\ ReceiptsAreTrue /\ Next => ReceiptsAreTrue'
<1> SUFFICES ASSUME Typed, EvidenceIsTrue, ReceiptsAreTrue, Next, NEW r \in receipts'
             PROVE  (/\ r.pr \in DOMAIN prs /\ r.head \in made \cap bound
                     /\ Changed(r.head) = Approved /\ PassedOn(r.head, r.check))'
  BY DEF ReceiptsAreTrue
<1>1. Grows
  BY NextTyped
<1>2. /\ r.pr \in DOMAIN prs /\ r.head \in made \cap bound
      /\ Changed(r.head) = Approved /\ PassedOn(r.head, r.check)
  <2>1. CASE r \in receipts
    BY <2>1 DEF ReceiptsAreTrue
  <2>2. ASSUME NEW c \in CommitIds, NEW o \in opened, NEW ci \in passed,
               EmitReceipt(c, o, ci), r \notin receipts
        PROVE  /\ r.pr \in DOMAIN prs /\ r.head \in made \cap bound
               /\ Changed(r.head) = Approved /\ PassedOn(r.head, r.check)
    <3>1. r = [head |-> c, pr |-> o.pr, check |-> ci.check]
      BY <2>2 DEF EmitReceipt
    <3>2. r.head = c /\ r.pr = o.pr /\ r.check = ci.check
      BY <3>1
    <3>3. c \in made \cap bound /\ ci.head = c /\ Changed(c) = Approved
      BY <2>2 DEF EmitReceipt, SameHead, VerifiedAt, Verified
    <3>4. o.pr \in DOMAIN prs
      BY DEF Typed, RecordsTyped
    <3> QED
      BY <3>2, <3>3, <3>4 DEF EvidenceIsTrue
  <2>3. receipts' = receipts \/ \E c \in CommitIds, o \in opened, ci \in passed :
                                   EmitReceipt(c, o, ci)
    BY DEF Next, Proceed, StartMaterialize, CheckChangeSet, StartPush, StartCreate,
       StartCapture, WriteTest, CommitTargets, VerifyCommit, SendPush, ListPullRequests,
       SendCreate, RelistPullRequests, ViewPullRequest, FetchChecks, ConfirmHead, Crash,
       BindNativeValidation, Approve, Expire, OwnerCommits, OwnerEdits,
       OwnerPushes, OwnerCloses, Report, Land, records
  <2> QED
    BY <2>1, <2>2, <2>3
<1>3. (Changed(r.head) = Approved)'
  <2>1. r.head \in DOMAIN commits
    BY <1>2 DEF Typed, RecordsTyped
  <2>2. Tree(r.head)' = Tree(r.head)
    BY <1>1, <2>1 DEF Tree, Grows, Extends
  <2> QED
    BY <1>2, <2>2 DEF Changed, Approved
<1> QED
  BY <1>1, <1>2, <1>3, PassedStays DEF Grows

LEMMA InvInductive == Inv /\ [Next]_vars => Inv'
<1> SUFFICES ASSUME Inv, [Next]_vars PROVE Inv'
  OBVIOUS
<1>1. CASE Next
  BY <1>1, NextTyped, NextEvidence, NextReceipts DEF Inv
<1>2. CASE UNCHANGED vars
  BY <1>2 DEF vars, clone, github, records, Inv, Typed, HistoryTyped, GitHubTyped,
     RunsTyped, RecordsTyped, ParentsExist, Ids, EvidenceIsTrue, ReceiptsAreTrue,
     PassedOn, At, Changed, Tree, Approved, PullRequests, CheckRuns, Requests
<1> QED
  BY <1>1, <1>2

LEMMA InvInitially == Init => Inv
  BY InitTyped DEF Init, Inv, EvidenceIsTrue, ReceiptsAreTrue, At, Idle

LEMMA SpecSteps == Spec => Init /\ [][Next]_vars
  BY PTL DEF Spec

LEMMA SpecInv == Spec => []Inv
  BY InvInitially, InvInductive, SpecSteps, PTL

\* Whatever a request, a record or a process names exists: no operation looks at a
\* commit, a pull request or a check that is not there.
THEOREM PullRequestTypeCorrect == Spec => []TypeOK
<1>1. Inv => TypeOK
  <2> SUFFICES ASSUME Inv PROVE TypeOK
    OBVIOUS
  <2>1. \A n \in DOMAIN prs : prs[n].open \in BOOLEAN
    <3>1. \A n \in DOMAIN prs : prs[n] \in PullRequests
      BY DEF Inv, Typed, GitHubTyped
    <3> QED
      BY <3>1 DEF PullRequests
  <2>2. \A r \in receipts : r.pr \in DOMAIN prs /\ r.check \in DOMAIN checks
    BY DEF Inv, ReceiptsAreTrue, PassedOn
  <2> QED
    BY <2>1, <2>2 DEF Inv, Typed, HistoryTyped, GitHubTyped, RunsTyped, RecordsTyped, TypeOK, Ids
<1> QED
  BY <1>1, SpecInv, PTL

\* For every set of tests and any number of processes, commits and faults: where
\* require_current_head accepts a receipt, the head of the pull request was approved,
\* committed and validated and passed the check that the receipt names.
THEOREM CurrentReceiptsAreTrue == Spec => []CurrentReceiptIsTrue
<1>1. Inv => CurrentReceiptIsTrue
  BY DEF Inv, ReceiptsAreTrue, CurrentReceiptIsTrue, CurrentHead, PassedOn
<1> QED
  BY <1>1, SpecInv, PTL

-----------------------------------------------------------------------------
(***************************************************************************)
(* The remote branch.                                                      *)
(***************************************************************************)
AncestorsAreThere ==
  \A c \in Ids :
    /\ c \in Ancestors[c]
    /\ c # NoCommit => Ancestors[commits[c].parent] \subseteq Ancestors[c]

LEMMA AncestorsInclude == ParentsExist => AncestorsAreThere
<1> SUFFICES ASSUME ParentsExist PROVE AncestorsAreThere
  OBVIOUS
<1>1. \A c \in Ids :
        Ancestors[c] = IF c = NoCommit THEN {NoCommit}
                       ELSE {c} \cup Ancestors[commits[c].parent]
  BY AncestorsUnfold
<1> QED
  BY <1>1 DEF AncestorsAreThere

\* The branch moves only to a descendant, of the commits there were, or with an
\* owner's commit on top of it.
LEMMA RemoteMoves ==
  ASSUME Typed, Next
  PROVE  \/ remote' = remote
         \/ commits' = commits /\ MayPush(remote')
         \/ \E t \in Paths : OwnerPushes(t)
<1>1. \A c : Push(c) => remote' = remote \/ MayPush(remote')
  BY DEF Push, MoveBranch
<1>2. ASSUME NEW w \in Processes, SendPush(w)
      PROVE  commits' = commits /\ (remote' = remote \/ MayPush(remote'))
  BY <1>1, <1>2 DEF SendPush
<1>3. ASSUME NEW q \in late, Land(q)
      PROVE  commits' = commits /\ (remote' = remote \/ MayPush(remote'))
  BY <1>1, <1>3 DEF Land
<1>4. \/ remote' = remote
      \/ \E w \in Processes : SendPush(w)
      \/ \E q \in late : Land(q)
      \/ \E t \in Paths : OwnerPushes(t)
  BY DEF Next, Proceed, StartMaterialize, CheckChangeSet, StartPush, StartCreate,
     StartCapture, WriteTest, CommitTargets, VerifyCommit, ListPullRequests,
     SendCreate, RelistPullRequests, ViewPullRequest, FetchChecks, ConfirmHead, Crash,
     BindNativeValidation, EmitReceipt, Approve, Expire, OwnerCommits, OwnerEdits,
     OwnerCloses, Report, github
<1> QED
  BY <1>2, <1>3, <1>4

LEMMA RemoteKept == Inv /\ [Next]_vars => [RemoteIsKept]_vars
<1> SUFFICES ASSUME Inv, Next PROVE RemoteIsKept
  OBVIOUS
<1>1. AncestorsAreThere'
  <2>1. (ParentsExist => AncestorsAreThere)'
    BY AncestorsInclude, PTL
  <2>2. ParentsExist'
    BY NextTyped DEF Inv, Typed, HistoryTyped
  <2> QED
    BY <2>1, <2>2
<1>2. remote \in Ids /\ remote' \in Ids'
  BY NextTyped DEF Inv, Typed, GitHubTyped
<1>3. CASE remote' = remote
  BY <1>1, <1>2, <1>3 DEF RemoteIsKept, AncestorsAreThere
<1>4. CASE commits' = commits /\ MayPush(remote')
  <2>1. Ancestors' = Ancestors
    BY <1>4 DEF Ancestors
  <2> QED
    BY <1>4, <2>1 DEF MayPush, RemoteIsKept
<1>5. ASSUME NEW t \in Paths, OwnerPushes(t) PROVE RemoteIsKept
  <2>1. /\ remote # NoCommit /\ remote' = Len(commits')
        /\ commits' = Append(commits, [parent |-> remote,
                                       tree |-> [Tree(remote) EXCEPT ![t] = "edited"]])
    BY <1>5 DEF OwnerPushes, MoveBranch
  <2>2. commits \in Seq(Commits)
    BY DEF Inv, Typed, HistoryTyped
  <2>3. /\ commits'[Len(commits')].parent = remote /\ Len(commits') # NoCommit
        /\ DOMAIN commits \subseteq DOMAIN commits'
    BY <2>1, <2>2, AppendExtends, SMT DEF NoCommit
  <2>4. remote \in Ids'
    BY <1>2, <2>3 DEF Ids
  <2>5. remote \in Ancestors'[remote] /\ Ancestors'[remote] \subseteq Ancestors'[remote']
    BY <1>1, <1>2, <2>1, <2>3, <2>4 DEF AncestorsAreThere
  <2> QED
    BY <2>5 DEF RemoteIsKept
<1> QED
  BY <1>3, <1>4, <1>5, RemoteMoves DEF Inv

\* However pushes are lost, land late or race the owner's: the remote branch only
\* ever moves forward, and no commit that is in it leaves it.
THEOREM OwnersCommitsStay == Spec => OwnerCommitsAreKept
  BY SpecInv, SpecSteps, RemoteKept, PTL DEF OwnerCommitsAreKept

==============================================================================
