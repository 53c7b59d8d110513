----------------------- MODULE StoreDeployment_proofs -----------------------
(***************************************************************************)
(* Proofs about StoreDeployment, for every set of processes and writers,   *)
(* every bound on files and events and each schema version.                *)
(***************************************************************************)
EXTENDS StoreDeployment, TLAPS, WellFoundedInduction

\* The points at which a process has a store open, works on one it opened, and
\* holds the lock.
Working == {"open", "checked", "appending", "backing up", "read state"}
Checked == Working \cup {"read", "bound"}
Connected == Checked \cup {"connected", "migrating", "copied"}
Removing == {"removing", "confirmed", "unlinked", "released"}
Holding == {"appending", "backing up", "read state", "planning",
            "removing", "confirmed", "unlinked"}
Points == Connected \cup Holding \cup Removing \cup {"idle", "begun", "inspected", "closed"}

\* A command and a store have their fields, whatever these hold.
RunFields == {"at", "command", "writer", "path", "store", "todo", "statement", "read",
              "lock", "snapshot"}
StoreFields == {"objects", "recorded", "writer", "path", "events"}
IsStore(d) == d = [f \in StoreFields |-> d[f]]
IsRun(r) == r = [f \in RunFields |-> r[f]] /\ IsStore(r.snapshot)

-----------------------------------------------------------------------------
(* The operators.                                                          *)

\* The community modules' Min chooses a member that no other is below.
LEMMA MinIsMember ==
  ASSUME NEW S \in SUBSET Nat, S # {}
  PROVE  Min(S) \in S /\ \A y \in S : Min(S) <= y
<1> DEFINE R == OpToRel(<, Nat)
<1>1. IsWellFoundedOn(R, Nat)
  BY NatLessThanWellFounded
<1>2. \A x, y \in Nat : <<y, x>> \in R <=> y < x
  BY DEF OpToRel
<1> HIDE DEF R
<1>3. PICK x \in S : \A y \in S : ~(<<y, x>> \in R)
  BY <1>1, WFMin, Zenon
<1>4. \A y \in S : ~(y < x)
  BY <1>2, <1>3, Zenon
<1>5. \A y \in S : x <= y
  BY <1>4
<1>6. QED
  BY <1>5 DEF Min

\* The version whose script runs is one that is to be done.
LEMMA VersionIsToDo ==
  ASSUME NEW p \in Processes, run[p].todo \subseteq Versions, run[p].todo # {}
  PROVE  Version(p) \in run[p].todo
<1>1. Versions \subseteq Nat
  BY VersionAssumption DEF Versions, Scripts
<1>2. QED
  BY <1>1, MinIsMember DEF Version

\* A store that is new is one that nobody has open and no path names.
LEMMA UnusedIsFree ==
  ASSUME Unused # {}
  PROVE  /\ Min(Unused) \in Stores /\ Min(Unused) # 0
         /\ \A h \in Paths : file[h] # Min(Unused)
         /\ \A q \in Processes : run[q].store # Min(Unused)
<1>1. Unused \subseteq Stores /\ Stores \subseteq Nat \ {0}
  BY MaxStoresAssumption DEF Unused, Stores
<1>2. Min(Unused) \in Unused
  BY <1>1, MinIsMember
<1>3. QED
  BY <1>1, <1>2 DEF Unused, Used

-----------------------------------------------------------------------------
(***************************************************************************)
(* The inductive invariant, in two parts.                                  *)
(*                                                                         *)
(* What a process r has found of its store fits what the store d holds.    *)
(* Stores only grow: a binding is never written over, a version never      *)
(* taken back, and a store that somebody has open is never emptied; so     *)
(* what one process found stays true whatever the others do.               *)
(***************************************************************************)
Fits(r, d) ==
  /\ r.at \in Points
  /\ r.at # "idle" => r.writer \in Writers /\ r.path \in Paths
  /\ IF r.at \in Connected THEN r.store \in Stores ELSE r.store = 0
  /\ r.at = "migrating" =>
        r.todo \subseteq Versions /\ Versions \ r.todo \subseteq d[r.store].recorded
  /\ r.at \in Checked => Versions \subseteq d[r.store].recorded
  /\ r.at \in Checked \cup {"migrating"} => d[r.store].recorded \subseteq Versions
  /\ r.at = "read" /\ r.read.writer # None => d[r.store].writer = r.read.writer
  /\ r.at \in {"read", "bound"} /\ r.read.path # None => d[r.store].path = r.read.path
  /\ r.at \in Working \cup {"bound"} => d[r.store].writer = r.writer
  /\ r.at \in Working => d[r.store].path = r.path

Grown(d, e) ==
  /\ d.recorded \subseteq e.recorded
  /\ d.recorded \subseteq Versions => e.recorded \subseteq Versions
  /\ d.writer # None => e.writer = d.writer
  /\ d.path # None => e.path = d.path

\* What fits a store fits what the store grows into.
LEMMA FitsGrown ==
  ASSUME NEW r, NEW d, NEW e, Fits(r, d), r.store # 0 => Grown(d[r.store], e[r.store])
  PROVE  Fits(r, e)
<1>1. r.at \in Connected => r.store # 0
  BY MaxStoresAssumption DEF Fits, Stores
<1>2. r.at \in Checked \cup {"migrating"} => r.at \in Connected
  BY DEF Connected
<1>3. Working \cup {"bound", "read"} = Checked
  BY DEF Checked
<1>4. r.at \in Connected => Grown(d[r.store], e[r.store])
  BY <1>1
<1>5. r.writer # None \/ r.at \notin Checked
  BY <1>2, PathAssumption DEF Fits, Connected, Checked, Working
<1>6. QED
  BY <1>2, <1>3, <1>4, PathAssumption DEF Fits, Grown, Working, Checked, Connected, Paths
Shape ==
  /\ file \in [Paths -> {0} \cup Stores] /\ lockFile \in [Paths -> Nat] /\ locks \in Nat
  /\ db = [i \in Stores |-> db[i]] /\ (\A i \in Stores : IsStore(db[i]))
  /\ run = [p \in Processes |-> run[p]] /\ (\A p \in Processes : IsRun(run[p]))

OpenInv == Shape /\ \A p \in Processes : Fits(run[p], db)

(***************************************************************************)
(* A removal.  There is one at a time, it began alone, and it holds the    *)
(* lock from before its last look until the store is gone; everybody who   *)
(* is at its path holds what its path names as the lock file, so nobody    *)
(* commits meanwhile.                                                      *)
(***************************************************************************)
Remover(p) == run[p].command = "remove"
PlannedEvents == UNION {d.events : d \in plan.content}

LocksExclude ==
  /\ \A p, q \in Processes : p # q /\ run[p].lock = run[q].lock => run[p].lock = 0
  /\ \A p \in Processes : run[p].at \in Holding => run[p].lock # 0

OneRemover ==
  /\ \A p, q \in Processes : Remover(p) /\ Remover(q) => p = q
  /\ \A p \in Processes :
        /\ run[p].at \in Removing => Remover(p)
        /\ run[p].at = "closed" => run[p].command \in {"plan", "remove"}
        /\ Remover(p) => run[p].path = Active /\ plan # None /\ run[p].at # "idle"

LockFileStays ==
  \A p, q \in Processes :
     /\ Remover(p) /\ run[p].at # "released"
     /\ run[q].at \in Holding /\ run[q].path = Active
     => run[q].lock = lockFile[Active]

PathsDiffer ==
  /\ file[Active] # 0 => file[Active] # file[Retained]
  /\ \A p \in Processes, h \in Paths : run[p].store # 0 /\ file[h] = run[p].store
                                       => run[p].path = h

ConfirmedIsPlanned ==
  \A p \in Processes : At(p, "confirmed") =>
     IF file[Active] = 0 THEN plan.content = {} ELSE db[file[Active]].events = PlannedEvents

RemovalInv == LocksExclude /\ OneRemover /\ LockFileStays /\ PathsDiffer /\ ConfirmedIsPlanned

\* A step of p that the removal does not notice: it keeps the files, their events
\* and the lock it holds, if any, and enters none of the steps of a removal.
Unnoticed(p) ==
  LET r == run[p]  s == run'[p] IN
  /\ \A q \in Processes \ {p} : run'[q] = run[q]
  /\ s.lock \in {r.lock, 0}
  /\ s.at \in Holding => r.at \in Holding /\ s.lock = r.lock /\ s.path = r.path
  /\ s.command = "remove" => /\ r.command = "remove" /\ s.path = r.path
                             /\ s.at # "released" => r.at # "released"
                             /\ s.at # "idle"
  /\ s.at \in Removing => s.command = "remove"
  /\ s.at = "closed" => s.command \in {"plan", "remove"}
  /\ s.at # "confirmed"
  /\ s.store # 0 => s.store = r.store /\ s.path = r.path
  /\ UNCHANGED <<file, lockFile, locks, plan>>
  /\ \A h \in Paths : file[h] # 0 => db'[file[h]].events = db[file[h]].events

-----------------------------------------------------------------------------
(* Steps in general.                                                       *)

\* A step of p that lets the stores of the others grow at most.
LEMMA OpenStep ==
  ASSUME OpenInv, NEW p \in Processes, NEW s, IsRun(s), run' = [run EXCEPT ![p] = s],
         file' \in [Paths -> {0} \cup Stores], lockFile' \in [Paths -> Nat], locks' \in Nat,
         db' = [i \in Stores |-> db'[i]], \A i \in Stores : IsStore(db'[i]),
         \A q \in Processes \ {p} :
            run[q].store # 0 => Grown(db[run[q].store], db'[run[q].store]),
         Fits(s, db')
  PROVE  OpenInv'
<1>1. run'[p] = s /\ \A q \in Processes \ {p} : run'[q] = run[q]
  BY DEF OpenInv, Shape
<1>2. run' = [q \in Processes |-> run'[q]]
  BY DEF OpenInv, Shape
<1>3. \A q \in Processes : IsRun(run'[q])
  BY <1>1 DEF OpenInv, Shape
<1>4. \A q \in Processes : Fits(run'[q], db')
  <2>1. TAKE q \in Processes
  <2>2. CASE q # p
    <3>1. Fits(run[q], db) /\ (run[q].store # 0 => Grown(db[run[q].store], db'[run[q].store]))
      BY <2>2 DEF OpenInv
    <3>2. Fits(run[q], db')
      BY <3>1, FitsGrown
    <3>3. QED
      BY <1>1, <2>2, <3>2
  <2>3. QED
    BY <1>1, <2>2
<1>5. QED
  BY <1>2, <1>3, <1>4 DEF OpenInv, Shape

\* What a step leaves of a store is what it was.
LEMMA GrownSame == ASSUME NEW d PROVE Grown(d, d)
  BY DEF Grown

\* A step that changes nothing but what p knows.
LEMMA QuietStep ==
  ASSUME OpenInv, NEW p \in Processes, NEW s, IsRun(s), run' = [run EXCEPT ![p] = s],
         UNCHANGED Files, Fits(s, db),
         LET r == run[p] IN
         /\ s.lock \in {r.lock, 0}
         /\ s.at \in Holding => r.at \in Holding /\ s.lock = r.lock /\ s.path = r.path
         /\ s.command = "remove" => /\ r.command = "remove" /\ s.path = r.path
                                    /\ s.at # "released" => r.at # "released"
                                    /\ s.at # "idle"
         /\ s.at \in Removing => s.command = "remove"
         /\ s.at = "closed" => s.command \in {"plan", "remove"}
         /\ s.at # "confirmed"
         /\ s.store # 0 => s.store = r.store /\ s.path = r.path
  PROVE  OpenInv' /\ Unnoticed(p)
<1>1. UNCHANGED <<file, lockFile, db, locks, committed, plan>>
  BY DEF Files
<1>2. OpenInv'
  <2>1. /\ file' \in [Paths -> {0} \cup Stores] /\ lockFile' \in [Paths -> Nat] /\ locks' \in Nat
        /\ db' = [i \in Stores |-> db'[i]] /\ \A i \in Stores : IsStore(db'[i])
    BY <1>1 DEF OpenInv, Shape
  <2>2. Fits(s, db')
    BY <1>1
  <2>3. \A q \in Processes \ {p} :
            run[q].store # 0 => Grown(db[run[q].store], db'[run[q].store])
    BY <1>1, GrownSame
  <2>4. QED
    BY <2>1, <2>2, <2>3, OpenStep
<1>3. run'[p] = s /\ \A q \in Processes \ {p} : run'[q] = run[q]
  BY DEF OpenInv, Shape
<1>4. QED
  BY <1>1, <1>2, <1>3 DEF Unnoticed

\* A step with which p writes to the store it has open, and commits no event.
LEMMA WriteStep ==
  ASSUME OpenInv, NEW p \in Processes, NEW s, IsRun(s), run' = [run EXCEPT ![p] = s],
         NEW d, IsStore(d), run[p].store \in Stores, db' = [db EXCEPT ![run[p].store] = d],
         Grown(db[run[p].store], d), d.events = db[run[p].store].events,
         UNCHANGED <<file, lockFile, locks, committed, plan>>, Fits(s, db'),
         LET r == run[p] IN
         /\ s.lock = r.lock /\ s.command = r.command /\ s.path = r.path
         /\ s.at \notin Holding \cup Removing
         /\ s.command = "remove" => r.at # "released" /\ s.at # "idle"
         /\ s.at = "closed" => s.command \in {"plan", "remove"}
         /\ s.store # 0 => s.store = r.store
  PROVE  OpenInv' /\ Unnoticed(p)
<1> DEFINE i == run[p].store
<1>1. /\ db'[i] = d /\ \A j \in Stores \ {i} : db'[j] = db[j]
      /\ db' = [j \in Stores |-> db'[j]]
  BY DEF OpenInv, Shape
<1>2. \A j \in Stores : IsStore(db'[j]) /\ Grown(db[j], db'[j]) /\ db'[j].events = db[j].events
  BY <1>1, GrownSame DEF OpenInv, Shape
<1> HIDE DEF i
<1>3. \A q \in Processes : run[q].store # 0 => run[q].store \in Stores
  BY DEF OpenInv, Fits
<1>4. /\ file' \in [Paths -> {0} \cup Stores] /\ lockFile' \in [Paths -> Nat] /\ locks' \in Nat
      /\ \A h \in Paths : file[h] # 0 => file[h] \in Stores
  BY DEF OpenInv, Shape
<1>5. OpenInv'
  BY <1>1, <1>2, <1>3, <1>4, OpenStep
<1>6. run'[p] = s /\ \A q \in Processes \ {p} : run'[q] = run[q]
  BY DEF OpenInv, Shape
<1>7. QED
  BY <1>2, <1>4, <1>5, <1>6 DEF Unnoticed, Removing
\* A process that goes on to another point, and nothing else.
LEMMA GotoIs ==
  ASSUME OpenInv, NEW p \in Processes, NEW point, Goto(p, point)
  PROVE  LET s == [run[p] EXCEPT !.at = point] IN
         /\ run' = [run EXCEPT ![p] = s] /\ IsRun(s) /\ s.at = point
         /\ s.command = run[p].command /\ s.writer = run[p].writer /\ s.path = run[p].path
         /\ s.store = run[p].store /\ s.todo = run[p].todo /\ s.read = run[p].read
         /\ s.lock = run[p].lock
  BY DEF OpenInv, Shape, Goto, IsRun, RunFields

\* What is known of a process and of the store it has open.
LEMMA KnownOf ==
  ASSUME OpenInv, NEW p \in Processes
  PROVE  /\ IsRun(run[p]) /\ Fits(run[p], db)
         /\ run[p].store \in Stores => IsStore(db[run[p].store])
  BY DEF OpenInv, Shape

-----------------------------------------------------------------------------
(* Opening a store.                                                        *)

LEMMA PreflightStep ==
  ASSUME OpenInv, NEW p \in Processes, Preflight(p)
  PROVE  OpenInv' /\ Unnoticed(p)
<1> DEFINE s == [run[p] EXCEPT !.at = "inspected"]
<1>1. Goto(p, "inspected") /\ UNCHANGED Files /\ run[p].at = "begun"
  BY DEF Preflight, At
<1>2. /\ run' = [run EXCEPT ![p] = s] /\ IsRun(s) /\ s.at = "inspected"
      /\ s.command = run[p].command /\ s.writer = run[p].writer /\ s.path = run[p].path
      /\ s.store = run[p].store /\ s.lock = run[p].lock
  BY <1>1, GotoIs
<1> HIDE DEF s
<1>3. Fits(s, db)
  BY <1>1, <1>2, KnownOf DEF Fits, Points, Connected, Checked, Working
<1>4. QED
  BY <1>1, <1>2, <1>3, QuietStep DEF Holding, Removing

LEMMA ReadVersionsStep ==
  ASSUME OpenInv, NEW p \in Processes, ReadVersions(p)
  PROVE  OpenInv' /\ Unnoticed(p)
<1> DEFINE todo == Versions \ db[run[p].store].recorded
           s == [run[p] EXCEPT !.at = "migrating", !.todo = todo]
<1>1. /\ UNCHANGED Files /\ run[p].at = "connected"
      /\ db[run[p].store].recorded \subseteq Versions
  BY DEF ReadVersions, At
<1>2. /\ run' = [run EXCEPT ![p] = s] /\ IsRun(s) /\ s.at = "migrating"
      /\ s.command = run[p].command /\ s.writer = run[p].writer /\ s.path = run[p].path
      /\ s.store = run[p].store /\ s.lock = run[p].lock
      /\ s.todo = todo
  <2> HIDE DEF todo
  <2>1. IsRun(run[p]) /\ run = [q \in Processes |-> run[q]]
    BY DEF OpenInv, Shape
  <2>2. run' = [run EXCEPT ![p] = s]
    BY <2>1 DEF ReadVersions, todo
  <2>3. QED
    BY <2>1, <2>2 DEF IsRun, RunFields
<1> HIDE DEF s
<1>3. Fits(s, db)
  BY <1>1, <1>2, KnownOf DEF Fits, Points, Connected, Checked, Working
<1>4. QED
  BY <1>1, <1>2, <1>3, QuietStep DEF Holding, Removing

LEMMA ExecuteStatementStep ==
  ASSUME OpenInv, NEW p \in Processes, ExecuteStatement(p)
  PROVE  OpenInv' /\ Unnoticed(p)
<1> DEFINE i == run[p].store
           d == [db[i] EXCEPT !.objects =
                   Executed(Scripts[Version(p)][run[p].statement], @)]
           s == [run[p] EXCEPT !.statement = @ + 1]
<1>1. /\ run[p].at = "migrating" /\ UNCHANGED <<file, lockFile, locks, committed, plan>>
      /\ db' = [db EXCEPT ![i].objects =
                   Executed(Scripts[Version(p)][run[p].statement], @)]
  BY DEF ExecuteStatement, Migrating, At
<1>2. i \in Stores /\ IsStore(db[i]) /\ Fits(run[p], db)
  BY <1>1, KnownOf DEF Fits, Connected
<1>3. /\ IsStore(d) /\ d.recorded = db[i].recorded /\ d.writer = db[i].writer
      /\ d.path = db[i].path /\ d.events = db[i].events /\ db' = [db EXCEPT ![i] = d]
  BY <1>1, <1>2 DEF IsStore, StoreFields, OpenInv, Shape
<1>4. /\ run' = [run EXCEPT ![p] = s] /\ IsRun(s) /\ s.at = "migrating"
      /\ s.command = run[p].command /\ s.writer = run[p].writer /\ s.path = run[p].path
      /\ s.store = i /\ s.lock = run[p].lock /\ s.todo = run[p].todo
  <2>1. IsRun(run[p]) /\ run = [q \in Processes |-> run[q]]
    BY DEF OpenInv, Shape
  <2>2. run' = [run EXCEPT ![p] = s]
    BY <2>1 DEF ExecuteStatement
  <2>3. QED
    BY <1>1, <2>1, <2>2 DEF IsRun, RunFields
<1> HIDE DEF s, d
<1>5. Grown(db[i], d) /\ db'[i] = d
  BY <1>2, <1>3 DEF Grown, OpenInv, Shape
<1>6. Fits(s, db')
  <2>1. Fits(s, db)
    BY <1>1, <1>2, <1>4 DEF Fits, Points, Checked, Working
  <2>2. QED
    BY <1>4, <1>5, <2>1, FitsGrown
<1>7. QED
  BY <1>1, <1>2, <1>3, <1>4, <1>5, <1>6, WriteStep DEF Holding, Removing

\* What is recorded was to be done, so the version is one of this release.
LEMMA RecordVersionStep ==
  ASSUME OpenInv, NEW p \in Processes, RecordVersion(p)
  PROVE  OpenInv' /\ Unnoticed(p)
<1> DEFINE i == run[p].store
           d == [db[i] EXCEPT !.recorded = @ \cup {Version(p)}]
           todo == run[p].todo \ {Version(p)}
           s == [run[p] EXCEPT !.todo = todo, !.statement = 1]
<1>1. /\ run[p].at = "migrating" /\ run[p].todo # {}
      /\ UNCHANGED <<file, lockFile, locks, committed, plan>>
      /\ db' = [db EXCEPT ![i].recorded = @ \cup {Version(p)}]
  BY DEF RecordVersion, Migrating, At
<1>2. /\ i \in Stores /\ IsStore(db[i]) /\ Fits(run[p], db)
      /\ run[p].todo \subseteq Versions /\ Versions \ run[p].todo \subseteq db[i].recorded
      /\ db[i].recorded \subseteq Versions
  BY <1>1, KnownOf DEF Fits, Connected
<1>3. Version(p) \in Versions
  BY <1>1, <1>2, VersionIsToDo
<1>4. /\ IsStore(d) /\ d.recorded = db[i].recorded \cup {Version(p)} /\ d.writer = db[i].writer
      /\ d.path = db[i].path /\ d.events = db[i].events /\ db' = [db EXCEPT ![i] = d]
  <2>1. db' = [db EXCEPT ![i] = d]
    BY <1>1, <1>2 DEF OpenInv, Shape
  <2>2. QED
    BY <1>2, <2>1 DEF IsStore, StoreFields
<1>5. /\ run' = [run EXCEPT ![p] = s] /\ IsRun(s) /\ s.at = "migrating"
      /\ s.command = run[p].command /\ s.writer = run[p].writer /\ s.path = run[p].path
      /\ s.store = i /\ s.lock = run[p].lock /\ s.todo = todo
  <2> HIDE DEF todo, d
  <2>1. IsRun(run[p]) /\ run = [q \in Processes |-> run[q]]
    BY DEF OpenInv, Shape
  <2>2. run' = [run EXCEPT ![p] = s]
    BY <2>1 DEF RecordVersion, todo
  <2>3. QED
    BY <1>1, <2>1, <2>2 DEF IsRun, RunFields
<1> HIDE DEF s, d
<1>6. Grown(db[i], d) /\ db'[i] = d
  BY <1>2, <1>3, <1>4 DEF Grown, OpenInv, Shape
<1>7. Fits(s, db')
  BY <1>1, <1>2, <1>3, <1>4, <1>5, <1>6 DEF Fits, Points, Connected, Checked, Working
<1>8. QED
  BY <1>1, <1>2, <1>4, <1>5, <1>6, <1>7, WriteStep DEF Holding, Removing

LEMMA ReadBindingStep ==
  ASSUME OpenInv, NEW p \in Processes, ReadBinding(p)
  PROVE  OpenInv' /\ Unnoticed(p)
<1> DEFINE d == db[run[p].store]
           seen == [writer |-> d.writer, path |-> d.path]
           s == [run[p] EXCEPT !.at = "read", !.read = seen]
<1>1. UNCHANGED Files /\ run[p].at = "migrating" /\ run[p].todo = {}
  BY DEF ReadBinding, At
<1>2. /\ run' = [run EXCEPT ![p] = s] /\ IsRun(s) /\ s.at = "read"
      /\ s.command = run[p].command /\ s.writer = run[p].writer /\ s.path = run[p].path
      /\ s.store = run[p].store /\ s.lock = run[p].lock
      /\ s.read = seen
  <2> HIDE DEF d, seen
  <2>1. IsRun(run[p]) /\ run = [q \in Processes |-> run[q]]
    BY DEF OpenInv, Shape
  <2>2. run' = [run EXCEPT ![p] = s]
    BY <2>1 DEF ReadBinding, d, seen
  <2>3. QED
    BY <2>1, <2>2 DEF IsRun, RunFields
<1> HIDE DEF s
<1>3. s.read.writer = d.writer /\ s.read.path = d.path
  BY <1>2
<1>4. Fits(s, db)
  <2>1. Fits(run[p], db)
    BY KnownOf
  <2> HIDE DEF seen
  <2>2. QED
    BY <1>1, <1>2, <1>3, <2>1 DEF Fits, Points, Connected, Checked, Working
<1>5. QED
  BY <1>1, <1>2, <1>4, QuietStep DEF Holding, Removing
\* A store that is bound stays bound: one found unbound is bound to the process.
LEMMA BindWriterStep ==
  ASSUME OpenInv, NEW p \in Processes, BindWriter(p)
  PROVE  OpenInv' /\ Unnoticed(p)
<1> DEFINE i == run[p].store
           s == [run[p] EXCEPT !.at = "bound"]
<1>1. Goto(p, "bound") /\ run[p].at = "read" /\ UNCHANGED <<file, lockFile, locks, committed, plan>>
  BY DEF BindWriter, At
<1>2. /\ run' = [run EXCEPT ![p] = s] /\ IsRun(s) /\ s.at = "bound"
      /\ s.command = run[p].command /\ s.writer = run[p].writer /\ s.path = run[p].path
      /\ s.store = i /\ s.read = run[p].read /\ s.lock = run[p].lock
  BY <1>1, GotoIs
<1> HIDE DEF s
<1>3. i \in Stores /\ IsStore(db[i]) /\ Fits(run[p], db)
  BY <1>1, KnownOf DEF Fits, Connected, Checked
<1>4. CASE /\ db[i].writer = None
           /\ db' = [db EXCEPT ![i].writer = run[p].writer]
  <2> DEFINE d == [db[i] EXCEPT !.writer = run[p].writer]
  <2>1. db' = [db EXCEPT ![i] = d]
    BY <1>3, <1>4 DEF OpenInv, Shape
  <2>2. /\ IsStore(d) /\ d.recorded = db[i].recorded /\ d.writer = run[p].writer
        /\ d.path = db[i].path /\ d.events = db[i].events
    BY <1>3 DEF IsStore, StoreFields
  <2> HIDE DEF d
  <2>3. Grown(db[i], d) /\ db'[i] = d
    BY <1>3, <1>4, <2>1, <2>2 DEF Grown, OpenInv, Shape
  <2>4. Fits(s, db')
    BY <1>1, <1>2, <1>3, <2>2, <2>3 DEF Fits, Points, Connected, Checked, Working
  <2>5. QED
    BY <1>1, <1>2, <1>3, <2>1, <2>2, <2>3, <2>4, WriteStep DEF Holding, Removing
<1>5. CASE run[p].read.writer = run[p].writer /\ UNCHANGED db
  <2>1. run[p].writer # None
    BY <1>1, <1>3, PathAssumption DEF Fits
  <2>2. Fits(s, db)
    BY <1>1, <1>2, <1>3, <1>5, <2>1 DEF Fits, Points, Connected, Checked, Working
  <2>3. UNCHANGED Files
    BY <1>1, <1>5 DEF Files
  <2>4. QED
    BY <1>1, <1>2, <2>2, <2>3, QuietStep DEF Holding, Removing
<1>6. QED
  BY <1>4, <1>5 DEF BindWriter

LEMMA BindPathStep ==
  ASSUME OpenInv, NEW p \in Processes, BindPath(p)
  PROVE  OpenInv' /\ Unnoticed(p)
<1> DEFINE i == run[p].store
           point == IF run[p].command = "plan" THEN "closed" ELSE "open"
           kept == IF run[p].command = "plan" THEN 0 ELSE run[p].store
           read == Idle.read
           s == [run[p] EXCEPT !.at = point, !.read = read, !.store = kept]
<1>1. run[p].at = "bound" /\ UNCHANGED <<file, lockFile, locks, committed, plan>>
  BY DEF BindPath, At
<1>2. i \in Stores /\ IsStore(db[i]) /\ Fits(run[p], db) /\ IsRun(run[p])
  BY <1>1, KnownOf DEF Fits, Connected, Checked
<1>3. /\ run' = [run EXCEPT ![p] = s] /\ IsRun(s) /\ s.at = point
      /\ s.command = run[p].command /\ s.writer = run[p].writer /\ s.path = run[p].path
      /\ s.store = kept /\ s.lock = run[p].lock
  <2> HIDE DEF point, kept, read
  <2>1. run = [q \in Processes |-> run[q]]
    BY DEF OpenInv, Shape
  <2>2. run' = [run EXCEPT ![p] = s]
    BY <2>1 DEF BindPath, point, kept, read
  <2>3. QED
    BY <1>2, <2>2 DEF IsRun, RunFields
<1> HIDE DEF s
<1>4. CASE /\ db[i].path = None
           /\ db' = [db EXCEPT ![i].path = run[p].path]
  <2> DEFINE d == [db[i] EXCEPT !.path = run[p].path]
  <2>1. db' = [db EXCEPT ![i] = d]
    BY <1>2, <1>4 DEF OpenInv, Shape
  <2>2. /\ IsStore(d) /\ d.recorded = db[i].recorded /\ d.writer = db[i].writer
        /\ d.path = run[p].path /\ d.events = db[i].events
    BY <1>2 DEF IsStore, StoreFields
  <2> HIDE DEF d
  <2>3. Grown(db[i], d) /\ db'[i] = d
    BY <1>2, <1>4, <2>1, <2>2 DEF Grown, OpenInv, Shape
  <2>4. Fits(s, db')
    BY <1>1, <1>2, <1>3, <2>2, <2>3 DEF Fits, Points, Connected, Checked, Working
  <2>5. QED
    BY <1>1, <1>2, <1>3, <2>1, <2>2, <2>3, <2>4, WriteStep DEF Holding, Removing
<1>5. CASE run[p].read.path = run[p].path /\ UNCHANGED db
  <2>1. run[p].path # None
    BY <1>1, <1>2, PathAssumption DEF Fits, Paths
  <2>2. Fits(s, db)
    BY <1>1, <1>2, <1>3, <1>5, <2>1 DEF Fits, Points, Connected, Checked, Working
  <2>3. UNCHANGED Files
    BY <1>1, <1>5 DEF Files
  <2>4. QED
    BY <1>1, <1>3, <2>2, <2>3, QuietStep DEF Holding, Removing
<1>6. QED
  BY <1>4, <1>5 DEF BindPath

-----------------------------------------------------------------------------
(* The end of a command.                                                   *)

\* What somebody has open, and what a path names, is not gone.
LEMMA LeftIsKept ==
  ASSUME NEW d, NEW files, NEW runs, NEW i \in Stores,
         (\E h \in Paths : files[h] = i) \/ \E q \in Processes : runs[q].store = i
  PROVE  Left(d, files, runs)[i] = d[i]
  BY DEF Left, Used

\* Idle is a command that has nothing open.
LEMMA IdleIs ==
  /\ IsRun(Idle) /\ Idle.at = "idle" /\ Idle.command = "operate" /\ Idle.store = 0
  /\ Idle.lock = 0
<1>1. IsStore(Idle.snapshot)
  BY DEF Idle, Empty, IsStore, StoreFields
<1>2. QED
  BY <1>1 DEF Idle, IsRun, RunFields

\* An idle process fits any store.
LEMMA IdleFits == ASSUME NEW d PROVE Fits(Idle, d)
  BY IdleIs DEF Fits, Points, Connected, Checked, Working

\* The stores that remain when p ends are stores.
LEMMA LeftIsShaped ==
  ASSUME NEW d, \A i \in Stores : IsStore(d[i]), NEW files, NEW runs
  PROVE  /\ Left(d, files, runs) = [i \in Stores |-> Left(d, files, runs)[i]]
         /\ \A i \in Stores : IsStore(Left(d, files, runs)[i])
<1>1. IsStore(Empty)
  BY DEF Empty, IsStore, StoreFields
<1>2. QED
  BY <1>1 DEF Left

LEMMA FinishStep ==
  ASSUME OpenInv, NEW p \in Processes, NEW d, Finish(p, d),
         \A i \in Stores : IsStore(d[i]) /\ Grown(db[i], d[i]),
         file' \in [Paths -> {0} \cup Stores], lockFile' \in [Paths -> Nat], locks' \in Nat
  PROVE  /\ OpenInv'
         /\ run'[p] = Idle /\ \A q \in Processes \ {p} : run'[q] = run[q]
         /\ \A h \in Paths : file[h] # 0 => db'[file[h]] = d[file[h]]
<1> DEFINE runs == [run EXCEPT ![p] = Idle]
<1>1. run' = runs /\ db' = Left(d, file, runs)
  BY DEF Finish
<1>2. runs[p] = Idle /\ \A q \in Processes \ {p} : runs[q] = run[q]
  BY DEF OpenInv, Shape
<1> HIDE DEF runs
<1>3. /\ db' = [i \in Stores |-> db'[i]] /\ \A i \in Stores : IsStore(db'[i])
  BY <1>1, LeftIsShaped
<1>4. ASSUME NEW q \in Processes \ {p}, run[q].store # 0
      PROVE  Grown(db[run[q].store], db'[run[q].store])
  <2>1. run[q].store \in Stores /\ runs[q].store = run[q].store
    BY <1>2, <1>4 DEF OpenInv, Fits
  <2>2. db'[run[q].store] = d[run[q].store]
    BY <1>1, <2>1, LeftIsKept
  <2>3. QED
    BY <2>1, <2>2
<1>5. OpenInv'
  BY <1>1, <1>3, <1>4, IdleIs, IdleFits, OpenStep DEF runs
<1>6. ASSUME NEW h \in Paths, file[h] # 0
      PROVE  db'[file[h]] = d[file[h]]
  <2>1. file[h] \in Stores
    BY <1>6 DEF OpenInv, Shape
  <2>2. QED
    BY <1>1, <2>1, LeftIsKept
<1>7. QED
  BY <1>1, <1>2, <1>5, <1>6

LEMMA ExitStep ==
  ASSUME OpenInv, NEW p \in Processes, Exit(p)
  PROVE  OpenInv' /\ Unnoticed(p)
<1>1. Finish(p, db) /\ UNCHANGED <<file, lockFile, locks, committed, plan>>
  BY DEF Exit
<1>2. /\ \A i \in Stores : IsStore(db[i]) /\ Grown(db[i], db[i])
      /\ file' \in [Paths -> {0} \cup Stores] /\ lockFile' \in [Paths -> Nat] /\ locks' \in Nat
  BY <1>1, GrownSame DEF OpenInv, Shape
<1>3. /\ OpenInv' /\ run'[p] = Idle /\ \A q \in Processes \ {p} : run'[q] = run[q]
      /\ \A h \in Paths : file[h] # 0 => db'[file[h]] = db[file[h]]
  BY <1>1, <1>2, FinishStep
<1>4. QED
  BY <1>1, <1>3, IdleIs DEF Unnoticed, Holding, Removing
-----------------------------------------------------------------------------
(* The commands.                                                           *)

LEMMA CheckDestinationStep ==
  ASSUME OpenInv, NEW p \in Processes, CheckDestination(p)
  PROVE  OpenInv' /\ Unnoticed(p)
<1> DEFINE s == [run[p] EXCEPT !.at = "checked"]
<1>1. Goto(p, "checked") /\ UNCHANGED Files /\ run[p].at = "open"
  BY DEF CheckDestination, At
<1>2. /\ run' = [run EXCEPT ![p] = s] /\ IsRun(s) /\ s.at = "checked"
      /\ s.command = run[p].command /\ s.writer = run[p].writer /\ s.path = run[p].path
      /\ s.store = run[p].store /\ s.lock = run[p].lock
  BY <1>1, GotoIs
<1> HIDE DEF s
<1>3. Fits(s, db)
  BY <1>1, <1>2, KnownOf DEF Fits, Points, Connected, Checked, Working
<1>4. QED
  BY <1>1, <1>2, <1>3, QuietStep DEF Holding, Removing

LEMMA SnapshotStep ==
  ASSUME OpenInv, NEW p \in Processes, Snapshot(p)
  PROVE  OpenInv' /\ Unnoticed(p)
<1> DEFINE d == db[run[p].store]
           s == [run[p] EXCEPT !.at = "read state", !.snapshot = d]
<1>1. UNCHANGED Files /\ run[p].at = "backing up"
  BY DEF Snapshot, At
<1>2. IsRun(run[p]) /\ Fits(run[p], db) /\ IsStore(d)
  BY <1>1, KnownOf DEF Fits, Connected, Checked, Working
<1>3. /\ run' = [run EXCEPT ![p] = s] /\ IsRun(s) /\ s.at = "read state"
      /\ s.command = run[p].command /\ s.writer = run[p].writer /\ s.path = run[p].path
      /\ s.store = run[p].store /\ s.lock = run[p].lock
  <2> HIDE DEF d
  <2>1. run = [q \in Processes |-> run[q]]
    BY DEF OpenInv, Shape
  <2>2. run' = [run EXCEPT ![p] = s]
    BY <2>1 DEF Snapshot, d
  <2>3. QED
    BY <1>2, <2>2 DEF IsRun, RunFields
<1> HIDE DEF s
<1>4. Fits(s, db)
  BY <1>1, <1>2, <1>3 DEF Fits, Points, Connected, Checked, Working
<1>5. QED
  BY <1>1, <1>3, <1>4, QuietStep DEF Holding, Removing

\* A process that gives back the lock.
Unlocked(r, point) == [r EXCEPT !.at = point, !.lock = 0]
Unlocks(p, point) == run' = [run EXCEPT ![p].at = point, ![p].lock = 0]

LEMMA UnlockIs ==
  ASSUME OpenInv, NEW p \in Processes, NEW point, Unlocks(p, point)
  PROVE  LET s == Unlocked(run[p], point) IN
         /\ run' = [run EXCEPT ![p] = s] /\ IsRun(s) /\ s.at = point
         /\ s.command = run[p].command /\ s.writer = run[p].writer /\ s.path = run[p].path
         /\ s.store = run[p].store /\ s.lock = 0
<1>1. IsRun(run[p]) /\ run = [q \in Processes |-> run[q]]
  BY DEF OpenInv, Shape
<1>2. run' = [run EXCEPT ![p] = [run[p] EXCEPT !.at = point, !.lock = 0]]
  BY <1>1 DEF Unlocks
<1>3. QED
  BY <1>1, <1>2 DEF IsRun, RunFields, Unlocked

LEMMA CopyStoreStep ==
  ASSUME OpenInv, NEW p \in Processes, CopyStore(p)
  PROVE  OpenInv' /\ Unnoticed(p)
<1> DEFINE s == Unlocked(run[p], "copied")
<1>1. UNCHANGED Files /\ run[p].at = "read state" /\ Unlocks(p, "copied")
  BY DEF CopyStore, At, Unlocks
<1>2. /\ run' = [run EXCEPT ![p] = s] /\ IsRun(s) /\ s.at = "copied"
      /\ s.command = run[p].command /\ s.writer = run[p].writer /\ s.path = run[p].path
      /\ s.store = run[p].store /\ s.lock = 0
  BY <1>1, UnlockIs
<1> HIDE DEF s
<1>3. Fits(s, db)
  BY <1>1, <1>2, KnownOf DEF Fits, Points, Connected, Checked, Working
<1>4. QED
  BY <1>1, <1>2, <1>3, QuietStep DEF Holding, Removing

LEMMA ReleaseLockStep ==
  ASSUME OpenInv, RemovalInv, NEW p \in Processes, ReleaseLock(p)
  PROVE  OpenInv' /\ Unnoticed(p)
<1> DEFINE s == Unlocked(run[p], "released")
<1>1. UNCHANGED Files /\ run[p].at = "unlinked" /\ Unlocks(p, "released")
  BY DEF ReleaseLock, At, Unlocks
<1>2. /\ run' = [run EXCEPT ![p] = s] /\ IsRun(s) /\ s.at = "released"
      /\ s.command = run[p].command /\ s.writer = run[p].writer /\ s.path = run[p].path
      /\ s.store = run[p].store /\ s.lock = 0
  BY <1>1, UnlockIs
<1>3. run[p].command = "remove"
  BY <1>1 DEF RemovalInv, OneRemover, Remover, Removing
<1> HIDE DEF s
<1>4. Fits(s, db)
  BY <1>1, <1>2, KnownOf DEF Fits, Points, Connected, Checked, Working, Removing
<1>5. QED
  BY <1>1, <1>2, <1>3, <1>4, QuietStep DEF Holding, Removing

\* A process that holds a lock as before, or none where it needs none, takes it
\* from nobody.
LEMMA LocksKept ==
  ASSUME LocksExclude, NEW p \in Processes,
         \A q \in Processes \ {p} : run'[q] = run[q],
         run'[p].lock \in {run[p].lock, 0},
         run'[p].at \in Holding => run'[p].lock # 0
  PROVE  LocksExclude'
<1>1. \A q \in Processes : run'[q].lock = run[q].lock \/ run'[q].lock = 0
  OBVIOUS
<1>2. \A u, v \in Processes : u # v /\ run'[u].lock = run'[v].lock => run'[u].lock = 0
  <2> SUFFICES ASSUME NEW u \in Processes, NEW v \in Processes, u # v,
                      run'[u].lock = run'[v].lock, run'[u].lock # 0
               PROVE  FALSE
    OBVIOUS
  <2>1. run[u].lock = run'[u].lock /\ run[v].lock = run'[v].lock
    BY <1>1
  <2>2. QED
    BY <2>1 DEF LocksExclude
<1>3. \A q \in Processes : run'[q].at \in Holding => run'[q].lock # 0
  BY DEF LocksExclude
<1>4. QED
  BY <1>2, <1>3 DEF LocksExclude

-----------------------------------------------------------------------------
(* What a removal does not notice keeps its invariant.                     *)

LEMMA UnnoticedStep ==
  ASSUME OpenInv, RemovalInv, NEW p \in Processes, Unnoticed(p)
  PROVE  RemovalInv'
<1> DEFINE r == run[p]
           s == run'[p]
<1>1. /\ \A q \in Processes \ {p} : run'[q] = run[q]
      /\ file' = file /\ lockFile' = lockFile /\ plan' = plan
      /\ \A h \in Paths : file[h] # 0 => db'[file[h]].events = db[file[h]].events
  BY DEF Unnoticed
<1>2. /\ s.lock \in {r.lock, 0}
      /\ s.at \in Holding => r.at \in Holding /\ s.lock = r.lock /\ s.path = r.path
      /\ s.command = "remove" => /\ r.command = "remove" /\ s.path = r.path
                                 /\ s.at # "released" => r.at # "released"
                                 /\ s.at # "idle"
      /\ s.at \in Removing => s.command = "remove"
      /\ s.at = "closed" => s.command \in {"plan", "remove"}
      /\ s.at # "confirmed"
      /\ s.store # 0 => s.store = r.store /\ s.path = r.path
  BY DEF Unnoticed
<1>3. LocksExclude'
  BY <1>1, <1>2 DEF RemovalInv, LocksExclude
<1>4. OneRemover'
  BY <1>1, <1>2 DEF RemovalInv, OneRemover, Remover
<1>5. LockFileStays'
  BY <1>1, <1>2 DEF RemovalInv, LockFileStays, Remover
<1>6. PathsDiffer'
  BY <1>1, <1>2 DEF RemovalInv, PathsDiffer
<1>7. ConfirmedIsPlanned'
  BY <1>1, <1>2 DEF RemovalInv, ConfirmedIsPlanned, PlannedEvents, At, Paths
<1>8. QED
  BY <1>3, <1>4, <1>5, <1>6, <1>7 DEF RemovalInv
-----------------------------------------------------------------------------
(* The steps that a removal notices.                                       *)

LEMMA BeginStep ==
  ASSUME OpenInv, RemovalInv, NEW p \in Processes, NEW command \in Commands,
         NEW w \in Writers, NEW h \in Paths, Begin(p, command, w, h)
  PROVE  OpenInv' /\ RemovalInv'
<1> DEFINE point == IF command = "remove" THEN "closed" ELSE "begun"
           s == [Idle EXCEPT !.at = point, !.command = command, !.writer = w, !.path = h]
<1>1. /\ UNCHANGED <<file, lockFile, db, locks, committed, plan>> /\ run[p].at = "idle"
      /\ h = Retained => command = "operate"
      /\ command = "remove" => plan # None /\ \A q \in Processes : run[q].at = "idle"
  BY DEF Begin, At, Files
<1>2. /\ IsRun(s) /\ s.at = point /\ s.command = command /\ s.writer = w /\ s.path = h
      /\ s.store = 0 /\ s.lock = 0
  <2> HIDE DEF point
  <2>1. QED
    BY IdleIs DEF IsRun, RunFields
<1>3. run' = [run EXCEPT ![p] = s]
  BY DEF Begin
<1> HIDE DEF s
<1>4. Fits(s, db')
  BY <1>2 DEF Fits, Points, Connected, Checked, Working
<1>5. OpenInv'
  <2>1. /\ file' \in [Paths -> {0} \cup Stores] /\ lockFile' \in [Paths -> Nat] /\ locks' \in Nat
        /\ db' = [i \in Stores |-> db'[i]] /\ \A i \in Stores : IsStore(db'[i])
    BY <1>1 DEF OpenInv, Shape
  <2>2. \A q \in Processes \ {p} :
           run[q].store # 0 => Grown(db[run[q].store], db'[run[q].store])
    BY <1>1, GrownSame
  <2>3. QED
    BY <1>2, <1>3, <1>4, <2>1, <2>2, OpenStep
<1>6. run'[p] = s /\ \A q \in Processes \ {p} : run'[q] = run[q]
  BY <1>3 DEF OpenInv, Shape
<1>7. LocksExclude'
  <2>1. run'[p].lock = 0 /\ run'[p].at \notin Holding
    BY <1>2, <1>6 DEF Holding
  <2>2. QED
    BY <1>6, <2>1, LocksKept DEF RemovalInv
<1>8. OneRemover'
  BY <1>1, <1>2, <1>6 DEF RemovalInv, OneRemover, Remover, Removing, Paths
<1>9. LockFileStays'
  BY <1>1, <1>2, <1>6 DEF RemovalInv, LockFileStays, Remover, Holding
<1>10. PathsDiffer'
  BY <1>1, <1>2, <1>6 DEF RemovalInv, PathsDiffer
<1>11. ConfirmedIsPlanned'
  BY <1>1, <1>2, <1>6 DEF RemovalInv, ConfirmedIsPlanned, PlannedEvents, At
<1>12. QED
  BY <1>5, <1>7, <1>8, <1>9, <1>10, <1>11 DEF RemovalInv

\* What is opened is the file at the path, or an empty store that is new.
LEMMA ConnectStep ==
  ASSUME OpenInv, RemovalInv, NEW p \in Processes, Connect(p)
  PROVE  OpenInv' /\ RemovalInv'
<1> DEFINE h == run[p].path
           i == IF file[h] # 0 THEN file[h] ELSE Min(Unused)
           s == [run[p] EXCEPT !.at = "connected", !.store = i]
<1>1. run[p].at = "inspected" /\ UNCHANGED <<lockFile, locks, committed, plan>>
  BY DEF Connect, At
<1>2. IsRun(run[p]) /\ Fits(run[p], db) /\ h \in Paths /\ run[p].writer \in Writers
  BY <1>1, KnownOf DEF Fits
<1>3. /\ file[h] # 0 => file' = file /\ db' = db
      /\ file[h] = 0 => /\ Unused # {} /\ file' = [file EXCEPT ![h] = Min(Unused)]
                        /\ db' = [db EXCEPT ![Min(Unused)] = Empty]
      /\ run' = [run EXCEPT ![p].at = "connected", ![p].store = i]
  BY DEF Connect
<1>4. i \in Stores /\ i # 0 /\ (file[h] # 0 => file[h] = i)
  BY <1>2, <1>3, UnusedIsFree, MaxStoresAssumption DEF OpenInv, Shape, Stores
<1>5. file[h] = 0 => /\ \A g \in Paths : file[g] # i
                    /\ \A q \in Processes : run[q].store # i
  BY <1>3, UnusedIsFree
<1>6. /\ file' \in [Paths -> {0} \cup Stores] /\ file'[h] = i
      /\ \A g \in Paths \ {h} : file'[g] = file[g]
  <2>1. file \in [Paths -> {0} \cup Stores] /\ file' \in {file, [file EXCEPT ![h] = i]}
    BY <1>3 DEF OpenInv, Shape
  <2>2. file[h] = 0 => file' = [file EXCEPT ![h] = i]
    BY <1>3
  <2>3. file[h] # 0 => file' = file /\ i = file[h]
    BY <1>3
  <2> HIDE DEF i
  <2>4. QED
    BY <1>2, <1>4, <2>1, <2>2, <2>3
<1>7. /\ db' = [j \in Stores |-> db'[j]] /\ \A j \in Stores : IsStore(db'[j])
      /\ \A j \in Stores \ {i} : db'[j] = db[j]
      /\ file[h] # 0 => db' = db
      /\ file[h] = 0 => db'[i] = Empty
  <2>1. IsStore(Empty)
    BY DEF Empty, IsStore, StoreFields
  <2>2. QED
    BY <1>3, <1>4, <2>1 DEF OpenInv, Shape
<1>8. /\ run' = [run EXCEPT ![p] = s] /\ IsRun(s) /\ s.at = "connected"
      /\ s.command = run[p].command /\ s.writer = run[p].writer /\ s.path = h
      /\ s.store = i /\ s.lock = run[p].lock
  <2>1. run = [q \in Processes |-> run[q]]
    BY DEF OpenInv, Shape
  <2> HIDE DEF i
  <2>2. run' = [run EXCEPT ![p] = s]
    BY <1>3, <2>1
  <2>3. QED
    BY <1>2, <2>2 DEF IsRun, RunFields
<1> HIDE DEF s, i
<1>9. OpenInv'
  <2>1. Fits(s, db')
    BY <1>2, <1>4, <1>8 DEF Fits, Points, Connected, Checked, Working
  <2>2. ASSUME NEW q \in Processes \ {p}, run[q].store # 0
        PROVE  Grown(db[run[q].store], db'[run[q].store])
    <3>1. run[q].store \in Stores
      BY <2>2 DEF OpenInv, Fits
    <3>2. db'[run[q].store] = db[run[q].store]
      BY <1>5, <1>7, <3>1
    <3>3. QED
      BY <3>2, GrownSame
  <2>3. lockFile' \in [Paths -> Nat] /\ locks' \in Nat
    BY <1>1 DEF OpenInv, Shape
  <2>4. QED
    BY <1>6, <1>7, <1>8, <2>1, <2>2, <2>3, OpenStep
<1>10. /\ \A q \in Processes \ {p} : run'[q] = run[q]
       /\ run'[p].at = "connected" /\ run'[p].command = run[p].command
       /\ run'[p].path = h /\ run'[p].store = i /\ run'[p].lock = run[p].lock
  <2>1. run'[p] = s /\ \A q \in Processes \ {p} : run'[q] = run[q]
    BY <1>8 DEF OpenInv, Shape
  <2>2. QED
    BY <1>8, <2>1
<1>11. LocksExclude'
  <2>1. run'[p].at \notin Holding
    BY <1>10 DEF Holding
  <2>2. QED
    BY <1>10, <2>1, LocksKept DEF RemovalInv
<1>12. OneRemover'
  <2>1. \A q \in Processes : run'[q].command = run[q].command /\ run'[q].path = run[q].path
    BY <1>10
  <2>2. run'[p].at \notin Removing \cup {"closed", "idle"} /\ plan' = plan
    BY <1>1, <1>10 DEF Removing
  <2>3. \A u, v \in Processes : Remover(u)' /\ Remover(v)' => u = v
    <3> SUFFICES ASSUME NEW u \in Processes, NEW v \in Processes, Remover(u)', Remover(v)'
                 PROVE  u = v
      OBVIOUS
    <3>1. Remover(u) /\ Remover(v)
      BY <2>1 DEF Remover
    <3>2. QED
      BY <3>1 DEF RemovalInv, OneRemover
  <2>4. \A q \in Processes : /\ run'[q].at \in Removing => Remover(q)'
                             /\ run'[q].at = "closed" => run'[q].command \in {"plan", "remove"}
                             /\ Remover(q)' => /\ run'[q].path = Active /\ plan' # None
                                               /\ run'[q].at # "idle"
    <3> TAKE q \in Processes
    <3>1. CASE q = p
      BY <2>1, <2>2, <3>1 DEF RemovalInv, OneRemover, Remover
    <3>2. CASE q # p
      BY <1>10, <2>2, <3>2 DEF RemovalInv, OneRemover, Remover
    <3>3. QED
      BY <3>1, <3>2
  <2>5. QED
    BY <2>3, <2>4 DEF OneRemover
<1>13. LockFileStays'
  <2>1. \A u \in Processes : Remover(u)' /\ run'[u].at # "released" => Remover(u)
    BY <1>10 DEF Remover
  <2>2. run[p].at # "released" /\ run'[p].at \notin Holding /\ lockFile' = lockFile
    BY <1>1, <1>10 DEF Holding
  <2>3. \A u \in Processes :
           Remover(u)' /\ run'[u].at # "released" => Remover(u) /\ run[u].at # "released"
    BY <1>10, <2>1, <2>2
  <2> SUFFICES ASSUME NEW u \in Processes, NEW v \in Processes,
                      Remover(u)', run'[u].at # "released",
                      run'[v].at \in Holding, run'[v].path = Active
               PROVE  run'[v].lock = lockFile'[Active]
    BY DEF LockFileStays
  <2>4. v # p /\ run'[v] = run[v]
    BY <1>10, <2>2
  <2>5. QED
    BY <2>2, <2>3, <2>4 DEF RemovalInv, LockFileStays
<1>14. PathsDiffer'
  <2>1. file'[Active] # 0 => file'[Active] # file'[Retained]
    BY <1>2, <1>4, <1>5, <1>6, PathAssumption DEF RemovalInv, PathsDiffer, Paths
  <2>2. ASSUME NEW q \in Processes, NEW g \in Paths, run'[q].store # 0, file'[g] = run'[q].store
        PROVE  run'[q].path = g
    <3>1. CASE q = p
      BY <1>2, <1>4, <1>5, <1>6, <1>10, <2>1, <2>2, <3>1 DEF Paths
    <3>2. CASE q # p
      BY <1>4, <1>5, <1>6, <1>10, <2>2, <3>2 DEF RemovalInv, PathsDiffer
    <3>3. QED
      BY <3>1, <3>2
  <2>3. QED
    BY <2>1, <2>2 DEF PathsDiffer
<1>15. ConfirmedIsPlanned'
  <2> SUFFICES ASSUME NEW q \in Processes, run'[q].at = "confirmed"
               PROVE  IF file'[Active] = 0 THEN plan'.content = {}
                      ELSE db'[file'[Active]].events = PlannedEvents'
    BY DEF ConfirmedIsPlanned, At
  <2>1. /\ run[q].at = "confirmed" /\ plan' = plan /\ PlannedEvents' = PlannedEvents
        /\ IF file[Active] = 0 THEN plan.content = {}
           ELSE db[file[Active]].events = PlannedEvents
    BY <1>1, <1>10 DEF RemovalInv, ConfirmedIsPlanned, At, PlannedEvents
  <2>2. Active \in Paths /\ (file[Active] # 0 => file[Active] \in Stores)
    BY DEF Paths, OpenInv, Shape
  <2>3. CASE file[Active] # 0
    <3>1. file'[Active] = file[Active] /\ db'[file[Active]] = db[file[Active]]
      BY <1>4, <1>5, <1>6, <1>7, <2>2, <2>3
    <3>2. QED
      BY <2>1, <2>3, <3>1
  <2>4. CASE file[Active] = 0 /\ h # Active
    BY <1>6, <2>1, <2>2, <2>4
  <2>5. CASE file[Active] = 0 /\ h = Active
    <3>1. file'[Active] = i /\ db'[i].events = {}
      BY <1>6, <1>7, <2>5 DEF Empty
    <3>2. PlannedEvents = {}
      BY <2>1, <2>5 DEF PlannedEvents
    <3>3. QED
      BY <1>4, <2>1, <3>1, <3>2
  <2>6. QED
    BY <2>3, <2>4, <2>5
<1>16. QED
  BY <1>9, <1>11, <1>12, <1>13, <1>14, <1>15 DEF RemovalInv

\* Who takes a lock takes the one its path names, or names one that is new.
LEMMA TakeLockStep ==
  ASSUME OpenInv, RemovalInv, NEW p \in Processes, TakeLock(p)
  PROVE  OpenInv' /\ RemovalInv'
<1> DEFINE h == run[p].path
           l == IF lockFile[h] = 0 THEN locks + 1 ELSE lockFile[h]
           point == LockedAt(p)
           s == [run[p] EXCEPT !.at = point, !.lock = l]
<1>1. /\ run[p].at \in {"open", "checked", "closed"}
      /\ UNCHANGED <<file, db, committed, plan>>
      /\ \A q \in Processes : run[q].lock # l
      /\ lockFile' = [lockFile EXCEPT ![h] = l]
      /\ locks' = IF l > locks THEN l ELSE locks
      /\ run' = [run EXCEPT ![p].at = point, ![p].lock = l]
  BY DEF TakeLock
<1>2. IsRun(run[p]) /\ Fits(run[p], db) /\ h \in Paths /\ run[p].at # "idle"
  BY <1>1, KnownOf DEF Fits
<1>3. l \in Nat /\ l # 0 /\ (lockFile[h] # 0 => l = lockFile[h])
  BY <1>2 DEF OpenInv, Shape
<1>4. /\ run[p].at = "open" => point = "appending"
      /\ run[p].at = "checked" => point = "backing up"
      /\ run[p].at = "closed" /\ run[p].command = "plan" => point = "planning"
      /\ run[p].at = "closed" /\ run[p].command # "plan" => point = "removing"
  BY DEF LockedAt, At
<1> HIDE DEF l, point
<1>5. /\ run' = [run EXCEPT ![p] = s] /\ IsRun(s) /\ s.at = point
      /\ s.command = run[p].command /\ s.writer = run[p].writer /\ s.path = h
      /\ s.store = run[p].store /\ s.lock = l
  <2>1. run = [q \in Processes |-> run[q]]
    BY DEF OpenInv, Shape
  <2>2. run' = [run EXCEPT ![p] = s]
    BY <1>1, <2>1
  <2>3. QED
    BY <1>2, <2>2 DEF IsRun, RunFields
<1>6. /\ lockFile' \in [Paths -> Nat] /\ locks' \in Nat /\ lockFile'[h] = l
      /\ \A g \in Paths : lockFile[g] # 0 => lockFile'[g] = lockFile[g]
  BY <1>1, <1>2, <1>3 DEF OpenInv, Shape
<1>7. OpenInv'
  <2>1. Fits(s, db')
    BY <1>1, <1>2, <1>4, <1>5 DEF Fits, Points, Connected, Checked, Working, Removing, Holding
  <2>2. /\ file' \in [Paths -> {0} \cup Stores]
        /\ db' = [i \in Stores |-> db'[i]] /\ \A i \in Stores : IsStore(db'[i])
    BY <1>1 DEF OpenInv, Shape
  <2>3. \A q \in Processes \ {p} :
           run[q].store # 0 => Grown(db[run[q].store], db'[run[q].store])
    BY <1>1, GrownSame
  <2>4. QED
    BY <1>5, <1>6, <2>1, <2>2, <2>3, OpenStep
<1>8. /\ \A q \in Processes \ {p} : run'[q] = run[q]
      /\ run'[p].at = point /\ run'[p].command = run[p].command /\ run'[p].path = h
      /\ run'[p].store = run[p].store /\ run'[p].lock = l
  <2>1. run'[p] = s /\ \A q \in Processes \ {p} : run'[q] = run[q]
    BY <1>5 DEF OpenInv, Shape
  <2> HIDE DEF s
  <2>2. QED
    BY <1>5, <2>1
<1> HIDE DEF s
<1>9. /\ run[p].at \in {"open", "checked", "closed"} /\ file' = file /\ plan' = plan
       /\ db' = db /\ \A q \in Processes : run[q].lock # l
  BY <1>1
<1>10. LocksExclude'
  BY <1>3, <1>8, <1>9 DEF RemovalInv, LocksExclude
<1>11. OneRemover'
  <2>1. /\ point \in Removing => run[p].command = "remove"
        /\ point # "closed" /\ point # "idle" /\ run[p].at # "idle"
    BY <1>4, <1>9 DEF RemovalInv, OneRemover, Removing
  <2>2. QED
    BY <1>8, <1>9, <2>1 DEF RemovalInv, OneRemover, Remover
<1>12. LockFileStays'
  <2> SUFFICES ASSUME NEW r \in Processes, NEW q \in Processes,
                      Remover(r)', run'[r].at # "released",
                      run'[q].at \in Holding, run'[q].path = Active
               PROVE  run'[q].lock = lockFile'[Active]
    BY DEF LockFileStays
  <2>1. Remover(r) /\ run[r].at # "released"
    BY <1>1, <1>8 DEF Remover
  <2>2. CASE q = p
    BY <1>6, <1>8, <2>2
  <2>3. CASE q # p
    <3>1. run[q].lock # 0 /\ run[q].lock = lockFile[Active]
      BY <1>8, <2>1, <2>3 DEF RemovalInv, LocksExclude, LockFileStays
    <3>2. QED
      BY <1>6, <1>8, <2>3, <3>1 DEF Paths
  <2>4. QED
    BY <2>2, <2>3
<1>13. PathsDiffer'
  BY <1>8, <1>9 DEF RemovalInv, PathsDiffer
<1>14. ConfirmedIsPlanned'
  BY <1>4, <1>8, <1>9 DEF RemovalInv, ConfirmedIsPlanned, PlannedEvents, At
<1>15. QED
  BY <1>7, <1>10, <1>11, <1>12, <1>13, <1>14 DEF RemovalInv

\* Who ends is no remover, holds no lock and has no store open.
LEMMA EndKeeps ==
  ASSUME RemovalInv, NEW p \in Processes, run'[p] = Idle,
         \A q \in Processes \ {p} : run'[q] = run[q], plan = None \/ UNCHANGED plan
  PROVE  /\ LocksExclude' /\ OneRemover'
         /\ UNCHANGED lockFile => LockFileStays'
         /\ UNCHANGED file => PathsDiffer'
<1>1. /\ run'[p].at = "idle" /\ run'[p].command = "operate" /\ run'[p].store = 0
      /\ run'[p].lock = 0
  BY IdleIs
<1>2. LocksExclude'
  <2>1. run'[p].at \notin Holding
    BY <1>1 DEF Holding
  <2>2. QED
    BY <1>1, <2>1, LocksKept DEF RemovalInv
<1>3. OneRemover'
  BY <1>1 DEF RemovalInv, OneRemover, Remover, Removing
<1>4. UNCHANGED lockFile => LockFileStays'
  BY <1>1 DEF RemovalInv, LockFileStays, Remover, Holding
<1>5. UNCHANGED file => PathsDiffer'
  BY <1>1 DEF RemovalInv, PathsDiffer
<1>6. QED
  BY <1>2, <1>3, <1>4, <1>5

\* An event is committed under the lock, so not to a store about to be removed.
LEMMA CommitStep ==
  ASSUME OpenInv, RemovalInv, NEW p \in Processes, Commit(p)
  PROVE  OpenInv' /\ RemovalInv'
<1> DEFINE i == run[p].store
           d == [db EXCEPT ![i].events = @ \cup {committed + 1}]
<1>1. /\ run[p].at = "appending" /\ Finish(p, d)
      /\ UNCHANGED <<file, lockFile, locks, plan>>
  BY DEF Commit, At
<1>2. i \in Stores /\ i # 0
  <2>1. Fits(run[p], db) /\ run[p].at \in Connected
    BY <1>1, KnownOf DEF Connected, Checked, Working
  <2>2. QED
    BY <2>1, MaxStoresAssumption DEF Fits, Stores
<1>3. /\ \A j \in Stores : IsStore(d[j]) /\ Grown(db[j], d[j])
      /\ \A j \in Stores \ {i} : d[j] = db[j]
  <2>1. \A j \in Stores \ {i} : d[j] = db[j]
    BY DEF OpenInv, Shape
  <2>2. /\ IsStore(db[i]) /\ d[i] = [db[i] EXCEPT !.events = @ \cup {committed + 1}]
    BY <1>2 DEF OpenInv, Shape
  <2>3. IsStore(d[i]) /\ Grown(db[i], d[i])
    BY <2>2 DEF IsStore, StoreFields, Grown
  <2> HIDE DEF d
  <2>4. QED
    BY <2>1, <2>3, GrownSame DEF OpenInv, Shape
<1> HIDE DEF d
<1>4. file' \in [Paths -> {0} \cup Stores] /\ lockFile' \in [Paths -> Nat] /\ locks' \in Nat
  BY <1>1 DEF OpenInv, Shape
<1>5. /\ OpenInv' /\ run'[p] = Idle /\ \A q \in Processes \ {p} : run'[q] = run[q]
      /\ \A h \in Paths : file[h] # 0 => db'[file[h]] = d[file[h]]
  BY <1>1, <1>3, <1>4, FinishStep
<1>6. LocksExclude' /\ OneRemover' /\ PathsDiffer' /\ LockFileStays'
  BY <1>1, <1>5, EndKeeps
<1>7. ConfirmedIsPlanned'
  <2> SUFFICES ASSUME NEW q \in Processes, run'[q].at = "confirmed"
               PROVE  IF file'[Active] = 0 THEN plan'.content = {}
                      ELSE db'[file'[Active]].events = PlannedEvents'
    BY DEF ConfirmedIsPlanned, At
  <2>1. q # p /\ run'[q] = run[q] /\ run[q].at = "confirmed"
    BY <1>5, IdleIs
  <2>2. Remover(q) /\ run[q].path = Active
    BY <2>1 DEF RemovalInv, OneRemover, Removing
  <2>3. run[q].lock = lockFile[Active] /\ run[q].lock # 0
    BY <2>1, <2>2 DEF RemovalInv, LockFileStays, LocksExclude, Holding
  <2>4. run[p].path # Active
    <3>1. SUFFICES ASSUME run[p].path = Active PROVE FALSE
      OBVIOUS
    <3>2. run[p].lock = lockFile[Active]
      BY <1>1, <2>1, <2>2, <3>1 DEF RemovalInv, LockFileStays, Holding
    <3>3. QED
      BY <2>1, <2>3, <3>2 DEF RemovalInv, LocksExclude
  <2>5. file[Active] # i
    BY <1>2, <2>4 DEF RemovalInv, PathsDiffer, Paths
  <2>6. file[Active] # 0 => db'[file[Active]] = db[file[Active]]
    BY <1>3, <1>5, <2>5 DEF Paths, OpenInv, Shape
  <2>7. QED
    BY <1>1, <2>1, <2>6 DEF RemovalInv, ConfirmedIsPlanned, PlannedEvents, At
<1>8. QED
  BY <1>5, <1>6, <1>7 DEF RemovalInv

\* What is moved to the destination is a store that is new.
LEMMA ReplaceDestinationStep ==
  ASSUME OpenInv, RemovalInv, NEW p \in Processes, ReplaceDestination(p)
  PROVE  OpenInv' /\ RemovalInv'
<1> DEFINE j == Min(Unused)
           files == [file EXCEPT ![Retained] = j]
           runs == [run EXCEPT ![p] = Idle]
           d == [db EXCEPT ![j] = run[p].snapshot]
<1>1. /\ Unused # {} /\ file' = files /\ run' = runs /\ db' = Left(d, files, runs)
      /\ UNCHANGED <<lockFile, locks, committed, plan>>
  BY DEF ReplaceDestination
<1>2. /\ j \in Stores /\ j # 0 /\ \A h \in Paths : file[h] # j
      /\ \A q \in Processes : run[q].store # j
  BY <1>1, UnusedIsFree
<1> HIDE DEF j
<1>3. /\ \A i \in Stores : IsStore(d[i])
      /\ \A i \in Stores \ {j} : d[i] = db[i]
  BY <1>2 DEF OpenInv, Shape, IsRun
<1>4. /\ runs[p] = Idle /\ \A q \in Processes \ {p} : runs[q] = run[q]
      /\ files \in [Paths -> {0} \cup Stores]
      /\ files[Active] = file[Active] /\ files[Retained] = j
  BY <1>2, PathAssumption DEF OpenInv, Shape, Paths
<1> HIDE DEF d, files, runs
<1>5. /\ db' = [i \in Stores |-> db'[i]] /\ \A i \in Stores : IsStore(db'[i])
  BY <1>1, <1>3, LeftIsShaped
<1>6. OpenInv'
  <2>1. ASSUME NEW q \in Processes \ {p}, run[q].store # 0
        PROVE  Grown(db[run[q].store], db'[run[q].store])
    <3>1. run[q].store \in Stores \ {j}
      BY <1>2, <2>1 DEF OpenInv, Fits
    <3>2. runs[q].store = run[q].store
      BY <1>4
    <3>3. db'[run[q].store] = d[run[q].store]
      BY <1>1, <3>1, <3>2, LeftIsKept
    <3>4. QED
      BY <1>3, <3>1, <3>3, GrownSame
  <2>2. lockFile' \in [Paths -> Nat] /\ locks' \in Nat
    BY <1>1 DEF OpenInv, Shape
  <2>3. QED
    BY <1>1, <1>4, <1>5, <2>1, <2>2, IdleIs, IdleFits, OpenStep DEF runs
<1>7. run'[p] = Idle /\ \A q \in Processes \ {p} : run'[q] = run[q]
  BY <1>1, <1>4
<1>8. LocksExclude' /\ OneRemover' /\ LockFileStays'
  BY <1>1, <1>7, EndKeeps
<1>9. file'[Active] = file[Active] /\ file'[Retained] = j
  BY <1>1, <1>4
<1>10. PathsDiffer'
  BY <1>2, <1>7, <1>9, IdleIs DEF RemovalInv, PathsDiffer, Paths
<1>11. file[Active] # 0 => db'[file[Active]] = db[file[Active]]
  <2> SUFFICES ASSUME file[Active] # 0
               PROVE  db'[file[Active]] = db[file[Active]]
    OBVIOUS
  <2>1. Active \in Paths /\ file[Active] \in Stores \ {j}
    BY <1>2 DEF OpenInv, Shape, Paths
  <2>2. db'[file[Active]] = d[file[Active]]
    BY <1>1, <1>4, <2>1, LeftIsKept
  <2>3. QED
    BY <1>3, <2>1, <2>2
<1>12. ConfirmedIsPlanned'
  BY <1>1, <1>7, <1>9, <1>11, IdleIs DEF RemovalInv, ConfirmedIsPlanned, PlannedEvents, At
<1>13. QED
  BY <1>6, <1>8, <1>10, <1>12 DEF RemovalInv

\* The plan is made when there is none, and so no removal.
LEMMA PlanRemovalStep ==
  ASSUME OpenInv, RemovalInv, NEW p \in Processes, PlanRemoval(p)
  PROVE  OpenInv' /\ RemovalInv'
<1>1. plan = None /\ Finish(p, db) /\ UNCHANGED <<file, lockFile, locks, committed>>
  BY DEF PlanRemoval
<1>2. /\ \A i \in Stores : IsStore(db[i]) /\ Grown(db[i], db[i])
      /\ file' \in [Paths -> {0} \cup Stores] /\ lockFile' \in [Paths -> Nat] /\ locks' \in Nat
  BY <1>1, GrownSame DEF OpenInv, Shape
<1>3. OpenInv' /\ run'[p] = Idle /\ \A q \in Processes \ {p} : run'[q] = run[q]
  BY <1>1, <1>2, FinishStep
<1>4. LocksExclude' /\ OneRemover' /\ PathsDiffer' /\ LockFileStays'
  BY <1>1, <1>3, EndKeeps
<1>5. \A q \in Processes : run[q].at # "confirmed"
  BY <1>1 DEF RemovalInv, OneRemover, Removing
<1>6. ConfirmedIsPlanned'
  BY <1>3, <1>5, IdleIs DEF ConfirmedIsPlanned, At
<1>7. QED
  BY <1>3, <1>4, <1>6 DEF RemovalInv

\* A removal that goes on, and holds on to the lock.
LEMMA HeldStep ==
  ASSUME RemovalInv, NEW p \in Processes, \A q \in Processes \ {p} : run'[q] = run[q],
         run[p].at \in Removing \cap Holding, run'[p].at \in Removing \cap Holding,
         run'[p].command = run[p].command, run'[p].path = run[p].path,
         run'[p].lock = run[p].lock, UNCHANGED <<lockFile, plan>>
  PROVE  LocksExclude' /\ OneRemover' /\ LockFileStays'
<1>1. \A point \in Removing \cap Holding : point \notin {"closed", "idle", "released"}
  BY DEF Removing, Holding
<1>2. LocksExclude'
  BY DEF RemovalInv, LocksExclude
<1>3. OneRemover'
  BY <1>1 DEF RemovalInv, OneRemover, Remover
<1>4. LockFileStays'
  BY <1>1 DEF RemovalInv, LockFileStays, Remover
<1>5. QED
  BY <1>2, <1>3, <1>4

\* The removal goes on when it finds what its plan has seen.
LEMMA CheckDriftStep ==
  ASSUME OpenInv, RemovalInv, NEW p \in Processes, CheckDrift(p)
  PROVE  OpenInv' /\ RemovalInv'
<1> DEFINE s == [run[p] EXCEPT !.at = "confirmed"]
<1>1. /\ run[p].at = "removing" /\ Content(run[p].path) = plan.content
      /\ Goto(p, "confirmed") /\ UNCHANGED Files
      /\ UNCHANGED <<file, lockFile, db, locks, committed, plan>>
  BY DEF CheckDrift, At, Unchanged, Files
<1>2. /\ run' = [run EXCEPT ![p] = s] /\ IsRun(s) /\ s.at = "confirmed"
      /\ s.command = run[p].command /\ s.writer = run[p].writer /\ s.path = run[p].path
      /\ s.store = run[p].store /\ s.lock = run[p].lock
  BY <1>1, GotoIs
<1> HIDE DEF s
<1>3. OpenInv'
  <2>1. Fits(s, db')
    BY <1>1, <1>2, KnownOf DEF Fits, Points, Connected, Checked, Working, Removing
  <2>2. /\ file' \in [Paths -> {0} \cup Stores] /\ lockFile' \in [Paths -> Nat] /\ locks' \in Nat
        /\ db' = [i \in Stores |-> db'[i]] /\ \A i \in Stores : IsStore(db'[i])
    BY <1>1 DEF OpenInv, Shape
  <2>3. \A q \in Processes \ {p} :
           run[q].store # 0 => Grown(db[run[q].store], db'[run[q].store])
    BY <1>1, GrownSame
  <2>4. QED
    BY <1>2, <2>1, <2>2, <2>3, OpenStep
<1>4. /\ \A q \in Processes \ {p} : run'[q] = run[q]
      /\ run'[p].at = "confirmed" /\ run'[p].command = run[p].command
      /\ run'[p].path = run[p].path /\ run'[p].store = run[p].store
      /\ run'[p].lock = run[p].lock
  <2>1. run'[p] = s /\ \A q \in Processes \ {p} : run'[q] = run[q]
    BY <1>2 DEF OpenInv, Shape
  <2>2. QED
    BY <1>2, <2>1
<1>5. LocksExclude' /\ OneRemover' /\ LockFileStays'
  BY <1>1, <1>4, HeldStep DEF Removing, Holding
<1>6. PathsDiffer'
  BY <1>1, <1>4 DEF RemovalInv, PathsDiffer
<1>7. ConfirmedIsPlanned'
  <2>1. run[p].path = Active
    BY <1>1 DEF RemovalInv, OneRemover, Removing
  <2>2. IF file[Active] = 0 THEN plan.content = {} ELSE db[file[Active]].events = PlannedEvents
    BY <1>1, <2>1 DEF Content, PlannedEvents
  <2>3. QED
    BY <1>1, <2>2 DEF ConfirmedIsPlanned, PlannedEvents
<1>8. QED
  BY <1>3, <1>5, <1>6, <1>7 DEF RemovalInv

\* The store goes from its path; who has it open keeps it.
LEMMA UnlinkStoreStep ==
  ASSUME OpenInv, RemovalInv, NEW p \in Processes, UnlinkStore(p)
  PROVE  OpenInv' /\ RemovalInv'
<1> DEFINE s == [run[p] EXCEPT !.at = "unlinked"]
           files == [file EXCEPT ![run[p].path] = 0]
<1>1. /\ run[p].at = "confirmed" /\ file' = files /\ Goto(p, "unlinked")
      /\ db' = Left(db, files, run)
  BY DEF UnlinkStore, At
<1>2. UNCHANGED <<lockFile, locks, committed, plan>>
  BY DEF UnlinkStore
<1>3. Remover(p) /\ run[p].path = Active
  BY <1>1 DEF RemovalInv, OneRemover, Removing
<1>4. /\ run' = [run EXCEPT ![p] = s] /\ IsRun(s) /\ s.at = "unlinked"
      /\ s.command = run[p].command /\ s.writer = run[p].writer /\ s.path = run[p].path
      /\ s.store = run[p].store /\ s.lock = run[p].lock
  BY <1>1, GotoIs
<1>5. /\ file' \in [Paths -> {0} \cup Stores] /\ file'[Active] = 0
      /\ file'[Retained] = file[Retained]
  BY <1>1, <1>3, PathAssumption DEF OpenInv, Shape, Paths
<1> HIDE DEF s, files
<1>6. OpenInv'
  <2>1. /\ db' = [i \in Stores |-> db'[i]] /\ \A i \in Stores : IsStore(db'[i])
    BY <1>1, LeftIsShaped DEF OpenInv, Shape
  <2>2. ASSUME NEW q \in Processes \ {p}, run[q].store # 0
        PROVE  Grown(db[run[q].store], db'[run[q].store])
    <3>1. run[q].store \in Stores
      BY <2>2 DEF OpenInv, Fits
    <3>2. db'[run[q].store] = db[run[q].store]
      BY <1>1, <3>1, LeftIsKept
    <3>3. QED
      BY <3>2, GrownSame
  <2>3. Fits(s, db')
    BY <1>1, <1>4, KnownOf DEF Fits, Points, Connected, Checked, Working, Removing
  <2>4. lockFile' \in [Paths -> Nat] /\ locks' \in Nat
    BY <1>2 DEF OpenInv, Shape
  <2>5. QED
    BY <1>4, <1>5, <2>1, <2>2, <2>3, <2>4, OpenStep
<1>7. /\ \A q \in Processes \ {p} : run'[q] = run[q]
      /\ run'[p].at = "unlinked" /\ run'[p].command = run[p].command
      /\ run'[p].path = run[p].path /\ run'[p].store = run[p].store
      /\ run'[p].lock = run[p].lock
  <2>1. run'[p] = s /\ \A q \in Processes \ {p} : run'[q] = run[q]
    BY <1>4 DEF OpenInv, Shape
  <2>2. QED
    BY <1>4, <2>1
<1>8. LocksExclude' /\ OneRemover' /\ LockFileStays'
  BY <1>1, <1>2, <1>7, HeldStep DEF Removing, Holding
<1>9. PathsDiffer'
  BY <1>5, <1>7 DEF RemovalInv, PathsDiffer, Paths
<1>10. ConfirmedIsPlanned'
  <2>1. \A q \in Processes \ {p} : run[q].at # "confirmed"
    BY <1>3 DEF RemovalInv, OneRemover, Removing
  <2>2. QED
    BY <1>7, <2>1 DEF ConfirmedIsPlanned, At
<1>11. QED
  BY <1>6, <1>8, <1>9, <1>10 DEF RemovalInv

\* The lock file goes with the removal, the only one there is.
LEMMA UnlinkLockStep ==
  ASSUME OpenInv, RemovalInv, NEW p \in Processes, UnlinkLock(p)
  PROVE  OpenInv' /\ RemovalInv'
<1>1. /\ run[p].at = "released" /\ lockFile' = [lockFile EXCEPT ![run[p].path] = 0]
      /\ Finish(p, db) /\ UNCHANGED <<file, locks, committed, plan>>
  BY DEF UnlinkLock, At
<1>2. /\ \A i \in Stores : IsStore(db[i]) /\ Grown(db[i], db[i])
      /\ file' \in [Paths -> {0} \cup Stores] /\ lockFile' \in [Paths -> Nat] /\ locks' \in Nat
  BY <1>1, GrownSame DEF OpenInv, Shape
<1>3. /\ OpenInv' /\ run'[p] = Idle /\ \A q \in Processes \ {p} : run'[q] = run[q]
  BY <1>1, <1>2, FinishStep
<1>4. LocksExclude' /\ OneRemover' /\ PathsDiffer'
  BY <1>1, <1>3, EndKeeps
<1>5. \A q \in Processes \ {p} : ~Remover(q) /\ run[q].at # "confirmed"
  BY <1>1 DEF RemovalInv, OneRemover, Removing
<1>6. \A q \in Processes : ~Remover(q)' /\ run'[q].at # "confirmed"
  BY <1>3, <1>5, IdleIs DEF Remover
<1>7. LockFileStays' /\ ConfirmedIsPlanned'
  BY <1>6 DEF LockFileStays, ConfirmedIsPlanned, At
<1>8. QED
  BY <1>3, <1>4, <1>7 DEF RemovalInv

-----------------------------------------------------------------------------
(* The invariant.                                                          *)

LEMMA InitInv == Init => OpenInv /\ RemovalInv
<1> SUFFICES ASSUME Init PROVE OpenInv /\ RemovalInv
  OBVIOUS
<1>1. PICK d \in {Empty} \cup
                 UNION {{AtVersion(SCHEMA_VERSION - 1, w), Newer(w)} : w \in Writers} :
        /\ db = [i \in Stores |-> IF i = 1 THEN d ELSE Empty]
        /\ file = [h \in Paths |-> IF h = Active /\ d # Empty THEN 1 ELSE 0]
  BY DEF Init
<1>2. IsStore(d) /\ IsStore(Empty)
  <2>1. IsStore(Empty)
    BY DEF Empty, IsStore, StoreFields
  <2>2. ASSUME NEW n, NEW w PROVE IsStore(AtVersion(n, w))
    BY DEF AtVersion, IsStore, StoreFields
  <2>3. ASSUME NEW w PROVE IsStore(Newer(w))
    <3>1. IsStore(AtVersion(SCHEMA_VERSION, w))
      BY <2>2
    <3>2. QED
      BY <3>1 DEF Newer, IsStore, StoreFields
  <2>4. QED
    BY <2>1, <2>2, <2>3
<1>3. /\ lockFile = [h \in Paths |-> 0] /\ locks = 0 /\ run = [p \in Processes |-> Idle]
      /\ plan = None
  BY DEF Init
<1>4. 1 \in Stores
  BY MaxStoresAssumption DEF Stores
<1>5. Shape
  BY <1>1, <1>2, <1>3, <1>4, IdleIs DEF Shape
<1>6. \A p \in Processes : Fits(run[p], db)
  BY <1>3, IdleFits
<1>7. /\ \A p \in Processes : /\ run[p].at = "idle" /\ run[p].command = "operate"
                              /\ run[p].store = 0 /\ run[p].lock = 0
      /\ file[Retained] = 0
  BY <1>1, <1>3, IdleIs, PathAssumption DEF Paths
<1>8. LocksExclude /\ OneRemover /\ LockFileStays
  BY <1>7 DEF LocksExclude, OneRemover, LockFileStays, Remover, Holding, Removing
<1>9. PathsDiffer /\ ConfirmedIsPlanned
  BY <1>7 DEF PathsDiffer, ConfirmedIsPlanned, At
<1>10. QED
  BY <1>5, <1>6, <1>8, <1>9 DEF OpenInv, RemovalInv

LEMMA NextInv ==
  ASSUME OpenInv, RemovalInv, [Next]_vars
  PROVE  OpenInv' /\ RemovalInv'
<1>1. ASSUME NEW p \in Processes, NEW command \in Commands, NEW w \in Writers,
             NEW h \in Paths, Begin(p, command, w, h)
      PROVE  OpenInv' /\ RemovalInv'
  BY <1>1, BeginStep
<1>2. ASSUME NEW p \in Processes, Open(p)
      PROVE  OpenInv' /\ RemovalInv'
  <2>1. CASE Connect(p)
    BY <2>1, ConnectStep
  <2>2. CASE ~Connect(p)
    <3>1. OpenInv' /\ Unnoticed(p)
      BY <1>2, <2>2, PreflightStep, ReadVersionsStep, ExecuteStatementStep, RecordVersionStep,
         ReadBindingStep, BindWriterStep, BindPathStep DEF Open
    <3>2. QED
      BY <3>1, UnnoticedStep
  <2>3. QED
    BY <2>1, <2>2
<1>3. ASSUME NEW p \in Processes, Backup(p)
      PROVE  OpenInv' /\ RemovalInv'
  <2>1. CASE ReplaceDestination(p)
    BY <2>1, ReplaceDestinationStep
  <2>2. CASE ~ReplaceDestination(p)
    <3>1. OpenInv' /\ Unnoticed(p)
      BY <1>3, <2>2, CheckDestinationStep, SnapshotStep, CopyStoreStep DEF Backup
    <3>2. QED
      BY <3>1, UnnoticedStep
  <2>3. QED
    BY <2>1, <2>2
<1>4. ASSUME NEW p \in Processes, RemoveState(p)
      PROVE  OpenInv' /\ RemovalInv'
  BY <1>4, CheckDriftStep, UnlinkStoreStep, ReleaseLockStep, UnnoticedStep, UnlinkLockStep
     DEF RemoveState
<1>5. ASSUME NEW p \in Processes, TakeLock(p) \/ Commit(p) \/ PlanRemoval(p) \/ Exit(p)
      PROVE  OpenInv' /\ RemovalInv'
  BY <1>5, TakeLockStep, CommitStep, PlanRemovalStep, ExitStep, UnnoticedStep
<1>6. CASE UNCHANGED vars
  <2>1. OpenInv'
    BY <1>6 DEF vars, OpenInv, Shape
  <2>2. RemovalInv'
    BY <1>6 DEF vars, RemovalInv, LocksExclude, OneRemover, LockFileStays, PathsDiffer,
                ConfirmedIsPlanned, PlannedEvents, Remover, At
  <2>3. QED
    BY <2>1, <2>2
<1>7. QED
  BY <1>1, <1>2, <1>3, <1>4, <1>5, <1>6 DEF Next

LEMMA Invariance == Spec => [](OpenInv /\ RemovalInv)
<1>1. OpenInv /\ RemovalInv /\ [Next]_vars => (OpenInv /\ RemovalInv)'
  BY NextInv
<1>2. QED
  BY InitInv, <1>1, PTL DEF Spec

-----------------------------------------------------------------------------
(***************************************************************************)
(* Types, and the order of the migrations: a store records the versions up *)
(* to some number and no others, however many processes migrate it at      *)
(* once, because each goes through what is to be done from the lowest on   *)
(* and a version below what a process has still to do is on record.        *)
(***************************************************************************)
Longest == Max({Len(Scripts[v]) : v \in Versions})
IsDatabase(d) == d \in Databases /\ \E n \in 0 .. SCHEMA_VERSION + 1 : d.recorded = 1 .. n

InOrder(r, d) ==
  r.at = "migrating" =>
    \E k \in 1 .. SCHEMA_VERSION + 1 :
       r.todo = k .. SCHEMA_VERSION /\ 1 .. k - 1 \subseteq d[r.store].recorded

IsCommand(r, l, d) ==
  /\ r.todo \subseteq Versions /\ r.statement \in 1 .. Longest + 1 /\ r.lock \in 0 .. l
  /\ IsDatabase(r.snapshot) /\ InOrder(r, d)

TypedInv ==
  /\ \A i \in Stores : IsDatabase(db[i])
  /\ lockFile \in [Paths -> 0 .. locks] /\ committed \in 0 .. MaxEvents
  /\ \A p \in Processes : IsCommand(run[p], locks, db)

\* The release's version is that of a script.
LEMMA VersionsTyped ==
  /\ SCHEMA_VERSION \in Nat \ {0} /\ Versions \subseteq DOMAIN Scripts /\ Versions \subseteq Nat
  /\ Versions # {}
  BY VersionAssumption DEF Versions, Scripts

\* No script is longer than the longest.
LEMMA LongestBounds ==
  /\ Longest \in Nat
  /\ \A v \in Versions : DOMAIN Scripts[v] = 1 .. Len(Scripts[v]) /\ Len(Scripts[v]) <= Longest
<1> DEFINE L == {Len(Scripts[v]) : v \in Versions}
<1>1. \A v \in DOMAIN Scripts :
         Len(Scripts[v]) \in 0 .. 10 /\ DOMAIN Scripts[v] = 1 .. Len(Scripts[v])
  BY DEF Scripts, CampaignScript, AttemptsScript, PlansScript, OutcomesScript
<1>2. L \subseteq 0 .. 10 /\ L # {}
  BY <1>1, VersionsTyped
<1> HIDE DEF L
<1>3. \E x \in L : \A y \in L : x >= y
  <2> DEFINE D == {10 - x : x \in L}
  <2>1. D \subseteq Nat /\ D # {}
    <3>1. \A x \in L : 10 - x \in Nat
      BY <1>2
    <3>2. QED
      BY <1>2, <3>1
  <2> HIDE DEF D
  <2>2. Min(D) \in D /\ \A y \in D : Min(D) <= y
    BY <2>1, MinIsMember
  <2>3. PICK x \in L : Min(D) = 10 - x
    BY <2>2 DEF D
  <2>4. \A y \in L : 10 - x <= 10 - y
    BY <2>2, <2>3 DEF D
  <2>5. QED
    BY <1>2, <2>4
<1>4. Max(L) \in L /\ \A y \in L : Max(L) >= y
  BY <1>3 DEF Max
<1>5. Longest = Max(L)
  BY DEF Longest, L
<1>6. \A v \in Versions : Len(Scripts[v]) \in L
  BY DEF L
<1>7. Longest \in Nat /\ \A y \in L : y \in Nat /\ y <= Longest
  <2> DEFINE M == Max(L)
  <2>1. M \in L /\ \A y \in L : M >= y
    BY <1>4
  <2> HIDE DEF M
  <2>2. M \in Nat /\ \A y \in L : y \in Nat
    BY <1>2, <2>1
  <2>3. \A y \in L : y <= M
    BY <2>1, <2>2
  <2>4. Longest = M
    BY <1>5 DEF M
  <2>5. QED
    BY <2>2, <2>3, <2>4
<1>8. \A v \in Versions : DOMAIN Scripts[v] = 1 .. Len(Scripts[v])
  BY <1>1, VersionsTyped
<1>9. QED
  BY <1>6, <1>7, <1>8

\* A store that is empty, and one a release made, are databases.
LEMMA EmptyTyped == IsDatabase(Empty)
<1>1. Empty \in Databases
  BY DEF Empty, Databases
<1>2. Empty.recorded = 1 .. 0 /\ 0 \in 0 .. SCHEMA_VERSION + 1
  BY VersionsTyped DEF Empty
<1>3. QED
  BY <1>1, <1>2 DEF IsDatabase

LEMMA ReleasesTyped ==
  ASSUME NEW w \in Writers
  PROVE  /\ IsDatabase(AtVersion(SCHEMA_VERSION - 1, w))
         /\ IsDatabase(Newer(w))
<1>1. ASSUME NEW n \in 0 .. SCHEMA_VERSION PROVE AtVersion(n, w) \in Databases
  <2>1. Schema(n) \subseteq Objects
    BY DEF Schema
  <2>2. 1 .. n \subseteq 1 .. SCHEMA_VERSION + 1 /\ Active \in Paths
    BY VersionsTyped DEF Paths
  <2>3. QED
    BY <2>1, <2>2 DEF AtVersion, Databases
<1>2. AtVersion(SCHEMA_VERSION - 1, w).recorded = 1 .. SCHEMA_VERSION - 1
  BY DEF AtVersion
<1>3. Newer(w) \in Databases /\ Newer(w).recorded = 1 .. SCHEMA_VERSION + 1
  <2>1. AtVersion(SCHEMA_VERSION, w) \in Databases
    BY <1>1, VersionsTyped
  <2>2. AtVersion(SCHEMA_VERSION, w).recorded = 1 .. SCHEMA_VERSION
    BY DEF AtVersion
  <2>3. (1 .. SCHEMA_VERSION) \cup {SCHEMA_VERSION + 1} = 1 .. SCHEMA_VERSION + 1
    BY VersionsTyped
  <2>4. QED
    BY <2>1, <2>2, <2>3 DEF Newer, Databases
<1>4. QED
  BY <1>1, <1>2, <1>3, VersionsTyped DEF IsDatabase

\* Who is idle, or is at another point than migrating, has nothing to keep in order.
LEMMA IdleTyped == ASSUME NEW l \in Nat, NEW d PROVE IsCommand(Idle, l, d)
  BY EmptyTyped, LongestBounds DEF Idle, IsCommand, InOrder

LEMMA TypedInit == Init => TypedInv
<1> SUFFICES ASSUME Init PROVE TypedInv
  OBVIOUS
<1>1. PICK d \in {Empty} \cup
                 UNION {{AtVersion(SCHEMA_VERSION - 1, w), Newer(w)} : w \in Writers} :
        db = [i \in Stores |-> IF i = 1 THEN d ELSE Empty]
  BY DEF Init
<1>2. IsDatabase(d)
  BY EmptyTyped, ReleasesTyped
<1>3. \A i \in Stores : IsDatabase(db[i])
  BY <1>1, <1>2, EmptyTyped
<1>4. locks = 0 /\ committed = 0 /\ lockFile = [h \in Paths |-> 0] /\ run = [p \in Processes |-> Idle]
  BY DEF Init
<1>5. QED
  BY <1>3, <1>4, IdleTyped, BoundsAssumption DEF TypedInv

-----------------------------------------------------------------------------
(* Steps in general.                                                       *)

\* A step of p: what the others know of a store stays true when it records no less.
LEMMA TypedStep ==
  ASSUME OpenInv, TypedInv, NEW p \in Processes,
         \A q \in Processes \ {p} : run'[q] = run[q],
         \A i \in Stores : IsDatabase(db'[i]),
         \A q \in Processes \ {p} : run[q].store # 0 =>
            db[run[q].store].recorded \subseteq db'[run[q].store].recorded,
         locks' \in Nat, locks <= locks', lockFile' \in [Paths -> 0 .. locks'],
         committed' \in 0 .. MaxEvents, IsCommand(run'[p], locks', db')
  PROVE  TypedInv'
<1>1. ASSUME NEW q \in Processes \ {p} PROVE IsCommand(run'[q], locks', db')
  <2>1. IsCommand(run[q], locks, db) /\ run'[q] = run[q] /\ locks \in Nat
    BY DEF TypedInv, OpenInv, Shape
  <2>2. InOrder(run[q], db')
    <3>1. run[q].at = "migrating" => run[q].store # 0
      BY MaxStoresAssumption DEF OpenInv, Fits, Connected, Stores
    <3>2. QED
      BY <2>1, <3>1 DEF IsCommand, InOrder
  <2>3. QED
    BY <2>1, <2>2 DEF IsCommand
<1>2. QED
  BY <1>1 DEF TypedInv

\* A step that changes nothing but what p knows.
LEMMA QuietTyped ==
  ASSUME OpenInv, TypedInv, NEW p \in Processes, UNCHANGED Files,
         \A q \in Processes \ {p} : run'[q] = run[q], IsCommand(run'[p], locks, db)
  PROVE  TypedInv'
<1>1. UNCHANGED <<lockFile, db, locks, committed>>
  BY DEF Files
<1>2. QED
  BY <1>1, TypedStep DEF TypedInv, OpenInv, Shape

\* A step with which p writes to the store it has open.
LEMMA WriteTyped ==
  ASSUME OpenInv, TypedInv, NEW p \in Processes, run[p].store \in Stores,
         \A q \in Processes \ {p} : run'[q] = run[q],
         NEW d, IsDatabase(d), db' = [db EXCEPT ![run[p].store] = d],
         db[run[p].store].recorded \subseteq d.recorded,
         UNCHANGED <<lockFile, locks, committed>>, IsCommand(run'[p], locks, db')
  PROVE  TypedInv'
<1> DEFINE i == run[p].store
<1>1. db'[i] = d /\ \A j \in Stores \ {i} : db'[j] = db[j]
  BY DEF OpenInv, Shape
<1>2. \A q \in Processes : run[q].store # 0 => run[q].store \in Stores
  BY DEF OpenInv, Fits
<1>3. QED
  BY <1>1, <1>2, TypedStep DEF TypedInv, OpenInv, Shape

\* A step with which p ends, or goes on with nothing open, and stores that nobody
\* has open are emptied.
LEMMA LeavingTyped ==
  ASSUME OpenInv, TypedInv, NEW p \in Processes, NEW d, NEW files, NEW runs,
         \A i \in Stores : IsDatabase(d[i]),
         \A i \in Stores : (\E q \in Processes \ {p} : run[q].store = i) =>
                             db[i].recorded \subseteq d[i].recorded,
         \A q \in Processes \ {p} : run'[q] = run[q] /\ runs[q] = run[q],
         db' = Left(d, files, runs), lockFile' \in [Paths -> 0 .. locks], UNCHANGED locks,
         committed' \in 0 .. MaxEvents, IsCommand(run'[p], locks, db')
  PROVE  TypedInv'
<1>1. \A i \in Stores : IsDatabase(db'[i])
  BY EmptyTyped DEF Left
<1>2. ASSUME NEW q \in Processes \ {p}, run[q].store # 0
      PROVE  db[run[q].store].recorded \subseteq db'[run[q].store].recorded
  <2>1. run[q].store \in Stores /\ runs[q].store = run[q].store
    BY <1>2 DEF OpenInv, Fits
  <2>2. db'[run[q].store] = d[run[q].store]
    BY <2>1, LeftIsKept
  <2>3. QED
    BY <2>1, <2>2
<1>3. locks' \in Nat /\ locks <= locks'
  BY DEF OpenInv, Shape
<1>4. QED
  BY <1>1, <1>2, <1>3, TypedStep

LEMMA FinishTyped ==
  ASSUME OpenInv, TypedInv, NEW p \in Processes, NEW d, Finish(p, d),
         \A i \in Stores : IsDatabase(d[i]) /\ db[i].recorded \subseteq d[i].recorded,
         lockFile' \in [Paths -> 0 .. locks], UNCHANGED locks, committed' \in 0 .. MaxEvents
  PROVE  TypedInv'
<1> DEFINE runs == [run EXCEPT ![p] = Idle]
<1>1. run' = runs /\ db' = Left(d, file, runs)
  BY DEF Finish
<1>2. runs[p] = Idle /\ \A q \in Processes \ {p} : runs[q] = run[q]
  BY DEF OpenInv, Shape
<1> HIDE DEF runs
<1>3. run'[p] = Idle /\ \A q \in Processes \ {p} : run'[q] = run[q] /\ runs[q] = run[q]
  BY <1>1, <1>2
<1>4. IsCommand(run'[p], locks, db')
  BY <1>3, IdleTyped DEF OpenInv, Shape
<1>5. QED
  BY <1>1, <1>3, <1>4, LeavingTyped

-----------------------------------------------------------------------------
(* The steps.                                                              *)

\* Steps that change where p is, and what it knows but the versions to do.
LEMMA GotoKeeps ==
  ASSUME NEW p \in Processes, IsRun(run[p]), run = [q \in Processes |-> run[q]],
         NEW point, point # "migrating", Goto(p, point)
  PROVE  /\ \A q \in Processes \ {p} : run'[q] = run[q]
         /\ run'[p].at # "migrating" /\ run'[p].todo = run[p].todo
         /\ run'[p].statement = run[p].statement /\ run'[p].lock = run[p].lock
         /\ run'[p].snapshot = run[p].snapshot
<1>1. /\ run'[p] = [run[p] EXCEPT !.at = point]
      /\ \A q \in Processes \ {p} : run'[q] = run[q]
  BY DEF Goto
<1>2. QED
  BY <1>1 DEF IsRun, RunFields

LEMMA QuietStepsTyped ==
  ASSUME OpenInv, TypedInv, NEW p \in Processes,
         \/ Preflight(p) \/ ReadBinding(p) \/ CheckDestination(p) \/ Snapshot(p)
         \/ CopyStore(p) \/ CheckDrift(p) \/ ReleaseLock(p)
  PROVE  TypedInv'
<1>1. /\ IsRun(run[p]) /\ IsCommand(run[p], locks, db) /\ locks \in Nat
      /\ run = [q \in Processes |-> run[q]]
  BY DEF OpenInv, Shape, TypedInv
<1>2. UNCHANGED Files
  BY DEF Preflight, ReadBinding, CheckDestination, Snapshot, CopyStore, CheckDrift, ReleaseLock
<1>3. /\ \A q \in Processes \ {p} : run'[q] = run[q]
      /\ run'[p].at # "migrating" /\ run'[p].todo = run[p].todo
      /\ run'[p].statement = run[p].statement /\ run'[p].lock \in {run[p].lock, 0}
      /\ \/ run'[p].snapshot = run[p].snapshot
         \/ At(p, "backing up") /\ run'[p].snapshot = db[run[p].store]
  <2>1. CASE Preflight(p) \/ CheckDestination(p) \/ CheckDrift(p)
    <3>1. PICK point \in {"inspected", "checked", "confirmed"} : Goto(p, point)
      BY <2>1 DEF Preflight, CheckDestination, CheckDrift
    <3>2. QED
      BY <1>1, <3>1, GotoKeeps
  <2>2. CASE ReadBinding(p)
    BY <1>1, <2>2 DEF ReadBinding, IsRun, RunFields
  <2>3. CASE Snapshot(p)
    BY <1>1, <2>3 DEF Snapshot, IsRun, RunFields
  <2>4. CASE CopyStore(p) \/ ReleaseLock(p)
    <3>1. PICK point \in {"copied", "released"} :
             run' = [run EXCEPT ![p].at = point, ![p].lock = 0]
      BY <2>4 DEF CopyStore, ReleaseLock
    <3>2. QED
      BY <1>1, <3>1 DEF IsRun, RunFields
  <2>5. QED
    BY <2>1, <2>2, <2>3, <2>4
<1>4. At(p, "backing up") => IsDatabase(db[run[p].store])
  BY DEF At, OpenInv, Fits, Connected, Checked, Working, TypedInv
<1>5. IsCommand(run'[p], locks, db)
  <2>1. run'[p].lock \in 0 .. locks
    <3>1. run[p].lock \in 0 .. locks /\ locks \in Nat
      BY <1>1 DEF IsCommand
    <3>2. 0 \in 0 .. locks
      BY <3>1
    <3>3. run'[p].lock = run[p].lock \/ run'[p].lock = 0
      BY <1>3
    <3>4. QED
      BY <3>1, <3>2, <3>3
  <2>2. IsDatabase(run'[p].snapshot)
    BY <1>1, <1>3, <1>4 DEF IsCommand
  <2>3. InOrder(run'[p], db)
    BY <1>3 DEF InOrder
  <2>4. QED
    BY <1>1, <1>3, <2>1, <2>2, <2>3 DEF IsCommand
<1>6. QED
  BY <1>2, <1>3, <1>5, QuietTyped

LEMMA BeginTyped ==
  ASSUME OpenInv, TypedInv, NEW p \in Processes, NEW command, NEW w, NEW h, Begin(p, command, w, h)
  PROVE  TypedInv'
<1> DEFINE point == IF command = "remove" THEN "closed" ELSE "begun"
           s == [Idle EXCEPT !.at = point, !.command = command, !.writer = w, !.path = h]
<1>1. UNCHANGED Files /\ run' = [run EXCEPT ![p] = s]
  BY DEF Begin
<1>2. run'[p] = s /\ \A q \in Processes \ {p} : run'[q] = run[q]
  BY <1>1 DEF OpenInv, Shape
<1>3. /\ s.at # "migrating" /\ s.todo = Idle.todo /\ s.statement = Idle.statement
      /\ s.lock = Idle.lock /\ s.snapshot = Idle.snapshot
  BY DEF Idle
<1>4. IsCommand(Idle, locks, db)
  BY IdleTyped DEF OpenInv, Shape
<1> HIDE DEF s
<1>5. IsCommand(run'[p], locks, db)
  BY <1>2, <1>3, <1>4 DEF IsCommand, InOrder
<1>6. QED
  BY <1>1, <1>2, <1>5, QuietTyped

\* What is to be done begins after what is on record.
LEMMA ReadVersionsTyped ==
  ASSUME OpenInv, TypedInv, NEW p \in Processes, ReadVersions(p)
  PROVE  TypedInv'
<1> DEFINE d == db[run[p].store]
<1>1. /\ UNCHANGED Files /\ run[p].at = "connected" /\ d.recorded \subseteq Versions
      /\ run' = [run EXCEPT ![p].at = "migrating", ![p].todo = Versions \ d.recorded]
  BY DEF ReadVersions, At
<1>2. /\ IsRun(run[p]) /\ IsCommand(run[p], locks, db) /\ IsDatabase(d)
  BY <1>1 DEF OpenInv, Shape, Fits, Connected, TypedInv
<1>3. /\ \A q \in Processes \ {p} : run'[q] = run[q]
      /\ run'[p].at = "migrating" /\ run'[p].todo = Versions \ d.recorded
      /\ run'[p].statement = run[p].statement /\ run'[p].lock = run[p].lock
      /\ run'[p].snapshot = run[p].snapshot /\ run'[p].store = run[p].store
  <2> HIDE DEF d
  <2>1. QED
    BY <1>1, <1>2 DEF OpenInv, Shape, IsRun, RunFields
<1>4. PICK n \in 0 .. SCHEMA_VERSION + 1 : d.recorded = 1 .. n
  BY <1>2 DEF IsDatabase
<1>5. n <= SCHEMA_VERSION
  <2>1. SCHEMA_VERSION + 1 \notin d.recorded
    BY <1>1, VersionsTyped DEF Versions
  <2>2. QED
    BY <1>4, <2>1, VersionsTyped
<1>6. Versions \ d.recorded = n + 1 .. SCHEMA_VERSION /\ 1 .. (n + 1) - 1 \subseteq d.recorded
  BY <1>4, <1>5, VersionsTyped DEF Versions
<1>7. n + 1 \in 1 .. SCHEMA_VERSION + 1
  BY <1>5, VersionsTyped
<1> HIDE DEF d
<1>8. InOrder(run'[p], db)
  BY <1>3, <1>6, <1>7 DEF InOrder, d
<1>9. IsCommand(run'[p], locks, db)
  BY <1>2, <1>3, <1>8 DEF IsCommand
<1>10. QED
  BY <1>1, <1>3, <1>9, QuietTyped

LEMMA ExecuteStatementTyped ==
  ASSUME OpenInv, TypedInv, NEW p \in Processes, ExecuteStatement(p)
  PROVE  TypedInv'
<1> DEFINE i == run[p].store
           statement == Scripts[Version(p)][run[p].statement]
           d == [db[i] EXCEPT !.objects = Executed(statement, @)]
<1>1. /\ run[p].at = "migrating" /\ run[p].todo # {}
      /\ run[p].statement \in DOMAIN Scripts[Version(p)]
      /\ db' = [db EXCEPT ![i].objects = Executed(statement, @)]
      /\ run' = [run EXCEPT ![p].statement = @ + 1]
      /\ UNCHANGED <<lockFile, locks, committed>>
  BY DEF ExecuteStatement, Migrating, At
<1>2. i \in Stores /\ IsRun(run[p]) /\ IsCommand(run[p], locks, db) /\ IsDatabase(db[i])
  BY <1>1 DEF OpenInv, Shape, Fits, Connected, TypedInv
<1>3. Version(p) \in Versions
  BY <1>1, <1>2, VersionIsToDo DEF IsCommand
<1>4. Executed(statement, db[i].objects) \subseteq Objects
  <2>1. statement.makes \subseteq Objects
    BY <1>1, <1>3, VersionsTyped DEF Objects
  <2>2. db[i].objects \subseteq Objects
    BY <1>2 DEF IsDatabase, Databases
  <2>3. QED
    BY <2>1, <2>2 DEF Executed
<1> HIDE DEF statement
<1>5. IsDatabase(d) /\ d.recorded = db[i].recorded
  BY <1>2, <1>4 DEF IsDatabase, Databases
<1>6. db' = [db EXCEPT ![i] = d]
  BY <1>1, <1>2 DEF OpenInv, Shape
<1>7. /\ \A q \in Processes \ {p} : run'[q] = run[q]
      /\ run'[p].at = run[p].at /\ run'[p].todo = run[p].todo
      /\ run'[p].statement = run[p].statement + 1 /\ run'[p].lock = run[p].lock
      /\ run'[p].snapshot = run[p].snapshot /\ run'[p].store = i
  BY <1>1, <1>2 DEF OpenInv, Shape, IsRun, RunFields
<1> HIDE DEF d
<1>8. db'[i].recorded = db[i].recorded
  BY <1>2, <1>5, <1>6 DEF OpenInv, Shape
<1>9. run'[p].statement \in 1 .. Longest + 1
  BY <1>1, <1>3, <1>7, LongestBounds
<1>10. IsCommand(run'[p], locks, db')
  BY <1>2, <1>7, <1>8, <1>9 DEF IsCommand, InOrder
<1>11. QED
  BY <1>1, <1>2, <1>5, <1>6, <1>7, <1>10, WriteTyped

\* The version recorded is the lowest to be done, and so the next one.
LEMMA RecordVersionTyped ==
  ASSUME OpenInv, TypedInv, NEW p \in Processes, RecordVersion(p)
  PROVE  TypedInv'
<1> DEFINE i == run[p].store
           v == Version(p)
           d == [db[i] EXCEPT !.recorded = @ \cup {v}]
<1>1. /\ run[p].at = "migrating" /\ run[p].todo # {} /\ v \notin db[i].recorded
      /\ db' = [db EXCEPT ![i].recorded = @ \cup {v}]
      /\ run' = [run EXCEPT ![p].todo = @ \ {v}, ![p].statement = 1]
      /\ UNCHANGED <<lockFile, locks, committed>>
  BY DEF RecordVersion, Migrating, At
<1>2. i \in Stores /\ IsRun(run[p]) /\ IsCommand(run[p], locks, db) /\ IsDatabase(db[i])
  BY <1>1 DEF OpenInv, Shape, Fits, Connected, TypedInv
<1>3. PICK k \in 1 .. SCHEMA_VERSION + 1 :
         run[p].todo = k .. SCHEMA_VERSION /\ 1 .. k - 1 \subseteq db[i].recorded
  BY <1>1, <1>2 DEF IsCommand, InOrder
<1>4. v = k /\ k \in Versions /\ k \in Nat
  <2>1. run[p].todo \subseteq Nat /\ k \in run[p].todo /\ k \in Nat
    BY <1>1, <1>3, VersionsTyped
  <2>2. v \in run[p].todo /\ v <= k
    BY <1>1, <2>1, MinIsMember DEF Version
  <2>3. QED
    BY <1>3, <2>1, <2>2, VersionsTyped DEF Versions
<1> HIDE DEF v
<1>5. PICK n \in 0 .. SCHEMA_VERSION + 1 : db[i].recorded = 1 .. n
  BY <1>2 DEF IsDatabase
<1>6. n = k - 1
  <2>1. n \in Nat /\ k \in Nat \ {0} /\ k \notin 1 .. n /\ 1 .. k - 1 \subseteq 1 .. n
    BY <1>1, <1>3, <1>4, <1>5, VersionsTyped DEF Versions
  <2>2. n < k
    BY <2>1
  <2>3. CASE k = 1
    BY <2>1, <2>2, <2>3
  <2>4. CASE k # 1
    <3>1. k - 1 \in 1 .. k - 1
      BY <2>1, <2>4
    <3>2. k - 1 \in 1 .. n
      BY <2>1, <3>1
    <3>3. QED
      BY <2>1, <2>2, <3>2
  <2>5. QED
    BY <2>3, <2>4
<1>7. db[i].recorded \cup {v} = 1 .. k /\ k \in 0 .. SCHEMA_VERSION
  BY <1>4, <1>5, <1>6, VersionsTyped DEF Versions
<1>8. /\ IsDatabase(d) /\ d.recorded = 1 .. k /\ db[i].recorded \subseteq d.recorded
  <2>1. d.recorded = 1 .. k
    BY <1>2, <1>7 DEF IsDatabase, Databases
  <2>2. 1 .. k \subseteq 1 .. SCHEMA_VERSION + 1 /\ k \in 0 .. SCHEMA_VERSION + 1
    BY <1>7, VersionsTyped
  <2>3. d \in Databases
    BY <1>2, <1>7, <2>2 DEF IsDatabase, Databases
  <2>4. QED
    BY <1>7, <2>1, <2>2, <2>3 DEF IsDatabase
<1>9. db' = [db EXCEPT ![i] = d]
  BY <1>1, <1>2 DEF OpenInv, Shape
<1>10. /\ \A q \in Processes \ {p} : run'[q] = run[q]
       /\ run'[p].at = run[p].at /\ run'[p].todo = run[p].todo \ {v}
       /\ run'[p].statement = 1 /\ run'[p].lock = run[p].lock
       /\ run'[p].snapshot = run[p].snapshot /\ run'[p].store = i
  BY <1>1, <1>2 DEF OpenInv, Shape, IsRun, RunFields
<1> HIDE DEF d
<1>11. db'[i].recorded = 1 .. k
  BY <1>2, <1>8, <1>9 DEF OpenInv, Shape
<1>12. InOrder(run'[p], db')
  <2>1. run'[p].todo = k + 1 .. SCHEMA_VERSION
    BY <1>3, <1>4, <1>10, VersionsTyped
  <2>2. k + 1 \in 1 .. SCHEMA_VERSION + 1 /\ (k + 1) - 1 = k
    BY <1>7, VersionsTyped
  <2>3. QED
    BY <1>10, <1>11, <2>1, <2>2 DEF InOrder
<1>13. IsCommand(run'[p], locks, db')
  BY <1>2, <1>10, <1>12, LongestBounds DEF IsCommand
<1>14. QED
  BY <1>1, <1>2, <1>8, <1>9, <1>10, <1>13, WriteTyped

\* A binding is one of a writer and of a path there is.
LEMMA BindTyped ==
  ASSUME OpenInv, TypedInv, NEW p \in Processes, BindWriter(p) \/ BindPath(p)
  PROVE  TypedInv'
<1> DEFINE i == run[p].store
<1>1. run[p].at \in {"read", "bound"} /\ UNCHANGED <<file, lockFile, locks, committed, plan>>
  BY DEF BindWriter, BindPath, At
<1>2. /\ i \in Stores /\ IsRun(run[p]) /\ IsCommand(run[p], locks, db) /\ IsDatabase(db[i])
      /\ run[p].writer \in Writers /\ run[p].path \in Paths
  BY <1>1 DEF OpenInv, Shape, Fits, Connected, Checked, TypedInv
<1>3. /\ \A q \in Processes \ {p} : run'[q] = run[q]
      /\ run'[p].at # "migrating" /\ run'[p].todo = run[p].todo
      /\ run'[p].statement = run[p].statement /\ run'[p].lock = run[p].lock
      /\ run'[p].snapshot = run[p].snapshot
  <2>1. CASE BindWriter(p)
    BY <1>2, <2>1 DEF BindWriter, Goto, OpenInv, Shape, IsRun, RunFields
  <2>2. CASE BindPath(p)
    BY <1>2, <2>2 DEF BindPath, OpenInv, Shape, IsRun, RunFields
  <2>3. QED
    BY <2>1, <2>2
<1>4. ASSUME NEW d PROVE IsCommand(run'[p], locks, d)
  BY <1>2, <1>3 DEF IsCommand, InOrder
<1>5. CASE UNCHANGED db
  BY <1>1, <1>3, <1>4, <1>5, QuietTyped DEF Files
<1>6. CASE db' = [db EXCEPT ![i].writer = run[p].writer]
  <2> DEFINE d == [db[i] EXCEPT !.writer = run[p].writer]
  <2>1. db' = [db EXCEPT ![i] = d]
    BY <1>2, <1>6 DEF OpenInv, Shape
  <2>2. IsDatabase(d) /\ d.recorded = db[i].recorded
    BY <1>2 DEF IsDatabase, Databases
  <2> HIDE DEF d
  <2>3. QED
    BY <1>1, <1>2, <1>3, <1>4, <2>1, <2>2, WriteTyped
<1>7. CASE db' = [db EXCEPT ![i].path = run[p].path]
  <2> DEFINE d == [db[i] EXCEPT !.path = run[p].path]
  <2>1. db' = [db EXCEPT ![i] = d]
    BY <1>2, <1>7 DEF OpenInv, Shape
  <2>2. IsDatabase(d) /\ d.recorded = db[i].recorded
    BY <1>2 DEF IsDatabase, Databases
  <2> HIDE DEF d
  <2>3. QED
    BY <1>1, <1>2, <1>3, <1>4, <2>1, <2>2, WriteTyped
<1>8. QED
  BY <1>5, <1>6, <1>7 DEF BindWriter, BindPath

LEMMA ConnectTyped ==
  ASSUME OpenInv, TypedInv, NEW p \in Processes, Connect(p)
  PROVE  TypedInv'
<1>1. UNCHANGED <<lockFile, locks, committed>>
  BY DEF Connect
<1>2. IsRun(run[p]) /\ IsCommand(run[p], locks, db)
  BY DEF OpenInv, Shape, TypedInv
<1>3. PICK i : run' = [run EXCEPT ![p].at = "connected", ![p].store = i]
  BY DEF Connect
<1>4. /\ \A q \in Processes \ {p} : run'[q] = run[q]
      /\ run'[p].at # "migrating" /\ run'[p].todo = run[p].todo
      /\ run'[p].statement = run[p].statement /\ run'[p].lock = run[p].lock
      /\ run'[p].snapshot = run[p].snapshot
  BY <1>2, <1>3 DEF OpenInv, Shape, IsRun, RunFields
<1>5. IsCommand(run'[p], locks, db')
  BY <1>2, <1>4 DEF IsCommand, InOrder
<1>6. CASE UNCHANGED db
  BY <1>1, <1>4, <1>5, <1>6, TypedStep DEF TypedInv, OpenInv, Shape
<1>7. CASE Unused # {} /\ db' = [db EXCEPT ![Min(Unused)] = Empty]
  <2>1. \A j \in Stores : IsDatabase(db'[j]) /\ (j # Min(Unused) => db'[j] = db[j])
    BY <1>7, EmptyTyped DEF TypedInv, OpenInv, Shape
  <2>2. \A q \in Processes : run[q].store # 0 => run[q].store \in Stores \ {Min(Unused)}
    BY <1>7, UnusedIsFree DEF OpenInv, Fits
  <2>3. QED
    BY <1>1, <1>4, <1>5, <2>1, <2>2, TypedStep DEF TypedInv, OpenInv, Shape
<1>8. QED
  BY <1>6, <1>7 DEF Connect

LEMMA TakeLockTyped ==
  ASSUME OpenInv, TypedInv, NEW p \in Processes, TakeLock(p)
  PROVE  TypedInv'
<1> DEFINE h == run[p].path
           l == IF lockFile[h] = 0 THEN locks + 1 ELSE lockFile[h]
<1>1. /\ run[p].at \in {"open", "checked", "closed"} /\ UNCHANGED <<db, committed>>
      /\ lockFile' = [lockFile EXCEPT ![h] = l] /\ locks' = IF l > locks THEN l ELSE locks
      /\ run' = [run EXCEPT ![p].at = LockedAt(p), ![p].lock = l]
  BY DEF TakeLock
<1>2. /\ IsRun(run[p]) /\ IsCommand(run[p], locks, db) /\ h \in Paths /\ locks \in Nat
      /\ lockFile \in [Paths -> 0 .. locks]
  BY <1>1 DEF OpenInv, Shape, Fits, TypedInv
<1>3. l \in Nat /\ locks' \in Nat /\ locks <= locks' /\ l <= locks'
  BY <1>1, <1>2
<1> HIDE DEF l
<1>4. lockFile' \in [Paths -> 0 .. locks']
  BY <1>1, <1>2, <1>3
<1>5. LockedAt(p) \in {"appending", "backing up", "planning", "removing"}
  BY <1>1 DEF LockedAt, At
<1>6. /\ \A q \in Processes \ {p} : run'[q] = run[q]
      /\ run'[p].at # "migrating" /\ run'[p].todo = run[p].todo
      /\ run'[p].statement = run[p].statement /\ run'[p].lock = l
      /\ run'[p].snapshot = run[p].snapshot
  BY <1>1, <1>2, <1>5 DEF OpenInv, Shape, IsRun, RunFields
<1>7. IsCommand(run'[p], locks', db')
  BY <1>2, <1>3, <1>6 DEF IsCommand, InOrder
<1>8. QED
  BY <1>1, <1>3, <1>4, <1>6, <1>7, TypedStep DEF TypedInv

\* The ends of commands.
LEMMA EndsTyped ==
  ASSUME OpenInv, TypedInv, NEW p \in Processes,
         Exit(p) \/ Commit(p) \/ PlanRemoval(p) \/ UnlinkLock(p)
  PROVE  TypedInv'
<1>1. CASE Exit(p) \/ PlanRemoval(p) \/ UnlinkLock(p)
  <2>1. /\ Finish(p, db) /\ UNCHANGED <<locks, committed>>
        /\ lockFile' \in {lockFile, [lockFile EXCEPT ![run[p].path] = 0]}
    BY <1>1 DEF Exit, PlanRemoval, UnlinkLock
  <2>2. lockFile' \in [Paths -> 0 .. locks]
    BY <2>1 DEF TypedInv, OpenInv, Shape
  <2>3. QED
    BY <2>1, <2>2, FinishTyped DEF TypedInv
<1>2. CASE Commit(p)
  <2> DEFINE i == run[p].store
             d == [db EXCEPT ![i].events = @ \cup {committed + 1}]
  <2>1. /\ run[p].at = "appending" /\ committed < MaxEvents /\ committed' = committed + 1
        /\ Finish(p, d) /\ UNCHANGED <<lockFile, locks>>
    BY <1>2 DEF Commit, At
  <2>2. i \in Stores /\ committed + 1 \in 1 .. MaxEvents
    <3>1. i \in Stores
      BY <2>1 DEF OpenInv, Fits, Connected, Checked, Working
    <3>2. committed \in 0 .. MaxEvents /\ MaxEvents \in Nat
      BY BoundsAssumption DEF TypedInv
    <3>3. committed + 1 \in 1 .. MaxEvents
      BY <2>1, <3>2
    <3>4. QED
      BY <3>1, <3>3
  <2>3. \A j \in Stores : IsDatabase(d[j]) /\ db[j].recorded \subseteq d[j].recorded
    <3>1. \A j \in Stores \ {i} : d[j] = db[j]
      BY DEF OpenInv, Shape
    <3>2. IsDatabase(db[i]) /\ d[i] = [db[i] EXCEPT !.events = @ \cup {committed + 1}]
      BY <2>2 DEF OpenInv, Shape, TypedInv
    <3>3. IsDatabase(d[i]) /\ d[i].recorded = db[i].recorded
      BY <2>2, <3>2 DEF IsDatabase, Databases
    <3> HIDE DEF d
    <3>4. QED
      BY <3>1, <3>3 DEF TypedInv
  <2> HIDE DEF d
  <2>4. committed' \in 0 .. MaxEvents
    BY <2>1, <2>2
  <2>5. QED
    BY <2>1, <2>3, <2>4, FinishTyped DEF TypedInv
<1>3. QED
  BY <1>1, <1>2

LEMMA ReplaceDestinationTyped ==
  ASSUME OpenInv, TypedInv, NEW p \in Processes, ReplaceDestination(p)
  PROVE  TypedInv'
<1> DEFINE j == Min(Unused)
           files == [file EXCEPT ![Retained] = j]
           runs == [run EXCEPT ![p] = Idle]
           d == [db EXCEPT ![j] = run[p].snapshot]
<1>1. /\ Unused # {} /\ run' = runs /\ db' = Left(d, files, runs)
      /\ UNCHANGED <<lockFile, locks, committed>>
  BY DEF ReplaceDestination
<1>2. \A q \in Processes : run[q].store # j
  BY <1>1, UnusedIsFree
<1> HIDE DEF j, files
<1>3. \A i \in Stores : IsDatabase(d[i]) /\ (i # j => d[i] = db[i])
  BY DEF TypedInv, IsCommand, OpenInv, Shape
<1>4. runs[p] = Idle /\ \A q \in Processes \ {p} : runs[q] = run[q]
  BY DEF OpenInv, Shape
<1> HIDE DEF d, runs
<1>5. IsCommand(run'[p], locks, db')
  BY <1>1, <1>4, IdleTyped DEF OpenInv, Shape
<1>6. lockFile' \in [Paths -> 0 .. locks] /\ committed' \in 0 .. MaxEvents
  BY <1>1 DEF TypedInv
<1>7. \A i \in Stores : (\E q \in Processes \ {p} : run[q].store = i) =>
                           db[i].recorded \subseteq d[i].recorded
  BY <1>2, <1>3
<1>8. \A q \in Processes \ {p} : run'[q] = run[q] /\ runs[q] = run[q]
  BY <1>1, <1>4
<1>9. QED
  BY <1>1, <1>3, <1>5, <1>6, <1>7, <1>8, LeavingTyped

LEMMA UnlinkStoreTyped ==
  ASSUME OpenInv, TypedInv, NEW p \in Processes, UnlinkStore(p)
  PROVE  TypedInv'
<1> DEFINE files == [file EXCEPT ![run[p].path] = 0]
<1>1. /\ Goto(p, "unlinked") /\ db' = Left(db, files, run)
      /\ UNCHANGED <<lockFile, locks, committed>>
  BY DEF UnlinkStore
<1> HIDE DEF files
<1>2. IsRun(run[p]) /\ IsCommand(run[p], locks, db)
  BY DEF OpenInv, Shape, TypedInv
<1>3. /\ \A q \in Processes \ {p} : run'[q] = run[q]
      /\ run'[p].at # "migrating" /\ run'[p].todo = run[p].todo
      /\ run'[p].statement = run[p].statement /\ run'[p].lock = run[p].lock
      /\ run'[p].snapshot = run[p].snapshot
  BY <1>1, <1>2 DEF Goto, OpenInv, Shape, IsRun, RunFields
<1>4. IsCommand(run'[p], locks, db')
  BY <1>2, <1>3 DEF IsCommand, InOrder
<1>5. \A i \in Stores : IsDatabase(db[i])
  BY DEF TypedInv
<1>6. lockFile' \in [Paths -> 0 .. locks] /\ committed' \in 0 .. MaxEvents
  BY <1>1 DEF TypedInv
<1>7. QED
  BY <1>1, <1>3, <1>4, <1>5, <1>6, LeavingTyped

LEMMA TypedNext == ASSUME OpenInv, TypedInv, [Next]_vars PROVE TypedInv'
<1>1. CASE UNCHANGED vars
  BY <1>1 DEF vars, TypedInv, IsCommand, InOrder
<1>2. ASSUME NEW p \in Processes, NEW command \in Commands, NEW w \in Writers,
             NEW h \in Paths, Begin(p, command, w, h)
      PROVE  TypedInv'
  BY <1>2, BeginTyped
<1>3. ASSUME NEW p \in Processes, Open(p) PROVE TypedInv'
  BY <1>3, QuietStepsTyped, ConnectTyped, ReadVersionsTyped, ExecuteStatementTyped,
     RecordVersionTyped, BindTyped DEF Open
<1>4. ASSUME NEW p \in Processes, Backup(p) PROVE TypedInv'
  BY <1>4, QuietStepsTyped, ReplaceDestinationTyped DEF Backup
<1>5. ASSUME NEW p \in Processes, RemoveState(p) PROVE TypedInv'
  BY <1>5, QuietStepsTyped, UnlinkStoreTyped, EndsTyped DEF RemoveState
<1>6. ASSUME NEW p \in Processes, TakeLock(p) \/ Commit(p) \/ PlanRemoval(p) \/ Exit(p)
      PROVE  TypedInv'
  BY <1>6, TakeLockTyped, EndsTyped
<1>7. QED
  BY <1>1, <1>2, <1>3, <1>4, <1>5, <1>6 DEF Next

\* Every variable has its type; and whoever migrates a store at the same time, its
\* versions are on record without a gap (_migrate of store.py).
THEOREM StoreFilesTypeCorrect == Spec => []TypeOK
<1>1. OpenInv /\ TypedInv => TypeOK
  <2> SUFFICES ASSUME OpenInv, TypedInv PROVE TypeOK
    OBVIOUS
  <2>1. \A p \in Processes : run[p].store \in {0} \cup Stores
    BY DEF OpenInv, Fits
  <2>2. \A p \in Processes : /\ run[p].lock \in 0 .. locks /\ run[p].todo \subseteq Versions
                             /\ run[p].statement \in 1 .. Longest + 1
    BY DEF TypedInv, IsCommand
  <2>3. QED
    BY <2>1, <2>2 DEF TypedInv, IsDatabase, OpenInv, Shape, TypeOK, Longest
<1>2. OpenInv /\ TypedInv /\ [Next]_vars => TypedInv'
  BY TypedNext
<1>3. Spec => []TypedInv
  BY <1>2, TypedInit, Invariance, PTL DEF Spec
<1>4. QED
  BY <1>1, <1>3, Invariance, PTL

-----------------------------------------------------------------------------
(* What the module promises.                                               *)

\* However many processes create, migrate, bind, copy, plan and remove the
\* stores at the two paths, and whenever they are stopped: who works on a store
\* works on one that is bound to its writer and to its path and that records the
\* versions of this release (_open, _migrate, _bind_writer and
\* _preflight_existing_store of store.py).
THEOREM OpenIsExclusiveAlways == Spec => []OpenIsExclusive
<1>1. OpenInv => OpenIsExclusive
  BY DEF OpenInv, OpenIsExclusive, Fits, Working, Checked
<1>2. QED
  BY Invariance, <1>1, PTL

\* No step but the last unlinking of a removal takes a store from its path.
LEMMA OnlyRemovalDeletes ==
  ASSUME OpenInv, [Next]_vars, NEW h \in Paths, file[h] # 0, file'[h] = 0
  PROVE  \E p \in Processes : UnlinkStore(p)
<1>1. file' # file
  OBVIOUS
<1>2. ~\E p \in Processes : Connect(p) \/ ReplaceDestination(p)
  <2> SUFFICES ASSUME NEW p \in Processes, Connect(p) \/ ReplaceDestination(p) PROVE FALSE
    OBVIOUS
  <2>1. PICK g : Unused # {} /\ file' = [file EXCEPT ![g] = Min(Unused)]
    BY <1>1 DEF Connect, ReplaceDestination
  <2>2. file'[h] \in {file[h], Min(Unused)}
    BY <2>1 DEF OpenInv, Shape
  <2>3. QED
    BY <2>1, <2>2, UnusedIsFree
<1>3. \A p \in Processes, command \in Commands, w \in Writers, g \in Paths :
         ~Begin(p, command, w, g)
  BY <1>1 DEF Begin, Files
<1>4. ASSUME NEW p \in Processes, Open(p)
      PROVE  FALSE
  BY <1>1, <1>2, <1>4 DEF Open, Files, Preflight, ReadVersions, ExecuteStatement, RecordVersion,
       ReadBinding, BindWriter, BindPath
<1>5. ASSUME NEW p \in Processes, Backup(p)
      PROVE  FALSE
  BY <1>1, <1>2, <1>5 DEF Backup, Files, CheckDestination, Snapshot, CopyStore
<1>6. ASSUME NEW p \in Processes, RemoveState(p)
      PROVE  UnlinkStore(p)
  BY <1>1, <1>6 DEF RemoveState, Files, CheckDrift, ReleaseLock, UnlinkLock
<1>7. ASSUME NEW p \in Processes, TakeLock(p) \/ Commit(p) \/ PlanRemoval(p) \/ Exit(p)
      PROVE  FALSE
  BY <1>1, <1>7 DEF Files, TakeLock, Commit, PlanRemoval, Exit
<1>8. QED
  BY <1>1, <1>3, <1>4, <1>5, <1>6, <1>7 DEF Next, vars

\* A store leaves its path only by a confirmed removal, and then it holds the
\* events its plan has seen, all of them and no others (remove_deployment_state
\* of deployment.py), whatever was committed, restored or created since the plan.
THEOREM RemovalDeletesOnlyPlannedAlways == Spec => RemovalDeletesOnlyPlanned
<1> DEFINE Planned == \A h \in Paths : file[h] # 0 /\ file'[h] = 0 =>
                         db[file[h]].events = UNION {d.events : d \in plan.content}
<1>1. OpenInv /\ RemovalInv /\ [Next]_vars => [Planned]_vars
  <2> SUFFICES ASSUME OpenInv, RemovalInv, [Next]_vars, NEW h \in Paths,
                      file[h] # 0, file'[h] = 0
               PROVE  db[file[h]].events = UNION {d.events : d \in plan.content}
    OBVIOUS
  <2>1. PICK p \in Processes : UnlinkStore(p)
    BY OnlyRemovalDeletes
  <2>2. run[p].at = "confirmed" /\ file' = [file EXCEPT ![run[p].path] = 0]
    BY <2>1 DEF UnlinkStore, At
  <2>3. run[p].path = Active
    BY <2>2 DEF RemovalInv, OneRemover, Removing
  <2>4. h = Active
    BY <2>2, <2>3 DEF OpenInv, Shape
  <2>5. QED
    BY <2>2, <2>4 DEF RemovalInv, ConfirmedIsPlanned, PlannedEvents, At
<1>2. QED
  BY Invariance, <1>1, PTL DEF Spec, RemovalDeletesOnlyPlanned
=============================================================================
