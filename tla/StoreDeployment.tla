-------------------------- MODULE StoreDeployment --------------------------
(***************************************************************************)
(* How a campaign store comes to be and goes: opening it (store.py: the    *)
(* preflight, the migrations and the writer binding), backing it up, and   *)
(* planning and carrying out its removal (deployment.py), by processes     *)
(* that share nothing but files.                                           *)
(*                                                                         *)
(* A file is an inode: what is open stays open when its path is unlinked.  *)
(* A command is refused by not going on: a refusal, an SQLite error, a     *)
(* database found busy and a crash all leave the process's files as they   *)
(* are and its flock released, and all of them are Exit.  A table or an    *)
(* index counts by its name, an event by its number.                       *)
(***************************************************************************)
EXTENDS Naturals, FiniteSetsExt, SequencesExt

CONSTANTS Processes, Writers,
          Active, Retained,  \* the path of the deployment, and one for its backups
          None,              \* no writer, no path, no store, no plan
          SCHEMA_VERSION,    \* the version this release migrates to (source: 4)
          MaxStores, MaxLocks, MaxEvents  \* bounds on files and events

ASSUME MaxStoresAssumption == MaxStores \in Nat \ {0}
ASSUME BoundsAssumption == MaxLocks \in Nat /\ MaxEvents \in Nat
ASSUME PathAssumption == Active # Retained /\ None \notin Writers \cup {Active, Retained}

Paths == {Active, Retained}

-----------------------------------------------------------------------------
(* The migrations: what each statement needs, drops and makes.             *)
Table(t) == [needs |-> {}, drops |-> {}, makes |-> {t}]
Index(i, t) == [needs |-> {t}, drops |-> {}, makes |-> {i}]
Drop(o) == [needs |-> {o}, drops |-> {o}, makes |-> {}]
Rename(t, n) == [needs |-> {t}, drops |-> {t}, makes |-> {n}]
CopyRows(t, n) == [needs |-> {t, n}, drops |-> {}, makes |-> {}]

CampaignScript ==
  << Table("campaigns"), Table("campaign_events"), Table("native_identity_claims"),
     Index("campaign_events_digest", "campaign_events"),
     Index("native_identity_claims_campaign", "native_identity_claims") >>

AttemptsScript ==
  << Table("gate_attempts"), Index("gate_attempts_consumed_plan", "gate_attempts"),
     Index("gate_attempts_campaign", "gate_attempts") >>

PlansScript ==
  << Table("gate_plans"), Index("gate_plans_manifest", "gate_plans"),
     Index("gate_attempts_consumed_manifest", "gate_attempts") >>

OutcomesScript ==
  << Drop("gate_attempts_consumed_manifest"), Drop("gate_attempts_consumed_plan"),
     Drop("gate_attempts_campaign"), Rename("gate_attempts", "gate_attempts_v3"),
     Table("gate_attempts"), CopyRows("gate_attempts_v3", "gate_attempts"),
     Drop("gate_attempts_v3"), Index("gate_attempts_consumed_plan", "gate_attempts"),
     Index("gate_attempts_consumed_manifest", "gate_attempts"),
     Index("gate_attempts_campaign", "gate_attempts") >>

Scripts == << CampaignScript, AttemptsScript, PlansScript, OutcomesScript >>
Versions == 1 .. SCHEMA_VERSION

ASSUME VersionAssumption == SCHEMA_VERSION \in DOMAIN Scripts

Executable(s, objects) == s.needs \subseteq objects /\ s.makes \cap objects = {}
Executed(s, objects) == (objects \ s.drops) \cup s.makes

\* Every name a schema can hold on the way, and the schema of version n: what a
\* statement up to that version makes and no later one drops.
Objects == UNION {UNION {Scripts[v][k].makes : k \in DOMAIN Scripts[v]} : v \in DOMAIN Scripts}
Schema(n) ==
  LET statements == FlattenSeq(SubSeq(Scripts, 1, n)) IN
  {o \in Objects : \E k \in DOMAIN statements :
     /\ o \in statements[k].makes
     /\ \A later \in k + 1 .. Len(statements) : o \notin statements[later].drops}

-----------------------------------------------------------------------------
VARIABLES
  file,      \* the store at each path (0: no file)
  lockFile,  \* the lock file next to it (0: no file)
  db,        \* what each store holds: at a path, or unlinked but open
  locks, committed,  \* how many lock files and events there have been
  run,       \* the command of each process: the step it is at, what it has read
  plan       \* the removal plan

vars == <<file, lockFile, db, locks, committed, run, plan>>

Stores == 1 .. MaxStores

Databases ==
  [objects : SUBSET Objects, recorded : SUBSET (1 .. SCHEMA_VERSION + 1),
   writer : Writers \cup {None}, path : Paths \cup {None}, events : SUBSET (1 .. MaxEvents)]
Empty == [objects |-> {}, recorded |-> {}, writer |-> None, path |-> None, events |-> {}]
AtVersion(n, w) ==
  [objects |-> Schema(n), recorded |-> 1 .. n, writer |-> w, path |-> Active, events |-> {}]
Newer(w) == [AtVersion(SCHEMA_VERSION, w) EXCEPT !.recorded = @ \cup {SCHEMA_VERSION + 1}]

Idle == [at |-> "idle", command |-> "operate", writer |-> None, path |-> Active, store |-> 0,
         todo |-> {}, statement |-> 1, read |-> [writer |-> None, path |-> None],
         lock |-> 0, snapshot |-> Empty]

\* No store yet, or one of the release before or of a later one.
Init ==
  /\ \E d \in {Empty} \cup UNION {{AtVersion(SCHEMA_VERSION - 1, w), Newer(w)} : w \in Writers} :
        /\ db = [i \in Stores |-> IF i = 1 THEN d ELSE Empty]
        /\ file = [h \in Paths |-> IF h = Active /\ d # Empty THEN 1 ELSE 0]
  /\ lockFile = [h \in Paths |-> 0]
  /\ locks = 0 /\ committed = 0
  /\ run = [p \in Processes |-> Idle]
  /\ plan = None

At(p, point) == run[p].at = point
Goto(p, point) == run' = [run EXCEPT ![p].at = point]
Files == <<file, lockFile, db, locks, committed, plan>>

\* A store at no path that nobody has open any more is gone.
Used(i, files, runs) == (\E h \in Paths : files[h] = i) \/ \E p \in Processes : runs[p].store = i
Left(d, files, runs) == [i \in Stores |-> IF Used(i, files, runs) THEN d[i] ELSE Empty]
Unused == {i \in Stores : ~Used(i, file, run)}

Finish(p, d) ==
  LET runs == [run EXCEPT ![p] = Idle] IN run' = runs /\ db' = Left(d, file, runs)

-----------------------------------------------------------------------------
(* Opening a store.                                                        *)

\* "operate" stands for every command on an open store; which one it is shows
\* once the store is open.
Commands == {"operate", "plan", "remove"}

\* A removal plan needs the store's file, a removal the plan of this deployment.
\* A removal begins when the operator has stopped all other
\* processes, as D-033 requires; nothing stops others from beginning later.
\* Deployments are at the active path; a backup may be opened by mistake.
Begin(p, command, w, h) ==
  /\ At(p, "idle")
  /\ h = Retained => command = "operate" /\ file[h] # 0
  /\ command = "plan" => file[h] # 0
  /\ command = "remove" =>
        plan # None /\ plan.writer = w /\ \A q \in Processes : At(q, "idle")
  /\ run' = [run EXCEPT ![p] =
               [Idle EXCEPT !.at = IF command = "remove" THEN "closed" ELSE "begun",
                            !.command = command, !.writer = w, !.path = h]]
  /\ UNCHANGED Files

Bound(d, p) == d.writer \in {None, run[p].writer} /\ d.path \in {None, run[p].path}

\* _preflight_existing_store: a store bound elsewhere is not opened.
Preflight(p) ==
  /\ At(p, "begun")
  /\ file[run[p].path] # 0 => Bound(db[file[run[p].path]], p)
  /\ Goto(p, "inspected")
  /\ UNCHANGED Files

\* sqlite3.connect creates the file that is not there.
Connect(p) ==
  /\ At(p, "inspected")
  /\ LET h == run[p].path
     IN  IF file[h] # 0
         THEN /\ run' = [run EXCEPT ![p].at = "connected", ![p].store = file[h]]
              /\ UNCHANGED <<file, db>>
         ELSE /\ Unused # {}
              /\ file' = [file EXCEPT ![h] = Min(Unused)]
              /\ run' = [run EXCEPT ![p].at = "connected", ![p].store = Min(Unused)]
              /\ db' = [db EXCEPT ![Min(Unused)] = Empty]
  /\ UNCHANGED <<lockFile, locks, committed, plan>>

\* What is to be done is settled here, for all the scripts.
ReadVersions(p) ==
  /\ At(p, "connected")
  /\ db[run[p].store].recorded \subseteq Versions
  /\ run' = [run EXCEPT ![p].at = "migrating",
                        ![p].todo = Versions \ db[run[p].store].recorded]
  /\ UNCHANGED Files

\* executescript commits what is pending and leaves each statement to itself.
Migrating(p) == At(p, "migrating") /\ run[p].todo # {}

\* Mutation: the scripts run from the last to the first.
Version_Last(p) == Max(run[p].todo)

Version(p) == Min(run[p].todo)

ExecuteStatement(p) ==
  /\ Migrating(p) /\ run[p].statement \in DOMAIN Scripts[Version(p)]
  /\ LET s == Scripts[Version(p)][run[p].statement]
         i == run[p].store
     IN  /\ Executable(s, db[i].objects)
         /\ db' = [db EXCEPT ![i].objects = Executed(s, @)]
  /\ run' = [run EXCEPT ![p].statement = @ + 1]
  /\ UNCHANGED <<file, lockFile, locks, committed, plan>>

\* The version is a primary key.
RecordVersion(p) ==
  /\ Migrating(p) /\ run[p].statement \notin DOMAIN Scripts[Version(p)]
  /\ Version(p) \notin db[run[p].store].recorded
  /\ db' = [db EXCEPT ![run[p].store].recorded = @ \cup {Version(p)}]
  /\ run' = [run EXCEPT ![p].todo = @ \ {Version(p)}, ![p].statement = 1]
  /\ UNCHANGED <<file, lockFile, locks, committed, plan>>

ReadBinding(p) ==
  /\ At(p, "migrating") /\ run[p].todo = {}
  /\ LET d == db[run[p].store]
     IN  run' = [run EXCEPT ![p].at = "read", ![p].read = [writer |-> d.writer, path |-> d.path]]
  /\ UNCHANGED Files

\* Mutation: the binding is written with INSERT OR REPLACE.
BindWriter_Replaces(p) ==
  /\ At(p, "read")
  /\ run[p].read.writer \in {None, run[p].writer}
  /\ db' = [db EXCEPT ![run[p].store].writer = run[p].writer]
  /\ Goto(p, "bound")
  /\ UNCHANGED <<file, lockFile, locks, committed, plan>>

\* _bind_writer: what was read unbound is inserted, under a primary key.
BindWriter(p) ==
  /\ At(p, "read")
  /\ \/ /\ run[p].read.writer = None
        /\ db[run[p].store].writer = None
        /\ db' = [db EXCEPT ![run[p].store].writer = run[p].writer]
     \/ /\ run[p].read.writer = run[p].writer
        /\ UNCHANGED db
  /\ Goto(p, "bound")
  /\ UNCHANGED <<file, lockFile, locks, committed, plan>>

\* The store of a removal plan is closed again before its files are read.
BindPath(p) ==
  /\ At(p, "bound")
  /\ \/ /\ run[p].read.path = None
        /\ db[run[p].store].path = None
        /\ db' = [db EXCEPT ![run[p].store].path = run[p].path]
     \/ /\ run[p].read.path = run[p].path
        /\ UNCHANGED db
  /\ run' = [run EXCEPT ![p].at = IF run[p].command = "plan" THEN "closed" ELSE "open",
                        ![p].read = Idle.read,
                        ![p].store = IF run[p].command = "plan" THEN 0 ELSE @]
  /\ UNCHANGED <<file, lockFile, locks, committed, plan>>

-----------------------------------------------------------------------------
(* The commands.                                                           *)

\* The command ends: done, refused, out of luck or killed.
Exit(p) == ~At(p, "idle") /\ Finish(p, db) /\ UNCHANGED <<file, lockFile, locks, committed, plan>>

\* Whoever needs the lock opens the lock file of its path, creating it if it is
\* not there, and tries to lock what it opened.
LockedAt(p) ==
  CASE At(p, "open") -> "appending"
    [] At(p, "checked") -> "backing up"
    [] At(p, "closed") -> IF run[p].command = "plan" THEN "planning" ELSE "removing"

TakeLock(p) ==
  /\ run[p].at \in {"open", "checked", "closed"}
  /\ LET h == run[p].path
         l == IF lockFile[h] = 0 THEN locks + 1 ELSE lockFile[h]
     IN  /\ l <= MaxLocks
         /\ \A q \in Processes : run[q].lock # l
         /\ lockFile' = [lockFile EXCEPT ![h] = l]
         /\ locks' = IF l > locks THEN l ELSE locks
         /\ run' = [run EXCEPT ![p].at = LockedAt(p), ![p].lock = l]
  /\ UNCHANGED <<file, db, committed, plan>>

Commit(p) ==
  /\ At(p, "appending")
  /\ committed < MaxEvents
  /\ committed' = committed + 1
  /\ Finish(p, [db EXCEPT ![run[p].store].events = @ \cup {committed + 1}])
  /\ UNCHANGED <<file, lockFile, locks, plan>>

\* backup_to: nothing is at the destination,
CheckDestination(p) ==
  /\ At(p, "open") /\ run[p].path = Active
  /\ file[Retained] = 0
  /\ Goto(p, "checked")
  /\ UNCHANGED Files

\* the store is read under the lock,
Snapshot(p) ==
  /\ At(p, "backing up")
  /\ run' = [run EXCEPT ![p].at = "read state", ![p].snapshot = db[run[p].store]]
  /\ UNCHANGED Files

\* copied before the lock is released,
CopyStore(p) ==
  /\ At(p, "read state")
  /\ db[run[p].store] = run[p].snapshot
  /\ run' = [run EXCEPT ![p].at = "copied", ![p].lock = 0]
  /\ UNCHANGED Files

\* and moved to the destination, over whatever is there by now.
ReplaceDestination(p) ==
  /\ At(p, "copied") /\ Unused # {}
  /\ LET files == [file EXCEPT ![Retained] = Min(Unused)]
         runs == [run EXCEPT ![p] = Idle]
     IN  /\ file' = files /\ run' = runs
         /\ db' = Left([db EXCEPT ![Min(Unused)] = run[p].snapshot], files, runs)
  /\ UNCHANGED <<lockFile, locks, committed, plan>>

\* _state_snapshot: what the files at the path hold, as a set that is empty where
\* there is no file.
Content(h) == {db[i] : i \in {file[h]} \ {0}}

\* One plan is made (a bound).
PlanRemoval(p) ==
  /\ At(p, "planning") /\ plan = None
  /\ plan' = [writer |-> run[p].writer, content |-> Content(run[p].path)]
  /\ Finish(p, db)
  /\ UNCHANGED <<file, lockFile, locks, committed>>

\* Mutation: the confirmed plan is carried out on whatever is there.
Unchanged_Assumed(h) == TRUE

Unchanged(h) == Content(h) = plan.content

CheckDrift(p) ==
  /\ At(p, "removing") /\ Unchanged(run[p].path)
  /\ Goto(p, "confirmed")
  /\ UNCHANGED Files

UnlinkStore(p) ==
  /\ At(p, "confirmed")
  /\ file' = [file EXCEPT ![run[p].path] = 0]
  /\ Goto(p, "unlinked")
  /\ db' = Left(db, [file EXCEPT ![run[p].path] = 0], run)
  /\ UNCHANGED <<lockFile, locks, committed, plan>>

ReleaseLock(p) ==
  /\ At(p, "unlinked")
  /\ run' = [run EXCEPT ![p].at = "released", ![p].lock = 0]
  /\ UNCHANGED Files

\* The lock file goes last, when the lock is no longer held.
UnlinkLock(p) ==
  /\ At(p, "released")
  /\ lockFile' = [lockFile EXCEPT ![run[p].path] = 0]
  /\ Finish(p, db)
  /\ UNCHANGED <<file, locks, committed, plan>>

Open(p) ==
  Preflight(p) \/ Connect(p) \/ ReadVersions(p) \/ ExecuteStatement(p) \/ RecordVersion(p)
  \/ ReadBinding(p) \/ BindWriter(p) \/ BindPath(p)
Backup(p) == CheckDestination(p) \/ Snapshot(p) \/ CopyStore(p) \/ ReplaceDestination(p)
RemoveState(p) == CheckDrift(p) \/ UnlinkStore(p) \/ ReleaseLock(p) \/ UnlinkLock(p)

Next ==
  \E p \in Processes :
     \/ \E command \in Commands, w \in Writers, h \in Paths : Begin(p, command, w, h)
     \/ Open(p) \/ TakeLock(p) \/ Commit(p) \/ Backup(p) \/ PlanRemoval(p) \/ RemoveState(p)
     \/ Exit(p)

Spec == Init /\ [][Next]_vars

-----------------------------------------------------------------------------
\* Every store, bound or not, holds known tables and a run of versions recorded
\* in order; what a command has open or locked was created.
TypeOK ==
  /\ \A i \in Stores :
        /\ db[i] \in Databases
        /\ \E n \in 0 .. SCHEMA_VERSION + 1 : db[i].recorded = 1 .. n
  /\ file \in [Paths -> {0} \cup Stores]
  /\ lockFile \in [Paths -> 0 .. locks]
  /\ \A p \in Processes :
        /\ run[p].store \in {0} \cup Stores
        /\ run[p].lock \in 0 .. locks
        /\ run[p].todo \subseteq Versions
        /\ run[p].statement \in 1 .. Max({Len(Scripts[v]) : v \in Versions}) + 1

\* However many processes race to create, migrate and bind a store, and
\* wherever a copy of it is opened, who gets as far as working on a store is the
\* writer that it is bound to, at the path that it is bound to, with every
\* version of this runtime and no later one recorded: a store is only ever
\* worked on by one writer.
OpenIsExclusive ==
  \A p \in Processes :
     run[p].at \in {"open", "checked", "appending", "backing up", "read state"} =>
        /\ db[run[p].store].writer = run[p].writer
        /\ db[run[p].store].path = run[p].path
        /\ db[run[p].store].recorded = Versions

\* A removal deletes the events that its plan has seen and no other:
\* whatever was committed, restored or created at the path since the plan makes
\* it refuse, also when an earlier removal under the same plan was cut short,
\* and nothing is committed between its last look and the deletion.
RemovalDeletesOnlyPlanned ==
  [][\A h \in Paths : file[h] # 0 /\ file'[h] = 0 =>
        db[file[h]].events = UNION {d.events : d \in plan.content}]_vars

\* "The runtime applies numbered SQLite migrations transactionally in order"
\* (docs/runbooks/RECOVERY.md:108): while nobody is migrating, a store holds the
\* tables and indexes of the versions it records, and no others.
MigrationsAreTransactional ==
  (\A p \in Processes : ~At(p, "migrating")) =>
     \A i \in Stores : db[i].objects = Schema(Cardinality(db[i].recorded \cap Versions))
=============================================================================
