-------------------------- MODULE GitDbtMigration --------------------------
(***************************************************************************)
(* The Git/dbt adapter and its workflow (git_dbt.py, git_dbt_workflow.py): *)
(* campaigns that change one file each in one clone of a repository, and   *)
(* can restore it.  An apply, a validation and a compensation run Git      *)
(* command by command; each may be refused or die between any two of them, *)
(* and the owner of the repository works in the clone meanwhile.  Store    *)
(* calls are atomic here: their interleavings are the subject of           *)
(* CampaignStore.                                                          *)
(***************************************************************************)
EXTENDS Naturals, Sequences, FiniteSets

CONSTANTS Campaigns,   \* campaigns that share the clone
          Files,       \* the dbt models of the repository
          target,      \* the file each campaign is to change: its native identity
          NoCampaign,
          Processes,   \* processes that run adapter commands
          MaxCommits,  \* bound on the commits made
          MaxEdits     \* bound on those of the owner

ASSUME NoCampaignAssumption == NoCampaign \notin Campaigns
ASSUME TargetAssumption == target \in [Campaigns -> Files]
ASSUME MaxCommitsAssumption == MaxCommits \in Nat \ {0}
ASSUME MaxEditsAssumption == MaxEdits \in Nat

\* What a file says: the field its model reads ("conflict": Git left markers),
\* and whether the owner edited anything else in it.
Contents == [token : {"legacy", "replacement", "conflict"}, edited : BOOLEAN]
Trees == [Files -> Contents]
Original == [token |-> "legacy", edited |-> FALSE]

\* A branch of campaign c is named after c, and a reapply branch after the
\* source commit too (0 in the first).
Commits == 1 .. MaxCommits
Main == <<NoCampaign, 0>>
Branches == {Main} \cup Campaigns \X (0 .. MaxCommits)

\* A plan binds the source commit, the branch to create and the file as it is.
Plans == [source : Commits, branch : Branches, before : Contents]
NoPlan == [source |-> 0, branch |-> Main, before |-> Original]
Records == [plan : Plans, commit : Commits]
NoRecord == [plan |-> NoPlan, commit |-> 0]

Dispositions == {"IDENTIFIED", "CHANGE_PROPOSED", "APPLIED", "VALIDATED", "STALE", "FAILED"}

\* Where a command is: `record` is the apply record it holds, `seen` whether it
\* found the consumer applied, `read` what it found in the file.
Points == {"idle",
           "checking", "switching", "reading", "writing", "committing",
           "verifying", "recording",
           "validating",
           "reverting", "revert-committing", "restored", "stale-recording"}
Idle == [at |-> "idle", c |-> NoCampaign, plan |-> NoPlan, record |-> NoRecord,
         seen |-> FALSE, read |-> Original]

VARIABLES
  claim,     \* the campaign that claimed each native identity
  \* The campaigns: projection and artifacts.
  state,     \* INVENTORIED or MIGRATING
  disp,      \* disposition of the campaign's consumer
  bound,     \* the plan the projection binds to it
  approved,  \* plans with an approval on record
  keys,      \* event keys of the plans proposed and of the changes applied
  preflight, \* preflight.json: the source commit, 0 if there is none
  planned,   \* plan.json
  applied,   \* apply.json
  \* The repository.
  history,   \* commits: [tree, by]
  tips,      \* the commit of each branch, 0 if there is no such branch
  branch,    \* the branch checked out
  worktree,
  \* The commands that run.
  proc

campaign == <<state, disp, bound, approved, keys, preflight, planned, applied>>
repository == <<history, tips, branch, worktree>>
vars == <<claim, campaign, repository, proc>>

head == tips[branch]
Tree(n) == history[n].tree
Dirty == {f \in Files : worktree[f] # Tree(head)[f]}
Diff(m, n) == {f \in Files : Tree(m)[f] # Tree(n)[f]}
After(q) == [q.before EXCEPT !.token = "replacement"]

Init ==
  /\ claim = [f \in Files |-> NoCampaign]
  /\ state = [c \in Campaigns |-> "INVENTORIED"]
  /\ disp = [c \in Campaigns |-> "IDENTIFIED"]
  /\ bound = [c \in Campaigns |-> NoPlan]
  /\ approved = [c \in Campaigns |-> {}]
  /\ keys = [c \in Campaigns |-> {}]
  /\ preflight = [c \in Campaigns |-> 0]
  /\ planned = [c \in Campaigns |-> NoPlan]
  /\ applied = [c \in Campaigns |-> NoRecord]
  /\ history = <<[tree |-> [f \in Files |-> Original], by |-> NoCampaign]>>
  /\ tips = [b \in Branches |-> IF b = Main THEN 1 ELSE 0]
  /\ branch = Main
  /\ worktree = Tree(1)
  /\ proc = [w \in Processes |-> Idle]

At(w, point) == proc[w].at = point
Goto(w, point) == proc' = [proc EXCEPT ![w].at = point]
Stop(w) == proc' = [proc EXCEPT ![w] = Idle]

-----------------------------------------------------------------------------
(* Git.                                                                    *)

\* `git commit -- f`: what the worktree says of f, on the branch checked out.
GitCommit(f, who) ==
  /\ Len(history) < MaxCommits
  /\ history' = Append(history, [tree |-> [Tree(head) EXCEPT ![f] = worktree'[f]],
                                 by |-> who])
  /\ tips' = [tips EXCEPT ![branch] = Len(history) + 1]
  /\ UNCHANGED branch

\* `git switch` in a clean worktree.
GitSwitch(b) ==
  /\ branch' = b
  /\ worktree' = Tree(tips[b])
  /\ UNCHANGED <<history, tips>>

-----------------------------------------------------------------------------
(* The owner edits and commits a model, at any moment.                     *)

OwnerCommits(f) ==
  /\ Dirty = {} /\ ~worktree[f].edited
  /\ Cardinality({n \in DOMAIN history : history[n].by = NoCampaign}) <= MaxEdits
  /\ worktree' = [worktree EXCEPT ![f].edited = TRUE]
  /\ GitCommit(f, NoCampaign)
  /\ UNCHANGED <<claim, campaign, proc>>

\* The owner may return to the default branch at any moment; a bound: to another
\* branch only between commands.
OwnerSwitches(b) ==
  /\ Dirty = {} /\ b # branch /\ tips[b] # 0
  /\ b = Main \/ \A w \in Processes : At(w, "idle")
  /\ GitSwitch(b)
  /\ UNCHANGED <<claim, campaign, proc>>

-----------------------------------------------------------------------------
(* Preflight, plan and approval.                                           *)

\* Evidence joins a campaign that is not migrating: preflight.json is written,
\* then the new baseline forgets the consumer's plan (the command may die in
\* between).  One preflight is made of each source commit, so that the plans of
\* different preflights differ, as their digests do.
Preflight(c) ==
  /\ state[c] = "INVENTORIED"
  /\ branch = Main /\ Dirty = {}
  /\ preflight[c] # head
  /\ preflight' = [preflight EXCEPT ![c] = head]
  /\ \/ /\ disp' = [disp EXCEPT ![c] = "IDENTIFIED"]
        /\ bound' = [bound EXCEPT ![c] = NoPlan]
     \/ UNCHANGED <<disp, bound>>
  /\ UNCHANGED <<state, approved, keys, planned, applied>>
  /\ UNCHANGED <<claim, repository, proc>>

\* The plan the adapter derives now: always the same from the same commit, until
\* the branch exists that it is to create.
Derived(c) ==
  [source |-> head,
   branch |-> <<c, IF tips[<<c, 0>>] = 0 THEN 0 ELSE head>>,
   before |-> worktree[target[c]]]

\* plan.json is written, then the plan is proposed; the command may die in
\* between, and proposing a plan again under its key appends nothing.
Plan(c) ==
  LET q == Derived(c) IN
  /\ preflight[c] = head /\ branch = Main
  /\ worktree[target[c]].token = "legacy"
  /\ disp[c] \in {"IDENTIFIED", "STALE", "FAILED"}
  /\ planned' = [planned EXCEPT ![c] = q]
  /\ \/ /\ <<"plan", q>> \notin keys[c]
        /\ disp' = [disp EXCEPT ![c] = "CHANGE_PROPOSED"]
        /\ bound' = [bound EXCEPT ![c] = q]
        /\ keys' = [keys EXCEPT ![c] = @ \cup {<<"plan", q>>}]
     \/ UNCHANGED <<disp, bound, keys>>
  /\ UNCHANGED <<state, approved, preflight, applied>>
  /\ UNCHANGED <<claim, repository, proc>>

\* _require_current_plan: the projection binds the plan on disk.
CurrentPlan(c) == planned[c] # NoPlan /\ bound[c] = planned[c]

Authorize(c) ==
  /\ CurrentPlan(c)
  /\ approved' = [approved EXCEPT ![c] = @ \cup {planned[c]}]
  /\ UNCHANGED <<state, disp, bound, keys, preflight, planned, applied>>
  /\ UNCHANGED <<claim, repository, proc>>

\* `campaign evaluate` blocks a migrating campaign and `campaign resume` returns
\* it to its inventory, from where it may be inventoried again.
Reopen(c) ==
  /\ state[c] = "MIGRATING"
  /\ state' = [state EXCEPT ![c] = "INVENTORIED"]
  /\ UNCHANGED <<disp, bound, approved, keys, preflight, planned, applied>>
  /\ UNCHANGED <<claim, repository, proc>>

-----------------------------------------------------------------------------
(* apply.                                                                  *)

\* An adapter command begins with the plan that is current.
Begin(w, c, point, record) ==
  /\ At(w, "idle") /\ CurrentPlan(c)
  /\ proc' = [proc EXCEPT ![w] = [Idle EXCEPT !.at = point, !.c = c,
                                              !.plan = planned[c], !.record = record,
                                              !.seen = disp[c] = "APPLIED"]]

\* Mutation: the claim does not look at who holds the native identity.
ClaimIdentity_Shared(c) ==
  /\ claim' = [claim EXCEPT ![target[c]] = c]
  /\ state' = [state EXCEPT ![c] = "MIGRATING"]

\* A first claim starts the migration; a repeated one does not.
ClaimIdentity(c) ==
  /\ claim[target[c]] \in {NoCampaign, c}
  /\ claim' = [claim EXCEPT ![target[c]] = c]
  /\ state' = [state EXCEPT ![c] = IF claim[target[c]] = c THEN @ ELSE "MIGRATING"]

\* Up to begin_migration_with_claim.
StartApply(w, c) ==
  /\ disp[c] \in {"CHANGE_PROPOSED", "APPLIED"}
  /\ planned[c] \in approved[c]
  /\ ClaimIdentity(c)
  /\ Begin(w, c, "checking", NoRecord)
  /\ UNCHANGED <<disp, bound, approved, keys, preflight, planned, applied>>
  /\ UNCHANGED repository

\* What apply may find when it begins: the apply on record, the source it was
\* planned from, or the branch of an apply that was interrupted.
AppliedStateMatches(c, q) ==
  /\ applied[c].plan = q /\ head = applied[c].commit
  /\ Dirty = {} /\ worktree[target[c]] = After(q)
AtSource(q) == branch = Main /\ head = q.source /\ Dirty = {}
AtTarget(c, q) == branch = q.branch /\ head = q.source /\ Dirty \subseteq {target[c]}

CheckRepository(w) ==
  LET c == proc[w].c  q == proc[w].plan IN
  /\ At(w, "checking")
  /\ IF AppliedStateMatches(c, q)
     THEN proc' = [proc EXCEPT ![w].at = "recording", ![w].record = applied[c]]
     ELSE \/ AtSource(q) /\ Goto(w, "switching")
          \/ AtTarget(c, q) /\ Goto(w, "reading")
  /\ UNCHANGED <<claim, campaign, repository>>

\* Mutation: the branch is switched to before it is made.
CreateBranch_Unborn(w) ==
  /\ At(w, "switching")
  /\ branch' = proc[w].plan.branch
  /\ Goto(w, "reading")
  /\ UNCHANGED <<claim, campaign, history, tips, worktree>>

\* git switch -c
CreateBranch(w) ==
  LET b == proc[w].plan.branch IN
  /\ At(w, "switching")
  /\ tips[b] = 0
  /\ tips' = [tips EXCEPT ![b] = head]
  /\ branch' = b
  /\ Goto(w, "reading")
  /\ UNCHANGED <<claim, campaign, history, worktree>>

\* The file is as planned, or was written by an apply that was interrupted.
ReadFile(w) ==
  LET f == target[proc[w].c]  q == proc[w].plan IN
  /\ At(w, "reading")
  /\ \/ /\ worktree[f] = After(q) /\ Dirty = {f}
        /\ proc' = [proc EXCEPT ![w].at = "committing", ![w].read = worktree[f]]
     \/ /\ worktree[f] = q.before
        /\ proc' = [proc EXCEPT ![w].at = "writing", ![w].read = worktree[f]]
  /\ UNCHANGED <<claim, campaign, repository>>

\* os.replace: whatever the file says by now.
WriteFile(w) ==
  /\ At(w, "writing")
  /\ worktree' = [worktree EXCEPT ![target[proc[w].c]] = After(proc[w].plan)]
  /\ Goto(w, "committing")
  /\ UNCHANGED <<claim, campaign, history, tips, branch>>

CommitChange(w) ==
  LET c == proc[w].c IN
  /\ At(w, "committing")
  /\ Dirty = {target[c]}
  /\ UNCHANGED worktree /\ GitCommit(target[c], c)
  /\ Goto(w, "verifying")
  /\ UNCHANGED <<claim, campaign>>

\* Mutation: the commit at HEAD is recorded unseen.
VerifyChange_Unseen(w) ==
  LET c == proc[w].c  record == [plan |-> proc[w].plan, commit |-> head] IN
  /\ At(w, "verifying")
  /\ applied' = [applied EXCEPT ![c] = record]
  /\ proc' = [proc EXCEPT ![w].at = "recording", ![w].record = record]
  /\ UNCHANGED <<state, disp, bound, approved, keys, preflight, planned>>
  /\ UNCHANGED <<claim, repository>>

\* The commit at HEAD changes the target and nothing else; apply.json says so.
VerifyChange(w) ==
  LET c == proc[w].c  q == proc[w].plan  record == [plan |-> q, commit |-> head] IN
  /\ At(w, "verifying")
  /\ Diff(q.source, head) = {target[c]}
  /\ worktree[target[c]] = After(q)
  /\ applied' = [applied EXCEPT ![c] = record]
  /\ proc' = [proc EXCEPT ![w].at = "recording", ![w].record = record]
  /\ UNCHANGED <<state, disp, bound, approved, keys, preflight, planned>>
  /\ UNCHANGED <<claim, repository>>

\* APPLIED, under a key made from the apply record: once for each.
RecordApplied(w) ==
  LET c == proc[w].c  key == <<"applied", proc[w].record>> IN
  /\ At(w, "recording")
  /\ IF proc[w].seen \/ key \in keys[c]
     THEN UNCHANGED <<disp, keys>>
     ELSE /\ disp[c] = "CHANGE_PROPOSED"
          /\ disp' = [disp EXCEPT ![c] = "APPLIED"]
          /\ keys' = [keys EXCEPT ![c] = @ \cup {key}]
  /\ Stop(w)
  /\ UNCHANGED <<state, bound, approved, preflight, planned, applied>>
  /\ UNCHANGED <<claim, repository>>

-----------------------------------------------------------------------------
(* validate.                                                               *)

\* dbt runs on a copy of whatever is checked out, if that is committed; nothing
\* compares it with the apply record.
StartValidate(w, c) ==
  /\ disp[c] = "APPLIED"
  /\ Dirty = {}
  /\ Begin(w, c, "validating", NoRecord)
  /\ UNCHANGED <<claim, campaign, repository>>

\* dbt rejects the project, or a receipt is emitted for the plan read at the
\* start and the apply record on disk now, and accepted.
RecordValidation(w) ==
  LET c == proc[w].c IN
  /\ At(w, "validating")
  /\ \/ /\ disp[c] \in {"CHANGE_PROPOSED", "APPLIED", "STALE"}
        /\ disp' = [disp EXCEPT ![c] = "FAILED"]
     \/ /\ disp[c] = "APPLIED" /\ bound[c] = proc[w].plan
        /\ disp' = [disp EXCEPT ![c] = "VALIDATED"]
  /\ Stop(w)
  /\ UNCHANGED <<state, bound, approved, keys, preflight, planned, applied>>
  /\ UNCHANGED <<claim, repository>>

-----------------------------------------------------------------------------
(* compensate.                                                             *)

\* The repository is exactly as the apply on record left it.
StartCompensate(w, c) ==
  /\ disp[c] = "APPLIED"
  /\ planned[c] \in approved[c]
  /\ applied[c] # NoRecord
  /\ head = applied[c].commit /\ branch = applied[c].plan.branch /\ Dirty = {}
  /\ worktree[target[c]] = After(planned[c])
  /\ Begin(w, c, "reverting", applied[c])
  /\ UNCHANGED <<claim, campaign, repository>>

\* Mutation: the file is put back as the plan found it.
Revert_Restores(w) ==
  LET f == target[proc[w].c] IN
  /\ At(w, "reverting")
  /\ worktree' = [worktree EXCEPT ![f] = proc[w].plan.before]
  /\ proc' = [proc EXCEPT ![w].at = "revert-committing", ![w].read = worktree[f]]
  /\ UNCHANGED <<claim, campaign, history, tips, branch>>

\* git revert --no-commit merges the reversal into what is committed; where the
\* owner edited meanwhile it may leave a conflict and fail.
Revert(w) ==
  LET f == target[proc[w].c] IN
  /\ At(w, "reverting")
  /\ Dirty = {}
  /\ \/ /\ worktree' = [worktree EXCEPT ![f].token = "legacy"]
        /\ proc' = [proc EXCEPT ![w].at = "revert-committing", ![w].read = worktree[f]]
     \/ /\ head # proc[w].record.commit /\ worktree[f].edited
        /\ worktree' = [worktree EXCEPT ![f].token = "conflict"]
        /\ Stop(w)
  /\ UNCHANGED <<claim, campaign, history, tips, branch>>

CommitRevert(w) ==
  LET c == proc[w].c IN
  /\ At(w, "revert-committing")
  /\ Dirty = {target[c]}
  /\ UNCHANGED worktree /\ GitCommit(target[c], c)
  /\ Goto(w, "restored")
  /\ UNCHANGED <<claim, campaign>>

\* The file is as before, dbt accepts it, and the default branch is checked out.
VerifyRestored(w) ==
  /\ At(w, "restored")
  /\ worktree[target[proc[w].c]] = proc[w].plan.before
  /\ Dirty = {}
  /\ GitSwitch(Main)
  /\ Goto(w, "stale-recording")
  /\ UNCHANGED <<claim, campaign>>

RecordRestored(w) ==
  LET c == proc[w].c IN
  /\ At(w, "stale-recording")
  /\ disp[c] # "STALE"
  /\ disp' = [disp EXCEPT ![c] = "STALE"]
  /\ Stop(w)
  /\ UNCHANGED <<state, bound, approved, keys, preflight, planned, applied>>
  /\ UNCHANGED <<claim, repository>>

-----------------------------------------------------------------------------
\* A check refuses, a command fails, or the process dies: the command ends
\* there, with what it did so far in place.
Abandon(w) ==
  /\ ~At(w, "idle")
  /\ Stop(w)
  /\ UNCHANGED <<claim, campaign, repository>>

CampaignStep(c) == Preflight(c) \/ Plan(c) \/ Authorize(c) \/ Reopen(c)

CommandStarts(w, c) == StartApply(w, c) \/ StartValidate(w, c) \/ StartCompensate(w, c)

CommandStep(w) ==
  \/ CheckRepository(w) \/ CreateBranch(w) \/ ReadFile(w) \/ WriteFile(w)
  \/ CommitChange(w) \/ VerifyChange(w) \/ RecordApplied(w)
  \/ RecordValidation(w)
  \/ Revert(w) \/ CommitRevert(w) \/ VerifyRestored(w) \/ RecordRestored(w)
  \/ Abandon(w)

OwnerStep == (\E f \in Files : OwnerCommits(f)) \/ (\E b \in Branches : OwnerSwitches(b))

Next ==
  \/ \E c \in Campaigns : CampaignStep(c)
  \/ \E w \in Processes : CommandStep(w) \/ \E c \in Campaigns : CommandStarts(w, c)
  \/ OwnerStep

Spec == Init /\ [][Next]_vars

-----------------------------------------------------------------------------
\* The types of the variables, and that what is checked out exists.
TypeOK ==
  /\ claim \in [Files -> Campaigns \cup {NoCampaign}]
  /\ branch \in Branches /\ head \in DOMAIN history
  /\ Len(history) <= MaxCommits
  /\ \A n \in DOMAIN history : history[n].tree \in Trees
  /\ worktree \in Trees
  /\ state \in [Campaigns -> {"INVENTORIED", "MIGRATING"}]
  /\ disp \in [Campaigns -> Dispositions]
  /\ \A c \in Campaigns :
        /\ {bound[c], planned[c]} \subseteq Plans \cup {NoPlan}
        /\ approved[c] \subseteq Plans
        /\ applied[c] \in Records \cup {NoRecord}
  /\ \A w \in Processes : proc[w].at \in Points

\* Campaigns that overlap in a file never both change it, however their applies
\* interleave, die, are refused or are compensated: the first claim decides.
OneCampaignPerFile ==
  \A m, n \in DOMAIN history \ {1} :
     history[m].by # history[n].by /\ NoCampaign \notin {history[m].by, history[n].by}
       => target[history[m].by] # target[history[n].by]

\* An apply record names a commit that differs from the planned source in the
\* target and nothing else, and in the target by the planned token only: also
\* after interruptions, reapplies and commits of the owner in between.
RecordIsExact ==
  \A c \in Campaigns :
     LET r == applied[c] IN
     r # NoRecord =>
        /\ Diff(r.plan.source, r.commit) = {target[c]}
        /\ Tree(r.commit)[target[c]] = After(r.plan)

\* No command commits a file without an edit of the owner that the file had when
\* the command read it to change it or to restore it.
EditsArePreserved ==
  [][\A w \in Processes :
       /\ proc[w].at \in {"committing", "revert-committing"}
       /\ proc'[w].at \in {"verifying", "restored"}
       /\ proc[w].read.edited
       => history'[Len(history')].tree[target[proc[w].c]].edited]_vars
=============================================================================
