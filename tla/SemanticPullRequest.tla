------------------------ MODULE SemanticPullRequest ------------------------
(***************************************************************************)
(* The GitHub boundary of one approved semantic plan (github_pr.py) and    *)
(* the tests it commits (semantic_validation.py): write the generated      *)
(* tests, commit them with the migrated model, push without force, open or *)
(* reuse one pull request, capture the CI check of its head and emit a     *)
(* receipt.                                                                *)
(*                                                                         *)
(* The owner edits, commits and pushes meanwhile, and may close the pull   *)
(* request; a push or a request to create may be refused, lost after it    *)
(* took effect, or land after it timed out; CI reports when it likes.      *)
(* What one operation returns another takes: any record made so far.       *)
(***************************************************************************)
EXTENDS Naturals, Sequences, FiniteSets, SequencesExt

CONSTANTS Tests,       \* the generated targets of the plan
          Model,       \* the consumer's native target
          Other,       \* a path the plan does not name
          Processes,
          MaxCommits, MaxChecks,
          MaxFaults    \* bound on crashes, lost or late requests and what the owner
                       \*   does, taken together

ASSUME PathsAssumption == Model \notin Tests /\ Other \notin Tests \cup {Model}
ASSUME BoundsAssumption == {MaxChecks, MaxFaults} \subseteq Nat /\ MaxCommits \in Nat \ {0}

\* approved_targets, and every path a diff may name.
Approved == Tests \cup {Model}
Paths == Approved \cup {Other}
\* A file as at source_version (a test: absent), as reviewed, or otherwise.
Trees == [Paths -> {"base", "reviewed", "edited"}]
NoCommit == 0
Commits == [parent : 0 .. MaxCommits, tree : Trees]

VARIABLES
  commits,    \* the commits there are: the first is what Git/dbt applied
  head, work, \* the clone: its HEAD, on the target branch, and its worktree
  remote,     \* GitHub: the target branch, or NoCommit
  prs,        \* the pull requests that carry the plan's marker
  checks,     \* the check runs of the required name, as their ids grow
  late,       \* requests that timed out and may still take effect
  approval,   \* "none", "valid" or "expired"
  made, opened, passed, bound, receipts,  \* records returned: of commits, pull
              \*   requests, CI and native validation; and receipts
  run,        \* the operation each process is in
  faults      \* how many remain

clone == <<head, work>>
github == <<remote, prs, checks, late>>
records == <<made, opened, passed, bound, receipts>>
vars == <<commits, clone, github, approval, records, run, faults>>

Idle == [at |-> "idle", todo |-> <<>>, commit |-> NoCommit, pr |-> 0, check |-> 0]
Points == {"idle", "writing", "committing", "verifying", "pushing",
           "listing", "creating", "relisting", "viewing", "fetching", "confirming"}

Reviewed(targets) == [t \in Paths |-> IF t \in targets THEN "reviewed" ELSE "base"]

Init ==
  /\ commits = <<[parent |-> NoCommit, tree |-> Reviewed({Model})]>>
  /\ head = 1 /\ work = commits[1].tree
  /\ remote = NoCommit /\ prs = <<>> /\ checks = <<>> /\ late = {}
  /\ approval = "none"
  /\ made = {} /\ opened = {} /\ passed = {} /\ bound = {} /\ receipts = {}
  /\ run = [w \in Processes |-> Idle]
  /\ faults = MaxFaults

Tree(c) == commits[c].tree
\* git diff --name-only source_version..c, and the paths git status names.
Changed(c) == {t \in Paths : Tree(c)[t] # "base"}
Dirty == {t \in Paths : work[t] # Tree(head)[t]}

Ancestors[c \in {NoCommit} \cup DOMAIN commits] ==
  IF c = NoCommit THEN {NoCommit} ELSE {c} \cup Ancestors[commits[c].parent]

At(w, point) == run[w].at = point
Goto(w, point) == run' = [run EXCEPT ![w].at = point]
Stop(w) == run' = [run EXCEPT ![w] = Idle]
\* A check that fails ends the operation in a refusal.
GotoIf(cond, w, point) == IF cond THEN Goto(w, point) ELSE Stop(w)
Fault == faults > 0 /\ faults' = faults - 1
Begin(w, point, c) ==
  /\ At(w, "idle") /\ approval = "valid"
  /\ run' = [run EXCEPT ![w] = [Idle EXCEPT !.at = point, !.commit = c]]

-----------------------------------------------------------------------------
(* The tests and the commit.                                               *)

\* materialize_semantic_tests.
StartMaterialize(w) ==
  /\ At(w, "idle") /\ approval = "valid"
  /\ run' = [run EXCEPT ![w] = [Idle EXCEPT !.at = "writing", !.todo = SetToSeq(Tests)]]
  /\ UNCHANGED <<commits, clone, github, approval, records, faults>>

\* One test after the other; one that exists already is refused.
WriteTest(w) ==
  LET t == Head(run[w].todo) IN
  /\ At(w, "writing")
  /\ IF work[t] = "base"
     THEN /\ work' = [work EXCEPT ![t] = "reviewed"]
          /\ run' = [run EXCEPT ![w] = IF Len(@.todo) = 1 THEN Idle
                                       ELSE [@ EXCEPT !.todo = Tail(@)]]
     ELSE Stop(w) /\ UNCHANGED work
  /\ UNCHANGED <<commits, head, github, approval, records, faults>>

\* commit_approved_changes: the paths changed are those approved,
CheckChangeSet(w) ==
  /\ Changed(head) \cup Dirty = Approved
  /\ Begin(w, "committing", NoCommit)
  /\ UNCHANGED <<commits, clone, github, approval, records, faults>>

\* which are committed as they are in the worktree.  At the bound the commit fails.
CommitTargets(w) ==
  LET tree == [t \in Paths |-> IF t \in Approved THEN work[t] ELSE Tree(head)[t]] IN
  /\ At(w, "committing")
  /\ IF tree = Tree(head) THEN Goto(w, "verifying") /\ UNCHANGED <<commits, head>>
     ELSE IF Len(commits) = MaxCommits THEN Stop(w) /\ UNCHANGED <<commits, head>>
     ELSE /\ commits' = Append(commits, [parent |-> head, tree |-> tree])
          /\ head' = Len(commits')
          /\ Goto(w, "verifying")
  /\ UNCHANGED <<work, github, approval, records, faults>>

VerifyCommit(w) ==
  /\ At(w, "verifying")
  /\ made' = IF Dirty = {} /\ Changed(head) = Approved THEN made \cup {head} ELSE made
  /\ Stop(w)
  /\ UNCHANGED <<commits, clone, github, approval, opened, passed, bound, receipts, faults>>

-----------------------------------------------------------------------------
(* push.  What it answers is read back and decides nothing later.          *)

StartPush(w, c) ==
  /\ c \in made /\ head = c /\ remote # c
  /\ Begin(w, "pushing", c)
  /\ UNCHANGED <<commits, clone, github, approval, records, faults>>

\* The branch moves, and with it the pull request that is open.
MoveBranch(c) ==
  /\ remote' = c
  /\ prs' = [n \in DOMAIN prs |-> IF prs[n].open THEN [prs[n] EXCEPT !.head = c] ELSE prs[n]]

\* Mutation: a forced push.
MayPush_Forced(c) == TRUE

\* Without force a branch is only ever moved to a descendant.
MayPush(c) == remote \in Ancestors[c]

\* A request takes effect, answered or not, if it may; it is lost; or it times out
\* and stays under way.
Push(c) == IF MayPush(c) THEN MoveBranch(c) ELSE UNCHANGED <<remote, prs>>

\* git push sends HEAD, whatever it is by now.
SendPush(w) ==
  /\ At(w, "pushing")
  /\ \/ Push(head) /\ UNCHANGED <<late, faults>>
     \/ Fault /\ UNCHANGED <<remote, prs>>
        /\ late' \in {late, late \cup {[op |-> "push", commit |-> head]}}
  /\ Stop(w)
  /\ UNCHANGED <<commits, clone, checks, approval, records>>

-----------------------------------------------------------------------------
(* create_or_reuse_pull_request.                                           *)

StartCreate(w, c) ==
  /\ c \in made /\ remote = c
  /\ Begin(w, "listing", c)
  /\ UNCHANGED <<commits, clone, github, approval, records, faults>>

\* Mutation: pull requests are looked for under another marker.
Listed_None == {}

\* The pull requests of the branch, open or closed, that carry the plan's marker.
Listed == DOMAIN prs

View(w, n) == run' = [run EXCEPT ![w].at = "viewing", ![w].pr = n]

ListPullRequests(w) ==
  /\ At(w, "listing")
  /\ IF Listed = {} THEN Goto(w, "creating")
     ELSE IF Cardinality(Listed) = 1 THEN \E n \in Listed : View(w, n)
     ELSE Stop(w)
  /\ UNCHANGED <<commits, clone, github, approval, records, faults>>

\* GitHub opens no second pull request for a branch.
Create == IF remote # NoCommit /\ \A n \in DOMAIN prs : ~prs[n].open
          THEN prs' = Append(prs, [open |-> TRUE, head |-> remote])
          ELSE UNCHANGED prs

SendCreate(w) ==
  /\ At(w, "creating")
  /\ \/ Create /\ UNCHANGED <<late, faults>>
     \/ Fault /\ UNCHANGED prs
        /\ late' \in {late, late \cup {[op |-> "create", commit |-> NoCommit]}}
  /\ Goto(w, "relisting")
  /\ UNCHANGED <<commits, clone, remote, checks, approval, records>>

\* Whether created, refused or lost: exactly one must be listed now.
RelistPullRequests(w) ==
  /\ At(w, "relisting")
  /\ IF Cardinality(Listed) = 1 THEN \E n \in Listed : View(w, n) ELSE Stop(w)
  /\ UNCHANGED <<commits, clone, github, approval, records, faults>>

\* _verify_pull_request: open, with the paths approved, and, where a commit is
\* given, at that commit.
Verified(n) == prs[n].open /\ Changed(prs[n].head) = Approved
VerifiedAt(n, c) == Verified(n) /\ prs[n].head = c

ViewPullRequest(w) ==
  LET n == run[w].pr  c == run[w].commit IN
  /\ At(w, "viewing")
  /\ opened' = IF VerifiedAt(n, c) THEN opened \cup {[pr |-> n, head |-> c]} ELSE opened
  /\ Stop(w)
  /\ UNCHANGED <<commits, clone, github, approval, made, passed, bound, receipts, faults>>

-----------------------------------------------------------------------------
(* capture_ci, bind_native_validation and emit_receipt.                    *)

StartCapture(w, r) ==
  /\ At(w, "idle")
  /\ r \in opened /\ VerifiedAt(r.pr, r.head)
  /\ run' = [run EXCEPT ![w] = [Idle EXCEPT !.at = "fetching", !.commit = r.head, !.pr = r.pr]]
  /\ UNCHANGED <<commits, clone, github, approval, records, faults>>

ChecksOf(c) == {i \in DOMAIN checks : checks[i].on = c}

\* Mutation: a check that is absent is not told from one that passed.
Passing_OrAbsent(c) ==
  IF ChecksOf(c) = {} THEN {0}
  ELSE {i \in ChecksOf(c) : checks[i].passed /\ \A j \in ChecksOf(c) : j <= i}

\* The latest check run of the required name, if it passed.
Passing(c) == {i \in ChecksOf(c) : checks[i].passed /\ \A j \in ChecksOf(c) : j <= i}

FetchChecks(w) ==
  LET found == Passing(run[w].commit) IN
  /\ At(w, "fetching")
  /\ \/ \E i \in found : run' = [run EXCEPT ![w].at = "confirming", ![w].check = i]
     \/ found = {} /\ Stop(w)
  /\ UNCHANGED <<commits, clone, github, approval, records, faults>>

\* The head once more, not the state of the pull request.
ConfirmHead(w) ==
  LET c == run[w].commit IN
  /\ At(w, "confirming")
  /\ passed' = IF prs[run[w].pr].head = c
               THEN passed \cup {[head |-> c, check |-> run[w].check]} ELSE passed
  /\ Stop(w)
  /\ UNCHANGED <<commits, clone, github, approval, made, opened, bound, receipts, faults>>

\* A native validation that passed, of whatever was checked out when it was made.
BindNativeValidation(c) ==
  /\ c \in made \ bound /\ head = c
  /\ bound' = bound \cup {c}
  /\ UNCHANGED <<commits, clone, github, approval, made, opened, passed, receipts, run, faults>>

\* Mutation: the CI evidence may be of another head.
SameHead_Commit(c, ci) == c \in bound

SameHead(c, ci) == c \in bound /\ ci.head = c

EmitReceipt(c, r, ci) ==
  /\ c \in made /\ r \in opened /\ ci \in passed
  /\ VerifiedAt(r.pr, c) /\ SameHead(c, ci)
  /\ receipts' = receipts \cup {[head |-> c, pr |-> r.pr, check |-> ci.check]}
  /\ receipts' # receipts
  /\ UNCHANGED <<commits, clone, github, approval, made, opened, passed, bound, run, faults>>

\* require_current_head.
CurrentHead(r) == prs[r.pr].head = r.head

-----------------------------------------------------------------------------
(* The approver, the owner, GitHub and failures.                           *)

Approve == approval = "none" /\ approval' = "valid"
           /\ UNCHANGED <<commits, clone, github, records, run, faults>>
Expire == Fault /\ approval = "valid" /\ approval' = "expired"
          /\ UNCHANGED <<commits, clone, github, records, run>>

OwnerEdits(t) ==
  /\ Fault
  /\ work[t] # "edited" /\ work' = [work EXCEPT ![t] = "edited"]
  /\ UNCHANGED <<commits, head, github, approval, records, run>>

OwnerCommits ==
  /\ Dirty # {} /\ Len(commits) < MaxCommits
  /\ commits' = Append(commits, [parent |-> head, tree |-> work])
  /\ head' = Len(commits')
  /\ UNCHANGED <<work, github, approval, records, run, faults>>

\* From a clone of its own.
OwnerPushes(t) ==
  /\ Fault
  /\ remote # NoCommit /\ Len(commits) < MaxCommits
  /\ commits' = Append(commits, [parent |-> remote,
                                  tree |-> [Tree(remote) EXCEPT ![t] = "edited"]])
  /\ MoveBranch(Len(commits'))
  /\ UNCHANGED <<clone, checks, late, approval, records, run>>

OwnerCloses(n) ==
  /\ Fault
  /\ prs[n].open /\ prs' = [prs EXCEPT ![n].open = FALSE]
  /\ UNCHANGED <<commits, clone, remote, checks, late, approval, records, run>>

\* CI reports on the head of an open pull request, and may run again.
Report(n, ok) ==
  /\ prs[n].open /\ Len(checks) < MaxChecks
  /\ checks' = Append(checks, [on |-> prs[n].head, passed |-> ok])
  /\ UNCHANGED <<commits, clone, remote, prs, late, approval, records, run, faults>>

Land(q) ==
  /\ late' = late \ {q}
  /\ IF q.op = "push" THEN Push(q.commit) ELSE Create /\ UNCHANGED remote
  /\ UNCHANGED <<commits, clone, checks, approval, records, run, faults>>

Crash(w) ==
  /\ Fault /\ ~At(w, "idle")
  /\ Stop(w)
  /\ UNCHANGED <<commits, clone, github, approval, records>>

Proceed(w) ==
  \/ WriteTest(w) \/ CommitTargets(w) \/ VerifyCommit(w) \/ SendPush(w)
  \/ ListPullRequests(w) \/ SendCreate(w) \/ RelistPullRequests(w) \/ ViewPullRequest(w)
  \/ FetchChecks(w) \/ ConfirmHead(w)

CommitIds == 1 .. MaxCommits

Next ==
  \/ \E w \in Processes :
        \/ StartMaterialize(w) \/ CheckChangeSet(w) \/ Proceed(w) \/ Crash(w)
        \/ \E c \in CommitIds : StartPush(w, c) \/ StartCreate(w, c)
        \/ \E r \in opened : StartCapture(w, r)
  \/ \E c \in CommitIds : \/ BindNativeValidation(c)
                          \/ \E r \in opened, ci \in passed : EmitReceipt(c, r, ci)
  \/ Approve \/ Expire
  \/ OwnerCommits \/ \E t \in Paths : OwnerEdits(t) \/ OwnerPushes(t)
  \/ \E n \in DOMAIN prs : OwnerCloses(n) \/ \E ok \in BOOLEAN : Report(n, ok)
  \/ \E q \in late : Land(q)

Fairness ==
  \A w \in Processes :
     WF_vars(Proceed(w)) /\ \A c \in CommitIds : SF_vars(StartCreate(w, c))

Spec == Init /\ [][Next]_vars /\ Fairness

-----------------------------------------------------------------------------
\* The types of the variables.
TypeOK ==
  /\ commits \in Seq(Commits) /\ Len(commits) \in CommitIds
  /\ head \in DOMAIN commits /\ work \in Trees
  /\ remote \in {NoCommit} \cup DOMAIN commits
  /\ \A n \in DOMAIN prs : prs[n].open \in BOOLEAN /\ prs[n].head \in DOMAIN commits
  /\ \A i \in DOMAIN checks : checks[i].on \in DOMAIN commits
  /\ approval \in {"none", "valid", "expired"}
  /\ made \cup bound \subseteq DOMAIN commits
  /\ \A r \in receipts : r.pr \in DOMAIN prs /\ r.check \in DOMAIN checks
  /\ \A w \in Processes : run[w].at \in Points

\* Where require_current_head accepts a receipt, what the pull request shows now is
\* what was approved, committed, validated and tested: whatever records of earlier
\* commits the receipt could be put together from, the head of now changes exactly
\* the approved paths and passed the CI check the receipt names.
CurrentReceiptIsTrue ==
  \A r \in receipts : CurrentHead(r) =>
     /\ Changed(prs[r.pr].head) = Approved
     /\ prs[r.pr].head \in made \cap bound
     /\ checks[r.check].on = prs[r.pr].head /\ checks[r.check].passed

\* No push of the boundary, and none that lands late, takes a commit out of the
\* remote branch: an owner's commit stays in it.
RemoteIsKept == remote \in Ancestors'[remote']
OwnerCommitsAreKept == [][RemoteIsKept]_vars

\* An operator who asks for the pull request of a commit again and again is given
\* its record, whatever was lost before: the request is neither left unknown for
\* ever nor repeated into a second pull request.  Only the owner, another head or
\* the end of the approval can prevent it.
Undisturbed(c) ==
  /\ approval = "valid" /\ c \in made /\ remote = c
  /\ Len(prs) <= 1 /\ \A n \in DOMAIN prs : prs[n].open
PullRequestIsRecorded ==
  \A c \in CommitIds : <>[]Undisturbed(c) => <>(\E r \in opened : r.head = c)
=============================================================================
