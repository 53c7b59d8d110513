----------------------- MODULE GitDbtMigration_proofs -----------------------
(***************************************************************************)
(* Proofs about GitDbtMigration, for every set of campaigns, files and     *)
(* processes, every assignment of files to campaigns and every bound.      *)
(***************************************************************************)
EXTENDS GitDbtMigration, TLAPS

\* Commits, plans and apply records of a repository with n commits.
Made == [tree : Trees, by : Campaigns \cup {NoCampaign}]
PlansOf(n) == [source : 1 .. n, branch : Branches, before : Contents]
RecordsOf(n) == [plan : PlansOf(n), commit : 1 .. n]
Runs(n) == [at : Points, c : Campaigns \cup {NoCampaign}, plan : PlansOf(n) \cup {NoPlan},
            record : RecordsOf(n) \cup {NoRecord}, seen : BOOLEAN, read : Contents]

-----------------------------------------------------------------------------
(***************************************************************************)
(* The inductive invariant.  Plans and records name commits that exist;    *)
(* commits are never undone, so what a record says of its commit stays     *)
(* true.  Who has committed, or has a record, or runs an apply or a        *)
(* compensation, holds the claim of its file, and claims are never given   *)
(* up: that is why no two campaigns commit to one file.                    *)
(***************************************************************************)
RepositoryTyped ==
  /\ history \in Seq(Made) /\ Len(history) \in 1 .. MaxCommits
  /\ branch \in Branches /\ tips \in [Branches -> 0 .. Len(history)]
  /\ tips[branch] # 0 /\ tips[Main] # 0
  /\ worktree \in Trees

CampaignsTyped ==
  /\ claim \in [Files -> Campaigns \cup {NoCampaign}]
  /\ state \in [Campaigns -> {"INVENTORIED", "MIGRATING"}]
  /\ disp \in [Campaigns -> Dispositions]
  /\ bound \in [Campaigns -> PlansOf(Len(history)) \cup {NoPlan}]
  /\ planned \in [Campaigns -> PlansOf(Len(history)) \cup {NoPlan}]
  /\ approved \in [Campaigns -> SUBSET PlansOf(Len(history))]
  /\ applied \in [Campaigns -> RecordsOf(Len(history)) \cup {NoRecord}]

CommandsTyped ==
  /\ proc \in [Processes -> Runs(Len(history))]
  /\ \A w \in Processes : ~At(w, "idle") =>
        proc[w].c \in Campaigns /\ proc[w].plan \in PlansOf(Len(history))

Holds(c) == claim[target[c]] = c
ClaimsHold ==
  /\ \A n \in DOMAIN history : history[n].by # NoCampaign => Holds(history[n].by)
  /\ \A c \in Campaigns : applied[c] # NoRecord => Holds(c)
  /\ \A w \in Processes : proc[w].at \notin {"idle", "validating"} => Holds(proc[w].c)

GitInv == RepositoryTyped /\ CampaignsTyped /\ CommandsTyped /\ ClaimsHold

-----------------------------------------------------------------------------
(* The operators.                                                          *)

\* What was planned, recorded or run in a repository may be in a longer one.
LEMMA LongerTyped ==
  ASSUME NEW m \in Nat, NEW n \in Nat, m <= n
  PROVE  /\ PlansOf(m) \subseteq PlansOf(n) /\ RecordsOf(m) \subseteq RecordsOf(n)
         /\ Runs(m) \subseteq Runs(n)
<1>1. 1 .. m \subseteq 1 .. n
  OBVIOUS
<1>2. PlansOf(m) \subseteq PlansOf(n)
  BY <1>1 DEF PlansOf
<1>3. RecordsOf(m) \subseteq RecordsOf(n)
  BY <1>1, <1>2 DEF RecordsOf
<1>4. QED
  BY <1>2, <1>3 DEF Runs

\* The placeholders are none of what they stand for.
LEMMA Placeholders ==
  ASSUME NEW n \in Nat
  PROVE  NoPlan \notin PlansOf(n) /\ NoRecord \notin RecordsOf(n)
<1>1. NoPlan.source = 0 /\ NoRecord.commit = 0
  BY DEF NoPlan, NoRecord
<1>2. 0 \notin 1 .. n
  OBVIOUS
<1>3. QED
  BY <1>1, <1>2 DEF PlansOf, RecordsOf

\* The default branch is a branch, and a planned change a content of a file.
LEMMA Typing ==
  /\ Main \in Branches /\ Original \in Contents
  /\ \A n \in Nat : \A q \in PlansOf(n) : After(q) \in Contents
<1>1. ASSUME NEW n \in Nat, NEW q \in PlansOf(n) PROVE After(q) \in Contents
  BY <1>1 DEF PlansOf, Contents, After
<1>2. QED
  BY <1>1 DEF Branches, Main, Original, Contents

\* What is checked out, committed or not, is a tree.
LEMMA HeadTyped ==
  ASSUME RepositoryTyped
  PROVE  /\ head \in DOMAIN history /\ head \in 1 .. Len(history)
         /\ Tree(head) \in Trees /\ worktree \in Trees
         /\ \A f \in Files : worktree[f] \in Contents /\ Tree(head)[f] \in Contents
<1>1. head \in DOMAIN history /\ head \in 1 .. Len(history)
  BY DEF RepositoryTyped, head
<1>2. history[head] \in Made
  BY <1>1 DEF RepositoryTyped
<1>3. Tree(head) \in Trees /\ worktree \in Trees
  BY <1>2 DEF RepositoryTyped, Made, Tree
<1>4. QED
  BY <1>1, <1>3 DEF Trees

\* What a commit does to the history.
LEMMA CommitAppends ==
  ASSUME RepositoryTyped, NEW f \in Files, NEW who \in Campaigns \cup {NoCampaign},
         worktree' \in Trees, GitCommit(f, who)
  PROVE  /\ RepositoryTyped'
         /\ Len(history') = Len(history) + 1 /\ head' = Len(history')
         /\ history'[Len(history')] = [tree |-> [Tree(head) EXCEPT ![f] = worktree'[f]],
                                       by |-> who]
         /\ history'[Len(history')].by = who
         /\ history'[Len(history')].tree[f] = worktree'[f]
         /\ \A n \in DOMAIN history : history'[n] = history[n]
<1> DEFINE commit == [tree |-> [Tree(head) EXCEPT ![f] = worktree'[f]], by |-> who]
<1>1. Tree(head) \in Trees
  BY HeadTyped
<1>2. worktree'[f] \in Contents
  BY DEF Trees
<1>3. commit \in Made
  BY <1>1, <1>2 DEF Made, Trees
<1> HIDE DEF commit
<1>4. /\ history \in Seq(Made) /\ Len(history) \in Nat /\ Len(history) < MaxCommits
      /\ history' = Append(history, commit)
  BY DEF RepositoryTyped, GitCommit, commit
<1>5. /\ history' \in Seq(Made) /\ Len(history') = Len(history) + 1
      /\ history'[Len(history')] = commit
      /\ \A n \in DOMAIN history : history'[n] = history[n]
  BY <1>3, <1>4
<1>6. /\ branch' = branch /\ tips' = [tips EXCEPT ![branch] = Len(history')]
      /\ branch \in Branches /\ tips \in [Branches -> 0 .. Len(history)]
  BY <1>5 DEF RepositoryTyped, GitCommit
<1>7. tips' \in [Branches -> 0 .. Len(history')] /\ tips'[branch] = Len(history')
  BY <1>4, <1>5, <1>6
<1>8. tips'[Main] # 0
  BY <1>4, <1>5, <1>6, Typing DEF RepositoryTyped
<1>9. Len(history') \in 1 .. MaxCommits
  BY <1>4, <1>5, MaxCommitsAssumption
<1>10. commit.by = who /\ commit.tree[f] = worktree'[f]
  BY <1>1 DEF commit, Trees
<1>11. QED
  BY <1>4, <1>5, <1>6, <1>7, <1>8, <1>9, <1>10 DEF RepositoryTyped, head, commit

\* A commit of one file leaves nothing uncommitted when nothing else was.
LEMMA CommitCleans ==
  ASSUME RepositoryTyped, NEW f \in Files, NEW who \in Campaigns \cup {NoCampaign},
         worktree' \in Trees, GitCommit(f, who),
         \A g \in Files \ {f} : worktree'[g] = Tree(head)[g]
  PROVE  Dirty' = {}
<1>1. Tree(head) \in Trees
  BY HeadTyped
<1>2. /\ head' = Len(history')
      /\ history'[Len(history')] = [tree |-> [Tree(head) EXCEPT ![f] = worktree'[f]],
                                    by |-> who]
  BY CommitAppends
<1>3. Tree(head)' = [Tree(head) EXCEPT ![f] = worktree'[f]]
  BY <1>2 DEF Tree
<1>4. \A g \in Files : Tree(head)'[g] = worktree'[g]
  BY <1>1, <1>3 DEF Trees
<1>5. QED
  BY <1>4 DEF Dirty

\* What a switch does.
LEMMA SwitchCleans ==
  ASSUME RepositoryTyped, NEW b \in Branches, tips[b] # 0, GitSwitch(b)
  PROVE  RepositoryTyped' /\ Dirty' = {} /\ history' = history
<1>1. tips[b] \in DOMAIN history /\ history[tips[b]] \in Made
  BY DEF RepositoryTyped
<1>2. Tree(tips[b]) \in Trees
  BY <1>1 DEF Made, Tree
<1>3. QED
  BY <1>1, <1>2 DEF RepositoryTyped, GitSwitch, Dirty, Tree, head

\* The file a campaign is to change.
LEMMA TargetIsFile == \A c \in Campaigns : target[c] \in Files
  BY TargetAssumption


\* A command that does nothing, and one that has come further.
LEMMA IdleTyped == \A n \in Nat : Idle \in Runs(n)
  BY Typing DEF Idle, Runs, Points

LEMMA PointTyped ==
  ASSUME NEW n \in Nat, NEW r \in Runs(n), NEW point \in Points
  PROVE  /\ [r EXCEPT !.at = point] \in Runs(n)
         /\ [r EXCEPT !.at = point].at = point
         /\ [r EXCEPT !.at = point].c = r.c /\ [r EXCEPT !.at = point].plan = r.plan
  BY DEF Runs

-----------------------------------------------------------------------------
(* What keeps the invariant.                                               *)

\* Campaigns that do nothing, in a repository that may have grown.
LEMMA CampaignsLonger ==
  ASSUME RepositoryTyped, RepositoryTyped', CampaignsTyped, UNCHANGED <<claim, campaign>>,
         Len(history) <= Len(history')
  PROVE  CampaignsTyped'
<1>1. /\ PlansOf(Len(history)) \subseteq PlansOf(Len(history'))
      /\ RecordsOf(Len(history)) \subseteq RecordsOf(Len(history'))
  BY LongerTyped DEF RepositoryTyped
<1>2. QED
  BY <1>1 DEF CampaignsTyped, campaign

\* A step in which no command takes part.
LEMMA OthersInv ==
  ASSUME GitInv, RepositoryTyped', CampaignsTyped', UNCHANGED <<claim, applied, proc>>,
         Len(history) <= Len(history'),
         \A n \in DOMAIN history' : \/ n \in DOMAIN history /\ history'[n] = history[n]
                                    \/ history'[n].by = NoCampaign
  PROVE  GitInv'
<1>1. Runs(Len(history)) \subseteq Runs(Len(history')) /\ PlansOf(Len(history)) \subseteq PlansOf(Len(history'))
  BY LongerTyped DEF GitInv, RepositoryTyped
<1>2. CommandsTyped'
  BY <1>1 DEF GitInv, CommandsTyped, At
<1>3. \A c : Holds(c)' <=> Holds(c)
  BY DEF Holds
<1>4. ClaimsHold'
  BY <1>3 DEF GitInv, ClaimsHold, Holds
<1>5. QED
  BY <1>2, <1>4 DEF GitInv

\* A step of a command, to the next point or to its end: what it commits or
\* records it does for the campaign it works for, which holds its claim.
LEMMA CommandInv ==
  ASSUME GitInv, RepositoryTyped', CampaignsTyped', NEW w \in Processes, NEW r,
         proc' = [proc EXCEPT ![w] = r], UNCHANGED claim,
         \/ r = Idle /\ (At(w, "validating") => UNCHANGED <<history, applied>>)
         \/ /\ ~At(w, "validating")
            /\ r \in Runs(Len(history)) /\ r.c = proc[w].c /\ r.plan = proc[w].plan,
         ~At(w, "idle"),
         \A c \in Campaigns \ {proc[w].c} : applied'[c] = applied[c],
         Len(history) <= Len(history'),
         \A n \in DOMAIN history' : \/ n \in DOMAIN history /\ history'[n] = history[n]
                                    \/ history'[n].by = proc[w].c
  PROVE  GitInv'
<1>1. /\ Runs(Len(history)) \subseteq Runs(Len(history'))
      /\ PlansOf(Len(history)) \subseteq PlansOf(Len(history'))
      /\ Idle \in Runs(Len(history')) /\ Idle.at = "idle"
  <2>1. Len(history) \in Nat /\ Len(history') \in Nat
    BY DEF GitInv, RepositoryTyped
  <2>2. QED
    BY <2>1, LongerTyped, IdleTyped DEF Idle
<1>2. proc \in [Processes -> Runs(Len(history))] /\ proc'[w] = r
  BY DEF GitInv, CommandsTyped
<1>3. proc[w].c \in Campaigns /\ proc[w].plan \in PlansOf(Len(history))
  BY DEF GitInv, CommandsTyped
<1>4. r \in Runs(Len(history')) /\ (r.at # "idle" => r.c \in Campaigns /\ r.plan \in PlansOf(Len(history')))
  BY <1>1, <1>3
<1>5. proc' \in [Processes -> Runs(Len(history'))]
  BY <1>1, <1>2, <1>4
<1>6. \A v \in Processes \ {w} : proc'[v] = proc[v]
  BY <1>2
<1>7. CommandsTyped'
  BY <1>1, <1>2, <1>4, <1>5, <1>6 DEF GitInv, CommandsTyped, At
<1>8. \A c : Holds(c)' <=> Holds(c)
  BY DEF Holds
<1>9. ~At(w, "validating") => Holds(proc[w].c)
  BY DEF GitInv, ClaimsHold, At
<1>10. \A n \in DOMAIN history' : history'[n].by # NoCampaign => Holds(history'[n].by)
  <2>1. CASE At(w, "validating")
    BY <2>1, <1>1 DEF GitInv, ClaimsHold
  <2>2. CASE ~At(w, "validating")
    BY <2>2, <1>9 DEF GitInv, ClaimsHold
  <2>3. QED
    BY <2>1, <2>2
<1>11. \A c \in Campaigns : applied'[c] # NoRecord => Holds(c)
  <2>1. CASE At(w, "validating")
    BY <2>1 DEF GitInv, ClaimsHold
  <2>2. CASE ~At(w, "validating")
    BY <2>2, <1>9 DEF GitInv, ClaimsHold
  <2>3. QED
    BY <2>1, <2>2
<1>12. \A v \in Processes : proc'[v].at \notin {"idle", "validating"} => Holds(proc'[v].c)
  BY <1>1, <1>2, <1>6, <1>9 DEF GitInv, ClaimsHold, At
<1>13. ClaimsHold'
  BY <1>8, <1>10, <1>11, <1>12 DEF ClaimsHold, Holds
<1>14. QED
  BY <1>7, <1>13 DEF GitInv

-----------------------------------------------------------------------------
(* The initial state, and one lemma for each group of actions.             *)

LEMMA GitInit == Init => GitInv
<1> SUFFICES ASSUME Init PROVE GitInv
  OBVIOUS
<1> DEFINE tree == [f \in Files |-> Original]
           first == [tree |-> tree, by |-> NoCampaign]
<1>1. first \in Made /\ tree \in Trees
  BY Typing DEF Made, Trees
<1>2. history = <<first>> /\ Len(history) = 1 /\ history[1] = first
  BY DEF Init
<1>3. RepositoryTyped
  <2>1. worktree = tree
    BY <1>2 DEF Init, Tree
  <2> HIDE DEF first
  <2>2. history \in Seq(Made) /\ Len(history) \in 1 .. MaxCommits
    BY <1>1, <1>2, MaxCommitsAssumption
  <2>3. branch \in Branches /\ tips \in [Branches -> 0 .. Len(history)]
        /\ tips[branch] # 0 /\ tips[Main] # 0
    BY <1>2, Typing DEF Init
  <2>4. QED
    BY <1>1, <2>1, <2>2, <2>3 DEF RepositoryTyped
<1>4. CampaignsTyped
  BY DEF Init, CampaignsTyped, Dispositions
<1>5. CommandsTyped
  BY <1>2, IdleTyped DEF Init, CommandsTyped, At, Idle
<1>6. ClaimsHold
  BY <1>2 DEF Init, ClaimsHold, Idle
<1>7. QED
  BY <1>3, <1>4, <1>5, <1>6 DEF GitInv

\* Steps that keep the clone.
LEMMA CloneKept == GitInv /\ UNCHANGED repository => RepositoryTyped' /\ history' = history
  BY DEF GitInv, RepositoryTyped, repository

LEMMA CampaignStepInv ==
  ASSUME GitInv, NEW c \in Campaigns, CampaignStep(c)
  PROVE  GitInv'
<1>1. UNCHANGED <<claim, repository, proc, applied>> /\ history' = history /\ RepositoryTyped'
  <2>1. UNCHANGED <<claim, repository, proc, applied>>
    BY DEF CampaignStep, Preflight, Plan, Authorize, Reopen
  <2>2. QED
    BY <2>1, CloneKept
<1>2. head \in 1 .. Len(history) /\ worktree[target[c]] \in Contents
  BY HeadTyped, TargetIsFile DEF GitInv
<1>3. CampaignsTyped
  BY DEF GitInv
<1>4. CASE Preflight(c)
  <2>1. CampaignsTyped'
    BY <1>1, <1>3, <1>4 DEF CampaignsTyped, Preflight, Dispositions
  <2>2. QED
    BY <1>1, <2>1, OthersInv DEF GitInv, RepositoryTyped
<1>5. CASE Plan(c)
  <2>1. Derived(c) \in PlansOf(Len(history))
    <3>1. PICK n : n = (IF tips[<<c, 0>>] = 0 THEN 0 ELSE head)
      OBVIOUS
    <3>2. n \in 0 .. MaxCommits
      BY <1>2, <3>1, MaxCommitsAssumption DEF GitInv, RepositoryTyped
    <3>3. <<c, n>> \in Branches
      BY <3>2 DEF Branches
    <3>4. QED
      BY <1>2, <3>1, <3>3 DEF Derived, PlansOf
  <2>2. CampaignsTyped'
    BY <1>1, <1>3, <1>5, <2>1 DEF CampaignsTyped, Plan, Dispositions
  <2>3. QED
    BY <1>1, <2>2, OthersInv DEF GitInv, RepositoryTyped
<1>6. CASE Authorize(c)
  <2>1. planned[c] \in PlansOf(Len(history))
    BY <1>3, <1>6 DEF CampaignsTyped, Authorize, CurrentPlan
  <2>2. CampaignsTyped'
    BY <1>1, <1>3, <1>6, <2>1 DEF CampaignsTyped, Authorize
  <2>3. QED
    BY <1>1, <2>2, OthersInv DEF GitInv, RepositoryTyped
<1>7. CASE Reopen(c)
  BY <1>1, <1>3, <1>7, OthersInv DEF CampaignsTyped, Reopen, GitInv, RepositoryTyped
<1>8. QED
  BY <1>4, <1>5, <1>6, <1>7 DEF CampaignStep

LEMMA OwnerStepInv ==
  ASSUME GitInv, OwnerStep
  PROVE  GitInv'
<1>1. UNCHANGED <<claim, campaign, proc>>
  BY DEF OwnerStep, OwnerCommits, OwnerSwitches
<1>2. ASSUME NEW f \in Files, OwnerCommits(f) PROVE GitInv'
  <2>1. worktree' \in Trees
    BY <1>2 DEF GitInv, RepositoryTyped, OwnerCommits, Trees, Contents
  <2>2. /\ RepositoryTyped' /\ Len(history') = Len(history) + 1
        /\ history'[Len(history')].by = NoCampaign
        /\ \A n \in DOMAIN history : history'[n] = history[n]
    <3>1. RepositoryTyped /\ GitCommit(f, NoCampaign)
      BY <1>2 DEF GitInv, OwnerCommits
    <3>2. QED
      BY <2>1, <3>1, CommitAppends
  <2>3. Len(history) <= Len(history') /\ DOMAIN history' = DOMAIN history \cup {Len(history')}
    BY <2>2 DEF GitInv, RepositoryTyped
  <2>4. CampaignsTyped'
    BY <1>1, <2>2, <2>3, CampaignsLonger DEF GitInv
  <2>5. QED
    BY <1>1, <2>2, <2>3, <2>4, OthersInv DEF campaign
<1>3. ASSUME NEW b \in Branches, OwnerSwitches(b) PROVE GitInv'
  <2>1. RepositoryTyped' /\ history' = history
    BY <1>3, SwitchCleans DEF GitInv, OwnerSwitches
  <2>2. Len(history) <= Len(history')
    BY <2>1 DEF GitInv, RepositoryTyped
  <2>3. CampaignsTyped'
    BY <1>1, <2>1, <2>2, CampaignsLonger DEF GitInv
  <2>4. QED
    BY <1>1, <2>1, <2>2, <2>3, OthersInv DEF campaign
<1>4. QED
  BY <1>2, <1>3 DEF OwnerStep

\* A command begins: for a campaign that holds the claim by now, unless it only
\* validates.
LEMMA BeginInv ==
  ASSUME GitInv, CampaignsTyped', UNCHANGED <<repository, applied>>,
         NEW w \in Processes, NEW c \in Campaigns, NEW point \in Points,
         NEW record \in RecordsOf(Len(history)) \cup {NoRecord}, Begin(w, c, point, record),
         \A d \in Campaigns : Holds(d) => claim'[target[d]] = d,
         point # "validating" => claim'[target[c]] = c
  PROVE  GitInv'
<1> DEFINE r == [Idle EXCEPT !.at = point, !.c = c, !.plan = planned[c], !.record = record,
                             !.seen = disp[c] = "APPLIED"]
<1>1. RepositoryTyped' /\ history' = history
  BY CloneKept
<1>2. planned[c] \in PlansOf(Len(history))
  BY DEF GitInv, CampaignsTyped, Begin, CurrentPlan
<1>3. /\ r \in Runs(Len(history)) /\ r.at = point /\ r.c = c /\ r.plan = planned[c]
      /\ proc' = [proc EXCEPT ![w] = r]
  <2>1. Idle \in Runs(Len(history))
    BY IdleTyped DEF GitInv, RepositoryTyped
  <2>2. \A seen \in BOOLEAN :
           LET s == [Idle EXCEPT !.at = point, !.c = c, !.plan = planned[c], !.record = record,
                                 !.seen = seen]
           IN  s \in Runs(Len(history)) /\ s.at = point /\ s.c = c /\ s.plan = planned[c]
    BY <1>2, <2>1 DEF Runs
  <2>3. r \in Runs(Len(history)) /\ r.at = point /\ r.c = c /\ r.plan = planned[c]
    <3>1. (disp[c] = "APPLIED") \in BOOLEAN
      OBVIOUS
    <3>2. QED
      BY <2>2, <3>1, Zenon
  <2>4. QED
    BY <2>3 DEF Begin
<1> HIDE DEF r
<1>4. proc'[w] = r /\ \A v \in Processes \ {w} : proc'[v] = proc[v]
  BY <1>3 DEF GitInv, CommandsTyped
<1>5. CommandsTyped'
  <2>1. proc \in [Processes -> Runs(Len(history))]
    BY DEF GitInv, CommandsTyped
  <2>2. proc' \in [Processes -> Runs(Len(history))]
    BY <1>3, <2>1
  <2>3. \A v \in Processes : proc'[v].at # "idle" =>
           proc'[v].c \in Campaigns /\ proc'[v].plan \in PlansOf(Len(history))
    BY <1>2, <1>3, <1>4 DEF GitInv, CommandsTyped, At
  <2>4. QED
    BY <1>1, <2>2, <2>3 DEF CommandsTyped, At
<1>6. \A n \in DOMAIN history : history[n].by \in Campaigns \cup {NoCampaign}
  <2>1. \A n \in DOMAIN history : history[n] \in Made
    BY DEF GitInv, RepositoryTyped
  <2>2. QED
    BY <2>1 DEF Made
<1>7. \A n \in DOMAIN history' : history'[n].by # NoCampaign => claim'[target[history'[n].by]] = history'[n].by
  <2>1. ASSUME NEW n \in DOMAIN history, history[n].by # NoCampaign
        PROVE  claim'[target[history[n].by]] = history[n].by
    <3>1. PICK d \in Campaigns : d = history[n].by
      BY <1>6, <2>1
    <3>2. Holds(d)
      BY <2>1, <3>1 DEF GitInv, ClaimsHold
    <3>3. QED
      BY <3>1, <3>2
  <2>2. QED
    BY <1>1, <2>1
<1>8. \A d \in Campaigns : applied'[d] # NoRecord => claim'[target[d]] = d
  BY DEF GitInv, ClaimsHold
<1>9. \A v \in Processes : proc'[v].at \notin {"idle", "validating"} => claim'[target[proc'[v].c]] = proc'[v].c
  <2>1. \A v \in Processes : ~At(v, "idle") => proc[v].c \in Campaigns
    BY DEF GitInv, CommandsTyped
  <2>2. QED
    BY <1>3, <1>4, <2>1 DEF GitInv, ClaimsHold, At
<1>10. ClaimsHold'
  BY <1>7, <1>8, <1>9 DEF ClaimsHold, Holds
<1>11. QED
  BY <1>1, <1>5, <1>10 DEF GitInv

LEMMA CommandStartsInv ==
  ASSUME GitInv, NEW w \in Processes, NEW c \in Campaigns, CommandStarts(w, c)
  PROVE  GitInv'
<1>1. CampaignsTyped /\ target[c] \in Files /\ history' = history
  BY TargetIsFile DEF GitInv, CommandStarts, StartApply, StartValidate, StartCompensate, repository
<1>2. {"checking", "validating", "reverting"} \subseteq Points
  BY DEF Points
<1>3. CASE StartApply(w, c)
  <2>1. /\ claim \in [Files -> Campaigns \cup {NoCampaign}]
        /\ claim' = [claim EXCEPT ![target[c]] = c] /\ claim[target[c]] \in {NoCampaign, c}
    BY <1>1, <1>3 DEF CampaignsTyped, StartApply, ClaimIdentity
  <2>2. claim'[target[c]] = c /\ \A d \in Campaigns : Holds(d) => claim'[target[d]] = d
    BY <1>1, <2>1, TargetIsFile, NoCampaignAssumption DEF Holds
  <2>3. CampaignsTyped'
    BY <1>1, <1>3, <2>1 DEF CampaignsTyped, StartApply, ClaimIdentity
  <2>4. UNCHANGED <<repository, applied>> /\ Begin(w, c, "checking", NoRecord)
    BY <1>3 DEF StartApply
  <2>5. QED
    BY <1>2, <2>2, <2>3, <2>4, BeginInv
<1>4. CASE StartValidate(w, c)
  <2>1. /\ UNCHANGED <<claim, campaign, repository, applied>>
        /\ Begin(w, c, "validating", NoRecord)
    BY <1>4 DEF StartValidate, campaign
  <2>2. CampaignsTyped'
    BY <1>1, <2>1 DEF CampaignsTyped, campaign
  <2>3. \A d \in Campaigns : Holds(d) => claim'[target[d]] = d
    BY <2>1 DEF Holds
  <2>4. QED
    BY <1>2, <2>1, <2>2, <2>3, BeginInv
<1>5. CASE StartCompensate(w, c)
  <2>1. /\ UNCHANGED <<claim, campaign, repository, applied>>
        /\ Begin(w, c, "reverting", applied[c]) /\ applied[c] # NoRecord
    BY <1>5 DEF StartCompensate, campaign
  <2>2. CampaignsTyped' /\ applied[c] \in RecordsOf(Len(history)) \cup {NoRecord}
    BY <1>1, <2>1 DEF CampaignsTyped, campaign
  <2>3. /\ \A d \in Campaigns : Holds(d) => claim'[target[d]] = d
        /\ claim'[target[c]] = c
    BY <2>1 DEF GitInv, ClaimsHold, Holds
  <2>4. QED
    BY <1>2, <2>1, <2>2, <2>3, BeginInv
<1>6. QED
  BY <1>3, <1>4, <1>5 DEF CommandStarts

\* A step of a command that keeps the clone.
LEMMA ClosedStepInv ==
  ASSUME GitInv, CampaignsTyped', UNCHANGED <<claim, repository>>, NEW w \in Processes, NEW r,
         proc' = [proc EXCEPT ![w] = r], ~At(w, "idle"),
         \/ r = Idle /\ (At(w, "validating") => UNCHANGED applied)
         \/ /\ ~At(w, "validating")
            /\ r \in Runs(Len(history)) /\ r.c = proc[w].c /\ r.plan = proc[w].plan,
         \A c \in Campaigns \ {proc[w].c} : applied'[c] = applied[c]
  PROVE  GitInv'
<1>1. RepositoryTyped' /\ history' = history /\ Len(history) <= Len(history')
  BY CloneKept DEF GitInv, RepositoryTyped
<1>2. QED
  BY <1>1, CommandInv

\* A step of a command that changes the clone and keeps the campaigns.
LEMMA OpenStepInv ==
  ASSUME GitInv, RepositoryTyped', UNCHANGED <<claim, campaign>>, NEW w \in Processes, NEW r,
         proc' = [proc EXCEPT ![w] = r], ~At(w, "idle"), ~At(w, "validating"),
         r = Idle \/ (r \in Runs(Len(history)) /\ r.c = proc[w].c /\ r.plan = proc[w].plan),
         \/ history' = history
         \/ /\ Len(history') = Len(history) + 1
            /\ history'[Len(history')].by = proc[w].c
            /\ \A n \in DOMAIN history : history'[n] = history[n]
  PROVE  GitInv'
<1>1. Len(history) <= Len(history')
      /\ \A n \in DOMAIN history' : \/ n \in DOMAIN history /\ history'[n] = history[n]
                                    \/ history'[n].by = proc[w].c
  BY DEF GitInv, RepositoryTyped
<1>2. CampaignsTyped' /\ applied' = applied
  BY <1>1, CampaignsLonger DEF GitInv, campaign
<1>3. QED
  BY <1>1, <1>2, CommandInv

\* A command at one of its points.
LEMMA RunTyped ==
  ASSUME GitInv, NEW w \in Processes
  PROVE  /\ proc[w] \in Runs(Len(history)) /\ Len(history) \in Nat
         /\ ~At(w, "idle") =>
              /\ proc[w].c \in Campaigns /\ target[proc[w].c] \in Files
              /\ proc[w].plan \in PlansOf(Len(history))
              /\ After(proc[w].plan) \in Contents
  BY Typing, TargetIsFile DEF GitInv, CommandsTyped, RepositoryTyped

LEMMA ClosedStepsInv ==
  ASSUME GitInv, NEW w \in Processes,
         \/ CheckRepository(w) \/ ReadFile(w) \/ VerifyChange(w) \/ RecordApplied(w)
         \/ RecordValidation(w) \/ RecordRestored(w) \/ Abandon(w)
  PROVE  GitInv'
<1> DEFINE c == proc[w].c
           q == proc[w].plan
           n == Len(history)
<1>1. ~At(w, "idle") /\ c \in Campaigns /\ target[c] \in Files /\ q \in PlansOf(n)
      /\ proc[w] \in Runs(n) /\ n \in Nat
  BY RunTyped
     DEF At, CheckRepository, ReadFile, VerifyChange, RecordApplied, RecordValidation,
         RecordRestored, Abandon
<1>2. UNCHANGED <<claim, repository>> /\ n' = n /\ CampaignsTyped
  BY DEF CheckRepository, ReadFile, VerifyChange, RecordApplied, RecordValidation,
         RecordRestored, Abandon, repository, GitInv
<1>3. {"recording", "switching", "reading", "committing", "writing"} \subseteq Points
  BY DEF Points
<1>4. \A point \in Points :
         LET r == [proc[w] EXCEPT !.at = point]
         IN  r \in Runs(n) /\ r.c = c /\ r.plan = q
  BY <1>1, PointTyped
<1>5. \A point \in Points : \A record \in RecordsOf(n) \cup {NoRecord} :
         LET r == [proc[w] EXCEPT !.at = point, !.record = record]
         IN  r \in Runs(n) /\ r.c = c /\ r.plan = q
  BY <1>1 DEF Runs
<1>6. \A point \in Points : \A read \in Contents :
         LET r == [proc[w] EXCEPT !.at = point, !.read = read]
         IN  r \in Runs(n) /\ r.c = c /\ r.plan = q
  BY <1>1 DEF Runs
<1>7. CASE CheckRepository(w)
  <2>1. UNCHANGED <<claim, repository, applied>> /\ At(w, "checking") /\ CampaignsTyped'
    BY <1>2, <1>7 DEF CheckRepository, campaign, CampaignsTyped
  <2>2. applied[c] \in RecordsOf(n) \cup {NoRecord}
    BY <1>1, <1>2 DEF CampaignsTyped
  <2>3. \E r \in Runs(n) : r.c = c /\ r.plan = q /\ proc' = [proc EXCEPT ![w] = r]
    <3>1. \/ proc' = [proc EXCEPT ![w].at = "recording", ![w].record = applied[c]]
          \/ \E point \in {"switching", "reading"} : Goto(w, point)
      BY <1>7 DEF CheckRepository
    <3>2. CASE proc' = [proc EXCEPT ![w].at = "recording", ![w].record = applied[c]]
      <4>1. PICK record \in RecordsOf(n) \cup {NoRecord} : record = applied[c]
        BY <2>2
      <4>2. proc' = [proc EXCEPT ![w].at = "recording", ![w].record = record]
        BY <3>2, <4>1
      <4>3. QED
        BY <1>3, <1>5, <4>2
    <3>3. CASE \E point \in {"switching", "reading"} : Goto(w, point)
      BY <1>3, <1>4, <3>3 DEF Goto
    <3>4. QED
      BY <3>1, <3>2, <3>3
  <2>4. QED
    BY <1>1, <2>1, <2>3, ClosedStepInv DEF At
<1>8. CASE ReadFile(w)
  <2>1. UNCHANGED <<claim, repository, applied>> /\ At(w, "reading") /\ CampaignsTyped'
    BY <1>2, <1>8 DEF ReadFile, campaign, CampaignsTyped
  <2>2. worktree[target[c]] \in Contents
    BY <1>1, HeadTyped DEF GitInv
  <2>3. \E r \in Runs(n) : r.c = c /\ r.plan = q /\ proc' = [proc EXCEPT ![w] = r]
    <3>1. PICK read \in Contents : read = worktree[target[c]]
      BY <2>2
    <3>2. PICK point \in {"committing", "writing"} :
             proc' = [proc EXCEPT ![w].at = point, ![w].read = read]
      BY <1>8, <3>1 DEF ReadFile
    <3>3. point \in Points
      BY <1>3
    <3>4. QED
      BY <1>6, <3>2, <3>3
  <2>4. QED
    BY <1>1, <2>1, <2>3, ClosedStepInv DEF At
<1>9. CASE VerifyChange(w)
  <2> DEFINE record == [plan |-> q, commit |-> head]
  <2>1. record \in RecordsOf(n)
    BY <1>1, HeadTyped DEF GitInv, RecordsOf
  <2>2. /\ UNCHANGED <<claim, repository>> /\ At(w, "verifying")
        /\ applied' = [applied EXCEPT ![c] = record]
        /\ proc' = [proc EXCEPT ![w].at = "recording", ![w].record = record]
        /\ UNCHANGED <<state, disp, bound, approved, keys, preflight, planned>>
    BY <1>9 DEF VerifyChange
  <2> HIDE DEF record
  <2>3. CampaignsTyped' /\ \A d \in Campaigns \ {c} : applied'[d] = applied[d]
    BY <1>1, <1>2, <2>1, <2>2 DEF CampaignsTyped
  <2>4. \E r \in Runs(n) : r.c = c /\ r.plan = q /\ proc' = [proc EXCEPT ![w] = r]
    BY <1>3, <1>5, <2>1, <2>2
  <2>5. QED
    BY <1>1, <2>2, <2>3, <2>4, ClosedStepInv DEF At
<1>10. CASE RecordApplied(w) \/ RecordValidation(w) \/ RecordRestored(w) \/ Abandon(w)
  <2>1. /\ UNCHANGED <<claim, repository, applied>> /\ Stop(w)
        /\ UNCHANGED <<state, bound, approved, planned>>
        /\ \/ disp' = disp
           \/ \E d \in Dispositions : disp' = [disp EXCEPT ![c] = d]
    BY <1>10 DEF RecordApplied, RecordValidation, RecordRestored, Abandon, campaign, Dispositions
  <2>2. CampaignsTyped'
    BY <1>1, <1>2, <2>1 DEF CampaignsTyped
  <2>3. QED
    BY <1>1, <2>1, <2>2, ClosedStepInv DEF Stop
<1>11. QED
  BY <1>7, <1>8, <1>9, <1>10

\* A step that changes one file of the worktree.
LEMMA FileChanged ==
  ASSUME RepositoryTyped, NEW f \in Files, NEW content \in Contents,
         worktree' = [worktree EXCEPT ![f] = content], UNCHANGED <<history, tips, branch>>
  PROVE  RepositoryTyped' /\ history' = history
<1>1. worktree' \in Trees
  BY DEF RepositoryTyped, Trees
<1>2. QED
  BY <1>1 DEF RepositoryTyped

LEMMA OpenStepsInv ==
  ASSUME GitInv, NEW w \in Processes,
         \/ CreateBranch(w) \/ WriteFile(w) \/ CommitChange(w)
         \/ Revert(w) \/ CommitRevert(w) \/ VerifyRestored(w)
  PROVE  GitInv'
<1> DEFINE c == proc[w].c
           q == proc[w].plan
           n == Len(history)
<1>1. ~At(w, "idle") /\ ~At(w, "validating") /\ UNCHANGED <<claim, campaign>>
  BY DEF At, CreateBranch, WriteFile, CommitChange, Revert, CommitRevert, VerifyRestored
<1>2. /\ c \in Campaigns /\ target[c] \in Files /\ q \in PlansOf(n) /\ proc[w] \in Runs(n)
      /\ After(q) \in Contents /\ n \in Nat
  BY <1>1, RunTyped
<1>3. {"reading", "committing", "verifying", "revert-committing", "restored",
       "stale-recording"} \subseteq Points
  BY DEF Points
<1>4. \A point \in Points : Goto(w, point) =>
         \E r \in Runs(n) : r.c = c /\ r.plan = q /\ proc' = [proc EXCEPT ![w] = r]
  <2>1. \A point \in Points :
           LET r == [proc[w] EXCEPT !.at = point]
           IN  r \in Runs(n) /\ r.c = c /\ r.plan = q
    BY <1>2, PointTyped
  <2>2. QED
    BY <2>1 DEF Goto
<1>5. CASE CreateBranch(w)
  <2>1. /\ q.branch \in Branches /\ tips' = [tips EXCEPT ![q.branch] = head]
        /\ branch' = q.branch /\ UNCHANGED <<history, worktree>> /\ Goto(w, "reading")
    BY <1>2, <1>5 DEF CreateBranch, PlansOf
  <2>2. head \in 1 .. n
    BY HeadTyped DEF GitInv
  <2>3. RepositoryTyped'
    BY <2>1, <2>2 DEF GitInv, RepositoryTyped
  <2>4. QED
    BY <1>1, <1>3, <1>4, <2>1, <2>3, OpenStepInv
<1>6. CASE WriteFile(w)
  <2>1. /\ worktree' = [worktree EXCEPT ![target[c]] = After(q)]
        /\ UNCHANGED <<history, tips, branch>> /\ Goto(w, "committing")
    BY <1>6 DEF WriteFile
  <2>2. RepositoryTyped' /\ history' = history
    BY <1>2, <2>1, FileChanged DEF GitInv
  <2>3. QED
    BY <1>1, <1>3, <1>4, <2>1, <2>2, OpenStepInv
<1>7. CASE CommitChange(w) \/ CommitRevert(w)
  <2>1. /\ UNCHANGED worktree /\ GitCommit(target[c], c)
        /\ \E point \in {"verifying", "restored"} : Goto(w, point)
    BY <1>7 DEF CommitChange, CommitRevert
  <2>2. RepositoryTyped /\ worktree' \in Trees
    BY <2>1 DEF GitInv, RepositoryTyped
  <2>3. /\ RepositoryTyped' /\ Len(history') = Len(history) + 1
        /\ history'[Len(history')].by = c
        /\ \A m \in DOMAIN history : history'[m] = history[m]
    BY <1>2, <2>1, <2>2, CommitAppends
  <2>4. QED
    BY <1>1, <1>3, <1>4, <2>1, <2>3, OpenStepInv
<1>8. CASE Revert(w)
  <2>1. \E token \in {"legacy", "conflict"} :
           worktree' = [worktree EXCEPT ![target[c]].token = token]
    BY <1>8 DEF Revert
  <2>2. worktree[target[c]] \in Contents
    BY <1>2, HeadTyped DEF GitInv
  <2>3. \E content \in Contents : worktree' = [worktree EXCEPT ![target[c]] = content]
    <3>1. \A token \in {"legacy", "conflict"} : [worktree[target[c]] EXCEPT !.token = token] \in Contents
      BY <2>2 DEF Contents
    <3>2. QED
      BY <2>1, <3>1
  <2>4. RepositoryTyped' /\ history' = history
    BY <1>2, <1>8, <2>3, FileChanged DEF GitInv, Revert
  <2>5. CASE proc' = [proc EXCEPT ![w].at = "revert-committing", ![w].read = worktree[target[c]]]
    <3>1. PICK read \in Contents : read = worktree[target[c]]
      BY <2>2
    <3>2. proc' = [proc EXCEPT ![w] = [proc[w] EXCEPT !.at = "revert-committing", !.read = read]]
      BY <2>5, <3>1
    <3>3. \A r : r = [proc[w] EXCEPT !.at = "revert-committing", !.read = read]
                   => r \in Runs(n) /\ r.c = c /\ r.plan = q
      BY <1>2, <1>3 DEF Runs
    <3>4. QED
      BY <1>1, <2>4, <3>2, <3>3, OpenStepInv
  <2>6. CASE Stop(w)
    BY <1>1, <2>4, <2>6, OpenStepInv DEF Stop
  <2>7. QED
    BY <1>8, <2>5, <2>6 DEF Revert
<1>9. CASE VerifyRestored(w)
  <2>1. RepositoryTyped /\ tips[Main] # 0 /\ GitSwitch(Main) /\ Goto(w, "stale-recording")
    BY <1>9 DEF GitInv, RepositoryTyped, VerifyRestored
  <2>2. RepositoryTyped' /\ history' = history
    BY <2>1, SwitchCleans, Typing
  <2>3. QED
    BY <1>1, <1>3, <1>4, <2>1, <2>2, OpenStepInv
<1>10. QED
  BY <1>5, <1>6, <1>7, <1>8, <1>9

LEMMA GitNext == ASSUME GitInv, [Next]_vars PROVE GitInv'
<1>1. CASE UNCHANGED vars
  BY <1>1 DEF vars, campaign, repository, GitInv, RepositoryTyped, CampaignsTyped, CommandsTyped,
              ClaimsHold, Holds, At
<1>2. ASSUME NEW c \in Campaigns, CampaignStep(c) PROVE GitInv'
  BY <1>2, CampaignStepInv
<1>3. ASSUME NEW w \in Processes, CommandStep(w) PROVE GitInv'
  BY <1>3, ClosedStepsInv, OpenStepsInv DEF CommandStep
<1>4. ASSUME NEW w \in Processes, NEW c \in Campaigns, CommandStarts(w, c) PROVE GitInv'
  BY <1>4, CommandStartsInv
<1>5. CASE OwnerStep
  BY <1>5, OwnerStepInv
<1>6. QED
  BY <1>1, <1>2, <1>3, <1>4, <1>5 DEF Next

LEMMA GitInvariance == Spec => []GitInv
  BY GitInit, GitNext, PTL DEF Spec

\* Types, and that a branch, a commit and a plan that somebody names exist.
THEOREM GitTypeCorrect == Spec => []TypeOK
<1>1. GitInv => TypeOK
  <2> SUFFICES ASSUME GitInv PROVE TypeOK
    OBVIOUS
  <2>1. PlansOf(Len(history)) \subseteq Plans /\ RecordsOf(Len(history)) \subseteq Records
    <3>1. 1 .. Len(history) \subseteq Commits
      BY MaxCommitsAssumption DEF GitInv, RepositoryTyped, Commits
    <3>2. PlansOf(Len(history)) \subseteq Plans
      BY <3>1 DEF PlansOf, Plans
    <3>3. QED
      BY <3>1, <3>2 DEF RecordsOf, Records
  <2>2. \A n \in DOMAIN history : history[n].tree \in Trees
    <3>1. \A n \in DOMAIN history : history[n] \in Made
      BY DEF GitInv, RepositoryTyped
    <3>2. QED
      BY <3>1 DEF Made
  <2>3. \A w \in Processes : proc[w].at \in Points
    BY RunTyped DEF Runs
  <2>4. head \in DOMAIN history
    BY HeadTyped DEF GitInv
  <2>5. \A c \in Campaigns :
           /\ {bound[c], planned[c]} \subseteq Plans \cup {NoPlan}
           /\ approved[c] \subseteq Plans
           /\ applied[c] \in Records \cup {NoRecord}
    BY <2>1 DEF GitInv, CampaignsTyped
  <2>6. QED
    BY <2>2, <2>3, <2>4, <2>5 DEF GitInv, RepositoryTyped, CampaignsTyped, TypeOK
<1>2. QED
  BY <1>1, GitInvariance, PTL

\* Two campaigns that are to change one file never both commit to it: who commits
\* holds the claim of its file, and no claim is given up
\* (store.py begin_migration_with_claim).
THEOREM FilesHaveOneCampaign == Spec => []OneCampaignPerFile
<1>1. GitInv => OneCampaignPerFile
  BY DEF GitInv, ClaimsHold, Holds, OneCampaignPerFile
<1>2. QED
  BY <1>1, GitInvariance, PTL

-----------------------------------------------------------------------------
(***************************************************************************)
(* A file that is written is committed and verified before another command *)
(* writes.  What is uncommitted keeps the owner out; and while nothing is  *)
(* uncommitted no command commits.  So the file that a command has read    *)
(* and changed still has the owner's edits when it is committed, and the   *)
(* commit at HEAD that is verified is the one that was made.               *)
(*                                                                         *)
(* WritesAlone is what the code leaves to its operator: git_dbt.py takes   *)
(* no lock.  Everything else may overlap, and so may steps of two commands *)
(* that change refs, switch branches or commit.                            *)
(***************************************************************************)
Unverified == {"committing", "verifying", "revert-committing"}
WritesAlone ==
  \A v, w \in Processes :
     v # w /\ (WriteFile(v) \/ Revert(v)) => proc[w].at \notin Unverified

Knows(w) ==
  /\ At(w, "writing") => proc[w].read = proc[w].plan.before
  /\ At(w, "verifying") => Dirty = {}
  /\ proc[w].at \in {"committing", "revert-committing"} /\ proc[w].read.edited
       => Dirty = {} \/ worktree[target[proc[w].c]].edited

ExactInv == RecordIsExact /\ \A w \in Processes : Knows(w)

\* A record stays true while commits are added.
LEMMA ExactStays ==
  ASSUME GitInv, RecordIsExact, UNCHANGED applied,
         \A n \in DOMAIN history : history'[n] = history[n]
  PROVE  RecordIsExact'
<1>1. \A c \in Campaigns : applied[c] # NoRecord =>
         /\ applied[c].plan.source \in DOMAIN history /\ applied[c].commit \in DOMAIN history
  <2>1. \A c \in Campaigns : applied[c] # NoRecord => applied[c] \in RecordsOf(Len(history))
    BY DEF GitInv, CampaignsTyped
  <2>2. DOMAIN history = 1 .. Len(history)
    BY DEF GitInv, RepositoryTyped
  <2>3. QED
    BY <2>1, <2>2 DEF RecordsOf, PlansOf
<1>2. QED
  BY <1>1 DEF RecordIsExact, Diff, Tree

LEMMA ExactInit == Init => ExactInv
  BY DEF Init, ExactInv, RecordIsExact, Knows, At, Idle

\* What the campaigns do.
LEMMA CampaignStepExact ==
  ASSUME GitInv, ExactInv, NEW c \in Campaigns, CampaignStep(c)
  PROVE  ExactInv'
<1>1. UNCHANGED <<repository, proc, applied>>
  BY DEF CampaignStep, Preflight, Plan, Authorize, Reopen
<1>2. RecordIsExact'
  BY <1>1, ExactStays DEF ExactInv, repository
<1>3. Dirty' = Dirty
  BY <1>1 DEF Dirty, Tree, head, repository
<1>4. QED
  BY <1>1, <1>2, <1>3 DEF ExactInv, Knows, At, repository

\* What the owner does: nothing is uncommitted, before and after.
LEMMA OwnerStepExact ==
  ASSUME GitInv, ExactInv, OwnerStep
  PROVE  ExactInv'
<1>1. UNCHANGED <<proc, applied>> /\ Dirty = {}
  BY DEF OwnerStep, OwnerCommits, OwnerSwitches, campaign
<1>2. Dirty' = {} /\ \A n \in DOMAIN history : history'[n] = history[n]
  <2>1. ASSUME NEW f \in Files, OwnerCommits(f)
        PROVE  Dirty' = {} /\ \A n \in DOMAIN history : history'[n] = history[n]
    <3>1. /\ RepositoryTyped /\ GitCommit(f, NoCampaign)
          /\ worktree' = [worktree EXCEPT ![f].edited = TRUE]
      BY <2>1 DEF GitInv, OwnerCommits
    <3>2. worktree' \in Trees
      BY <3>1 DEF RepositoryTyped, Trees, Contents
    <3>3. \A g \in Files \ {f} : worktree'[g] = Tree(head)[g]
      BY <1>1, <3>1 DEF Dirty, RepositoryTyped, Trees
    <3>4. QED
      BY <3>1, <3>2, <3>3, CommitAppends, CommitCleans
  <2>2. ASSUME NEW b \in Branches, OwnerSwitches(b)
        PROVE  Dirty' = {} /\ \A n \in DOMAIN history : history'[n] = history[n]
    BY <2>2, SwitchCleans DEF GitInv, OwnerSwitches
  <2>3. QED
    BY <2>1, <2>2 DEF OwnerStep
<1>3. RecordIsExact'
  BY <1>1, <1>2, ExactStays DEF ExactInv
<1>4. QED
  BY <1>1, <1>2, <1>3 DEF ExactInv, Knows, At

\* What a step of one command may do to what the others know: it cleans the
\* worktree, leaves it as it is, or finds none of them to rely on it.
Undisturbing(w) ==
  /\ \A v \in Processes \ {w} : proc'[v] = proc[v]
  /\ \/ Dirty' = {}
     \/ Dirty' = Dirty /\ worktree' = worktree
     \/ \A v \in Processes \ {w} : proc[v].at \notin Unverified

\* After such a step only the command itself is to be looked at.
LEMMA OthersKnow ==
  ASSUME ExactInv, NEW w \in Processes, Undisturbing(w), RecordIsExact', Knows(w)'
  PROVE  ExactInv'
<1>1. ASSUME NEW v \in Processes \ {w} PROVE Knows(v)'
  <2>1. Knows(v) /\ proc'[v] = proc[v]
    BY <1>1 DEF ExactInv, Undisturbing
  <2>2. CASE Dirty' = {}
    BY <2>1, <2>2 DEF Knows, At
  <2>3. CASE Dirty' = Dirty /\ worktree' = worktree
    BY <2>1, <2>3 DEF Knows, At
  <2>4. CASE proc[v].at \notin Unverified
    BY <2>1, <2>4 DEF Knows, At, Unverified
  <2>5. QED
    BY <1>1, <2>2, <2>3, <2>4 DEF Undisturbing
<1>2. QED
  BY <1>1 DEF ExactInv

\* The commands' steps are such steps, where writes are alone.
LEMMA CommandUndisturbing ==
  ASSUME GitInv, WritesAlone, NEW w \in Processes,
         CommandStep(w) \/ \E c \in Campaigns : CommandStarts(w, c)
  PROVE  Undisturbing(w)
<1>1. \A v \in Processes \ {w} : proc'[v] = proc[v]
  <2>1. proc \in [Processes -> Runs(Len(history))]
    BY DEF GitInv, CommandsTyped
  <2>2. CASE \E c \in Campaigns : CommandStarts(w, c)
    BY <2>1, <2>2 DEF CommandStarts, StartApply, StartValidate, StartCompensate, Begin
  <2>3. CASE CheckRepository(w) \/ CreateBranch(w) \/ ReadFile(w) \/ WriteFile(w)
    BY <2>1, <2>3 DEF CheckRepository, CreateBranch, ReadFile, WriteFile, Goto
  <2>4. CASE CommitChange(w) \/ VerifyChange(w) \/ RecordApplied(w) \/ RecordValidation(w)
    BY <2>1, <2>4 DEF CommitChange, VerifyChange, RecordApplied, RecordValidation, Goto, Stop
  <2>5. CASE \/ Revert(w) \/ CommitRevert(w) \/ VerifyRestored(w) \/ RecordRestored(w)
             \/ Abandon(w)
    BY <2>1, <2>5 DEF Revert, CommitRevert, VerifyRestored, RecordRestored, Abandon, Goto, Stop
  <2>6. QED
    BY <2>2, <2>3, <2>4, <2>5 DEF CommandStep
<1>2. CASE WriteFile(w) \/ Revert(w)
  BY <1>1, <1>2 DEF WritesAlone, Undisturbing
<1>3. CASE CommitChange(w) \/ CommitRevert(w)
  <2>1. /\ worktree' = worktree /\ Dirty = {target[proc[w].c]}
        /\ GitCommit(target[proc[w].c], proc[w].c)
    BY <1>3 DEF CommitChange, CommitRevert
  <2>2. /\ RepositoryTyped /\ worktree' \in Trees
        /\ proc[w].c \in Campaigns /\ target[proc[w].c] \in Files
    BY <1>3, <2>1, RunTyped DEF CommitChange, CommitRevert, At, GitInv, RepositoryTyped
  <2>3. \A g \in Files \ {target[proc[w].c]} : worktree'[g] = Tree(head)[g]
    BY <2>1 DEF Dirty
  <2>4. Dirty' = {}
    BY <2>1, <2>2, <2>3, CommitCleans
  <2>5. QED
    BY <1>1, <2>4 DEF Undisturbing
<1>4. CASE VerifyRestored(w)
  <2>1. RepositoryTyped /\ tips[Main] # 0 /\ Main \in Branches /\ GitSwitch(Main)
    BY <1>4, Typing DEF GitInv, RepositoryTyped, VerifyRestored
  <2>2. Dirty' = {}
    BY <2>1, SwitchCleans
  <2>3. QED
    BY <1>1, <2>2 DEF Undisturbing
<1>5. CASE CreateBranch(w)
  <2>1. /\ UNCHANGED <<history, worktree>> /\ branch' = proc[w].plan.branch
        /\ tips' = [tips EXCEPT ![proc[w].plan.branch] = head]
    BY <1>5 DEF CreateBranch
  <2>2. proc[w].plan.branch \in Branches /\ tips \in [Branches -> 0 .. Len(history)]
    BY <1>5, RunTyped DEF At, CreateBranch, PlansOf, GitInv, RepositoryTyped
  <2>3. head' = head
    BY <2>1, <2>2 DEF head
  <2>4. Dirty' = Dirty
    BY <2>1, <2>3 DEF Dirty, Tree
  <2>5. QED
    BY <1>1, <2>1, <2>4 DEF Undisturbing
<1>6. CASE UNCHANGED repository
  <2>1. Dirty' = Dirty /\ worktree' = worktree
    BY <1>6 DEF Dirty, Tree, head, repository
  <2>2. QED
    BY <1>1, <2>1 DEF Undisturbing
<1>7. QED
  <2>1. CASE \E c \in Campaigns : CommandStarts(w, c)
    BY <1>6, <2>1 DEF CommandStarts, StartApply, StartValidate, StartCompensate
  <2>2. CASE CommandStep(w)
    BY <1>2, <1>3, <1>4, <1>5, <1>6, <2>2
       DEF CommandStep, CheckRepository, ReadFile, VerifyChange, RecordApplied, RecordValidation,
           RecordRestored, Abandon
  <2>3. QED
    BY <2>1, <2>2

\* A step to a point at which a command relies on nothing.
LEMMA UnknowingStep ==
  ASSUME GitInv, ExactInv, NEW w \in Processes, Undisturbing(w), UNCHANGED applied,
         \A n \in DOMAIN history : history'[n] = history[n],
         proc'[w].at \notin {"writing", "verifying", "committing", "revert-committing"}
  PROVE  ExactInv'
<1>1. RecordIsExact'
  BY ExactStays DEF ExactInv
<1>2. Knows(w)'
  BY DEF Knows, At
<1>3. QED
  BY <1>1, <1>2, OthersKnow

LEMMA CommandStartsExact ==
  ASSUME GitInv, ExactInv, WritesAlone,
         NEW w \in Processes, NEW c \in Campaigns, CommandStarts(w, c)
  PROVE  ExactInv'
<1>1. /\ UNCHANGED <<repository, applied>>
      /\ \E point \in {"checking", "validating", "reverting"} : \E record : Begin(w, c, point, record)
  BY DEF CommandStarts, StartApply, StartValidate, StartCompensate, campaign
<1>2. proc'[w].at \in {"checking", "validating", "reverting"}
  BY <1>1 DEF GitInv, CommandsTyped, Begin, Idle
<1>3. QED
  BY <1>1, <1>2, UnknowingStep, CommandUndisturbing DEF repository

\* Steps after which a command relies on nothing.
LEMMA UnknowingSteps ==
  ASSUME GitInv, ExactInv, NEW w \in Processes, Undisturbing(w),
         \/ CheckRepository(w) \/ CreateBranch(w) \/ RecordApplied(w) \/ RecordValidation(w)
         \/ CommitRevert(w) \/ VerifyRestored(w) \/ RecordRestored(w) \/ Abandon(w)
  PROVE  ExactInv'
<1>1. UNCHANGED applied
  BY DEF CheckRepository, CreateBranch, RecordApplied, RecordValidation,
         CommitRevert, VerifyRestored, RecordRestored, Abandon, campaign
<1>2. proc'[w].at \in {"recording", "switching", "reading", "idle", "restored", "stale-recording"}
  <2>1. proc \in [Processes -> Runs(Len(history))] /\ proc[w] \in Runs(Len(history))
    BY DEF GitInv, CommandsTyped
  <2>2. \/ \E point \in {"switching", "reading", "restored", "stale-recording"} : Goto(w, point)
        \/ proc' = [proc EXCEPT ![w].at = "recording", ![w].record = applied[proc[w].c]]
        \/ Stop(w)
    BY DEF CheckRepository, CreateBranch, RecordApplied, RecordValidation,
           CommitRevert, VerifyRestored, RecordRestored, Abandon
  <2>3. Idle.at = "idle"
    BY DEF Idle
  <2>4. QED
    BY <2>1, <2>2, <2>3 DEF Goto, Stop, Runs
<1>3. \A n \in DOMAIN history : history'[n] = history[n]
  <2>1. CASE CommitRevert(w)
    <3>1. /\ RepositoryTyped /\ worktree' \in Trees /\ GitCommit(target[proc[w].c], proc[w].c)
      BY <2>1 DEF GitInv, RepositoryTyped, CommitRevert
    <3>2. proc[w].c \in Campaigns /\ target[proc[w].c] \in Files
      BY <2>1, RunTyped DEF At, CommitRevert
    <3>3. QED
      BY <3>1, <3>2, CommitAppends
  <2>2. CASE ~CommitRevert(w)
    BY <2>2 DEF CheckRepository, CreateBranch, RecordApplied, RecordValidation,
                VerifyRestored, GitSwitch, RecordRestored, Abandon, repository
  <2>3. QED
    BY <2>1, <2>2
<1>4. QED
  BY <1>1, <1>2, <1>3, UnknowingStep

\* Steps after which it relies on what it found, or left behind.
LEMMA KnowingSteps ==
  ASSUME GitInv, ExactInv, NEW w \in Processes, Undisturbing(w),
         ReadFile(w) \/ WriteFile(w) \/ CommitChange(w) \/ VerifyChange(w) \/ Revert(w)
  PROVE  ExactInv'
<1> DEFINE c == proc[w].c
           q == proc[w].plan
           f == target[c]
<1>1. /\ c \in Campaigns /\ f \in Files /\ q \in PlansOf(Len(history))
      /\ proc \in [Processes -> Runs(Len(history))] /\ proc[w] \in Runs(Len(history))
      /\ Knows(w) /\ RepositoryTyped /\ worktree \in Trees /\ worktree[f] \in Contents
  BY RunTyped, HeadTyped
     DEF At, ReadFile, WriteFile, CommitChange, VerifyChange, Revert, GitInv, CommandsTyped, ExactInv
<1>2. CASE ReadFile(w)
  <2>1. UNCHANGED <<claim, campaign, repository>> /\ RecordIsExact'
    BY <1>2, ExactStays DEF ReadFile, ExactInv, repository, campaign
  <2>2. /\ proc'[w].c = c /\ proc'[w].plan = q /\ proc'[w].read = worktree[f]
        /\ \/ proc'[w].at = "committing"
           \/ proc'[w].at = "writing" /\ worktree[f] = q.before
    BY <1>1, <1>2 DEF ReadFile, Runs
  <2>3. worktree' = worktree
    BY <2>1 DEF repository
  <2>4. Knows(w)'
    BY <2>2, <2>3 DEF Knows, At
  <2>5. QED
    BY <2>1, <2>4, OthersKnow
<1>3. CASE WriteFile(w)
  <2>1. /\ UNCHANGED <<applied, history>> /\ worktree' = [worktree EXCEPT ![f] = After(q)]
        /\ Goto(w, "committing") /\ proc[w].read = q.before
    BY <1>1, <1>3 DEF WriteFile, campaign, Knows
  <2>2. RecordIsExact'
    BY <2>1, ExactStays DEF ExactInv
  <2>3. /\ proc'[w].c = c /\ proc'[w].read = proc[w].read /\ proc'[w].at = "committing"
    BY <1>1, <2>1 DEF Goto, Runs
  <2>4. worktree'[f] = After(q) /\ After(q).edited = q.before.edited
    <3>1. q.before \in Contents
      BY <1>1 DEF PlansOf
    <3>2. After(q).edited = q.before.edited
      BY <3>1 DEF After, Contents
    <3>3. QED
      BY <1>1, <2>1, <3>2 DEF Trees
  <2>5. Knows(w)'
    BY <2>1, <2>3, <2>4 DEF Knows, At
  <2>6. QED
    BY <2>2, <2>5, OthersKnow
<1>4. CASE CommitChange(w)
  <2>1. /\ UNCHANGED applied /\ worktree' = worktree /\ Dirty = {f} /\ GitCommit(f, c)
        /\ Goto(w, "verifying")
    BY <1>4 DEF CommitChange, campaign
  <2>2. worktree' \in Trees /\ \A g \in Files \ {f} : worktree'[g] = Tree(head)[g]
    BY <1>1, <2>1 DEF Dirty
  <2>3. Dirty' = {} /\ \A n \in DOMAIN history : history'[n] = history[n]
    BY <1>1, <2>1, <2>2, CommitCleans, CommitAppends
  <2>4. RecordIsExact'
    BY <2>1, <2>3, ExactStays DEF ExactInv
  <2>5. proc'[w].at = "verifying"
    BY <1>1, <2>1 DEF Goto, Runs
  <2>6. Knows(w)'
    BY <2>3, <2>5 DEF Knows, At
  <2>7. QED
    BY <2>4, <2>6, OthersKnow
<1>5. CASE VerifyChange(w)
  <2> DEFINE record == [plan |-> q, commit |-> head]
  <2>1. /\ UNCHANGED repository /\ Dirty = {}
        /\ Diff(q.source, head) = {f} /\ worktree[f] = After(q)
        /\ applied' = [applied EXCEPT ![c] = record]
        /\ proc' = [proc EXCEPT ![w].at = "recording", ![w].record = record]
    BY <1>1, <1>5 DEF VerifyChange, Knows
  <2>2. Tree(head)[f] = After(q)
    BY <1>1, <2>1 DEF Dirty
  <2>3. record.plan = q /\ record.commit = head
    OBVIOUS
  <2> HIDE DEF record
  <2>4. applied'[c] = record /\ \A d \in Campaigns \ {c} : applied'[d] = applied[d]
    BY <1>1, <2>1 DEF GitInv, CampaignsTyped
  <2>5. history' = history
    BY <2>1 DEF repository
  <2>6. RecordIsExact'
    <3>1. (\A m, n : Diff(m, n)' = Diff(m, n)) /\ \A n : Tree(n)' = Tree(n)
      BY <2>5 DEF Diff, Tree
    <3>2. /\ Diff(applied'[c].plan.source, applied'[c].commit) = {target[c]}
          /\ Tree(applied'[c].commit)[target[c]] = After(applied'[c].plan)
      BY <2>1, <2>2, <2>3, <2>4
    <3>3. \A d \in Campaigns \ {c} : applied'[d] # NoRecord =>
             /\ Diff(applied'[d].plan.source, applied'[d].commit) = {target[d]}
             /\ Tree(applied'[d].commit)[target[d]] = After(applied'[d].plan)
      BY <2>4 DEF ExactInv, RecordIsExact
    <3>4. \A d \in Campaigns : applied'[d] # NoRecord =>
             /\ Diff(applied'[d].plan.source, applied'[d].commit) = {target[d]}
             /\ Tree(applied'[d].commit)[target[d]] = After(applied'[d].plan)
      BY <3>2, <3>3
    <3>5. QED
      BY <3>1, <3>4 DEF RecordIsExact
  <2>7. proc'[w].at = "recording"
    BY <1>1, <2>1 DEF Runs
  <2>8. Knows(w)'
    BY <2>7 DEF Knows, At
  <2>9. QED
    BY <2>6, <2>8, OthersKnow
<1>6. CASE Revert(w)
  <2>1. UNCHANGED <<applied, history>> /\ RecordIsExact'
    BY <1>6, ExactStays DEF Revert, ExactInv, campaign
  <2>2. CASE Stop(w)
    <3>1. proc'[w].at = "idle"
      BY <1>1, <2>2 DEF Stop, Idle
    <3>2. Knows(w)'
      BY <3>1 DEF Knows, At
    <3>3. QED
      BY <2>1, <3>2, OthersKnow
  <2>3. CASE /\ worktree' = [worktree EXCEPT ![f].token = "legacy"]
             /\ proc' = [proc EXCEPT ![w].at = "revert-committing", ![w].read = worktree[f]]
    <3>1. proc'[w].at = "revert-committing" /\ proc'[w].c = c /\ proc'[w].read = worktree[f]
      BY <1>1, <2>3 DEF Runs
    <3>2. worktree'[f].edited = worktree[f].edited
      BY <1>1, <2>3 DEF Trees, Contents
    <3>3. Knows(w)'
      BY <3>1, <3>2 DEF Knows, At
    <3>4. QED
      BY <2>1, <3>3, OthersKnow
  <2>4. QED
    BY <1>6, <2>2, <2>3 DEF Revert
<1>7. QED
  BY <1>2, <1>3, <1>4, <1>5, <1>6

LEMMA ExactNext ==
  ASSUME GitInv, ExactInv, [Next]_vars, [WritesAlone]_vars PROVE ExactInv'
<1>1. CASE UNCHANGED vars
  <2>1. UNCHANGED <<repository, proc, applied>>
    BY <1>1 DEF vars, campaign
  <2>2. RecordIsExact' /\ Dirty' = Dirty
    BY <2>1, ExactStays DEF ExactInv, repository, Dirty, Tree, head
  <2>3. QED
    BY <2>1, <2>2 DEF ExactInv, Knows, At, repository
<1>2. ASSUME NEW c \in Campaigns, CampaignStep(c) PROVE ExactInv'
  BY <1>2, CampaignStepExact
<1>3. ASSUME NEW w \in Processes, CommandStep(w), WritesAlone PROVE ExactInv'
  <2>1. Undisturbing(w)
    BY <1>3, CommandUndisturbing
  <2>2. QED
    BY <1>3, <2>1, UnknowingSteps, KnowingSteps DEF CommandStep
<1>4. ASSUME NEW w \in Processes, NEW c \in Campaigns, CommandStarts(w, c), WritesAlone
      PROVE  ExactInv'
  BY <1>4, CommandStartsExact
<1>5. CASE OwnerStep
  BY <1>5, OwnerStepExact
<1>6. QED
  BY <1>1, <1>2, <1>3, <1>4, <1>5 DEF Next

LEMMA ExactInvariance == Spec /\ [][WritesAlone]_vars => []ExactInv
<1>1. GitInv /\ ExactInv /\ [Next]_vars /\ [WritesAlone]_vars => ExactInv'
  BY ExactNext
<1>2. QED
  BY <1>1, ExactInit, GitInvariance, PTL DEF Spec

\* However commands overlap, where none writes a file that another has yet to
\* commit or to verify, an apply record names a commit that makes exactly the
\* planned change, whatever was interrupted, retried or restored and whatever the
\* owner committed in between (git_dbt.py apply).
THEOREM RecordsAreExact == Spec /\ [][WritesAlone]_vars => []RecordIsExact
  BY ExactInvariance, PTL DEF ExactInv

\* Under the same condition no command commits a file without an edit of the owner
\* that the file had when the command read it (git_dbt.py apply, compensate).
THEOREM OwnerEditsArePreserved == Spec /\ [][WritesAlone]_vars => EditsArePreserved
<1> DEFINE kept ==
      \A w \in Processes :
        /\ proc[w].at \in {"committing", "revert-committing"}
        /\ proc'[w].at \in {"verifying", "restored"}
        /\ proc[w].read.edited
        => history'[Len(history')].tree[target[proc[w].c]].edited
<1>1. ASSUME GitInv, ExactInv, [Next]_vars, [WritesAlone]_vars PROVE [kept]_vars
  <2> SUFFICES ASSUME Next, WritesAlone, NEW w \in Processes,
                      proc[w].at \in {"committing", "revert-committing"},
                      proc'[w].at \in {"verifying", "restored"},
                      proc[w].read.edited
               PROVE  history'[Len(history')].tree[target[proc[w].c]].edited
    BY <1>1
  <2> DEFINE f == target[proc[w].c]
  <2>1. CommitChange(w) \/ CommitRevert(w)
    <3>1. /\ proc \in [Processes -> Runs(Len(history))] /\ proc[w] \in Runs(Len(history))
          /\ proc'[w] # proc[w]
      BY <1>1 DEF GitInv, CommandsTyped
    <3>2. \A c \in Campaigns : ~CampaignStep(c)
      BY <3>1 DEF CampaignStep, Preflight, Plan, Authorize, Reopen
    <3>3. ~OwnerStep
      BY <3>1 DEF OwnerStep, OwnerCommits, OwnerSwitches
    <3>4. \A c \in Campaigns : ~CommandStarts(w, c)
      BY <3>1 DEF CommandStarts, StartApply, StartValidate, StartCompensate, Begin, At
    <3>5. ASSUME NEW v \in Processes, CommandStep(v) \/ \E c \in Campaigns : CommandStarts(v, c)
          PROVE  v = w
      BY <1>1, <3>1, <3>5, CommandUndisturbing DEF Undisturbing
    <3>6. CommandStep(w)
      BY <3>2, <3>3, <3>4, <3>5 DEF Next
    <3>7. ~Abandon(w)
      BY <3>1 DEF Abandon, Stop, Idle
    <3>8. QED
      BY <3>6, <3>7
         DEF CommandStep, CheckRepository, CreateBranch, ReadFile, WriteFile, VerifyChange,
             RecordApplied, RecordValidation, Revert, VerifyRestored, RecordRestored, At
  <2>2. /\ Dirty = {f} /\ worktree' = worktree /\ GitCommit(f, proc[w].c)
    BY <2>1 DEF CommitChange, CommitRevert
  <2>3. worktree[f].edited
    BY <1>1, <2>2 DEF ExactInv, Knows
  <2>4. f \in Files /\ proc[w].c \in Campaigns /\ RepositoryTyped /\ worktree' \in Trees
    BY <1>1, <2>2, RunTyped, HeadTyped DEF GitInv, At
  <2>5. history'[Len(history')].tree[f] = worktree'[f]
    BY <2>2, <2>4, CommitAppends
  <2>6. QED
    BY <2>2, <2>3, <2>5
<1>2. QED
  BY <1>1, GitInvariance, ExactInvariance, PTL DEF Spec, EditsArePreserved

\* One process that runs its commands one after the other meets the condition.
THEOREM OneOperatorIsExact ==
  ASSUME \A v, w \in Processes : v = w
  PROVE  Spec => []RecordIsExact /\ EditsArePreserved
<1>1. [WritesAlone]_vars
  BY DEF WritesAlone
<1>2. QED
  BY <1>1, RecordsAreExact, OwnerEditsArePreserved, PTL
=============================================================================
