----------------------------- MODULE GateLedger -----------------------------
(***************************************************************************)
(* What the producer gate promises (D-022, CONTRACTS.md "Execution must"): *)
(* each issued plan is consumed once, durably, before its action; the      *)
(* action is taken at most once and only for a consumed plan; an outcome   *)
(* is written once, except that an unknown one is resolved later; no       *)
(* outcome is ever taken back.  Plans are issued one per manifest.         *)
(***************************************************************************)
EXTENDS Naturals

CONSTANT GatePlans    \* the plans, one per campaign manifest

Open == {"NONE", "ISSUED"}
Closed == {"EXECUTED", "NOT_COMMITTED"}
Consumed == {"INTENT_RECORDED", "OUTCOME_UNKNOWN"} \cup Closed
Statuses == Open \cup Consumed

VARIABLES
  status,   \* ledger status of each plan
  acted     \* how often the action of each plan was taken

vars == <<status, acted>>

Init == status = [q \in GatePlans |-> "NONE"] /\ acted = [q \in GatePlans |-> 0]

Move(q, from, to) ==
  /\ status[q] \in from
  /\ status' = [status EXCEPT ![q] = to]
  /\ UNCHANGED acted

Issue(q) == Move(q, {"NONE"}, "ISSUED")
Consume(q) == Move(q, {"ISSUED"}, "INTENT_RECORDED")
Close(q) == \E s \in Closed \cup {"OUTCOME_UNKNOWN"} : Move(q, {"INTENT_RECORDED"}, s)
Resolve(q) == \E s \in Closed : Move(q, {"OUTCOME_UNKNOWN"}, s)

Act(q) ==
  /\ status[q] = "INTENT_RECORDED" /\ acted[q] = 0
  /\ acted' = [acted EXCEPT ![q] = 1]
  /\ UNCHANGED status

Next == \E q \in GatePlans : Issue(q) \/ Consume(q) \/ Close(q) \/ Resolve(q) \/ Act(q)

Spec == Init /\ [][Next]_vars
=============================================================================
