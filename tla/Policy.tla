------------------------------- MODULE Policy -------------------------------
(***************************************************************************)
(* The vocabulary, the two transition tables and the deterministic policy *)
(* of the campaign engine (vocabulary.py, state.py, policy.py).  Pure     *)
(* operators: every other module takes its legal steps and its decisions  *)
(* from here, as every surface of the program does.                       *)
(***************************************************************************)
EXTENDS Naturals

CampaignStates == {"PROPOSED", "INVENTORIED", "MIGRATING", "RECONCILING",
                   "READY", "RETIRED", "BLOCKED"}

Dispositions == {"DISCOVERED", "IDENTIFIED", "CHANGE_PROPOSED", "APPLIED",
                 "VALIDATED", "REMOVED", "NOT_APPLICABLE", "WAIVED", "OPAQUE",
                 "UNRESOLVED", "STALE", "FAILED"}

Decisions == {"READY_TO_RETIRE", "REVIEW_REQUIRED", "BLOCKED", "UNSAFE"}

\* Where a campaign may go from each state.
CAMPAIGN_TRANSITIONS ==
  [PROPOSED    |-> {"INVENTORIED", "BLOCKED"},
   INVENTORIED |-> {"MIGRATING", "RECONCILING", "BLOCKED"},
   MIGRATING   |-> {"RECONCILING", "BLOCKED"},
   RECONCILING |-> {"READY", "BLOCKED"},
   READY       |-> {"RETIRED", "RECONCILING", "BLOCKED"},
   RETIRED     |-> {},
   BLOCKED     |-> {"INVENTORIED", "MIGRATING", "RECONCILING", "BLOCKED"}]

\* Where a consumer may go from each disposition.
CONSUMER_TRANSITIONS ==
  [DISCOVERED      |-> {"IDENTIFIED", "OPAQUE", "UNRESOLVED", "NOT_APPLICABLE"},
   IDENTIFIED      |-> {"CHANGE_PROPOSED", "REMOVED", "NOT_APPLICABLE",
                        "WAIVED", "STALE"},
   CHANGE_PROPOSED |-> {"APPLIED", "FAILED", "STALE"},
   APPLIED         |-> {"VALIDATED", "FAILED", "STALE"},
   VALIDATED       |-> {"STALE"},
   REMOVED         |-> {"STALE"},
   NOT_APPLICABLE  |-> {"STALE"},
   WAIVED          |-> {"IDENTIFIED", "STALE"},
   OPAQUE          |-> {"IDENTIFIED", "NOT_APPLICABLE", "WAIVED"},
   UNRESOLVED      |-> {"IDENTIFIED", "NOT_APPLICABLE", "WAIVED"},
   STALE           |-> {"IDENTIFIED", "CHANGE_PROPOSED", "FAILED"},
   FAILED          |-> {"CHANGE_PROPOSED", "STALE", "WAIVED"}]

CampaignMay(from, to) == to \in CAMPAIGN_TRANSITIONS[from]
ConsumerMay(from, to) == to \in CONSUMER_TRANSITIONS[from]

ACCEPTED_DISPOSITIONS == {"VALIDATED", "REMOVED", "NOT_APPLICABLE"}
UNSAFE_DISPOSITIONS == {"DISCOVERED", "IDENTIFIED", "CHANGE_PROPOSED", "APPLIED",
                        "OPAQUE", "STALE", "FAILED"}

\* The one policy create_campaign accepts: live evidence, a reconciliation,
\* no waivers.
default_policy == [requiresLive |-> TRUE, requireReconciliation |-> TRUE,
                   allowWaivers |-> FALSE, waiversSatisfyClosure |-> FALSE]

(***************************************************************************)
(* The inputs of evaluate_policy, as one record:                          *)
(*   disp       the disposition of every known consumer (a function)      *)
(*   inventory, current   consumer ids of the frozen inventory, and of    *)
(*              the latest observation                                    *)
(*   envelope   [live, complete]: live mode, and at least one required    *)
(*              source with every required source COMPLETE; no envelope   *)
(*              at all is [live |-> FALSE, complete |-> FALSE]            *)
(*   reconciled, review   whether a reconciliation is on record, and      *)
(*              whether a semantic review requirement is                  *)
(* The blocker entries themselves are abstracted to whether any exists.   *)
(***************************************************************************)
NoEnvelope == [live |-> FALSE, complete |-> FALSE]

new_consumers(in) == in.current \ in.inventory

\* Mutation: a consumer that the latest observation did not see is not looked at.
HasUnsafe_Observed(in) ==
  \/ \E c \in DOMAIN in.disp \cap in.current : in.disp[c] \in UNSAFE_DISPOSITIONS
  \/ new_consumers(in) # {}

HasUnsafe(in) ==
  \/ \E c \in DOMAIN in.disp : in.disp[c] \in UNSAFE_DISPOSITIONS
  \/ new_consumers(in) # {}

HasBlocker(pol, in) ==
  \/ pol.requiresLive /\ ~in.envelope.live
  \/ ~in.envelope.complete
  \/ DOMAIN in.disp = {}
  \/ \E c \in DOMAIN in.disp :
        \/ in.disp[c] = "WAIVED" /\ ~pol.allowWaivers
        \/ in.disp[c] = "UNRESOLVED"
  \/ pol.requireReconciliation /\ ~in.reconciled

HasReview(pol, in) ==
  \/ in.review
  \/ \E c \in DOMAIN in.disp :
        in.disp[c] = "WAIVED" /\ pol.allowWaivers /\ ~pol.waiversSatisfyClosure

\* Exactly one decision: unsafe outranks blocked outranks review.
evaluate_policy(pol, in) ==
  IF HasUnsafe(in) THEN "UNSAFE"
  ELSE IF HasBlocker(pol, in) THEN "BLOCKED"
  ELSE IF HasReview(pol, in) THEN "REVIEW_REQUIRED"
  ELSE "READY_TO_RETIRE"
=============================================================================
