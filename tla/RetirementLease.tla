-------------------------- MODULE RetirementLease --------------------------
(***************************************************************************)
(* What a Retirement Lease promises (CONTRACTS.md "Retirement Lease         *)
(* observation", D-046): a lease is issued once, and what ended it is never *)
(* undone.  A lease that expired or was invalidated does not come back, and *)
(* one that was consumed stays consumed.                                    *)
(***************************************************************************)
CONSTANT Leases    \* the producer plans, one per campaign manifest

VARIABLE status    \* the status each lease projects to; "NONE" before its issue

Ended == {"EXPIRED", "INVALIDATED", "CONSUMED"}
Statuses == {"NONE", "ISSUED"} \cup Ended

Init == status = [q \in Leases |-> "NONE"]

Move(q, from, to) == status[q] \in from /\ status' = [status EXCEPT ![q] = to]

Issue(q) == Move(q, {"NONE"}, "ISSUED")
Expire(q) == Move(q, {"ISSUED"}, "EXPIRED")
Invalidate(q) == Move(q, {"ISSUED", "EXPIRED"}, "INVALIDATED")
Consume(q) == Move(q, Statuses \ {"NONE", "CONSUMED"}, "CONSUMED")

Next == \E q \in Leases : Issue(q) \/ Expire(q) \/ Invalidate(q) \/ Consume(q)

Spec == Init /\ [][Next]_status
=============================================================================
