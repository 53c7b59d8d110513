------------------------- MODULE ProducerGate_proofs -------------------------
(***************************************************************************)
(* Proofs about ProducerGate, for every set of executors, every length of  *)
(* the campaign's history and every number of schema changes by others.    *)
(***************************************************************************)
EXTENDS ProducerGate, TLAPS

\* An executor at one of these points has consumed its plan and not closed it.
Holding == {"claimed", "connected", "sent", "replied", "lost", "closing"}

\* Between steps an executor works on a plan, and on none when it is idle.
WorksOnAPlan == \A e \in Executors : ~At(e, "idle") => exec[e].plan \in GatePlans

\* Whoever holds a consumed plan finds its intent on record, and is the only one.
HolderIsAlone ==
  \A e \in Executors : exec[e].at \in Holding =>
     /\ ledger[exec[e].plan] = "INTENT_RECORDED"
     /\ \A f \in Executors \ {e} : exec[f].at \in Holding => exec[f].plan # exec[e].plan

\* Who resolves an attempt found a consumed plan and an outcome that is known.
ResolvesAnOutcome ==
  \A e \in Executors : At(e, "resolving") =>
     /\ ledger[exec[e].plan] \notin Open
     /\ exec[e].outcome # "OUTCOME_UNKNOWN"

\* The server knows of a plan when its statement was sent, which is after its
\* claim and, as long as its holder is only connecting, not yet.
SentWhenConsumed ==
  /\ \A q \in GatePlans : /\ tx[q] = "none" <=> sends[q] = 0
                          /\ ledger[q] \in Open => tx[q] = "none"
  /\ \A e \in Executors : exec[e].at \in {"claimed", "connected"} => tx[exec[e].plan] = "none"

\* Who is about to record COMMITTED has seen the column gone.
CommittedWasSeen ==
  \A e \in Executors :
     exec[e].at \in {"closing", "resolving"} /\ exec[e].outcome = "COMMITTED" => ~table.legacy

\* The inductive invariant.
GateInv ==
  /\ TypeOK
  /\ WorksOnAPlan /\ HolderIsAlone /\ ResolvesAnOutcome /\ SentWhenConsumed
  /\ CommittedWasSeen /\ ExecutedMeansDropped

-----------------------------------------------------------------------------
\* The initial state satisfies the invariant.
LEMMA GateInit == Init => GateInv
<1> SUFFICES ASSUME Init PROVE GateInv
  OBVIOUS
<1>1. TypeOK
  BY MaxManifestAssumption, MaxDDLAssumption
     DEF Init, TypeOK, GatePlans, NoPlan, Tables, Pristine, Statuses, Open, Points, Idle, Outcomes
<1>2. QED
  BY <1>1 DEF Init, GateInv, WorksOnAPlan, HolderIsAlone, ResolvesAnOutcome, SentWhenConsumed,
              CommittedWasSeen, ExecutedMeansDropped, At, Idle, Holding, Open

\* Executors as TypeOK has them.
Executions == [at : Points, plan : GatePlans \cup {NoPlan}, outcome : Outcomes]

\* Moving an executor on, to the recording of an outcome or to rest keeps its type.
LEMMA MoveTyped ==
  ASSUME exec \in [Executors -> Executions], NEW e \in Executors
  PROVE  /\ \A point \in Points : Goto(e, point) => exec' \in [Executors -> Executions]
         /\ \A outcome \in Outcomes : Closing(e, outcome) => exec' \in [Executors -> Executions]
         /\ Stop(e) => exec' \in [Executors -> Executions]
<1>1. "closing" \in Points
  BY DEF Points
<1>2. Idle \in Executions
  BY DEF Idle, Executions, Points, Outcomes
<1>3. ASSUME NEW point \in Points, Goto(e, point) PROVE exec' \in [Executors -> Executions]
  BY <1>3 DEF Goto, Executions
<1>4. ASSUME NEW outcome \in Outcomes, Closing(e, outcome)
      PROVE  exec' \in [Executors -> Executions]
  BY <1>1, <1>4 DEF Closing, Executions
<1>5. ASSUME Stop(e) PROVE exec' \in [Executors -> Executions]
  BY <1>2, <1>5 DEF Stop
<1>6. QED
  BY <1>3, <1>4, <1>5

\* Every step keeps the types.
LEMMA GateTypeStep == GateInv /\ [Next]_vars => TypeOK'
<1> SUFFICES ASSUME GateInv, [Next]_vars PROVE TypeOK'
  OBVIOUS
<1> USE DEF campaign, native, ghosts
<1>1. TypeOK /\ exec \in [Executors -> Executions]
  BY DEF GateInv, TypeOK, Executions
<1>2. {"verified", "rechecked", "claimed", "connected", "sent", "replied", "lost"} \subseteq Points
  BY DEF Points
<1>3. Outcomes = {"COMMITTED", "NOT_COMMITTED", "OUTCOME_UNKNOWN"}
  BY DEF Outcomes
<1>4. CASE AppendEvent
  BY <1>1, <1>4, MaxManifestAssumption DEF AppendEvent, TypeOK, GatePlans
<1>5. CASE AlterTable
  <2>1. table' \in Tables
    BY <1>1, <1>5, MaxDDLAssumption DEF AlterTable, TypeOK, Tables
  <2>2. QED
    BY <1>1, <1>5, <2>1 DEF AlterTable, TypeOK
<1>6. CASE IssuePlan
  BY <1>1, <1>6 DEF IssuePlan, TypeOK, Statuses, Open
<1>7. ASSUME NEW q \in GatePlans, Commit(q) \/ RefuseInTransaction(q) \/ Fail(q)
      PROVE  TypeOK'
  <2>1. table' \in Tables
    BY <1>1, <1>7 DEF Commit, RefuseInTransaction, Fail, TypeOK, Tables
  <2>2. QED
    BY <1>1, <1>7, <2>1 DEF Commit, RefuseInTransaction, Fail, TypeOK
<1>8. ASSUME NEW e \in Executors, Step(e) \/ Interrupt(e) \/ \E q \in GatePlans : Reread(e, q)
      PROVE  TypeOK'
  <2>1. exec' \in [Executors -> Executions]
    <3>1. CASE Start(e)
      <4>1. manifest \in GatePlans /\ "verifying" \in Points
        BY <1>1 DEF TypeOK, Points
      <4>2. QED
        BY <1>1, <3>1, <4>1 DEF Start, Executions
    <3>2. CASE Verify(e) \/ RecheckManifest(e) \/ claim_gate_plan(e) \/ Connect(e)
               \/ execute_drop(e) \/ LoseReply(e)
      <4>1. \E point \in {"verified", "rechecked", "claimed", "connected", "sent", "lost"} :
               Goto(e, point)
        BY <3>2 DEF Verify, RecheckManifest, claim_gate_plan, Connect, execute_drop, LoseReply
      <4>2. QED
        BY <1>1, <1>2, <4>1, MoveTyped
    <3>3. CASE RefuseBeforeClaim(e) \/ FinishAttempt(e) \/ ResolveAttempt(e) \/ ResolveRefused(e)
               \/ Interrupt(e)
      BY <1>1, <3>3, MoveTyped
         DEF RefuseBeforeClaim, FinishAttempt, ResolveAttempt, ResolveRefused, Interrupt
    <3>4. CASE RefuseBeforeSend(e) \/ ClientUnavailable(e) \/ Reply(e) \/ RereadAfterReply(e)
      BY <1>1, <1>2, <1>3, <3>4, MoveTyped
         DEF RefuseBeforeSend, ClientUnavailable, Reply, RereadAfterReply
    <3>5. CASE RereadAfterLoss(e)
      <4>1. Classified(exec[e].plan) \in Outcomes \cup {"REFUSED"}
        BY <1>3 DEF Classified
      <4>2. QED
        BY <1>1, <1>3, <3>5, <4>1, MoveTyped DEF RereadAfterLoss
    <3>6. ASSUME NEW q \in GatePlans, Reread(e, q)
          PROVE  exec' \in [Executors -> Executions]
      <4>1. [at |-> "resolving", plan |-> q, outcome |-> Classified(q)] \in Executions
        BY <1>3, <3>6 DEF Reread, Executions, Points
      <4>2. QED
        BY <1>1, <3>6, <4>1 DEF Reread
    <3>7. QED
      BY <1>8, <3>1, <3>2, <3>3, <3>4, <3>5, <3>6 DEF Step
  <2>2. ledger' \in [GatePlans -> Statuses]
    BY <1>1, <1>3, <1>8
       DEF TypeOK, Executions, Statuses, Step, Start, Verify, RecheckManifest, claim_gate_plan,
           RefuseBeforeClaim, Connect, RefuseBeforeSend, ClientUnavailable, execute_drop, Reply,
           LoseReply, RereadAfterReply, RereadAfterLoss, FinishAttempt, ResolveAttempt, Recorded,
           ResolveRefused, Interrupt, Reread
  <2>3. /\ tx' \in [GatePlans -> {"none", "open", "committed", "refused", "failed"}]
        /\ sends' \in [GatePlans -> 0 .. 1]
    <3>1. CASE execute_drop(e)
      <4>1. exec[e].plan \in GatePlans /\ tx[exec[e].plan] = "none" /\ sends[exec[e].plan] = 0
        BY <3>1 DEF execute_drop, At, GateInv, WorksOnAPlan, SentWhenConsumed
      <4>2. QED
        BY <1>1, <3>1, <4>1 DEF execute_drop, TypeOK
    <3>2. CASE ~execute_drop(e)
      BY <1>1, <1>8, <3>2
         DEF TypeOK, Step, Start, Verify, RecheckManifest, claim_gate_plan, RefuseBeforeClaim,
             Connect, RefuseBeforeSend, ClientUnavailable, Reply, LoseReply, RereadAfterReply,
             RereadAfterLoss, FinishAttempt, ResolveAttempt, ResolveRefused, Interrupt, Reread
    <3>3. QED
      BY <3>1, <3>2
  <2>4. abandoned' \in SUBSET GatePlans
    BY <1>1, <1>8
       DEF TypeOK, GateInv, WorksOnAPlan, At, Step, Start, Verify, RecheckManifest,
           claim_gate_plan, RefuseBeforeClaim, Connect, RefuseBeforeSend, ClientUnavailable,
           execute_drop, Reply, LoseReply, RereadAfterReply, RereadAfterLoss, FinishAttempt,
           ResolveAttempt, ResolveRefused, Interrupt, Reread
  <2>5. UNCHANGED <<manifest, ready, before, table>>
    BY <1>8
       DEF Step, Start, Verify, RecheckManifest, claim_gate_plan, RefuseBeforeClaim, Connect,
           RefuseBeforeSend, ClientUnavailable, execute_drop, Reply, LoseReply,
           RereadAfterReply, RereadAfterLoss, FinishAttempt, ResolveAttempt, ResolveRefused,
           Interrupt, Reread
  <2>6. QED
    BY <1>1, <2>1, <2>2, <2>3, <2>4, <2>5 DEF TypeOK, Executions
<1>9. CASE UNCHANGED vars
  BY <1>1, <1>9 DEF vars, TypeOK
<1>10. QED
  BY <1>4, <1>5, <1>6, <1>7, <1>8, <1>9 DEF Next, Server

-----------------------------------------------------------------------------
\* What moving one executor does to it, and that it leaves the others alone.
LEMMA MovesOne ==
  ASSUME exec \in [Executors -> Executions], NEW e \in Executors
  PROVE  /\ \A point \in Points : Goto(e, point) =>
              exec'[e] = [at |-> point, plan |-> exec[e].plan, outcome |-> exec[e].outcome]
         /\ \A outcome \in Outcomes : Closing(e, outcome) =>
              exec'[e] = [at |-> "closing", plan |-> exec[e].plan, outcome |-> outcome]
         /\ Stop(e) => exec'[e] = Idle
         /\ (\/ \E point \in Points : Goto(e, point)
             \/ \E outcome \in Outcomes : Closing(e, outcome)
             \/ Stop(e))
              => \A f \in Executors \ {e} : exec'[f] = exec[f]
  BY DEF Goto, Closing, Stop, Executions

\* Every step keeps the invariant.
LEMMA GateStep == GateInv /\ [Next]_vars => GateInv'
<1> SUFFICES ASSUME GateInv, [Next]_vars PROVE GateInv'
  OBVIOUS
<1> USE DEF campaign, native, ghosts
<1> DEFINE Rest == /\ WorksOnAPlan /\ HolderIsAlone /\ ResolvesAnOutcome /\ SentWhenConsumed
                   /\ CommittedWasSeen /\ ExecutedMeansDropped
<1>1. TypeOK /\ TypeOK' /\ Rest
  BY GateTypeStep DEF GateInv
<1>2. SUFFICES Rest'
  BY <1>1 DEF GateInv
<1>3. exec \in [Executors -> Executions] /\ exec' \in [Executors -> Executions]
  BY <1>1 DEF TypeOK, Executions
<1>4. {"verified", "rechecked", "claimed", "connected", "sent", "replied", "lost"} \subseteq Points
  BY DEF Points
<1>5. Outcomes = {"COMMITTED", "NOT_COMMITTED", "OUTCOME_UNKNOWN"}
  BY DEF Outcomes
<1> USE DEF WorksOnAPlan, HolderIsAlone, ResolvesAnOutcome, SentWhenConsumed, CommittedWasSeen,
            ExecutedMeansDropped, At, Holding, Open
<1>6. CASE AppendEvent
  BY <1>1, <1>6 DEF AppendEvent
<1>7. CASE AlterTable
  <2>1. table'.legacy = table.legacy
    BY <1>1, <1>7 DEF AlterTable, TypeOK, Tables
  <2>2. QED
    BY <1>1, <1>7, <2>1 DEF AlterTable
<1>8. CASE IssuePlan
  BY <1>1, <1>8 DEF IssuePlan, TypeOK
<1>9. ASSUME NEW q \in GatePlans, Commit(q) \/ RefuseInTransaction(q) \/ Fail(q)
      PROVE  Rest'
  <2>1. table'.legacy => table.legacy
    BY <1>1, <1>9 DEF Commit, RefuseInTransaction, Fail, TypeOK, Tables
  <2>2. /\ tx[q] = "open" /\ tx'[q] # "none"
        /\ \A r \in GatePlans \ {q} : tx'[r] = tx[r]
        /\ UNCHANGED <<ledger, exec, sends>>
    BY <1>1, <1>9 DEF Commit, RefuseInTransaction, Fail, TypeOK
  <2>3. QED
    BY <1>1, <2>1, <2>2
<1>10. ASSUME NEW e \in Executors, Start(e) PROVE Rest'
  <2>1. /\ exec'[e].at = "verifying" /\ exec'[e].plan \in GatePlans
        /\ \A f \in Executors \ {e} : exec'[f] = exec[f]
    BY <1>1, <1>3, <1>10 DEF Start, TypeOK, Executions
  <2>2. UNCHANGED <<ledger, tx, sends, table>>
    BY <1>10 DEF Start
  <2>3. QED
    BY <1>1, <2>1, <2>2
<1>11. ASSUME NEW e \in Executors,
              Verify(e) \/ RecheckManifest(e) \/ Connect(e) \/ LoseReply(e)
       PROVE  Rest'
  <2>1. /\ exec'[e].plan = exec[e].plan /\ exec'[e].outcome = exec[e].outcome
        /\ \/ exec[e].at \in {"verifying", "verified"}
              /\ exec'[e].at \in {"verified", "rechecked"}
           \/ exec[e].at = "claimed" /\ exec'[e].at = "connected"
           \/ exec[e].at = "sent" /\ exec'[e].at = "lost"
        /\ \A f \in Executors \ {e} : exec'[f] = exec[f]
    BY <1>3, <1>4, <1>11, MovesOne DEF Verify, RecheckManifest, Connect, LoseReply
  <2>2. UNCHANGED <<ledger, tx, sends, table>>
    BY <1>11 DEF Verify, RecheckManifest, Connect, LoseReply
  <2>3. QED
    BY <1>1, <2>1, <2>2
<1>12. ASSUME NEW e \in Executors, claim_gate_plan(e) PROVE Rest'
  <2>1. /\ exec[e].plan \in GatePlans
        /\ exec'[e].plan = exec[e].plan /\ exec'[e].at = "claimed"
        /\ \A f \in Executors \ {e} : exec'[f] = exec[f]
    BY <1>1, <1>3, <1>4, <1>12, MovesOne DEF claim_gate_plan
  <2>2. /\ ledger[exec[e].plan] = "ISSUED" /\ ledger'[exec[e].plan] = "INTENT_RECORDED"
        /\ \A q \in GatePlans \ {exec[e].plan} : ledger'[q] = ledger[q]
        /\ UNCHANGED <<tx, sends, table>>
    BY <1>1, <1>12, <2>1 DEF claim_gate_plan, TypeOK
  <2>3. QED
    BY <1>1, <2>1, <2>2
<1>13. ASSUME NEW e \in Executors,
              RefuseBeforeClaim(e) \/ ResolveRefused(e) \/ Interrupt(e)
       PROVE  Rest'
  <2>1. exec'[e] = Idle /\ \A f \in Executors \ {e} : exec'[f] = exec[f]
    BY <1>3, <1>13, MovesOne DEF RefuseBeforeClaim, ResolveRefused, Interrupt
  <2>2. UNCHANGED <<ledger, tx, sends, table>>
    BY <1>13 DEF RefuseBeforeClaim, ResolveRefused, Interrupt
  <2>3. QED
    BY <1>1, <2>1, <2>2 DEF Idle
<1>14. ASSUME NEW e \in Executors,
              \/ RefuseBeforeSend(e) \/ ClientUnavailable(e) \/ Reply(e)
              \/ RereadAfterReply(e) \/ RereadAfterLoss(e)
       PROVE  Rest'
  <2>1. /\ exec[e].at \in {"claimed", "sent", "replied", "lost"}
        /\ exec'[e].plan = exec[e].plan /\ exec'[e].at \in {"replied", "closing"}
        /\ exec'[e].at = "closing" /\ exec'[e].outcome = "COMMITTED" => ~table.legacy
        /\ \A f \in Executors \ {e} : exec'[f] = exec[f]
    <3>1. CASE RefuseBeforeSend(e) \/ ClientUnavailable(e) \/ Reply(e)
      BY <1>3, <1>4, <1>5, <3>1, MovesOne DEF RefuseBeforeSend, ClientUnavailable, Reply
    <3>2. CASE RereadAfterReply(e)
      BY <1>3, <1>5, <3>2, MovesOne DEF RereadAfterReply, VerifiedCommitted
    <3>3. CASE RereadAfterLoss(e)
      <4>1. /\ Classified(exec[e].plan) \in Outcomes \cup {"REFUSED"}
            /\ Classified(exec[e].plan) = "COMMITTED" => ~table.legacy
        BY <1>5 DEF Classified
      <4>2. QED
        BY <1>3, <1>5, <3>3, <4>1, MovesOne DEF RereadAfterLoss
    <3>4. QED
      BY <1>14, <3>1, <3>2, <3>3
  <2>2. UNCHANGED <<ledger, tx, sends, table>>
    BY <1>14 DEF RefuseBeforeSend, ClientUnavailable, Reply, RereadAfterReply, RereadAfterLoss
  <2>3. QED
    BY <1>1, <2>1, <2>2
<1>15. ASSUME NEW e \in Executors, execute_drop(e) PROVE Rest'
  <2>1. /\ exec[e].at = "connected" /\ exec[e].plan \in GatePlans
        /\ exec'[e].plan = exec[e].plan /\ exec'[e].at = "sent"
        /\ \A f \in Executors \ {e} : exec'[f] = exec[f]
    BY <1>1, <1>3, <1>4, <1>15, MovesOne DEF execute_drop
  <2>2. /\ tx'[exec[e].plan] = "open"
        /\ sends[exec[e].plan] = 0 /\ sends'[exec[e].plan] = 1
        /\ \A q \in GatePlans \ {exec[e].plan} : tx'[q] = tx[q] /\ sends'[q] = sends[q]
        /\ UNCHANGED <<ledger, table>>
    BY <1>1, <1>15, <2>1 DEF execute_drop, TypeOK
  <2>3. QED
    BY <1>1, <2>1, <2>2
<1>16. ASSUME NEW e \in Executors, FinishAttempt(e) \/ ResolveAttempt(e) PROVE Rest'
  <2>1. /\ exec[e].at \in {"closing", "resolving"} /\ exec[e].plan \in GatePlans
        /\ exec'[e] = Idle
        /\ \A f \in Executors \ {e} : exec'[f] = exec[f]
    BY <1>1, <1>3, <1>16, MovesOne DEF FinishAttempt, ResolveAttempt
  <2>2. /\ ledger[exec[e].plan] = IF exec[e].at = "closing" THEN "INTENT_RECORDED"
                                                          ELSE "OUTCOME_UNKNOWN"
        /\ ledger'[exec[e].plan] = IF exec[e].outcome = "COMMITTED" THEN "EXECUTED"
                                                                 ELSE exec[e].outcome
        /\ \A q \in GatePlans \ {exec[e].plan} : ledger'[q] = ledger[q]
        /\ UNCHANGED <<tx, sends, table>>
    BY <1>1, <1>16, <2>1 DEF FinishAttempt, ResolveAttempt, Recorded, TypeOK
  <2>3. exec[e].outcome \in {"COMMITTED", "NOT_COMMITTED", "OUTCOME_UNKNOWN"}
    BY <1>3, <1>5 DEF Executions
  <2>4. QED
    BY <1>1, <2>1, <2>2, <2>3 DEF Idle
<1>17. ASSUME NEW e \in Executors, NEW q \in GatePlans, Reread(e, q) PROVE Rest'
  <2>1. /\ exec'[e] = [at |-> "resolving", plan |-> q, outcome |-> Classified(q)]
        /\ Classified(q) # "OUTCOME_UNKNOWN" /\ (Classified(q) = "COMMITTED" => ~table.legacy)
        /\ \A f \in Executors \ {e} : exec'[f] = exec[f]
    BY <1>3, <1>17 DEF Reread, Classified, Executions
  <2>2. ledger[q] = "OUTCOME_UNKNOWN" /\ UNCHANGED <<ledger, tx, sends, table>>
    BY <1>17 DEF Reread
  <2>3. QED
    BY <1>1, <2>1, <2>2
<1>18. CASE UNCHANGED vars
  BY <1>1, <1>18 DEF vars
<1>19. QED
  BY <1>6, <1>7, <1>8, <1>9, <1>10, <1>11, <1>12, <1>13, <1>14, <1>15, <1>16, <1>17, <1>18
     DEF Next, Server, Step

-----------------------------------------------------------------------------
\* The invariant holds throughout.
LEMMA GateInvariance == Spec => []GateInv
  BY GateInit, GateStep, PTL DEF Spec

\* Every variable keeps its type: no statement is sent a second time, and no
\* outcome outside the ledger's statuses is recorded.
THEOREM GateTyped == Spec => []TypeOK
<1>1. GateInv => TypeOK
  BY DEF GateInv
<1>2. QED
  BY <1>1, GateInvariance, PTL

\* EXECUTED is on record only while the column is gone, whichever of the answer,
\* the reread and a later resolution put it there (gate.py, postgres_producer.py).
THEOREM ExecutedIsTrue == Spec => []ExecutedMeansDropped
<1>1. GateInv => ExecutedMeansDropped
  BY DEF GateInv
<1>2. QED
  BY <1>1, GateInvariance, PTL

\* Whoever drops the column acts on a consumed plan, and on the table that the
\* plan was made for (the drop transaction of postgres_producer.py).
THEOREM DropsArePlanned == Spec => DropsOnlyAsPlanned
<1> DEFINE Drop == table.legacy /\ ~table'.legacy
                     => \E q \in GatePlans : ledger[q] \notin Open /\ table = before[q]
<1>1. GateInv /\ [Next]_vars => [Drop]_vars
  <2> SUFFICES ASSUME GateInv, Next, table.legacy, ~table'.legacy
               PROVE  \E q \in GatePlans : ledger[q] \notin Open /\ table = before[q]
    OBVIOUS
  <2>1. TypeOK /\ SentWhenConsumed
    BY DEF GateInv
  <2>2. CASE AlterTable
    BY <2>1, <2>2 DEF AlterTable, TypeOK, Tables
  <2>3. ASSUME NEW q \in GatePlans, Commit(q)
        PROVE  ledger[q] \notin Open /\ table = before[q]
    BY <2>1, <2>3 DEF Commit, SentWhenConsumed
  <2>4. CASE UNCHANGED table
    BY <2>4
  <2>5. \/ AlterTable \/ UNCHANGED table \/ \E q \in GatePlans : Commit(q)
    BY DEF Next, Server, AppendEvent, IssuePlan, RefuseInTransaction, Fail, native, Step, Start,
           Verify, RecheckManifest, claim_gate_plan, RefuseBeforeClaim, Connect,
           RefuseBeforeSend, ClientUnavailable, execute_drop, Reply, LoseReply,
           RereadAfterReply, RereadAfterLoss, FinishAttempt, ResolveAttempt, ResolveRefused,
           Interrupt, Reread
  <2>6. QED
    BY <2>2, <2>3, <2>4, <2>5
<1>2. QED
  BY <1>1, GateInvariance, PTL DEF Spec, DropsOnlyAsPlanned

-----------------------------------------------------------------------------
\* The ledger of the abstract promise starts as that of the gate.
LEMMA LedgerInit == Init => Ledger!Init
  BY DEF Init, Ledger!Init

\* Every step of the gate is one of the promise, or leaves ledger and acts alone.
LEMMA LedgerStep == GateInv /\ [Next]_vars => [Ledger!Next]_(Ledger!vars)
<1> SUFFICES ASSUME GateInv, [Next]_vars PROVE Ledger!Next \/ UNCHANGED <<ledger, sends>>
  BY DEF Ledger!vars
<1> USE DEF campaign, native, ghosts
<1>1. /\ TypeOK /\ WorksOnAPlan /\ HolderIsAlone /\ ResolvesAnOutcome /\ SentWhenConsumed
      /\ exec \in [Executors -> Executions]
  BY DEF GateInv, TypeOK, Executions
<1>2. CASE IssuePlan
  <2>1. Ledger!Issue(manifest)
    BY <1>2 DEF IssuePlan, Ledger!Issue, Ledger!Move
  <2>2. QED
    BY <1>1, <2>1 DEF Ledger!Next, TypeOK
<1>3. ASSUME NEW e \in Executors, claim_gate_plan(e) PROVE Ledger!Next
  <2>1. exec[e].plan \in GatePlans /\ Ledger!Consume(exec[e].plan)
    BY <1>1, <1>3 DEF claim_gate_plan, WorksOnAPlan, At, Ledger!Consume, Ledger!Move
  <2>2. QED
    BY <2>1 DEF Ledger!Next
<1>4. ASSUME NEW e \in Executors, execute_drop(e) PROVE Ledger!Next
  <2>1. exec[e].plan \in GatePlans /\ ledger[exec[e].plan] = "INTENT_RECORDED"
    BY <1>1, <1>4 DEF execute_drop, WorksOnAPlan, HolderIsAlone, Holding, At
  <2>2. sends[exec[e].plan] = 0
    BY <1>1, <1>4, <2>1 DEF execute_drop, SentWhenConsumed, At
  <2>3. sends' = [sends EXCEPT ![exec[e].plan] = 1]
    BY <1>1, <1>4, <2>1, <2>2 DEF execute_drop, TypeOK
  <2>4. Ledger!Act(exec[e].plan)
    BY <1>4, <2>1, <2>2, <2>3 DEF execute_drop, Ledger!Act
  <2>5. QED
    BY <2>1, <2>4 DEF Ledger!Next
<1>5. ASSUME NEW e \in Executors, FinishAttempt(e) \/ ResolveAttempt(e) PROVE Ledger!Next
  <2> DEFINE q == exec[e].plan
             s == IF exec[e].outcome = "COMMITTED" THEN "EXECUTED" ELSE exec[e].outcome
  <2>1. q \in GatePlans /\ exec[e].outcome \in Outcomes
    BY <1>1, <1>5 DEF FinishAttempt, ResolveAttempt, WorksOnAPlan, At, Executions
  <2>2. ledger' = [ledger EXCEPT ![q] = s] /\ UNCHANGED sends
    BY <1>5 DEF FinishAttempt, ResolveAttempt, Recorded
  <2>3. CASE FinishAttempt(e)
    <3>1. ledger[q] = "INTENT_RECORDED" /\ s \in {"EXECUTED", "NOT_COMMITTED", "OUTCOME_UNKNOWN"}
      BY <2>1, <2>3 DEF FinishAttempt, Recorded, Outcomes
    <3>2. Ledger!Close(q)
      BY <2>2, <3>1 DEF Ledger!Close, Ledger!Closed, Ledger!Move
    <3>3. QED
      BY <2>1, <3>2 DEF Ledger!Next
  <2>4. CASE ResolveAttempt(e)
    <3>1. ledger[q] = "OUTCOME_UNKNOWN" /\ s \in {"EXECUTED", "NOT_COMMITTED"}
      BY <1>1, <2>1, <2>4 DEF ResolveAttempt, Recorded, Outcomes, ResolvesAnOutcome, At
    <3>2. Ledger!Resolve(q)
      BY <2>2, <3>1 DEF Ledger!Resolve, Ledger!Closed, Ledger!Move
    <3>3. QED
      BY <2>1, <3>2 DEF Ledger!Next
  <2>5. QED
    BY <1>5, <2>3, <2>4
<1>6. CASE UNCHANGED <<ledger, sends>>
  BY <1>6
<1>7. \/ IssuePlan
      \/ \E e \in Executors : \/ claim_gate_plan(e) \/ execute_drop(e)
                              \/ FinishAttempt(e) \/ ResolveAttempt(e)
      \/ UNCHANGED <<ledger, sends>>
  BY DEF Next, Server, AppendEvent, AlterTable, Commit, RefuseInTransaction, Fail, Step, Start,
         Verify, RecheckManifest, RefuseBeforeClaim, Connect, RefuseBeforeSend,
         ClientUnavailable, Reply, LoseReply, RereadAfterReply, RereadAfterLoss,
         ResolveRefused, Interrupt, Reread, vars
<1>8. QED
  BY <1>2, <1>3, <1>4, <1>5, <1>6, <1>7

\* The gate keeps the promise of GateLedger (D-022, CONTRACTS.md "Execution must"):
\* plans are consumed once, before their action, acted on at most once and never
\* reopened, for any number of executors, plans and crashes.
THEOREM GateKeepsItsPromise == Spec => ImplementsLedger
  BY LedgerInit, LedgerStep, GateInvariance, PTL DEF Spec, ImplementsLedger, Ledger!Spec
=============================================================================
