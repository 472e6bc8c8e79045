------------------------ MODULE PaymentRefundsProofs ------------------------
(***************************************************************************)
(* Proofs about PaymentRefunds for any number of requests and faults.  The *)
(* safety properties hold for as long as the code keeps its promise: until *)
(* a rollback fails or the provider refuses a refund it accepted.          *)
(***************************************************************************)
EXTENDS PaymentRefunds, TLAPS

\* An attempt that holds the lock knows what has been taken.
LedgerOf(w) ==
  /\ pc[w] \in {"deduct", "restore", "mark_pending"} => taken = 0
  /\ pc[w] \in {"gateway", "rollback", "unpend", "mark_ok"} => taken = plan[w]

\* Nobody is about to write REFUND_FAILED, the one write that is made without
\* holding the lock.
NoVerdict ==
  /\ gateway # "failed"
  /\ \A w \in Workers : pc[w] \notin {"mark_failed", "finalize_failed"}

SoFar ==
  /\ LockIsExclusive
  /\ \A w \in Workers : LedgerOf(w)
  /\ UnrefundedIsWhole
  /\ TakenAtMostOnce
  /\ NoVerdict

RefundInv == TypeOK /\ (Reliable => SoFar)

-----------------------------------------------------------------------------
(* Type correctness *)

LEMMA TypeInit == Init => TypeOK
<1> SUFFICES ASSUME Init PROVE TypeOK
  OBVIOUS
<1>1. /\ "idle" \in Steps /\ "COMPLETED" \in Statuses
  BY DEF Steps, Statuses, Refundable
<1>2. pc \in [Workers -> Steps] /\ seen \in [Workers -> Statuses]
      /\ plan \in [Workers -> 0..1]
  BY <1>1 DEF Init
<1>3. /\ marker \in BOOLEAN /\ success \in BOOLEAN /\ asked \in BOOLEAN
      /\ unreturned \in BOOLEAN
  BY Zenon DEF Init
<1>4. status \in Statuses /\ taken \in Int /\ faults \in 0..MaxFaults
  BY <1>1, RefundFaultAssumption DEF Init
<1> QED
  BY <1>2, <1>3, <1>4 DEF Init, TypeOK

LEMMA TypeNext == TypeOK /\ [Next]_vars => TypeOK'
<1> SUFFICES ASSUME TypeOK, [Next]_vars PROVE TypeOK'
  OBVIOUS
<1> USE RefundFaultAssumption DEF TypeOK, Statuses, Refundable, Steps, Locked
<1>1. CASE RequestRefund
  BY <1>1 DEF RequestRefund, auditVars, callVars
<1>2. CASE GatewaySettles
  <2>1. gateway' \in {"paid", "failed"} /\ UNCHANGED <<status, taken, auditVars, callVars, asked>>
    BY <1>2 DEF GatewaySettles
  <2>2. refused' \in BOOLEAN /\ UNCHANGED <<unreturned, cut, faults>>
    BY <1>2 DEF GatewaySettles
  <2> QED
    BY <2>1, <2>2 DEF auditVars, callVars
<1>3. ASSUME NEW w \in Workers, PrepareRefund(w) PROVE TypeOK'
  <2>1. PICK units \in 0..1 : plan' = [plan EXCEPT ![w] = units]
    BY <1>3 DEF PrepareRefund
  <2>2. plan' \in [Workers -> 0..1] /\ asked' \in BOOLEAN
    BY <1>3, <2>1 DEF PrepareRefund
  <2> QED
    BY <1>3, <2>2 DEF PrepareRefund, auditVars
<1>4. ASSUME NEW w \in Workers, StartQuery(w) PROVE TypeOK'
  BY <1>4 DEF StartQuery, auditVars
<1>5. ASSUME NEW w \in Workers, Step(w) PROVE TypeOK'
  <2>1. CASE Lock(w)
    BY <2>1 DEF Lock, Goto, auditVars
  <2>2. CASE LockRefused(w)
    BY <2>2 DEF LockRefused, Finish, auditVars
  <2>3. CASE Deduct(w)
    BY <2>3 DEF Deduct, Goto, auditVars
  <2>4. CASE DeductFails(w)
    BY <2>4 DEF DeductFails, Goto, Fault, auditVars
  <2>5. CASE GatewayRefunds(w)
    BY <2>5 DEF GatewayRefunds, Goto, auditVars
  <2>6. CASE GatewayAccepts(w)
    BY <2>6 DEF GatewayAccepts, Goto, auditVars
  <2>7. CASE GatewayErrs(w)
    BY <2>7 DEF GatewayErrs, Goto, auditVars
  <2>8. CASE MarkRefundOk(w)
    BY <2>8 DEF MarkRefundOk, Finish, auditVars
  <2>9. CASE RollbackRefund(w)
    BY <2>9 DEF RollbackRefund, Goto, auditVars
  <2>10. CASE RollbackFails(w)
    <3>1. marker' \in BOOLEAN /\ unreturned' \in BOOLEAN
      BY <2>10, Zenon DEF RollbackFails
    <3>2. faults' \in 0..MaxFaults
      BY <2>10 DEF RollbackFails, Fault
    <3> QED
      BY <2>10, <3>1, <3>2 DEF RollbackFails, Goto
  <2>11. CASE RestoreStatus(w)
    BY <2>11 DEF RestoreStatus, Finish, auditVars
  <2>12. CASE MarkFailed(w)
    BY <2>12 DEF MarkFailed, Finish, auditVars
  <2>13. CASE MarkRefundPending(w)
    BY <2>13 DEF MarkRefundPending, Goto, auditVars
  <2>14. CASE NotePending(w)
    BY <2>14 DEF NotePending, Finish, auditVars
  <2>15. CASE ReadPendingDetail(w)
    BY <2>15 DEF ReadPendingDetail, Goto, auditVars
  <2>16. CASE QueryPaid(w)
    BY <2>16 DEF QueryPaid, Goto, auditVars
  <2>17. CASE QueryFailed(w)
    <3>1. refused' \in BOOLEAN
      BY <2>17, Zenon DEF QueryFailed
    <3>2. faults' \in 0..MaxFaults
      BY <2>17 DEF QueryFailed, Fault
    <3> QED
      BY <2>17, <3>1, <3>2 DEF QueryFailed, Goto, auditVars
  <2>18. CASE QueryUndecided(w)
    BY <2>18 DEF QueryUndecided, Finish, auditVars
  <2>19. CASE FinalizeSuccess(w)
    <3>1. success' \in BOOLEAN
      BY <2>19, Zenon DEF FinalizeSuccess
    <3>2. status' \in Statuses /\ taken' \in Int
      <4>1. CASE status = "REFUND_PENDING" /\ ~success
        BY <2>19, <4>1 DEF FinalizeSuccess
      <4>2. CASE ~(status = "REFUND_PENDING" /\ ~success)
        BY <2>19, <4>2 DEF FinalizeSuccess
      <4> QED
        BY <4>1, <4>2
    <3> QED
      BY <2>19, <3>1, <3>2 DEF FinalizeSuccess, Finish, auditVars
  <2>20. CASE FinalizeFailed(w)
    BY <2>20 DEF FinalizeFailed, Finish, auditVars
  <2> QED
    BY <1>5, <2>1, <2>2, <2>3, <2>4, <2>5, <2>6, <2>7, <2>8, <2>9, <2>10, <2>11, <2>12, <2>13, <2>14, <2>15, <2>16, <2>17, <2>18, <2>19, <2>20 DEF Step
<1>6. ASSUME NEW w \in Workers, Crash(w) PROVE TypeOK'
  BY <1>6 DEF Crash, Finish, Fault, auditVars
<1>7. CASE UNCHANGED vars
  BY <1>7 DEF vars, auditVars, callVars
<1> QED
  BY <1>1, <1>2, <1>3, <1>4, <1>5, <1>6, <1>7 DEF Next

(* Every reachable state is well typed, whatever fails. *)
THEOREM RefundTypeCorrect == Spec => []TypeOK
BY TypeInit, TypeNext, PTL DEF Spec

-----------------------------------------------------------------------------
(* The inductive invariant *)

LEMMA InvInit == Init => RefundInv
BY TypeInit DEF Init, RefundInv, SoFar, Reliable, LockIsExclusive, LedgerOf, UnrefundedIsWhole,
  TakenAtMostOnce, NoVerdict, Locked

\* What has gone wrong stays on record.
LEMMA StaysReliable ==
  ASSUME TypeOK, [Next]_vars, Reliable'
  PROVE  Reliable
<1>0. ~unreturned' /\ ~refused'
  BY Zenon DEF Reliable
<1> DEFINE Recorded == /\ unreturned' = unreturned \/ unreturned' = TRUE
                       /\ refused' = refused \/ refused' = TRUE
<1>a. ASSUME Recorded PROVE Reliable
  <2>1. unreturned' = FALSE /\ refused' = FALSE
    <3>1. unreturned' \in BOOLEAN /\ refused' \in BOOLEAN
      BY TypeNext DEF TypeOK
    <3> QED
      BY <1>0, <3>1, Zenon
  <2>2. unreturned = FALSE /\ refused = FALSE
    BY <1>a, <2>1, Zenon
  <2> QED
    BY <2>2, Zenon DEF Reliable
<1> SUFFICES Recorded
  BY <1>a
<1>1. CASE RequestRefund
  BY <1>1, Zenon DEF RequestRefund, auditVars
<1>2. CASE GatewaySettles
  BY <1>2, Zenon DEF GatewaySettles, auditVars
<1>3. ASSUME NEW w \in Workers, PrepareRefund(w) \/ StartQuery(w) \/ Crash(w)
      PROVE  Recorded
  BY <1>3, Zenon DEF PrepareRefund, StartQuery, Crash, auditVars
<1>4. ASSUME NEW w \in Workers, Step(w)
      PROVE  Recorded
  BY <1>4, Zenon DEF Step, Lock, LockRefused, Deduct, DeductFails, GatewayRefunds,
     GatewayAccepts, GatewayErrs, MarkRefundOk, RollbackRefund, RollbackFails,
     RestoreStatus, MarkFailed, MarkRefundPending, NotePending, ReadPendingDetail,
     QueryPaid, QueryFailed, QueryUndecided, FinalizeSuccess, FinalizeFailed, auditVars
<1>5. CASE UNCHANGED vars
  BY <1>5, Zenon DEF vars, auditVars
<1> QED
  BY <1>1, <1>2, <1>3, <1>4, <1>5, Zenon DEF Next

LEMMA InvNext == RefundInv /\ [Next]_vars => RefundInv'
<1> SUFFICES ASSUME RefundInv, [Next]_vars, Reliable' PROVE SoFar'
  BY TypeNext DEF RefundInv
<1>0. TypeOK' /\ TypeOK /\ Reliable /\ SoFar
  BY TypeNext, StaysReliable DEF RefundInv
<1> USE <1>0 DEF Reliable, SoFar, LockIsExclusive, LedgerOf,
  UnrefundedIsWhole, TakenAtMostOnce, NoVerdict, TypeOK, Refundable, Locked
<1>1. CASE RequestRefund
  BY <1>1 DEF RequestRefund, auditVars, callVars
<1>2. CASE GatewaySettles
  BY <1>2 DEF GatewaySettles, auditVars, callVars
<1>3. ASSUME NEW w \in Workers, PrepareRefund(w) PROVE SoFar'
  BY <1>3 DEF PrepareRefund, auditVars
<1>4. ASSUME NEW w \in Workers, StartQuery(w) PROVE SoFar'
  BY <1>4 DEF StartQuery, auditVars
<1>5. ASSUME NEW w \in Workers, Step(w) PROVE SoFar'
  <2>1. CASE Lock(w)
    BY <2>1 DEF Lock, Goto, auditVars
  <2>2. CASE LockRefused(w)
    BY <2>2 DEF LockRefused, Finish, auditVars
  <2>3. CASE Deduct(w)
    BY <2>3 DEF Deduct, Goto, auditVars
  <2>4. CASE DeductFails(w)
    BY <2>4 DEF DeductFails, Goto, Fault, auditVars
  <2>5. CASE GatewayRefunds(w)
    BY <2>5 DEF GatewayRefunds, Goto, auditVars
  <2>6. CASE GatewayAccepts(w)
    BY <2>6 DEF GatewayAccepts, Goto, auditVars
  <2>7. CASE GatewayErrs(w)
    BY <2>7 DEF GatewayErrs, Goto, auditVars
  <2>8. CASE MarkRefundOk(w)
    BY <2>8 DEF MarkRefundOk, Finish, auditVars
  <2>9. CASE RollbackRefund(w)
    BY <2>9 DEF RollbackRefund, Goto, auditVars
  <2>10. CASE RollbackFails(w)
    BY <2>10 DEF RollbackFails, Goto, Fault, auditVars
  <2>11. CASE RestoreStatus(w)
    BY <2>11 DEF RestoreStatus, Finish, auditVars
  <2>12. CASE MarkFailed(w)
    BY <2>12 DEF MarkFailed, Finish, auditVars
  <2>13. CASE MarkRefundPending(w)
    BY <2>13 DEF MarkRefundPending, Goto, auditVars
  <2>14. CASE NotePending(w)
    BY <2>14 DEF NotePending, Finish, auditVars
  <2>15. CASE ReadPendingDetail(w)
    BY <2>15 DEF ReadPendingDetail, Goto, auditVars
  <2>16. CASE QueryPaid(w)
    BY <2>16 DEF QueryPaid, Goto, auditVars
  <2>17. CASE QueryFailed(w)
    BY <2>17 DEF QueryFailed, Goto, Fault, auditVars
  <2>18. CASE QueryUndecided(w)
    BY <2>18 DEF QueryUndecided, Finish, auditVars
  <2>19. CASE FinalizeSuccess(w)
    BY <2>19 DEF FinalizeSuccess, Finish, auditVars
  <2>20. CASE FinalizeFailed(w)
    BY <2>20 DEF FinalizeFailed, Finish, auditVars
  <2> QED
    BY <1>5, <2>1, <2>2, <2>3, <2>4, <2>5, <2>6, <2>7, <2>8, <2>9, <2>10, <2>11, <2>12, <2>13, <2>14, <2>15, <2>16, <2>17, <2>18, <2>19, <2>20 DEF Step
<1>6. ASSUME NEW w \in Workers, Crash(w) PROVE SoFar'
  BY <1>6 DEF Crash, Finish, Fault, auditVars
<1>7. CASE UNCHANGED vars
  BY <1>7 DEF vars, auditVars, callVars
<1> QED
  BY <1>1, <1>2, <1>3, <1>4, <1>5, <1>6, <1>7 DEF Next

LEMMA RefundInvariance ==
  Spec => []RefundInv
BY InvInit, InvNext, PTL DEF Spec

-----------------------------------------------------------------------------
(* What the order bought is taken back at most once, whatever the
   interleaving of attempts, queries, crashes and failed deductions.        *)
THEOREM RefundTakesOnce ==
  Spec => []TakenAtMostOnce
<1>1. RefundInv => TakenAtMostOnce
  BY DEF RefundInv, SoFar, TakenAtMostOnce
<1> QED
  BY <1>1, RefundInvariance, PTL

(* An order that is not refunded, nor being refunded, has lost nothing. *)
THEOREM RefundLeavesWhole ==
  Spec => []UnrefundedIsWhole
<1>1. RefundInv => UnrefundedIsWhole
  BY DEF RefundInv, SoFar, UnrefundedIsWhole
<1> QED
  BY <1>1, RefundInvariance, PTL

(* The conditional update to REFUNDING is a lock: between it and the write
   that ends the attempt no other request changes the status.               *)
THEOREM RefundLockExcludes ==
  Spec => []LockIsExclusive
<1>1. RefundInv => LockIsExclusive
  BY DEF RefundInv, SoFar, LockIsExclusive
<1> QED
  BY <1>1, RefundInvariance, PTL

(* A refunded order stays refunded. *)
THEOREM RefundIsFinal ==
  Spec => RefundedIsFinal
<1>1. RefundInv /\ [Next]_vars =>
        [Reliable' /\ status = "REFUNDED" => status' = "REFUNDED"]_vars
  <2> SUFFICES ASSUME RefundInv, [Next]_vars, Reliable', status = "REFUNDED"
               PROVE  status' = "REFUNDED"
    OBVIOUS
  <2>0. Reliable /\ SoFar
    BY StaysReliable DEF RefundInv
  <2> USE <2>0 DEF SoFar, LockIsExclusive, NoVerdict, Locked, Refundable
  <2>1. ASSUME NEW w \in Workers, Step(w) PROVE status' = "REFUNDED"
    BY <2>1 DEF Step, Lock, LockRefused, Deduct, DeductFails, GatewayRefunds, GatewayAccepts, GatewayErrs, MarkRefundOk, RollbackRefund, RollbackFails, RestoreStatus, MarkFailed, MarkRefundPending, NotePending, ReadPendingDetail, QueryPaid, QueryFailed, QueryUndecided, FinalizeSuccess, FinalizeFailed
  <2>2. ASSUME NEW w \in Workers, PrepareRefund(w) \/ StartQuery(w) \/ Crash(w)
        PROVE  status' = "REFUNDED"
    BY <2>2 DEF PrepareRefund, StartQuery, Crash
  <2>3. CASE RequestRefund \/ GatewaySettles \/ UNCHANGED vars
    BY <2>3 DEF RequestRefund, GatewaySettles, vars
  <2> QED
    BY <2>1, <2>2, <2>3 DEF Next
<1> QED
  BY <1>1, RefundInvariance, PTL DEF Spec, RefundedIsFinal
=============================================================================
