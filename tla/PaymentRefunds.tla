--------------------------- MODULE PaymentRefunds ---------------------------
(***************************************************************************)
(* The refund of one completed payment order.  A user requests it, an      *)
(* administrator executes it (PrepareRefund and ExecuteRefund in one HTTP  *)
(* request) or asks the provider how a pending one ended                   *)
(* (QueryAndFinalizeRefund).  Nothing serialises the requests but the      *)
(* conditional updates of the order's status.                              *)
(*                                                                         *)
(* A worker is one of the administrator's requests in progress; one action *)
(* is one database statement, transaction or provider call, with the audit *)
(* row that follows it unless somebody decides on that row.  What is       *)
(* refunded (a balance or days of a subscription) is one unit: taken       *)
(* counts how often it was taken back from the user and not returned.      *)
(* REFUNDED stands for PARTIALLY_REFUNDED too.                             *)
(***************************************************************************)
EXTENDS Integers

CONSTANTS
  Workers,         \* requests in progress
  MaxFaults,       \* bound: failed deductions, lost audit rows, unknown answers
                   \* and crashes in a behaviour
  Crashes,         \* TRUE: a request may die between two steps
  RollbacksFail,   \* TRUE: returning a deduction to the user may fail
  FailedVerdicts   \* TRUE: a refund the provider accepted may fail later, or
                   \* a query of it be answered by something unknown

ASSUME RefundFaultAssumption == MaxFaults \in Nat
ASSUME RefundSwitchAssumption ==
  /\ Crashes \in BOOLEAN
  /\ RollbacksFail \in BOOLEAN
  /\ FailedVerdicts \in BOOLEAN

VARIABLES
  status,     \* payment_orders.status
  taken,      \* units taken back from the user
  marker,     \* the REFUND_ROLLBACK_FAILED audit row exists
  pending,    \* deductionRollbackOK of the REFUND_PENDING audit row: "clean"
              \* when TRUE, "kept" when FALSE, "none" without a row
  success,    \* the REFUND_SUCCESS audit row exists
  gateway,    \* the latest refund at the provider
  pc,         \* of a worker: its next step
  seen,       \* of a worker: the status its copy of the order has
  plan,       \* of a worker: units its plan deducts or has deducted
  asked,      \* history: some refund asked for a deduction
  unreturned, \* history: a deduction could not be returned to the user
  refused,    \* history: the provider refused a refund it had accepted, or
              \* answered a query with something the code does not know
  cut,        \* history: a request ended while it held the order in REFUNDING
  faults      \* faults left

auditVars == <<marker, pending, success>>
callVars == <<pc, seen, plan>>
vars == <<status, taken, auditVars, gateway, callVars, asked, unreturned, refused, cut, faults>>

Refundable == {"COMPLETED", "REFUND_REQUESTED", "REFUND_PENDING", "REFUND_FAILED"}
Statuses == Refundable \cup {"REFUNDING", "REFUNDED"}
Locked == {"deduct", "gateway", "rollback", "unpend", "restore", "mark_ok",
           "mark_failed", "mark_pending"}
Steps == Locked \cup {"idle", "lock", "note", "detail", "query", "finalize", "finalize_failed"}

TypeOK ==
  /\ status \in Statuses
  /\ taken \in Int
  /\ marker \in BOOLEAN /\ success \in BOOLEAN
  /\ pending \in {"none", "clean", "kept"}
  /\ gateway \in {"none", "pending", "paid", "failed"}
  /\ pc \in [Workers -> Steps]
  /\ seen \in [Workers -> Statuses]
  /\ plan \in [Workers -> 0..1]
  /\ asked \in BOOLEAN /\ unreturned \in BOOLEAN /\ refused \in BOOLEAN /\ cut \in BOOLEAN
  /\ faults \in 0..MaxFaults

Init ==
  /\ status = "COMPLETED"
  /\ taken = 0
  /\ marker = FALSE /\ pending = "none" /\ success = FALSE
  /\ gateway = "none"
  /\ pc = [w \in Workers |-> "idle"]
  /\ seen = [w \in Workers |-> "COMPLETED"]
  /\ plan = [w \in Workers |-> 0]
  /\ asked = FALSE /\ unreturned = FALSE /\ refused = FALSE /\ cut = FALSE
  /\ faults = MaxFaults

-----------------------------------------------------------------------------
Goto(w, step) == pc' = [pc EXCEPT ![w] = step] /\ UNCHANGED seen

Finish(w) ==
  /\ pc' = [pc EXCEPT ![w] = "idle"]
  /\ seen' = [seen EXCEPT ![w] = "COMPLETED"]
  /\ plan' = [plan EXCEPT ![w] = 0]

Fault == faults > 0 /\ faults' = faults - 1

-----------------------------------------------------------------------------
(* Plausible faults: each stands in for the action it is named after. *)

\* The status read in PrepareRefund is not checked again.
LockUnconditionally(w) ==
  /\ pc[w] = "lock"
  /\ status' = "REFUNDING"
  /\ Goto(w, "deduct")
  /\ UNCHANGED <<taken, auditVars, gateway, plan, asked, unreturned, refused, cut, faults>>

\* The finalization neither claims the order nor relies on the unique row.
FinalizeUnclaimed(w) ==
  /\ pc[w] = "finalize"
  /\ status' = "REFUNDED"
  /\ success' = TRUE
  /\ \E units \in 0..plan[w] : taken' = taken + units
  /\ Finish(w)
  /\ UNCHANGED <<marker, pending, gateway, asked, unreturned, refused, cut, faults>>

\* An accepted refund is marked pending with the deduction in place.
AcceptWithoutRollback(w) ==
  /\ pc[w] = "gateway"
  /\ gateway # "paid"
  /\ gateway' = "pending"
  /\ Goto(w, "mark_pending")
  /\ UNCHANGED <<status, taken, auditVars, plan, asked, unreturned, refused, cut, faults>>

\* A deduction that fails returns without restoring the status.
DeductFailsInPlace(w) ==
  /\ pc[w] = "deduct"
  /\ plan[w] = 1 /\ ~marker
  /\ Fault
  /\ Finish(w)
  /\ UNCHANGED <<status, taken, auditVars, gateway, asked, unreturned, refused, cut>>

-----------------------------------------------------------------------------
(* The user asks for a refund; the conditional update decides. *)
RequestRefund ==
  /\ status = "COMPLETED"
  /\ status' = "REFUND_REQUESTED"
  /\ UNCHANGED <<taken, auditVars, gateway, callVars, asked, unreturned, refused, cut, faults>>

-----------------------------------------------------------------------------
(* PrepareRefund and ExecuteRefund *)

\* The administrator asks for a deduction or not; a forced one of an empty
\* balance is planned with nothing to deduct.
PrepareRefund(w) ==
  /\ pc[w] = "idle"
  /\ status \in Refundable
  /\ pc' = [pc EXCEPT ![w] = "lock"]
  /\ seen' = [seen EXCEPT ![w] = status]
  /\ \E deduct \in BOOLEAN, units \in 0..1 :
       /\ units = 1 => deduct
       /\ plan' = [plan EXCEPT ![w] = units]
       /\ asked' = (asked \/ deduct)
  /\ UNCHANGED <<status, taken, auditVars, gateway, unreturned, refused, cut, faults>>

Lock(w) ==
  /\ pc[w] = "lock"
  /\ status \in Refundable
  /\ status' = "REFUNDING"
  /\ Goto(w, "deduct")
  /\ UNCHANGED <<taken, auditVars, gateway, plan, asked, unreturned, refused, cut, faults>>

LockRefused(w) ==
  /\ pc[w] = "lock"
  /\ status \notin Refundable
  /\ Finish(w)
  /\ UNCHANGED <<status, taken, auditVars, gateway, asked, unreturned, refused, cut, faults>>

\* DeductAvailableBalance takes what is left of the balance, which may be
\* nothing by now.  REFUND_ROLLBACK_FAILED says that the unit was taken by an
\* attempt before.
Deduct(w) ==
  /\ pc[w] = "deduct"
  /\ \E units \in 0..1 :
       /\ units <= IF marker THEN 0 ELSE plan[w]
       /\ taken' = taken + units
       /\ plan' = [plan EXCEPT ![w] = units]
  /\ Goto(w, "gateway")
  /\ UNCHANGED <<status, auditVars, gateway, asked, unreturned, refused, cut, faults>>

DeductFails(w) ==
  /\ pc[w] = "deduct"
  /\ plan[w] = 1 /\ ~marker
  /\ Fault
  /\ Goto(w, "restore")
  /\ UNCHANGED <<status, taken, auditVars, gateway, plan, asked, unreturned, refused, cut>>

GatewayRefunds(w) ==
  /\ pc[w] = "gateway"
  /\ gateway' = "paid"
  /\ Goto(w, "mark_ok")
  /\ UNCHANGED <<status, taken, auditVars, plan, asked, unreturned, refused, cut, faults>>

GatewayAccepts(w) ==
  /\ pc[w] = "gateway"
  /\ gateway # "paid"
  /\ gateway' = "pending"
  /\ Goto(w, "unpend")
  /\ UNCHANGED <<status, taken, auditVars, plan, asked, unreturned, refused, cut, faults>>

\* An error says nothing of what the provider did: it may have refused the
\* refund, accepted it or paid it out.
GatewayErrs(w) ==
  /\ pc[w] = "gateway"
  /\ gateway' \in {gateway, "paid"} \cup (IF gateway = "paid" THEN {} ELSE {"pending"})
  /\ Goto(w, "rollback")
  /\ UNCHANGED <<status, taken, auditVars, plan, asked, unreturned, refused, cut, faults>>

-----------------------------------------------------------------------------
(* markRefundOk, handleGwFail and markRefundPending.  Each writes the status
   without a condition on it.                                               *)

MarkRefundOk(w) ==
  /\ pc[w] = "mark_ok"
  /\ status' = "REFUNDED"
  /\ success' = TRUE
  /\ Finish(w)
  /\ UNCHANGED <<taken, marker, pending, gateway, asked, unreturned, refused, cut, faults>>

\* RollbackRefund, in handleGwFail and in markRefundPending.
RollbackRefund(w) ==
  /\ pc[w] \in {"rollback", "unpend"}
  /\ taken' = taken - plan[w]
  /\ plan' = [plan EXCEPT ![w] = 0]
  /\ Goto(w, IF pc[w] = "rollback" THEN "restore" ELSE "mark_pending")
  /\ UNCHANGED <<status, auditVars, gateway, asked, unreturned, refused, cut, faults>>

\* The audit row that tells the next attempt is written on a best effort.
RollbackFails(w) ==
  /\ RollbacksFail
  /\ pc[w] \in {"rollback", "unpend"}
  /\ plan[w] = 1
  /\ unreturned' = TRUE
  /\ \/ marker' = TRUE /\ UNCHANGED faults
     \/ Fault /\ UNCHANGED marker
  /\ Goto(w, IF pc[w] = "rollback" THEN "mark_failed" ELSE "mark_pending")
  /\ UNCHANGED <<status, taken, pending, success, gateway, plan, asked, refused, cut>>

RestoreStatus(w) ==
  /\ pc[w] = "restore"
  /\ status' = IF seen[w] = "REFUND_REQUESTED" THEN "REFUND_REQUESTED" ELSE "COMPLETED"
  /\ Finish(w)
  /\ UNCHANGED <<taken, auditVars, gateway, asked, unreturned, refused, cut, faults>>

MarkFailed(w) ==
  /\ pc[w] = "mark_failed"
  /\ status' = "REFUND_FAILED"
  /\ Finish(w)
  /\ UNCHANGED <<taken, auditVars, gateway, asked, unreturned, refused, cut, faults>>

MarkRefundPending(w) ==
  /\ pc[w] = "mark_pending"
  /\ status' = "REFUND_PENDING"
  /\ Goto(w, "note")
  /\ UNCHANGED <<taken, auditVars, gateway, plan, asked, unreturned, refused, cut, faults>>

\* The audit log has one row for an order and an action: a second
\* REFUND_PENDING row is refused, and the refusal only logged.
NotePending(w) ==
  /\ pc[w] = "note"
  /\ pending' = IF pending # "none" THEN pending
                ELSE IF plan[w] = 0 THEN "clean" ELSE "kept"
  /\ Finish(w)
  /\ UNCHANGED <<status, taken, marker, success, gateway, asked, unreturned, refused, cut, faults>>

-----------------------------------------------------------------------------
(* QueryAndFinalizeRefund *)

StartQuery(w) ==
  /\ pc[w] = "idle"
  /\ status = "REFUND_PENDING"
  /\ pc' = [pc EXCEPT ![w] = "detail"]
  /\ seen' = [seen EXCEPT ![w] = status]
  /\ UNCHANGED <<status, taken, auditVars, gateway, plan, asked, unreturned, refused, cut, faults>>

\* refundFinalizePlan deducts the refund amount, unless the REFUND_PENDING row,
\* read before the provider is asked, says that the deduction was not rolled
\* back.
ReadPendingDetail(w) ==
  /\ pc[w] = "detail"
  /\ plan' = [plan EXCEPT ![w] = IF pending = "kept" THEN 0 ELSE 1]
  /\ Goto(w, "query")
  /\ UNCHANGED <<status, taken, auditVars, gateway, asked, unreturned, refused, cut, faults>>

QueryPaid(w) ==
  /\ pc[w] = "query"
  /\ gateway = "paid"
  /\ Goto(w, "finalize")
  /\ UNCHANGED <<status, taken, auditVars, gateway, plan, asked, unreturned, refused, cut, faults>>

\* An answer that is missing or unknown is taken for a failure.
QueryFailed(w) ==
  /\ pc[w] = "query"
  /\ \/ gateway = "failed" /\ UNCHANGED <<refused, faults>>
     \/ FailedVerdicts /\ Fault /\ refused' = TRUE
  /\ Goto(w, "finalize_failed")
  /\ UNCHANGED <<status, taken, auditVars, gateway, plan, asked, unreturned, cut>>

\* Still pending, or the query fails.
QueryUndecided(w) ==
  /\ pc[w] = "query"
  /\ Finish(w)
  /\ UNCHANGED <<status, taken, auditVars, gateway, asked, unreturned, refused, cut, faults>>

\* finalizePendingRefundSuccess: one transaction claims the order, deducts and
\* writes the unique REFUND_SUCCESS row, or does nothing.
FinalizeSuccess(w) ==
  /\ pc[w] = "finalize"
  /\ IF status = "REFUND_PENDING" /\ ~success
     THEN /\ status' = "REFUNDED"
          /\ success' = TRUE
          /\ \E units \in 0..plan[w] : taken' = taken + units
     ELSE UNCHANGED <<status, success, taken>>
  /\ Finish(w)
  /\ UNCHANGED <<marker, pending, gateway, asked, unreturned, refused, cut, faults>>

\* finalizeRefundFailed writes the status it decided on when it read the order.
FinalizeFailed(w) ==
  /\ pc[w] = "finalize_failed"
  /\ status' = "REFUND_FAILED"
  /\ Finish(w)
  /\ UNCHANGED <<taken, auditVars, gateway, asked, unreturned, refused, cut, faults>>

-----------------------------------------------------------------------------
\* The provider decides on a refund it accepted.
GatewaySettles ==
  /\ gateway = "pending"
  /\ \/ gateway' = "paid" /\ UNCHANGED refused
     \/ FailedVerdicts /\ gateway' = "failed" /\ refused' = TRUE
  /\ UNCHANGED <<status, taken, auditVars, callVars, asked, unreturned, cut, faults>>

\* The process dies, the request is cancelled, or the write of the status
\* fails: the request ends where it is.
Crash(w) ==
  /\ Crashes
  /\ pc[w] # "idle"
  /\ Fault
  /\ cut' = (cut \/ pc[w] \in Locked)
  /\ Finish(w)
  /\ UNCHANGED <<status, taken, auditVars, gateway, asked, unreturned, refused>>

Step(w) ==
  \/ Lock(w) \/ LockRefused(w) \/ Deduct(w) \/ DeductFails(w)
  \/ GatewayRefunds(w) \/ GatewayAccepts(w) \/ GatewayErrs(w)
  \/ MarkRefundOk(w) \/ RollbackRefund(w) \/ RollbackFails(w)
  \/ RestoreStatus(w) \/ MarkFailed(w) \/ MarkRefundPending(w) \/ NotePending(w)
  \/ ReadPendingDetail(w) \/ QueryPaid(w) \/ QueryFailed(w) \/ QueryUndecided(w)
  \/ FinalizeSuccess(w) \/ FinalizeFailed(w)

Next ==
  \/ RequestRefund \/ GatewaySettles
  \/ \E w \in Workers : PrepareRefund(w) \/ StartQuery(w) \/ Step(w) \/ Crash(w)

Spec == Init /\ [][Next]_vars

(* A request in progress goes on; nobody is obliged to start one. *)
FairSpec == Spec /\ \A w \in Workers : WF_vars(Step(w))

-----------------------------------------------------------------------------
\* What the promises about the deduction rest on: no rollback has failed, and
\* the provider has not refused a refund it had accepted.
Reliable == ~unreturned /\ ~refused

(* However many administrators refund, retry and query the order at once,
   what it bought is taken back at most once, and a rollback never returns
   more than was taken.  ExecuteRefund skips the deduction when a "previous
   attempt already deducted but failed to roll back"
   (payment_refund.go:307), and a stale finalizing call is rejected before a
   second deduction (payment_refund_test.go:505).                           *)
TakenAtMostOnce == Reliable => taken \in 0..1

(* The same without the condition. *)
NeverTakenTwice == taken \in 0..1

(* An order that is neither refunded nor being refunded has lost nothing: a
   refund that failed, or that waits for the provider, was rolled back before
   its status was written.                                                  *)
UnrefundedIsWhole == Reliable /\ status \in Refundable => taken = 0

(* Between the conditional update to REFUNDING and the unconditional write
   that ends an attempt, nobody else writes the status.                     *)
LockIsExclusive ==
  Reliable => \A w \in Workers :
    pc[w] \in Locked =>
      /\ status = "REFUNDING"
      /\ \A v \in Workers : pc[v] \in Locked => v = w

(* The administrator who unticks the deduction is told "Will NOT deduct user
   balance" (frontend/src/i18n/locales/en/misc.ts:533).                     *)
TakenOnlyIfAsked == taken > 0 => asked

(* A refunded order stays refunded. *)
RefundedIsFinal ==
  [][Reliable' /\ status = "REFUNDED" => status' = "REFUNDED"]_vars

(* Unless a request is cut off while it holds the order, every attempt ends
   by writing a status that lets the next one begin: the early returns of
   ExecuteRefund restore the status they replaced.                          *)
LockIsReleased == status = "REFUNDING" ~> status # "REFUNDING" \/ cut
=============================================================================
