--------------------------- MODULE PaymentOrders ---------------------------
(***************************************************************************)
(* The life of a payment order from its creation to its fulfilment, as the *)
(* payment service drives it: CreateOrder, the provider's webhook, the     *)
(* user's verify and cancel calls, the reconcile and expiry sweeps and the *)
(* administrator's retry all run concurrently, each one a sequence of      *)
(* database statements and provider calls that any other may interleave.   *)
(*                                                                         *)
(* A worker is one such call in progress (a request goroutine of any       *)
(* replica, or the sweep); one action is one database statement,           *)
(* transaction or provider call.  A statement that misses its WHERE clause *)
(* and the read that follows it to explain the miss are one action: both   *)
(* only look at the order, and no step of another worker between the two   *)
(* changes what the call answers.                                          *)
(*                                                                         *)
(* updated_at, which every update of the row renews, is kept as the two    *)
(* facts the code tests about it: stale says that it lies five minutes or  *)
(* more in the past (paymentGraceMinutes and                               *)
(* paymentFulfillmentLeaseDuration are both five minutes) and held is the  *)
(* set of workers whose lease version still equals it.                     *)
(***************************************************************************)
EXTENDS Naturals, FiniteSets

CONSTANTS
  Orders,              \* identifiers of orders
  Workers,             \* calls in progress
  BalanceOrders,       \* orders of type balance; the others buy a subscription
  QueriedByOutTradeNo, \* orders of alipay, easypay and wxpay, which are queried
                       \* by out_trade_no; the others by payment_trade_no
  ReconciledOrders,    \* orders paid by alipay or wxpay, which the sweep asks
                       \* the provider about before they are due
  Redeliveries,        \* how often the provider repeats a notification at
                       \* least that nobody acknowledged, each time when the
                       \* row has not changed for five minutes
  MaxFaults,           \* bound: crashes and transient errors in a behaviour
  NoWorker,            \* claimant of an order nobody claimed yet
  PromptSteps,         \* steps at which no call is paused for five minutes
  ReadErrors           \* TRUE: the reads whose error is answered with nil
                       \* may fail

ASSUME BalanceAssumption == BalanceOrders \subseteq Orders
ASSUME QueryAssumption == QueriedByOutTradeNo \subseteq Orders
ASSUME ReconcileAssumption == ReconciledOrders \subseteq Orders
ASSUME RedeliveryAssumption == Redeliveries \in Nat
ASSUME FaultAssumption == MaxFaults \in Nat
ASSUME NoWorkerAssumption == NoWorker \notin Workers
ASSUME ReadErrorsAssumption == ReadErrors \in BOOLEAN

VARIABLES
  status,     \* payment_orders.status, "absent" before the insert
  paidAt,     \* paid_at is set
  tradeNo,    \* payment_trade_no holds the provider's transaction number
  stale,      \* updated_at is at least five minutes old
  held,       \* workers whose lease version equals updated_at
  due,        \* expires_at has passed
  groupActive, \* the group whose subscription the order buys is active
  flagged,    \* the PAYMENT_AFTER_EXPIRY audit row exists
  grant,      \* redeem code (absent, unused, used) or subscription assignment
  credits,    \* how many times the order's value reached the user
  rebateClaimed, \* the AFFILIATE_REBATE_APPLIED/SKIPPED audit row exists
  rebates,    \* how many times the inviter's rebate was accrued
  upstream,   \* the payment at the provider
  notice,     \* deliveries of the success notification that the provider
              \* still owes, 0 once a call acknowledged it
  pc, job, ord, saw, \* of a worker: next step, kind of call, order, and
                     \* whether its copy of the order had the trade number
  faults,     \* faults left
  claimant,   \* history: the worker that last won the fulfilment lease
  graceOver   \* history: the order expired more than five minutes ago

rowVars == <<status, paidAt, tradeNo, stale, held>>
orderVars == <<rowVars, flagged>>
worldVars == <<due, groupActive>>
grantVars == <<grant, credits, rebateClaimed, rebates>>
providerVars == <<upstream, notice>>
callVars == <<pc, job, ord, saw>>
history == <<claimant, graceOver>>
vars == <<orderVars, worldVars, grantVars, providerVars, callVars, faults, history>>

Statuses == {"PENDING", "PAID", "RECHARGING", "COMPLETED", "EXPIRED",
             "CANCELLED", "FAILED"}
Jobs == {"none", "create", "notify", "verify", "reconcile", "cancel", "expire", "retry"}
Creating == {"create", "save"}
Fulfilling == {"apply", "create_code", "redeem", "assign", "rebate", "complete"}
Steps == {"idle", "query", "persist", "confirm", "close", "local", "fulfil",
          "leased", "fail"} \cup Creating \cup Fulfilling

TypeOK ==
  /\ status \in [Orders -> Statuses \cup {"absent"}]
  /\ paidAt \in [Orders -> BOOLEAN]
  /\ tradeNo \in [Orders -> BOOLEAN]
  /\ stale \in [Orders -> BOOLEAN]
  /\ held \in [Orders -> SUBSET Workers]
  /\ due \in [Orders -> BOOLEAN]
  /\ groupActive \in [Orders -> BOOLEAN]
  /\ flagged \in [Orders -> BOOLEAN]
  /\ grant \in [Orders -> {"none", "issued", "applied"}]
  /\ credits \in [Orders -> Nat]
  /\ rebateClaimed \in [Orders -> BOOLEAN]
  /\ rebates \in [Orders -> Nat]
  /\ upstream \in [Orders -> {"none", "open", "paid", "mispaid", "closed"}]
  /\ notice \in [Orders -> 0..Redeliveries]
  /\ pc \in [Workers -> Steps]
  /\ job \in [Workers -> Jobs]
  /\ ord \in [Workers -> Orders]
  /\ saw \in [Workers -> BOOLEAN]
  /\ faults \in 0..MaxFaults
  /\ claimant \in [Orders -> Workers \cup {NoWorker}]
  /\ graceOver \in [Orders -> BOOLEAN]

Init ==
  /\ status = [o \in Orders |-> "absent"]
  /\ paidAt = [o \in Orders |-> FALSE]
  /\ tradeNo = [o \in Orders |-> FALSE]
  /\ stale = [o \in Orders |-> FALSE]
  /\ held = [o \in Orders |-> {}]
  /\ due = [o \in Orders |-> FALSE]
  /\ groupActive = [o \in Orders |-> TRUE]
  /\ flagged = [o \in Orders |-> FALSE]
  /\ grant = [o \in Orders |-> "none"]
  /\ credits = [o \in Orders |-> 0]
  /\ rebateClaimed = [o \in Orders |-> FALSE]
  /\ rebates = [o \in Orders |-> 0]
  /\ upstream = [o \in Orders |-> "none"]
  /\ notice = [o \in Orders |-> 0]
  /\ pc = [w \in Workers |-> "idle"]
  /\ job = [w \in Workers |-> "none"]
  /\ ord \in [Workers -> Orders]
  /\ saw = [w \in Workers |-> FALSE]
  /\ faults = MaxFaults
  /\ claimant = [o \in Orders |-> NoWorker]
  /\ graceOver = [o \in Orders |-> FALSE]

-----------------------------------------------------------------------------
(* What every update of the row does: ent renews updated_at, so the row is
   fresh again and every lease version read before is out of date.          *)
Touch(o) ==
  /\ stale' = [stale EXCEPT ![o] = FALSE]
  /\ held' = [held EXCEPT ![o] = {}]

SetStatus(o, s) ==
  /\ status' = [status EXCEPT ![o] = s]
  /\ Touch(o)
  /\ graceOver' = [graceOver EXCEPT ![o] = FALSE]

Begin(w, o, kind, step) ==
  /\ pc[w] = "idle"
  /\ pc' = [pc EXCEPT ![w] = step]
  /\ job' = [job EXCEPT ![w] = kind]
  /\ ord' = [ord EXCEPT ![w] = o]
  /\ saw' = [saw EXCEPT ![w] = tradeNo[o]]

Goto(w, step) == pc' = [pc EXCEPT ![w] = step] /\ UNCHANGED <<job, ord, saw>>

Finish(w) ==
  /\ pc' = [pc EXCEPT ![w] = "idle"]
  /\ job' = [job EXCEPT ![w] = "none"]
  /\ saw' = [saw EXCEPT ![w] = FALSE]
  /\ UNCHANGED ord

(* The call returns without error: a webhook answers 2xx and the provider
   stops redelivering.  An error answers 500 and leaves the notice owed.    *)
Return(w) ==
  /\ Finish(w)
  /\ notice' = IF job[w] = "notify" THEN [notice EXCEPT ![ord[w]] = 0]
                                    ELSE notice
  /\ UNCHANGED upstream

ReturnError(w) == Finish(w) /\ UNCHANGED providerVars

Fault == faults > 0 /\ faults' = faults - 1

-----------------------------------------------------------------------------
(* CreateOrder *)

CreateOrder(w, o) ==
  /\ status[o] = "absent"
  /\ Begin(w, o, "create", "create")
  /\ SetStatus(o, "PENDING")
  /\ UNCHANGED <<paidAt, tradeNo, worldVars, flagged, grantVars, providerVars, faults, claimant>>

\* invokeProvider: CreatePayment opens the payment at the provider,
ProviderAccepts(w) ==
  /\ pc[w] = "create"
  /\ upstream' = [upstream EXCEPT ![ord[w]] = "open"]
  /\ Goto(w, "save")
  /\ UNCHANGED <<orderVars, worldVars, grantVars, notice, faults, history>>

\* and a second statement saves the answer into the row, whatever the row's
\* status has become meanwhile.
SavePayment(w) ==
  LET o == ord[w] IN
  /\ pc[w] = "save"
  /\ tradeNo' = [tradeNo EXCEPT ![o] = o \notin QueriedByOutTradeNo]
  /\ Touch(o)
  /\ Finish(w)
  /\ UNCHANGED <<status, paidAt, worldVars, flagged, grantVars, providerVars, faults, history>>

\* invokeProvider fails: FAILED is written without looking at the status.  A
\* provider that did not answer in time may have opened the payment.
ProviderRejects(w) ==
  LET o == ord[w] IN
  /\ pc[w] = "create"
  /\ upstream' \in {upstream, [upstream EXCEPT ![o] = "open"]}
  /\ SetStatus(o, "FAILED")
  /\ Finish(w)
  /\ UNCHANGED <<paidAt, tradeNo, worldVars, flagged, grantVars, notice, faults, claimant>>

\* The answer cannot be saved: the order becomes FAILED in the same way, with
\* its payment open at the provider.
SaveFails(w) ==
  /\ pc[w] = "save"
  /\ Fault
  /\ SetStatus(ord[w], "FAILED")
  /\ Finish(w)
  /\ UNCHANGED <<paidAt, tradeNo, worldVars, flagged, grantVars, providerVars, claimant>>

-----------------------------------------------------------------------------
(* The environment: the payer, the provider and the clock *)

\* The payer pays the amount asked for, or another one.  A payment is not
\* known to the payer while the call that opens it is running, but one whose
\* creation failed half-way may be paid.
Pay(o) ==
  /\ upstream[o] = "open"
  /\ \A w \in Workers : ord[w] = o => pc[w] # "save"
  /\ \E s \in {"paid", "mispaid"} : upstream' = [upstream EXCEPT ![o] = s]
  /\ notice' = [notice EXCEPT ![o] = Redeliveries]
  /\ UNCHANGED <<orderVars, worldVars, grantVars, callVars, faults, history>>

\* Five minutes pass without an update of the row.
Age(o) ==
  /\ status[o] # "absent"
  /\ \A w \in Workers : ord[w] = o => pc[w] \notin PromptSteps
  /\ stale' = [stale EXCEPT ![o] = TRUE]
  /\ graceOver' = [graceOver EXCEPT ![o] = @ \/ status[o] = "EXPIRED"]
  /\ UNCHANGED <<status, paidAt, tradeNo, held, worldVars, flagged, grantVars, providerVars,
                 callVars, faults, claimant>>

PassDeadline(o) ==
  /\ status[o] # "absent" /\ ~due[o]
  /\ due' = [due EXCEPT ![o] = TRUE]
  /\ UNCHANGED <<orderVars, groupActive, grantVars, providerVars, callVars, faults, history>>

\* An administrator deactivates or deletes the group of a subscription order,
\* or brings it back.
SwitchGroup(o) ==
  /\ o \notin BalanceOrders
  /\ groupActive' = [groupActive EXCEPT ![o] = ~@]
  /\ UNCHANGED <<orderVars, due, grantVars, providerVars, callVars, faults, history>>

-----------------------------------------------------------------------------
(* Entry points.  Each one reads the order and decides whether to go on. *)

\* The provider's webhook; a payment may be notified more than once, and only
\* the deliveries that come late enough count as the ones the provider owes.
Notify(w, o) ==
  /\ upstream[o] \in {"paid", "mispaid"}
  /\ Begin(w, o, "notify", "confirm")
  /\ notice' = IF stale[o] /\ notice[o] > 0 THEN [notice EXCEPT ![o] = @ - 1]
                                            ELSE notice
  /\ UNCHANGED <<orderVars, worldVars, grantVars, upstream, faults, history>>

\* VerifyOrderByOutTradeNo, called by the payer's browser.
Verify(w, o) ==
  /\ status[o] \in {"PENDING", "EXPIRED"}
  /\ Begin(w, o, "verify", "query")
  /\ UNCHANGED <<orderVars, worldVars, grantVars, providerVars, faults, history>>

\* ReconcilePendingPaymentOrders, the first half of the sweep.
Reconcile(w, o) ==
  /\ status[o] = "PENDING" /\ ~due[o] /\ o \in ReconciledOrders
  /\ Begin(w, o, "reconcile", "query")
  /\ UNCHANGED <<orderVars, worldVars, grantVars, providerVars, faults, history>>

\* ExpireTimedOutOrders, the second half of the sweep.
Expire(w, o) ==
  /\ status[o] = "PENDING" /\ due[o]
  /\ Begin(w, o, "expire", "query")
  /\ UNCHANGED <<orderVars, worldVars, grantVars, providerVars, faults, history>>

\* CancelOrder and AdminCancelOrder.
Cancel(w, o) ==
  /\ status[o] = "PENDING"
  /\ Begin(w, o, "cancel", "query")
  /\ UNCHANGED <<orderVars, worldVars, grantVars, providerVars, faults, history>>

\* RetryFulfillment, by an administrator.
Retry(w, o) ==
  /\ paidAt[o]
  /\ status[o] \in {"PAID", "FAILED", "RECHARGING"}
  /\ Begin(w, o, "retry", "fulfil")
  /\ UNCHANGED <<orderVars, worldVars, grantVars, providerVars, faults, history>>

-----------------------------------------------------------------------------
(* checkPaid and cancelCore *)

Cancels(w) == job[w] \in {"cancel", "expire"}

LocalStatus(w) == IF job[w] = "expire" THEN "EXPIRED" ELSE "CANCELLED"

\* The provider can only be asked about an order by a reference it knows.
HasReference(w) == ord[w] \in QueriedByOutTradeNo \/ saw[w]

\* The provider says the order is paid.
QueryPaid(w) ==
  /\ pc[w] = "query" /\ HasReference(w)
  /\ upstream[ord[w]] \in {"paid", "mispaid"}
  /\ Goto(w, IF ord[w] \in QueriedByOutTradeNo /\ ~saw[w] THEN "persist"
                                                          ELSE "confirm")
  /\ UNCHANGED <<orderVars, worldVars, grantVars, providerVars, faults, history>>

\* The provider says it is not; only a cancelling call goes on.
QueryUnpaid(w) ==
  /\ pc[w] = "query" /\ HasReference(w)
  /\ upstream[ord[w]] \notin {"paid", "mispaid"}
  /\ IF Cancels(w) THEN Goto(w, "close") ELSE Finish(w)
  /\ UNCHANGED <<orderVars, worldVars, grantVars, providerVars, faults, history>>

\* The query fails: the call carries on as if the order were unpaid, without
\* closing the payment at the provider.
GiveUpQuery(w) ==
  /\ pc[w] = "query"
  /\ IF Cancels(w) THEN Goto(w, "local") ELSE Finish(w)
  /\ UNCHANGED <<orderVars, worldVars, grantVars, providerVars, history>>

QueryUnknown(w) == ~HasReference(w) /\ GiveUpQuery(w) /\ UNCHANGED faults

QueryFails(w) == HasReference(w) /\ Fault /\ GiveUpQuery(w)

\* CancelPayment, whose error is ignored and which not every provider has.
CloseUpstream(w) ==
  /\ pc[w] = "close"
  /\ \/ /\ upstream[ord[w]] = "open"
        /\ upstream' = [upstream EXCEPT ![ord[w]] = "closed"]
     \/ UNCHANGED upstream
  /\ Goto(w, "local")
  /\ UNCHANGED <<orderVars, worldVars, grantVars, notice, faults, history>>

\* Mutant: the update forgets StatusEQ(PENDING).
CloseLocally_NoGuard(w) ==
  /\ pc[w] = "local"
  /\ SetStatus(ord[w], LocalStatus(w))
  /\ Finish(w)
  /\ UNCHANGED <<paidAt, tradeNo, worldVars, flagged, grantVars, providerVars, faults, claimant>>

\* The conditional update at the end of cancelCore.
CloseLocally(w) ==
  LET o == ord[w] IN
  /\ pc[w] = "local"
  /\ IF status[o] = "PENDING" THEN SetStatus(o, LocalStatus(w))
                              ELSE UNCHANGED <<status, stale, held, graceOver>>
  /\ Finish(w)
  /\ UNCHANGED <<paidAt, tradeNo, worldVars, flagged, grantVars, providerVars, faults, claimant>>

\* checkPaid saves the trade number it learnt, in whatever status the row is.
PersistTradeNo(w) ==
  /\ pc[w] = "persist"
  /\ tradeNo' = [tradeNo EXCEPT ![ord[w]] = TRUE]
  /\ Touch(ord[w])
  /\ Goto(w, "confirm")
  /\ UNCHANGED <<status, paidAt, worldVars, flagged, grantVars, providerVars, faults, history>>

-----------------------------------------------------------------------------
(* confirmPayment and toPaid *)

\* The amount does not match the order's: the call fails.
RejectAmount(w) ==
  /\ pc[w] = "confirm"
  /\ upstream[ord[w]] = "mispaid"
  /\ ReturnError(w)
  /\ UNCHANGED <<orderVars, worldVars, grantVars, faults, history>>

Payable(o) == \/ status[o] \in {"PENDING", "CANCELLED"}
              \/ status[o] = "EXPIRED" /\ ~stale[o]

ToPaid(w) ==
  LET o == ord[w] IN
  /\ pc[w] = "confirm"
  /\ upstream[o] = "paid"
  /\ Payable(o)
  /\ SetStatus(o, "PAID")
  /\ paidAt' = [paidAt EXCEPT ![o] = TRUE]
  /\ tradeNo' = [tradeNo EXCEPT ![o] = TRUE]
  /\ Goto(w, "fulfil")
  /\ UNCHANGED <<worldVars, flagged, grantVars, providerVars, faults, claimant>>

\* alreadyProcessed: an unfinished order is fulfilled by this call, any other
\* is acknowledged.  That an order expired for more than five minutes was paid
\* is only written to the audit log.
AlreadyProcessed(w) ==
  LET o == ord[w] IN
  /\ pc[w] = "confirm"
  /\ upstream[o] = "paid"
  /\ ~Payable(o)
  /\ IF status[o] \in {"PAID", "FAILED", "RECHARGING"}
     THEN Goto(w, "fulfil") /\ UNCHANGED providerVars
     ELSE Return(w)
  /\ flagged' = [flagged EXCEPT ![o] = @ \/ status[o] = "EXPIRED"]
  /\ UNCHANGED <<rowVars, worldVars, grantVars, faults, history>>

\* A database error in the reads of confirmPayment and alreadyProcessed is
\* answered with nil, and the webhook acknowledges the notification.
SwallowReadError(w) ==
  /\ ReadErrors
  /\ pc[w] = "confirm"
  /\ Fault
  /\ Return(w)
  /\ UNCHANGED <<orderVars, worldVars, grantVars, history>>

-----------------------------------------------------------------------------
(* The fulfilment lease *)

\* Mutant: a lease is never taken over.
Claimable_NoTakeover(o) == status[o] \in {"PAID", "FAILED"}

Claimable(o) == \/ status[o] \in {"PAID", "FAILED"}
                \/ status[o] = "RECHARGING" /\ stale[o]

AcquireLease(w) ==
  LET o == ord[w] IN
  /\ pc[w] = "fulfil"
  /\ Claimable(o)
  /\ SetStatus(o, "RECHARGING")
  /\ claimant' = [claimant EXCEPT ![o] = w]
  /\ Goto(w, "leased")
  /\ UNCHANGED <<paidAt, tradeNo, worldVars, flagged, grantVars, providerVars, faults>>

\* A completed order is success; a lease held by another worker, or a status
\* that cannot be fulfilled, is an error.
LeaseRefused(w) ==
  /\ pc[w] = "fulfil"
  /\ ~Claimable(ord[w])
  /\ IF status[ord[w]] = "COMPLETED" THEN Return(w) ELSE ReturnError(w)
  /\ UNCHANGED <<orderVars, worldVars, grantVars, faults, history>>

\* The lease's version is read back with a second statement.
ReadLease(w) ==
  LET o == ord[w] IN
  /\ pc[w] = "leased"
  /\ IF status[o] = "RECHARGING"
     THEN Goto(w, "apply") /\ held' = [held EXCEPT ![o] = @ \cup {w}]
     ELSE Finish(w) /\ UNCHANGED held
  /\ UNCHANGED <<status, paidAt, tradeNo, stale, worldVars, flagged, grantVars, providerVars,
                 faults, history>>

-----------------------------------------------------------------------------
(* doBalance *)

\* GetByCode and resolveRedeemAction.
ResolveRedeemAction(w) ==
  LET o == ord[w] IN
  /\ pc[w] = "apply"
  /\ o \in BalanceOrders
  /\ \/ grant[o] = "none" /\ Goto(w, "create_code")
     \/ grant[o] = "issued" /\ Goto(w, "redeem")
     \/ grant[o] = "applied" /\ Goto(w, "rebate")
  /\ UNCHANGED <<orderVars, worldVars, grantVars, providerVars, faults, history>>

\* CreateCode: the code is unique, so the second insert fails.
CreateCode(w) ==
  LET o == ord[w] IN
  /\ pc[w] = "create_code"
  /\ IF grant[o] = "none"
     THEN Goto(w, "redeem") /\ grant' = [grant EXCEPT ![o] = "issued"]
     ELSE Goto(w, "fail") /\ UNCHANGED grant
  /\ UNCHANGED <<orderVars, worldVars, credits, rebateClaimed, rebates, providerVars,
                 faults, history>>

\* Mutant: the code is marked used without checking that it still is unused.
RedeemCode_NoGuard(w) ==
  LET o == ord[w] IN
  /\ pc[w] = "redeem"
  /\ Goto(w, "rebate")
  /\ grant' = [grant EXCEPT ![o] = "applied"]
  /\ credits' = [credits EXCEPT ![o] = @ + 1]
  /\ UNCHANGED <<orderVars, worldVars, rebateClaimed, rebates, providerVars, faults, history>>

\* redeem: one transaction marks the code used, if it still is unused, and
\* adds the amount to the balance.  The Redis lock around it only refuses
\* more calls, which FulfilmentError covers.
RedeemCode(w) ==
  LET o == ord[w] IN
  /\ pc[w] = "redeem"
  /\ IF grant[o] = "issued"
     THEN /\ Goto(w, "rebate")
          /\ grant' = [grant EXCEPT ![o] = "applied"]
          /\ credits' = [credits EXCEPT ![o] = @ + 1]
     ELSE Goto(w, "fail") /\ UNCHANGED <<grant, credits>>
  /\ UNCHANGED <<orderVars, worldVars, rebateClaimed, rebates, providerVars, faults,
                 history>>

\* doSub reads the group, and a missing or inactive one fails the fulfilment:
\* so will every later attempt until the group is active again.
CheckGroup(w) ==
  /\ pc[w] = "apply"
  /\ ord[w] \notin BalanceOrders
  /\ Goto(w, IF groupActive[ord[w]] THEN "assign" ELSE "fail")
  /\ UNCHANGED <<orderVars, worldVars, grantVars, providerVars, faults, history>>

\* Mutant: the SUBSCRIPTION_ASSIGNED row is not looked for.
AssignSubscription_NoAudit(w) ==
  LET o == ord[w] IN
  /\ pc[w] = "assign"
  /\ grant' = [grant EXCEPT ![o] = "applied"]
  /\ credits' = [credits EXCEPT ![o] = @ + 1]
  /\ Goto(w, "rebate")
  /\ UNCHANGED <<orderVars, worldVars, rebateClaimed, rebates, providerVars, faults, history>>

(* ensurePaymentSubscriptionAssigned: one transaction extends the
   subscription and inserts the unique SUBSCRIPTION_ASSIGNED audit row,
   unless the row is there already.                                         *)
AssignSubscription(w) ==
  LET o == ord[w] IN
  /\ pc[w] = "assign"
  /\ IF grant[o] = "applied"
     THEN UNCHANGED <<grant, credits>>
     ELSE /\ grant' = [grant EXCEPT ![o] = "applied"]
          /\ credits' = [credits EXCEPT ![o] = @ + 1]
  /\ Goto(w, "rebate")
  /\ UNCHANGED <<orderVars, worldVars, rebateClaimed, rebates, providerVars, faults,
                 history>>

\* applyAffiliateRebateForOrder: the claim row and the accrual commit together.
ApplyAffiliateRebate(w) ==
  LET o == ord[w] IN
  /\ pc[w] = "rebate"
  /\ IF rebateClaimed[o]
     THEN UNCHANGED <<rebateClaimed, rebates>>
     ELSE /\ rebateClaimed' = [rebateClaimed EXCEPT ![o] = TRUE]
          /\ rebates' = [rebates EXCEPT ![o] = @ + 1]
  /\ Goto(w, "complete")
  /\ UNCHANGED <<orderVars, worldVars, grant, credits, providerVars, faults, history>>

\* Mutant: the lease's version is not compared.
OwnsLease_AnyVersion(w) == status[ord[w]] = "RECHARGING"

OwnsLease(w) == status[ord[w]] = "RECHARGING" /\ w \in held[ord[w]]

MarkCompleted(w) ==
  /\ pc[w] = "complete"
  /\ OwnsLease(w)
  /\ SetStatus(ord[w], "COMPLETED")
  /\ Return(w)
  /\ UNCHANGED <<paidAt, tradeNo, worldVars, flagged, grantVars, faults, claimant>>

LeaseLost(w) ==
  /\ pc[w] = "complete"
  /\ ~OwnsLease(w)
  /\ IF status[ord[w]] = "COMPLETED"
     THEN Return(w)
     ELSE Goto(w, "fail") /\ UNCHANGED providerVars
  /\ UNCHANGED <<orderVars, worldVars, grantVars, faults, history>>

\* Any statement of the fulfilment fails, or the Redis lock is taken.
FulfilmentError(w) ==
  /\ pc[w] \in Fulfilling
  /\ Fault
  /\ Goto(w, "fail")
  /\ UNCHANGED <<orderVars, worldVars, grantVars, providerVars, history>>

\* markFailed, under the same version guard as markCompleted.
MarkFailed(w) ==
  /\ pc[w] = "fail"
  /\ IF OwnsLease(w) THEN SetStatus(ord[w], "FAILED")
                     ELSE UNCHANGED <<status, stale, held, graceOver>>
  /\ ReturnError(w)
  /\ UNCHANGED <<paidAt, tradeNo, worldVars, flagged, grantVars, faults, claimant>>

\* The process dies, the request's context is cancelled (every later
\* statement of the call then fails), or a statement outside the fulfilment
\* returns an error: the call ends where it is and answers nothing.
Crash(w) ==
  /\ pc[w] # "idle"
  /\ Fault
  /\ held' = [held EXCEPT ![ord[w]] = @ \ {w}]
  /\ ReturnError(w)
  /\ UNCHANGED <<status, paidAt, tradeNo, stale, worldVars, flagged, grantVars, history>>

-----------------------------------------------------------------------------
Call(w) ==
  \/ ProviderAccepts(w) \/ ProviderRejects(w) \/ SavePayment(w)
  \/ QueryPaid(w) \/ QueryUnpaid(w) \/ QueryUnknown(w) \/ CloseUpstream(w) \/ CloseLocally(w)
  \/ PersistTradeNo(w) \/ RejectAmount(w) \/ ToPaid(w) \/ AlreadyProcessed(w)
  \/ AcquireLease(w) \/ LeaseRefused(w) \/ ReadLease(w)
  \/ ResolveRedeemAction(w) \/ CreateCode(w) \/ RedeemCode(w)
  \/ CheckGroup(w) \/ AssignSubscription(w) \/ ApplyAffiliateRebate(w)
  \/ MarkCompleted(w) \/ LeaseLost(w) \/ MarkFailed(w)

Faulty(w) ==
  \/ SaveFails(w) \/ QueryFails(w) \/ SwallowReadError(w)
  \/ FulfilmentError(w) \/ Crash(w)

Start(w, o) ==
  \/ CreateOrder(w, o) \/ Notify(w, o) \/ Verify(w, o) \/ Reconcile(w, o)
  \/ Expire(w, o) \/ Cancel(w, o) \/ Retry(w, o)

Environment(o) == Pay(o) \/ Age(o) \/ PassDeadline(o) \/ SwitchGroup(o)

Next == \/ \E w \in Workers : Call(w) \/ Faulty(w)
        \/ \E w \in Workers, o \in Orders : Start(w, o)
        \/ \E o \in Orders : Environment(o)

Spec == Init /\ [][Next]_vars

(* A call in progress goes on; the clock advances; the provider makes the
   deliveries it owes; and the sweep runs every minute.  Redelivery and the
   sweep are strong: a request always gets a goroutine, so waiting for one of
   the few workers of the model must not count as a refusal.  Nothing obliges
   a payer to pay, a user to verify or to cancel, an administrator to retry
   or to touch a group, or the provider to deliver without end.             *)
Redeliver(o) == notice[o] > 0 /\ stale[o] /\ \E w \in Workers : Notify(w, o)
Sweep(o) == \E w \in Workers : Reconcile(w, o) \/ Expire(w, o)

Fairness ==
  /\ \A w \in Workers : WF_vars(Call(w))
  /\ \A o \in Orders : WF_vars(Age(o) /\ ~stale[o]) /\ WF_vars(PassDeadline(o))
  /\ \A o \in Orders : SF_vars(Redeliver(o)) /\ SF_vars(Sweep(o))

FairSpec == Spec /\ Fairness

-----------------------------------------------------------------------------
(* The value of an order reaches the user, and the rebate of it the inviter,
   at most once, however often the payment is notified, retried, taken over
   from a stale lease or interrupted: RECHARGE_SUCCESS and the rebate audit
   row guard against a second grant.                                        *)
CreditedAtMostOnce == \A o \in Orders : credits[o] <= 1 /\ rebates[o] <= 1

(* markCompleted is only reached with the grant and the rebate both done,
   also when a worker resumes what another one left half done.              *)
CompletedIsSettled ==
  \A o \in Orders : status[o] = "COMPLETED" => credits[o] = 1 /\ rebates[o] = 1

(* Nothing is granted for an order the provider was not paid for in full: a
   failed creation and a mismatching amount never lead to a grant, though a
   payment left open by a failed creation may be paid and is then granted.  *)
CreditedOnlyIfPaid == \A o \in Orders : credits[o] > 0 => upstream[o] = "paid"

(* The rebate follows the grant, never precedes it. *)
RebateFollowsCredit == \A o \in Orders : rebates[o] > 0 => credits[o] > 0

(* A granted order is never cancelled, expired or reopened by a cancel call
   or a sweep that read it while it was still pending.                      *)
CreditedStaysFulfilled ==
  \A o \in Orders :
    credits[o] > 0 => status[o] \in {"RECHARGING", "FAILED", "COMPLETED"}

(* No stale worker, sweep or cancel call takes an order out of COMPLETED. *)
CompletedIsFinal ==
  [][\A o \in Orders : status[o] = "COMPLETED" => status'[o] = "COMPLETED"]_vars

(* Only the worker that last won the lease ends the fulfilment: "the lease
   version prevents a stale worker from overwriting a newer owner"
   (payment_fulfillment.go:852).                                            *)
OnlyOwnerEndsFulfilment ==
  [][\A w \in Workers :
       LET o == ord[w] IN
       pc[w] \in {"complete", "fail"} /\ pc'[w] # pc[w] /\ status'[o] # status[o]
         => claimant[o] = w]_vars

(* An order that expired more than five minutes ago is not revived: verifying
   is for orders "still pending or recently expired"
   (payment_order_lifecycle.go:292), and a payment after that is
   PAYMENT_AFTER_EXPIRY.                                                    *)
RevivedOnlyWithinGrace ==
  [][\A o \in Orders :
       status[o] = "EXPIRED" /\ status'[o] = "PAID" => ~graceOver[o]]_vars

(* The service implements what PaymentPromise says of an order: it accepts an
   order by toPaid, or by the lease of an order whose creation failed after
   the payment was opened.                                                  *)
Phase(o) ==
  CASE status[o] \in {"absent", "PENDING"} -> "open"
    [] status[o] = "COMPLETED" -> "completed"
    [] status[o] \in {"PAID", "RECHARGING"} -> "accepted"
    [] status[o] = "FAILED" /\ claimant[o] # NoWorker -> "accepted"
    [] OTHER -> "closed"

Promise == INSTANCE PaymentPromise WITH
             phase <- [o \in Orders |-> Phase(o)],
             paid <- [o \in Orders |-> upstream[o] = "paid"],
             grants <- credits

ImplementsPromise == Promise!Spec

(* Every order paid in full is sooner or later completed, whatever crashes,
   lost leases and refused deliveries come between, unless an audit row
   PAYMENT_AFTER_EXPIRY tells the operator of it, as long as the group of a
   subscription stays active.  It takes a bounded number of deliveries, not
   an endless one, but more than one: an attempt may be cut off, and its
   lease be lost to a call that saves the trade number.                     *)
PaidIsSettledOrFlagged ==
  \A o \in Orders :
    []groupActive[o] =>
      (upstream[o] = "paid" ~> status[o] = "COMPLETED" \/ flagged[o])

(* What docs/PAYMENT.md:260 promises: "if the user has actually paid but the
   callback was delayed, the system will reconcile automatically".          *)
PaidIsReconciled ==
  \A o \in Orders : upstream[o] = "paid" ~> status[o] = "COMPLETED"
=============================================================================
