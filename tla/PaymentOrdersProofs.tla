------------------------ MODULE PaymentOrdersProofs ------------------------
(***************************************************************************)
(* For any number of orders, calls and faults: the types of PaymentOrders, *)
(* and that a grant happens at most once, only for an order paid in full,  *)
(* that a completed order is settled and final, and that only the owner of *)
(* the lease ends a fulfilment.                                            *)
(*                                                                         *)
(* None of these is inductive.  That the grant is made once follows from   *)
(* the redeem code (or the assignment row) being used exactly when the     *)
(* value was credited; that it is only made for a paid order, from the     *)
(* lease being won only by calls for orders paid in full, and from nothing *)
(* being paid while the call that creates the order runs; and that a       *)
(* version guard tells the owner, from every version being dropped when    *)
(* the lease is won again (LeaseInv).                                      *)
(***************************************************************************)
EXTENDS PaymentOrders, TLAPS

Accepted == {"PAID", "RECHARGING", "FAILED", "COMPLETED"}
Granting == {"RECHARGING", "FAILED", "COMPLETED"}

(* Of an order: the grant and the rebate are counted by their guards, and
   paid_at, the status, the lease and the provider's payment agree.         *)
OrderOK(o) ==
  /\ credits[o] = IF grant[o] = "applied" THEN 1 ELSE 0
  /\ rebates[o] = IF rebateClaimed[o] THEN 1 ELSE 0
  /\ rebateClaimed[o] => grant[o] = "applied"
  /\ paidAt[o] => upstream[o] = "paid" /\ status[o] \in Accepted
  /\ status[o] \in {"PAID", "RECHARGING", "COMPLETED"} => upstream[o] = "paid"
  /\ status[o] \in {"RECHARGING", "COMPLETED"} => claimant[o] # NoWorker
  /\ claimant[o] # NoWorker => upstream[o] = "paid" /\ status[o] \in Granting
  /\ grant[o] # "none" => claimant[o] # NoWorker
  /\ status[o] = "COMPLETED" => rebateClaimed[o]
  /\ status[o] = "absent" => upstream[o] = "none"

(* Of a call: one that fulfils has an order that was paid in full, one that
   won the lease has an accepted order, and it reaches each step with the
   ones before it done.                                                     *)
CallOK(w) ==
  /\ pc[w] = "fulfil" => upstream[ord[w]] = "paid" /\ status[ord[w]] \in Accepted
  /\ pc[w] \in Fulfilling \cup {"leased", "fail"} => claimant[ord[w]] # NoWorker
  /\ pc[w] \in {"rebate", "complete"} => grant[ord[w]] = "applied"
  /\ pc[w] = "complete" => rebateClaimed[ord[w]]

(* Of a call that creates an order: no other call creates it, nobody accepted
   it, and nothing can have been paid for it yet.                           *)
CreationOK(w) ==
  pc[w] \in Creating =>
    /\ status[ord[w]] \in {"PENDING", "CANCELLED", "EXPIRED"}
    /\ upstream[ord[w]] \in (IF pc[w] = "create" THEN {"none"} ELSE {"open", "closed"})
    /\ \A v \in Workers : pc[v] \in Creating /\ ord[v] = ord[w] => v = w

OrderInv == \A o \in Orders : OrderOK(o)
CallInv == \A w \in Workers : CallOK(w)
CreationInv == \A w \in Workers : CreationOK(w)

IInv == TypeOK /\ OrderInv /\ CallInv /\ CreationInv

(* What no step of any call undoes. *)
Progress ==
  \A o \in Orders :
    /\ upstream[o] = "paid" => upstream'[o] = "paid"
    /\ claimant[o] # NoWorker => claimant'[o] # NoWorker
    /\ status[o] \in Accepted => status'[o] \in Accepted
    /\ status[o] \in Granting => status'[o] \in Granting
    /\ grant[o] = "applied" => grant'[o] = "applied"
    /\ rebateClaimed[o] => rebateClaimed'[o]

-----------------------------------------------------------------------------
(* Every step keeps the types: one action at a time. *)
LEMMA StepTypeOK ==
  ASSUME TypeOK, [Next]_vars PROVE TypeOK'
<1> USE DEF worldVars, Creating, Fulfilling
<1> USE BalanceAssumption, FaultAssumption, RedeliveryAssumption, NoWorkerAssumption
<1>1. ASSUME NEW w \in Workers, ProviderAccepts(w) PROVE TypeOK'
  BY <1>1 DEF TypeOK, Statuses, Jobs, Steps, ProviderAccepts, Goto, orderVars, rowVars,
    grantVars, history
<1>2. ASSUME NEW w \in Workers, ProviderRejects(w) PROVE TypeOK'
  BY <1>2 DEF TypeOK, Statuses, Jobs, Steps, ProviderRejects, SetStatus,
    Touch, Finish, grantVars, providerVars
<1>3. ASSUME NEW w \in Workers, QueryPaid(w) PROVE TypeOK'
  BY <1>3 DEF TypeOK, Statuses, Jobs, Steps, QueryPaid, Goto, orderVars,
    rowVars, grantVars, providerVars, history
<1>4. ASSUME NEW w \in Workers, QueryUnpaid(w) PROVE TypeOK'
  <2>1. CASE Cancels(w)
    <3>1. /\ Goto(w, "close")
          /\ UNCHANGED <<orderVars, worldVars, grantVars, providerVars, faults, history>>
      BY <1>4, <2>1 DEF QueryUnpaid
    <3> QED BY <3>1 DEF TypeOK, Statuses, Jobs, Steps, Goto, orderVars,
      rowVars, grantVars, providerVars, history
  <2>2. CASE ~Cancels(w)
    <3>1. /\ Finish(w)
          /\ UNCHANGED <<orderVars, worldVars, grantVars, providerVars, faults, history>>
      BY <1>4, <2>2 DEF QueryUnpaid
    <3> QED BY <3>1 DEF TypeOK, Statuses, Jobs, Steps, Finish, orderVars,
      rowVars, grantVars, providerVars, history
  <2> QED BY <2>1, <2>2
<1>5. ASSUME NEW w \in Workers, CloseUpstream(w) PROVE TypeOK'
  <2>1. /\ upstream' \in {upstream, [upstream EXCEPT ![ord[w]] = "closed"]}
        /\ Goto(w, "local")
        /\ UNCHANGED <<orderVars, worldVars, grantVars, notice, faults, history>>
    BY <1>5 DEF CloseUpstream
  <2>2. upstream' \in [Orders -> {"none", "open", "paid", "mispaid", "closed"}]
    BY <2>1 DEF TypeOK
  <2> QED
    BY <2>1, <2>2 DEF TypeOK, Statuses, Jobs, Steps, Goto, orderVars, rowVars,
      grantVars, history
<1>6. ASSUME NEW w \in Workers, CloseLocally(w) PROVE TypeOK'
  <2>1. CASE status[ord[w]] = "PENDING"
    <3>1. /\ SetStatus(ord[w], LocalStatus(w)) /\ Finish(w)
          /\ UNCHANGED <<paidAt, tradeNo, worldVars, flagged, grantVars, providerVars, faults, claimant>>
      BY <1>6, <2>1 DEF CloseLocally
    <3>2. LocalStatus(w) \in Statuses BY DEF LocalStatus, Statuses
    <3> QED BY <3>1, <3>2 DEF TypeOK, Jobs, Steps, SetStatus,
      Touch, Finish, grantVars, providerVars
  <2>2. CASE ~(status[ord[w]] = "PENDING")
    <3>1. /\ Finish(w)
          /\ UNCHANGED <<status, stale, held, graceOver>>
          /\ UNCHANGED <<paidAt, tradeNo, worldVars, flagged, grantVars, providerVars, faults, claimant>>
      BY <1>6, <2>2 DEF CloseLocally
    <3> QED BY <3>1 DEF TypeOK, Statuses, Jobs, Steps, Finish, grantVars, providerVars
  <2> QED BY <2>1, <2>2
<1>7. ASSUME NEW w \in Workers, PersistTradeNo(w) PROVE TypeOK'
  BY <1>7 DEF TypeOK, Statuses, Jobs, Steps, PersistTradeNo, Touch, Goto,
    grantVars, providerVars, history
<1>8. ASSUME NEW w \in Workers, RejectAmount(w) PROVE TypeOK'
  BY <1>8 DEF TypeOK, Statuses, Jobs, Steps, RejectAmount, ReturnError,
    Finish, providerVars, orderVars, rowVars, grantVars, history
<1>9. ASSUME NEW w \in Workers, ToPaid(w) PROVE TypeOK'
  BY <1>9 DEF TypeOK, Statuses, Jobs, Steps, ToPaid, SetStatus, Touch, Goto,
    Payable, grantVars, providerVars
<1>10. ASSUME NEW w \in Workers, AlreadyProcessed(w) PROVE TypeOK'
  <2>1. CASE status[ord[w]] \in {"PAID", "FAILED", "RECHARGING"}
    <3>1. /\ Goto(w, "fulfil") /\ UNCHANGED providerVars
          /\ flagged' = [flagged EXCEPT ![ord[w]] = @ \/ status[ord[w]] = "EXPIRED"]
          /\ UNCHANGED <<rowVars, worldVars, grantVars, faults, history>>
      BY <1>10, <2>1 DEF AlreadyProcessed
    <3> QED BY <3>1 DEF TypeOK, Statuses, Jobs, Steps, Goto, rowVars,
      grantVars, providerVars, history
  <2>2. CASE ~(status[ord[w]] \in {"PAID", "FAILED", "RECHARGING"})
    <3>1. /\ Return(w)
          /\ flagged' = [flagged EXCEPT ![ord[w]] = @ \/ status[ord[w]] = "EXPIRED"]
          /\ UNCHANGED <<rowVars, worldVars, grantVars, faults, history>>
      BY <1>10, <2>2 DEF AlreadyProcessed
    <3> QED BY <3>1 DEF TypeOK, Statuses, Jobs, Steps, Return, Finish,
      rowVars, grantVars, history
  <2> QED BY <2>1, <2>2
<1>11. ASSUME NEW w \in Workers, AcquireLease(w) PROVE TypeOK'
  BY <1>11 DEF TypeOK, Statuses, Jobs, Steps, AcquireLease, SetStatus, Touch,
    Goto, Claimable, grantVars, providerVars
<1>12. ASSUME NEW w \in Workers, LeaseRefused(w) PROVE TypeOK'
  <2>1. CASE status[ord[w]] = "COMPLETED"
    <3>1. /\ Return(w)
          /\ UNCHANGED <<orderVars, worldVars, grantVars, faults, history>>
      BY <1>12, <2>1 DEF LeaseRefused
    <3> QED BY <3>1 DEF TypeOK, Statuses, Jobs, Steps, Return, Finish,
      orderVars, rowVars, grantVars, history
  <2>2. CASE status[ord[w]] # "COMPLETED"
    <3>1. /\ ReturnError(w)
          /\ UNCHANGED <<orderVars, worldVars, grantVars, faults, history>>
      BY <1>12, <2>2 DEF LeaseRefused
    <3> QED BY <3>1 DEF TypeOK, Statuses, Jobs, Steps, ReturnError, Finish,
      orderVars, rowVars, grantVars, providerVars, history
  <2> QED BY <2>1, <2>2
<1>13. ASSUME NEW w \in Workers, ReadLease(w) PROVE TypeOK'
  <2>1. CASE status[ord[w]] = "RECHARGING"
    <3>1. /\ Goto(w, "apply") /\ held' = [held EXCEPT ![ord[w]] = @ \cup {w}]
          /\ UNCHANGED <<status, paidAt, tradeNo, stale, worldVars, flagged, grantVars, providerVars,
                       faults, history>>
      BY <1>13, <2>1 DEF ReadLease
    <3> QED BY <3>1 DEF TypeOK, Statuses, Jobs, Steps, Goto, grantVars,
      providerVars, history
  <2>2. CASE status[ord[w]] # "RECHARGING"
    <3>1. /\ Finish(w) /\ UNCHANGED held
          /\ UNCHANGED <<status, paidAt, tradeNo, stale, worldVars, flagged, grantVars, providerVars,
                       faults, history>>
      BY <1>13, <2>2 DEF ReadLease
    <3> QED BY <3>1 DEF TypeOK, Statuses, Jobs, Steps, Finish, grantVars,
      providerVars, history
  <2> QED BY <2>1, <2>2
<1>14. ASSUME NEW w \in Workers, ResolveRedeemAction(w) PROVE TypeOK'
  <2>1. /\ \E s \in {"create_code", "redeem", "rebate"} : Goto(w, s)
        /\ UNCHANGED <<orderVars, worldVars, grantVars, providerVars, faults, history>>
    BY <1>14 DEF ResolveRedeemAction
  <2>2. PICK s \in {"create_code", "redeem", "rebate"} : Goto(w, s)
    BY <2>1
  <2> QED BY <2>1, <2>2 DEF TypeOK, Statuses, Jobs, Steps, Goto, orderVars, rowVars,
    grantVars, providerVars, history
<1>15. ASSUME NEW w \in Workers, CreateCode(w) PROVE TypeOK'
  <2>1. CASE grant[ord[w]] = "none"
    <3>1. /\ Goto(w, "redeem") /\ grant' = [grant EXCEPT ![ord[w]] = "issued"]
          /\ UNCHANGED <<orderVars, worldVars, credits, rebateClaimed, rebates, providerVars,
                       faults, history>>
      BY <1>15, <2>1 DEF CreateCode
    <3> QED BY <3>1 DEF TypeOK, Statuses, Jobs, Steps, Goto, orderVars,
      rowVars, providerVars, history
  <2>2. CASE grant[ord[w]] # "none"
    <3>1. /\ Goto(w, "fail") /\ UNCHANGED grant
          /\ UNCHANGED <<orderVars, worldVars, credits, rebateClaimed, rebates, providerVars,
                       faults, history>>
      BY <1>15, <2>2 DEF CreateCode
    <3> QED BY <3>1 DEF TypeOK, Statuses, Jobs, Steps, Goto, orderVars,
      rowVars, providerVars, history
  <2> QED BY <2>1, <2>2
<1>16. ASSUME NEW w \in Workers, RedeemCode(w) PROVE TypeOK'
  <2>1. CASE grant[ord[w]] = "issued"
    <3>1. /\ Goto(w, "rebate")
          /\ grant' = [grant EXCEPT ![ord[w]] = "applied"]
          /\ credits' = [credits EXCEPT ![ord[w]] = @ + 1]
          /\ UNCHANGED <<orderVars, worldVars, rebateClaimed, rebates, providerVars, faults,
                       history>>
      BY <1>16, <2>1 DEF RedeemCode
    <3> QED BY <3>1 DEF TypeOK, Statuses, Jobs, Steps, Goto, orderVars,
      rowVars, providerVars, history
  <2>2. CASE grant[ord[w]] # "issued"
    <3>1. /\ Goto(w, "fail") /\ UNCHANGED <<grant, credits>>
          /\ UNCHANGED <<orderVars, worldVars, rebateClaimed, rebates, providerVars, faults,
                       history>>
      BY <1>16, <2>2 DEF RedeemCode
    <3> QED BY <3>1 DEF TypeOK, Statuses, Jobs, Steps, Goto, orderVars,
      rowVars, providerVars, history
  <2> QED BY <2>1, <2>2
<1>17. ASSUME NEW w \in Workers, AssignSubscription(w) PROVE TypeOK'
  <2>1. CASE grant[ord[w]] = "applied"
    <3>1. /\ Goto(w, "rebate") /\ UNCHANGED <<grant, credits>>
          /\ UNCHANGED <<orderVars, worldVars, rebateClaimed, rebates, providerVars, faults,
                       history>>
      BY <1>17, <2>1 DEF AssignSubscription
    <3> QED BY <3>1 DEF TypeOK, Statuses, Jobs, Steps, Goto, orderVars,
      rowVars, providerVars, history
  <2>2. CASE grant[ord[w]] # "applied"
    <3>1. /\ Goto(w, "rebate")
          /\ grant' = [grant EXCEPT ![ord[w]] = "applied"]
          /\ credits' = [credits EXCEPT ![ord[w]] = @ + 1]
          /\ UNCHANGED <<orderVars, worldVars, rebateClaimed, rebates, providerVars, faults,
                       history>>
      BY <1>17, <2>2 DEF AssignSubscription
    <3> QED BY <3>1 DEF TypeOK, Statuses, Jobs, Steps, Goto, orderVars,
      rowVars, providerVars, history
  <2> QED BY <2>1, <2>2
<1>18. ASSUME NEW w \in Workers, ApplyAffiliateRebate(w) PROVE TypeOK'
  <2>1. CASE rebateClaimed[ord[w]]
    <3>1. /\ Goto(w, "complete") /\ UNCHANGED <<rebateClaimed, rebates>>
          /\ UNCHANGED <<orderVars, worldVars, grant, credits, providerVars, faults, history>>
      BY <1>18, <2>1 DEF ApplyAffiliateRebate
    <3> QED BY <3>1 DEF TypeOK, Statuses, Jobs, Steps, Goto, orderVars,
      rowVars, providerVars, history
  <2>2. CASE ~rebateClaimed[ord[w]]
    <3>1. /\ Goto(w, "complete")
          /\ rebateClaimed' = [rebateClaimed EXCEPT ![ord[w]] = TRUE]
          /\ rebates' = [rebates EXCEPT ![ord[w]] = @ + 1]
          /\ UNCHANGED <<orderVars, worldVars, grant, credits, providerVars, faults, history>>
      BY <1>18, <2>2 DEF ApplyAffiliateRebate
    <3> QED BY <3>1 DEF TypeOK, Statuses, Jobs, Steps, Goto, orderVars,
      rowVars, providerVars, history
  <2> QED BY <2>1, <2>2
<1>19. ASSUME NEW w \in Workers, MarkCompleted(w) PROVE TypeOK'
  BY <1>19 DEF TypeOK, Statuses, Jobs, Steps, MarkCompleted, SetStatus, Touch,
    Return, Finish, OwnsLease, grantVars
<1>20. ASSUME NEW w \in Workers, LeaseLost(w) PROVE TypeOK'
  <2>1. CASE status[ord[w]] = "COMPLETED"
    <3>1. /\ Return(w)
          /\ UNCHANGED <<orderVars, worldVars, grantVars, faults, history>>
      BY <1>20, <2>1 DEF LeaseLost
    <3> QED BY <3>1 DEF TypeOK, Statuses, Jobs, Steps, Return, Finish,
      orderVars, rowVars, grantVars, history
  <2>2. CASE status[ord[w]] # "COMPLETED"
    <3>1. /\ Goto(w, "fail") /\ UNCHANGED providerVars
          /\ UNCHANGED <<orderVars, worldVars, grantVars, faults, history>>
      BY <1>20, <2>2 DEF LeaseLost
    <3> QED BY <3>1 DEF TypeOK, Statuses, Jobs, Steps, Goto, orderVars,
      rowVars, grantVars, providerVars, history
  <2> QED BY <2>1, <2>2
<1>21. ASSUME NEW w \in Workers, MarkFailed(w) PROVE TypeOK'
  <2>1. CASE OwnsLease(w)
    <3>1. /\ SetStatus(ord[w], "FAILED") /\ ReturnError(w)
          /\ UNCHANGED <<paidAt, tradeNo, worldVars, flagged, grantVars, faults, claimant>>
      BY <1>21, <2>1 DEF MarkFailed
    <3> QED BY <3>1 DEF TypeOK, Statuses, Jobs, Steps, SetStatus, Touch,
      ReturnError, Finish, grantVars, providerVars
  <2>2. CASE ~OwnsLease(w)
    <3>1. /\ ReturnError(w) /\ UNCHANGED <<status, stale, held, graceOver>>
          /\ UNCHANGED <<paidAt, tradeNo, worldVars, flagged, grantVars, faults, claimant>>
      BY <1>21, <2>2 DEF MarkFailed
    <3> QED BY <3>1 DEF TypeOK, Statuses, Jobs, Steps, ReturnError, Finish,
      grantVars, providerVars
  <2> QED BY <2>1, <2>2
<1>22. ASSUME NEW w \in Workers, QueryFails(w) PROVE TypeOK'
  <2>1. CASE Cancels(w)
    <3>1. /\ Goto(w, "local") /\ Fault
          /\ UNCHANGED <<orderVars, worldVars, grantVars, providerVars, history>>
      BY <1>22, <2>1 DEF QueryFails, GiveUpQuery
    <3> QED BY <3>1 DEF TypeOK, Statuses, Jobs, Steps, Goto, Fault,
      orderVars, rowVars, grantVars, providerVars, history
  <2>2. CASE ~Cancels(w)
    <3>1. /\ Finish(w) /\ Fault
          /\ UNCHANGED <<orderVars, worldVars, grantVars, providerVars, history>>
      BY <1>22, <2>2 DEF QueryFails, GiveUpQuery
    <3> QED BY <3>1 DEF TypeOK, Statuses, Jobs, Steps, Finish, Fault,
      orderVars, rowVars, grantVars, providerVars, history
  <2> QED BY <2>1, <2>2
<1>23. ASSUME NEW w \in Workers, SwallowReadError(w) PROVE TypeOK'
  BY <1>23 DEF TypeOK, Statuses, Jobs, Steps, SwallowReadError, Return,
    Finish, Fault, orderVars, rowVars, grantVars, history
<1>24. ASSUME NEW w \in Workers, FulfilmentError(w) PROVE TypeOK'
  BY <1>24 DEF TypeOK, Statuses, Jobs, Steps, FulfilmentError, Goto, Fault,
    Fulfilling, orderVars, rowVars, grantVars, providerVars, history
<1>25. ASSUME NEW w \in Workers, Crash(w) PROVE TypeOK'
  BY <1>25 DEF TypeOK, Statuses, Jobs, Steps, Crash, ReturnError, Finish,
    providerVars, Fault, grantVars, history
<1>26. ASSUME NEW w \in Workers, NEW o \in Orders, CreateOrder(w, o) PROVE TypeOK'
  BY <1>26 DEF TypeOK, Statuses, Jobs, Steps, CreateOrder, SetStatus, Touch,
    Begin, grantVars, providerVars
<1>27. ASSUME NEW w \in Workers, NEW o \in Orders, Notify(w, o) PROVE TypeOK'
  BY <1>27 DEF TypeOK, Statuses, Jobs, Steps, Notify, Begin, orderVars,
    rowVars, grantVars, providerVars, history
<1>28. ASSUME NEW w \in Workers, NEW o \in Orders, Verify(w, o) PROVE TypeOK'
  BY <1>28 DEF TypeOK, Statuses, Jobs, Steps, Verify, Begin, orderVars,
    rowVars, grantVars, providerVars, history
<1>29. ASSUME NEW w \in Workers, NEW o \in Orders, Reconcile(w, o) PROVE TypeOK'
  BY <1>29 DEF TypeOK, Statuses, Jobs, Steps, Reconcile, Begin, orderVars,
    rowVars, grantVars, providerVars, history
<1>30. ASSUME NEW w \in Workers, NEW o \in Orders, Expire(w, o) PROVE TypeOK'
  BY <1>30 DEF TypeOK, Statuses, Jobs, Steps, Expire, Begin, orderVars,
    rowVars, grantVars, providerVars, history
<1>31. ASSUME NEW w \in Workers, NEW o \in Orders, Cancel(w, o) PROVE TypeOK'
  BY <1>31 DEF TypeOK, Statuses, Jobs, Steps, Cancel, Begin, orderVars,
    rowVars, grantVars, providerVars, history
<1>32. ASSUME NEW w \in Workers, NEW o \in Orders, Retry(w, o) PROVE TypeOK'
  BY <1>32 DEF TypeOK, Statuses, Jobs, Steps, Retry, Begin, orderVars,
    rowVars, grantVars, providerVars, history
<1>33. ASSUME NEW o \in Orders, Pay(o) PROVE TypeOK'
  BY <1>33 DEF TypeOK, Statuses, Jobs, Steps, Pay, orderVars, rowVars,
    grantVars, callVars, history
<1>34. ASSUME NEW o \in Orders, Age(o) PROVE TypeOK'
  BY <1>34 DEF TypeOK, Statuses, Jobs, Steps, Age, grantVars, providerVars,
    callVars
<1>35. ASSUME NEW o \in Orders, PassDeadline(o) PROVE TypeOK'
  BY <1>35 DEF TypeOK, Statuses, Jobs, Steps, PassDeadline, orderVars,
    rowVars, grantVars, providerVars, callVars, history
<1>37. ASSUME NEW w \in Workers, SavePayment(w) PROVE TypeOK'
  BY <1>37 DEF TypeOK, Statuses, Jobs, Steps, SavePayment, Touch, Finish,
    orderVars, rowVars, grantVars, providerVars, callVars, history
<1>38. ASSUME NEW w \in Workers, SaveFails(w) PROVE TypeOK'
  <2>1. /\ status' = [status EXCEPT ![ord[w]] = "FAILED"]
        /\ stale' = [stale EXCEPT ![ord[w]] = FALSE] /\ held' = [held EXCEPT ![ord[w]] = {}]
        /\ graceOver' = [graceOver EXCEPT ![ord[w]] = FALSE]
        /\ Finish(w) /\ faults > 0 /\ faults' = faults - 1
        /\ UNCHANGED <<paidAt, tradeNo, worldVars, flagged, grantVars, providerVars, claimant>>
    BY <1>38 DEF SaveFails, SetStatus, Touch, Fault
  <2>2. faults' \in 0..MaxFaults
    BY <2>1 DEF TypeOK
  <2> QED
    BY <2>1, <2>2 DEF TypeOK, Statuses, Jobs, Steps, Finish, grantVars, providerVars
<1>39. ASSUME NEW w \in Workers, QueryUnknown(w) PROVE TypeOK'
  <2>1. /\ Goto(w, "local") \/ Finish(w)
        /\ UNCHANGED <<orderVars, worldVars, grantVars, providerVars, faults, history>>
    BY <1>39 DEF QueryUnknown, GiveUpQuery
  <2>2. CASE Goto(w, "local")
    BY <2>1, <2>2 DEF TypeOK, Statuses, Jobs, Steps, Goto, orderVars, rowVars, grantVars,
      providerVars, history
  <2>3. CASE Finish(w)
    BY <2>1, <2>3 DEF TypeOK, Statuses, Jobs, Steps, Finish, orderVars, rowVars, grantVars,
      providerVars, history
  <2> QED BY <2>1, <2>2, <2>3
<1>40. ASSUME NEW w \in Workers, CheckGroup(w) PROVE TypeOK'
  BY <1>40 DEF TypeOK, Statuses, Jobs, Steps, CheckGroup, Goto, orderVars,
    rowVars, grantVars, providerVars, callVars, history
<1>41. ASSUME NEW o \in Orders, SwitchGroup(o) PROVE TypeOK'
  BY <1>41 DEF TypeOK, Statuses, Jobs, Steps, SwitchGroup, orderVars, rowVars,
    grantVars, providerVars, callVars, history
<1>36. CASE UNCHANGED vars
  BY <1>36 DEF TypeOK, Statuses, Jobs, Steps, vars, orderVars, rowVars,
    grantVars, providerVars, callVars, history
<1> QED
  BY <1>1, <1>2, <1>3, <1>4, <1>5, <1>6, <1>7, <1>8, <1>9, <1>10, <1>11,
    <1>12, <1>13, <1>14, <1>15, <1>16, <1>17, <1>18, <1>19, <1>20, <1>21,
    <1>22, <1>23, <1>24, <1>25, <1>26, <1>27, <1>28, <1>29, <1>30, <1>31,
    <1>32, <1>33, <1>34, <1>35, <1>36, <1>37, <1>38, <1>39,
    <1>40, <1>41
    DEF Next, Call, Faulty, Start, Environment

(* No step undoes what an earlier one achieved: one action at a time. *)
LEMMA StepProgress ==
  ASSUME IInv, [Next]_vars PROVE Progress
<1> USE NoWorkerAssumption DEF IInv, worldVars, Creating, Fulfilling
<1>1. ASSUME NEW w \in Workers, ProviderAccepts(w) PROVE Progress
  BY <1>1 DEF CreationInv, CreationOK, TypeOK, Progress, Accepted, Granting, ProviderAccepts, Goto, orderVars, rowVars,
    grantVars, history
<1>2. ASSUME NEW w \in Workers, ProviderRejects(w) PROVE Progress
  BY <1>2 DEF CreationInv, CreationOK, TypeOK, Progress, Accepted, Granting, ProviderRejects, SetStatus, Touch,
    Finish, grantVars, providerVars
<1>3. ASSUME NEW w \in Workers, QueryPaid(w) PROVE Progress
  BY <1>3 DEF TypeOK, Progress, Accepted, Granting, QueryPaid, Goto, orderVars, rowVars,
    grantVars, providerVars, history
<1>4. ASSUME NEW w \in Workers, QueryUnpaid(w) PROVE Progress
  BY <1>4 DEF TypeOK, Progress, Accepted, Granting, QueryUnpaid, Goto, Finish, Cancels,
    orderVars, rowVars, grantVars, providerVars, history
<1>5. ASSUME NEW w \in Workers, CloseUpstream(w) PROVE Progress
  BY <1>5 DEF TypeOK, Progress, Accepted, Granting, CloseUpstream, Goto, orderVars,
    rowVars, grantVars, history
<1>6. ASSUME NEW w \in Workers, CloseLocally(w) PROVE Progress
  BY <1>6 DEF TypeOK, Progress, Accepted, Granting, CloseLocally, SetStatus, Touch,
    Finish, LocalStatus, grantVars, providerVars
<1>7. ASSUME NEW w \in Workers, PersistTradeNo(w) PROVE Progress
  BY <1>7 DEF TypeOK, Progress, Accepted, Granting, PersistTradeNo, Touch, Goto,
    grantVars, providerVars, history
<1>8. ASSUME NEW w \in Workers, RejectAmount(w) PROVE Progress
  BY <1>8 DEF TypeOK, Progress, Accepted, Granting, RejectAmount, ReturnError, Finish,
    providerVars, orderVars, rowVars, grantVars, history
<1>9. ASSUME NEW w \in Workers, ToPaid(w) PROVE Progress
  BY <1>9 DEF TypeOK, Progress, Accepted, Granting, ToPaid, SetStatus, Touch, Goto,
    Payable, grantVars, providerVars
<1>10. ASSUME NEW w \in Workers, AlreadyProcessed(w) PROVE Progress
  BY <1>10 DEF TypeOK, Progress, Accepted, Granting, AlreadyProcessed, Goto, Return,
    Finish, Payable, rowVars, grantVars, providerVars, history
<1>11. ASSUME NEW w \in Workers, AcquireLease(w) PROVE Progress
  BY <1>11 DEF TypeOK, Progress, Accepted, Granting, AcquireLease, SetStatus, Touch,
    Goto, Claimable, grantVars, providerVars
<1>12. ASSUME NEW w \in Workers, LeaseRefused(w) PROVE Progress
  BY <1>12 DEF TypeOK, Progress, Accepted, Granting, LeaseRefused, Return, Finish,
    ReturnError, providerVars, Claimable, orderVars, rowVars, grantVars,
    history
<1>13. ASSUME NEW w \in Workers, ReadLease(w) PROVE Progress
  BY <1>13 DEF TypeOK, Progress, Accepted, Granting, ReadLease, Goto, Finish, grantVars,
    providerVars, history
<1>14. ASSUME NEW w \in Workers, ResolveRedeemAction(w) PROVE Progress
  BY <1>14 DEF TypeOK, Progress, Accepted, Granting, ResolveRedeemAction, Goto,
    orderVars, rowVars, grantVars, providerVars, history
<1>15. ASSUME NEW w \in Workers, CreateCode(w) PROVE Progress
  BY <1>15 DEF TypeOK, Progress, Accepted, Granting, CreateCode, Goto, orderVars,
    rowVars, providerVars, history
<1>16. ASSUME NEW w \in Workers, RedeemCode(w) PROVE Progress
  BY <1>16 DEF TypeOK, Progress, Accepted, Granting, RedeemCode, Goto, orderVars,
    rowVars, providerVars, history
<1>17. ASSUME NEW w \in Workers, AssignSubscription(w) PROVE Progress
  BY <1>17 DEF TypeOK, Progress, Accepted, Granting, AssignSubscription, Goto,
    orderVars, rowVars, providerVars, history
<1>18. ASSUME NEW w \in Workers, ApplyAffiliateRebate(w) PROVE Progress
  BY <1>18 DEF TypeOK, Progress, Accepted, Granting, ApplyAffiliateRebate, Goto,
    orderVars, rowVars, providerVars, history
<1>19. ASSUME NEW w \in Workers, MarkCompleted(w) PROVE Progress
  BY <1>19 DEF TypeOK, Progress, Accepted, Granting, MarkCompleted, SetStatus, Touch,
    Return, Finish, OwnsLease, grantVars
<1>20. ASSUME NEW w \in Workers, LeaseLost(w) PROVE Progress
  BY <1>20 DEF TypeOK, Progress, Accepted, Granting, LeaseLost, Goto, Return, Finish,
    OwnsLease, orderVars, rowVars, grantVars, providerVars, history
<1>21. ASSUME NEW w \in Workers, MarkFailed(w) PROVE Progress
  BY <1>21 DEF TypeOK, Progress, Accepted, Granting, MarkFailed, SetStatus, Touch,
    ReturnError, Finish, providerVars, OwnsLease, grantVars
<1>22. ASSUME NEW w \in Workers, QueryFails(w) PROVE Progress
  BY <1>22 DEF TypeOK, Progress, Accepted, Granting, QueryFails, GiveUpQuery, Goto, Finish, Fault,
    Cancels, orderVars, rowVars, grantVars, providerVars, history
<1>23. ASSUME NEW w \in Workers, SwallowReadError(w) PROVE Progress
  BY <1>23 DEF TypeOK, Progress, Accepted, Granting, SwallowReadError, Return, Finish,
    Fault, orderVars, rowVars, grantVars, history
<1>24. ASSUME NEW w \in Workers, FulfilmentError(w) PROVE Progress
  BY <1>24 DEF TypeOK, Progress, Accepted, Granting, FulfilmentError, Goto, Fault,
    Fulfilling, orderVars, rowVars, grantVars, providerVars, history
<1>25. ASSUME NEW w \in Workers, Crash(w) PROVE Progress
  BY <1>25 DEF TypeOK, Progress, Accepted, Granting, Crash, ReturnError, Finish,
    providerVars, Fault, grantVars, history
<1>26. ASSUME NEW w \in Workers, NEW o \in Orders, CreateOrder(w, o) PROVE Progress
  BY <1>26 DEF TypeOK, Progress, Accepted, Granting, CreateOrder, SetStatus, Touch,
    Begin, grantVars, providerVars
<1>27. ASSUME NEW w \in Workers, NEW o \in Orders, Notify(w, o) PROVE Progress
  BY <1>27 DEF TypeOK, Progress, Accepted, Granting, Notify, Begin, orderVars, rowVars,
    grantVars, providerVars, history
<1>28. ASSUME NEW w \in Workers, NEW o \in Orders, Verify(w, o) PROVE Progress
  BY <1>28 DEF TypeOK, Progress, Accepted, Granting, Verify, Begin, orderVars, rowVars,
    grantVars, providerVars, history
<1>29. ASSUME NEW w \in Workers, NEW o \in Orders, Reconcile(w, o) PROVE Progress
  BY <1>29 DEF TypeOK, Progress, Accepted, Granting, Reconcile, Begin, orderVars,
    rowVars, grantVars, providerVars, history
<1>30. ASSUME NEW w \in Workers, NEW o \in Orders, Expire(w, o) PROVE Progress
  BY <1>30 DEF TypeOK, Progress, Accepted, Granting, Expire, Begin, orderVars, rowVars,
    grantVars, providerVars, history
<1>31. ASSUME NEW w \in Workers, NEW o \in Orders, Cancel(w, o) PROVE Progress
  BY <1>31 DEF TypeOK, Progress, Accepted, Granting, Cancel, Begin, orderVars, rowVars,
    grantVars, providerVars, history
<1>32. ASSUME NEW w \in Workers, NEW o \in Orders, Retry(w, o) PROVE Progress
  BY <1>32 DEF TypeOK, Progress, Accepted, Granting, Retry, Begin, orderVars, rowVars,
    grantVars, providerVars, history
<1>33. ASSUME NEW o \in Orders, Pay(o) PROVE Progress
  BY <1>33 DEF TypeOK, Progress, Accepted, Granting, Pay, orderVars, rowVars, grantVars,
    callVars, history
<1>34. ASSUME NEW o \in Orders, Age(o) PROVE Progress
  BY <1>34 DEF TypeOK, Progress, Accepted, Granting, Age, grantVars, providerVars,
    callVars
<1>35. ASSUME NEW o \in Orders, PassDeadline(o) PROVE Progress
  BY <1>35 DEF TypeOK, Progress, Accepted, Granting, PassDeadline, orderVars, rowVars,
    grantVars, providerVars, callVars, history
<1>37. ASSUME NEW w \in Workers, SavePayment(w) PROVE Progress
  BY <1>37 DEF TypeOK, Progress, Accepted, Granting, SavePayment, Touch,
    Finish, orderVars, rowVars, grantVars, providerVars, callVars, history
<1>38. ASSUME NEW w \in Workers, SaveFails(w) PROVE Progress
  BY <1>38 DEF TypeOK, Progress, Accepted, Granting, SaveFails, SetStatus,
    Touch, Finish, Fault, orderVars, rowVars, grantVars, providerVars,
    callVars, history
<1>39. ASSUME NEW w \in Workers, QueryUnknown(w) PROVE Progress
  BY <1>39 DEF TypeOK, Progress, Accepted, Granting, QueryUnknown, GiveUpQuery,
    Goto, Finish, Cancels, orderVars, rowVars, grantVars, providerVars,
    callVars, history
<1>40. ASSUME NEW w \in Workers, CheckGroup(w) PROVE Progress
  BY <1>40 DEF TypeOK, Progress, Accepted, Granting, CheckGroup, Goto,
    orderVars, rowVars, grantVars, providerVars, callVars, history
<1>41. ASSUME NEW o \in Orders, SwitchGroup(o) PROVE Progress
  BY <1>41 DEF TypeOK, Progress, Accepted, Granting, SwitchGroup, orderVars,
    rowVars, grantVars, providerVars, callVars, history
<1>36. CASE UNCHANGED vars
  BY <1>36 DEF TypeOK, Progress, Accepted, Granting, vars, orderVars, rowVars,
    grantVars, providerVars, callVars, history
<1> QED
  BY <1>1, <1>2, <1>3, <1>4, <1>5, <1>6, <1>7, <1>8, <1>9, <1>10, <1>11,
    <1>12, <1>13, <1>14, <1>15, <1>16, <1>17, <1>18, <1>19, <1>20, <1>21,
    <1>22, <1>23, <1>24, <1>25, <1>26, <1>27, <1>28, <1>29, <1>30, <1>31,
    <1>32, <1>33, <1>34, <1>35, <1>36, <1>37, <1>38, <1>39,
    <1>40, <1>41
    DEF Next, Call, Faulty, Start, Environment

(* Every step keeps the agreement of an order's columns. *)
LEMMA StepOrderInv ==
  ASSUME IInv, [Next]_vars, NEW p \in Orders PROVE OrderOK(p)'
<1> USE NoWorkerAssumption DEF worldVars, Creating, Fulfilling
<1> USE BalanceAssumption
<1>1. ASSUME NEW w \in Workers, ProviderAccepts(w) PROVE OrderOK(p)'
  BY <1>1 DEF IInv, TypeOK, OrderInv, OrderOK, CallInv, CallOK, CreationInv,
    CreationOK, Accepted, Granting, Fulfilling, ProviderAccepts, Goto, orderVars, rowVars, grantVars, history
<1>2. ASSUME NEW w \in Workers, ProviderRejects(w) PROVE OrderOK(p)'
  BY <1>2 DEF IInv, TypeOK, OrderInv, OrderOK, CallInv, CallOK, CreationInv,
    CreationOK, Accepted, Granting, Fulfilling, ProviderRejects, SetStatus,
    Touch, Finish, grantVars, providerVars
<1>3. ASSUME NEW w \in Workers, QueryPaid(w) PROVE OrderOK(p)'
  BY <1>3 DEF IInv, TypeOK, OrderInv, OrderOK, CallInv, CallOK, CreationInv,
    CreationOK, Accepted, Granting, Fulfilling, QueryPaid, Goto, orderVars,
    rowVars, grantVars, providerVars, history
<1>4. ASSUME NEW w \in Workers, QueryUnpaid(w) PROVE OrderOK(p)'
  BY <1>4 DEF IInv, TypeOK, OrderInv, OrderOK, CallInv, CallOK, CreationInv,
    CreationOK, Accepted, Granting, Fulfilling, QueryUnpaid, Goto, Finish,
    Cancels, orderVars, rowVars, grantVars, providerVars, history
<1>5. ASSUME NEW w \in Workers, CloseUpstream(w) PROVE OrderOK(p)'
  BY <1>5 DEF IInv, TypeOK, OrderInv, OrderOK, CallInv, CallOK, CreationInv,
    CreationOK, Accepted, Granting, Fulfilling, CloseUpstream, Goto,
    orderVars, rowVars, grantVars, history
<1>6. ASSUME NEW w \in Workers, CloseLocally(w) PROVE OrderOK(p)'
  BY <1>6 DEF IInv, TypeOK, OrderInv, OrderOK, CallInv, CallOK, CreationInv,
    CreationOK, Accepted, Granting, Fulfilling, CloseLocally, SetStatus,
    Touch, Finish, LocalStatus, grantVars, providerVars
<1>7. ASSUME NEW w \in Workers, PersistTradeNo(w) PROVE OrderOK(p)'
  BY <1>7 DEF IInv, TypeOK, OrderInv, OrderOK, CallInv, CallOK, CreationInv,
    CreationOK, Accepted, Granting, Fulfilling, PersistTradeNo, Touch, Goto,
    grantVars, providerVars, history
<1>8. ASSUME NEW w \in Workers, RejectAmount(w) PROVE OrderOK(p)'
  BY <1>8 DEF IInv, TypeOK, OrderInv, OrderOK, CallInv, CallOK, CreationInv,
    CreationOK, Accepted, Granting, Fulfilling, RejectAmount, ReturnError,
    Finish, providerVars, orderVars, rowVars, grantVars, history
<1>9. ASSUME NEW w \in Workers, ToPaid(w) PROVE OrderOK(p)'
  BY <1>9 DEF IInv, TypeOK, OrderInv, OrderOK, CallInv, CallOK, CreationInv,
    CreationOK, Accepted, Granting, Fulfilling, ToPaid, SetStatus, Touch,
    Goto, Payable, grantVars, providerVars
<1>10. ASSUME NEW w \in Workers, AlreadyProcessed(w) PROVE OrderOK(p)'
  BY <1>10 DEF IInv, TypeOK, OrderInv, OrderOK, CallInv, CallOK, CreationInv,
    CreationOK, Accepted, Granting, Fulfilling, AlreadyProcessed, Goto,
    Return, Finish, Payable, rowVars, grantVars, providerVars, history
<1>11. ASSUME NEW w \in Workers, AcquireLease(w) PROVE OrderOK(p)'
  BY <1>11 DEF IInv, TypeOK, OrderInv, OrderOK, CallInv, CallOK, CreationInv,
    CreationOK, Accepted, Granting, Fulfilling, AcquireLease, SetStatus,
    Touch, Goto, Claimable, grantVars, providerVars
<1>12. ASSUME NEW w \in Workers, LeaseRefused(w) PROVE OrderOK(p)'
  BY <1>12 DEF IInv, TypeOK, OrderInv, OrderOK, CallInv, CallOK, CreationInv,
    CreationOK, Accepted, Granting, Fulfilling, LeaseRefused, Return, Finish,
    ReturnError, providerVars, Claimable, orderVars, rowVars, grantVars,
    history
<1>13. ASSUME NEW w \in Workers, ReadLease(w) PROVE OrderOK(p)'
  BY <1>13 DEF IInv, TypeOK, OrderInv, OrderOK, CallInv, CallOK, CreationInv,
    CreationOK, Accepted, Granting, Fulfilling, ReadLease, Goto, Finish,
    grantVars, providerVars, history
<1>14. ASSUME NEW w \in Workers, ResolveRedeemAction(w) PROVE OrderOK(p)'
  BY <1>14 DEF IInv, TypeOK, OrderInv, OrderOK, CallInv, CallOK, CreationInv,
    CreationOK, Accepted, Granting, Fulfilling, ResolveRedeemAction, Goto,
    orderVars, rowVars, grantVars, providerVars, history
<1>15. ASSUME NEW w \in Workers, CreateCode(w) PROVE OrderOK(p)'
  BY <1>15 DEF IInv, TypeOK, OrderInv, OrderOK, CallInv, CallOK, CreationInv,
    CreationOK, Accepted, Granting, Fulfilling, CreateCode, Goto, orderVars,
    rowVars, providerVars, history
<1>16. ASSUME NEW w \in Workers, RedeemCode(w) PROVE OrderOK(p)'
  BY <1>16 DEF IInv, TypeOK, OrderInv, OrderOK, CallInv, CallOK, CreationInv,
    CreationOK, Accepted, Granting, Fulfilling, RedeemCode, Goto, orderVars,
    rowVars, providerVars, history
<1>17. ASSUME NEW w \in Workers, AssignSubscription(w) PROVE OrderOK(p)'
  BY <1>17 DEF IInv, TypeOK, OrderInv, OrderOK, CallInv, CallOK, CreationInv,
    CreationOK, Accepted, Granting, Fulfilling, AssignSubscription, Goto,
    orderVars, rowVars, providerVars, history
<1>18. ASSUME NEW w \in Workers, ApplyAffiliateRebate(w) PROVE OrderOK(p)'
  BY <1>18 DEF IInv, TypeOK, OrderInv, OrderOK, CallInv, CallOK, CreationInv,
    CreationOK, Accepted, Granting, Fulfilling, ApplyAffiliateRebate, Goto,
    orderVars, rowVars, providerVars, history
<1>19. ASSUME NEW w \in Workers, MarkCompleted(w) PROVE OrderOK(p)'
  BY <1>19 DEF IInv, TypeOK, OrderInv, OrderOK, CallInv, CallOK, CreationInv,
    CreationOK, Accepted, Granting, Fulfilling, MarkCompleted, SetStatus,
    Touch, Return, Finish, OwnsLease, grantVars
<1>20. ASSUME NEW w \in Workers, LeaseLost(w) PROVE OrderOK(p)'
  BY <1>20 DEF IInv, TypeOK, OrderInv, OrderOK, CallInv, CallOK, CreationInv,
    CreationOK, Accepted, Granting, Fulfilling, LeaseLost, Goto, Return,
    Finish, OwnsLease, orderVars, rowVars, grantVars, providerVars, history
<1>21. ASSUME NEW w \in Workers, MarkFailed(w) PROVE OrderOK(p)'
  BY <1>21 DEF IInv, TypeOK, OrderInv, OrderOK, CallInv, CallOK, CreationInv,
    CreationOK, Accepted, Granting, Fulfilling, MarkFailed, SetStatus, Touch,
    ReturnError, Finish, providerVars, OwnsLease, grantVars
<1>22. ASSUME NEW w \in Workers, QueryFails(w) PROVE OrderOK(p)'
  BY <1>22 DEF IInv, TypeOK, OrderInv, OrderOK, CallInv, CallOK, CreationInv,
    CreationOK, Accepted, Granting, Fulfilling, QueryFails, GiveUpQuery, Goto, Finish,
    Fault, Cancels, orderVars, rowVars, grantVars, providerVars, history
<1>23. ASSUME NEW w \in Workers, SwallowReadError(w) PROVE OrderOK(p)'
  BY <1>23 DEF IInv, TypeOK, OrderInv, OrderOK, CallInv, CallOK, CreationInv,
    CreationOK, Accepted, Granting, Fulfilling, SwallowReadError, Return,
    Finish, Fault, orderVars, rowVars, grantVars, history
<1>24. ASSUME NEW w \in Workers, FulfilmentError(w) PROVE OrderOK(p)'
  BY <1>24 DEF IInv, TypeOK, OrderInv, OrderOK, CallInv, CallOK, CreationInv,
    CreationOK, Accepted, Granting, Fulfilling, FulfilmentError, Goto, Fault,
    Fulfilling, orderVars, rowVars, grantVars, providerVars, history
<1>25. ASSUME NEW w \in Workers, Crash(w) PROVE OrderOK(p)'
  BY <1>25 DEF IInv, TypeOK, OrderInv, OrderOK, CallInv, CallOK, CreationInv,
    CreationOK, Accepted, Granting, Fulfilling, Crash, ReturnError, Finish,
    providerVars, Fault, grantVars, history
<1>26. ASSUME NEW w \in Workers, NEW o \in Orders, CreateOrder(w, o) PROVE OrderOK(p)'
  BY <1>26 DEF IInv, TypeOK, OrderInv, OrderOK, CallInv, CallOK, CreationInv,
    CreationOK, Accepted, Granting, Fulfilling, CreateOrder, SetStatus, Touch,
    Begin, grantVars, providerVars
<1>27. ASSUME NEW w \in Workers, NEW o \in Orders, Notify(w, o) PROVE OrderOK(p)'
  BY <1>27 DEF IInv, TypeOK, OrderInv, OrderOK, CallInv, CallOK, CreationInv,
    CreationOK, Accepted, Granting, Fulfilling, Notify, Begin, orderVars,
    rowVars, grantVars, providerVars, history
<1>28. ASSUME NEW w \in Workers, NEW o \in Orders, Verify(w, o) PROVE OrderOK(p)'
  BY <1>28 DEF IInv, TypeOK, OrderInv, OrderOK, CallInv, CallOK, CreationInv,
    CreationOK, Accepted, Granting, Fulfilling, Verify, Begin, orderVars,
    rowVars, grantVars, providerVars, history
<1>29. ASSUME NEW w \in Workers, NEW o \in Orders, Reconcile(w, o) PROVE OrderOK(p)'
  BY <1>29 DEF IInv, TypeOK, OrderInv, OrderOK, CallInv, CallOK, CreationInv,
    CreationOK, Accepted, Granting, Fulfilling, Reconcile, Begin, orderVars,
    rowVars, grantVars, providerVars, history
<1>30. ASSUME NEW w \in Workers, NEW o \in Orders, Expire(w, o) PROVE OrderOK(p)'
  BY <1>30 DEF IInv, TypeOK, OrderInv, OrderOK, CallInv, CallOK, CreationInv,
    CreationOK, Accepted, Granting, Fulfilling, Expire, Begin, orderVars,
    rowVars, grantVars, providerVars, history
<1>31. ASSUME NEW w \in Workers, NEW o \in Orders, Cancel(w, o) PROVE OrderOK(p)'
  BY <1>31 DEF IInv, TypeOK, OrderInv, OrderOK, CallInv, CallOK, CreationInv,
    CreationOK, Accepted, Granting, Fulfilling, Cancel, Begin, orderVars,
    rowVars, grantVars, providerVars, history
<1>32. ASSUME NEW w \in Workers, NEW o \in Orders, Retry(w, o) PROVE OrderOK(p)'
  BY <1>32 DEF IInv, TypeOK, OrderInv, OrderOK, CallInv, CallOK, CreationInv,
    CreationOK, Accepted, Granting, Fulfilling, Retry, Begin, orderVars,
    rowVars, grantVars, providerVars, history
<1>33. ASSUME NEW o \in Orders, Pay(o) PROVE OrderOK(p)'
  BY <1>33 DEF IInv, TypeOK, OrderInv, OrderOK, CallInv, CallOK, CreationInv,
    CreationOK, Accepted, Granting, Fulfilling, Pay, orderVars, rowVars,
    grantVars, callVars, history
<1>34. ASSUME NEW o \in Orders, Age(o) PROVE OrderOK(p)'
  BY <1>34 DEF IInv, TypeOK, OrderInv, OrderOK, CallInv, CallOK, CreationInv,
    CreationOK, Accepted, Granting, Fulfilling, Age, grantVars, providerVars,
    callVars
<1>35. ASSUME NEW o \in Orders, PassDeadline(o) PROVE OrderOK(p)'
  BY <1>35 DEF IInv, TypeOK, OrderInv, OrderOK, CallInv, CallOK, CreationInv,
    CreationOK, Accepted, Granting, Fulfilling, PassDeadline, orderVars,
    rowVars, grantVars, providerVars, callVars, history
<1>37. ASSUME NEW w \in Workers, SavePayment(w) PROVE OrderOK(p)'
  BY <1>37 DEF IInv, TypeOK, OrderInv, OrderOK, CallInv, CallOK, CreationInv,
    CreationOK, Accepted, Granting, SavePayment, Touch, Finish, orderVars,
    rowVars, grantVars, providerVars, callVars, history
<1>38. ASSUME NEW w \in Workers, SaveFails(w) PROVE OrderOK(p)'
  BY <1>38 DEF IInv, TypeOK, OrderInv, OrderOK, CallInv, CallOK, CreationInv,
    CreationOK, Accepted, Granting, SaveFails, SetStatus, Touch, Finish, Fault,
    orderVars, rowVars, grantVars, providerVars, callVars, history
<1>39. ASSUME NEW w \in Workers, QueryUnknown(w) PROVE OrderOK(p)'
  BY <1>39 DEF IInv, TypeOK, OrderInv, OrderOK, CallInv, CallOK, CreationInv,
    CreationOK, Accepted, Granting, QueryUnknown, GiveUpQuery, Goto, Finish,
    Cancels, orderVars, rowVars, grantVars, providerVars, callVars, history
<1>40. ASSUME NEW w \in Workers, CheckGroup(w) PROVE OrderOK(p)'
  BY <1>40 DEF IInv, TypeOK, OrderInv, OrderOK, CallInv, CallOK, CreationInv,
    CreationOK, Accepted, Granting, CheckGroup, Goto, orderVars, rowVars,
    grantVars, providerVars, callVars, history
<1>41. ASSUME NEW o \in Orders, SwitchGroup(o) PROVE OrderOK(p)'
  BY <1>41 DEF IInv, TypeOK, OrderInv, OrderOK, CallInv, CallOK, CreationInv,
    CreationOK, Accepted, Granting, SwitchGroup, orderVars, rowVars, grantVars,
    providerVars, callVars, history
<1>36. CASE UNCHANGED vars
  BY <1>36 DEF IInv, TypeOK, OrderInv, OrderOK, CallInv, CallOK, CreationInv,
    CreationOK, Accepted, Granting, Fulfilling, vars, orderVars, rowVars,
    grantVars, providerVars, callVars, history
<1> QED
  BY <1>1, <1>2, <1>3, <1>4, <1>5, <1>6, <1>7, <1>8, <1>9, <1>10, <1>11,
    <1>12, <1>13, <1>14, <1>15, <1>16, <1>17, <1>18, <1>19, <1>20, <1>21,
    <1>22, <1>23, <1>24, <1>25, <1>26, <1>27, <1>28, <1>29, <1>30, <1>31,
    <1>32, <1>33, <1>34, <1>35, <1>36, <1>37, <1>38, <1>39,
    <1>40, <1>41
    DEF Next, Call, Faulty, Start, Environment

(* Every step keeps what the calls in progress rely on. *)
LEMMA StepCallInv ==
  ASSUME IInv, [Next]_vars, NEW v \in Workers PROVE CallOK(v)'
<1> USE NoWorkerAssumption DEF worldVars, Creating, Fulfilling
<1>a. Progress
  BY StepProgress
<1> USE <1>a DEF Progress
<1>1. ASSUME NEW w \in Workers, ProviderAccepts(w) PROVE CallOK(v)'
  BY <1>1 DEF IInv, TypeOK, OrderInv, OrderOK, CallInv, CallOK, Accepted,
    Granting, Fulfilling, ProviderAccepts, Goto, orderVars, rowVars, grantVars, history
<1>2. ASSUME NEW w \in Workers, ProviderRejects(w) PROVE CallOK(v)'
  BY <1>2 DEF IInv, TypeOK, OrderInv, OrderOK, CallInv, CallOK, Accepted,
    Granting, Fulfilling, ProviderRejects, SetStatus, Touch, Finish,
    grantVars, providerVars
<1>3. ASSUME NEW w \in Workers, QueryPaid(w) PROVE CallOK(v)'
  BY <1>3 DEF IInv, TypeOK, OrderInv, OrderOK, CallInv, CallOK, Accepted,
    Granting, Fulfilling, QueryPaid, Goto, orderVars, rowVars, grantVars,
    providerVars, history
<1>4. ASSUME NEW w \in Workers, QueryUnpaid(w) PROVE CallOK(v)'
  BY <1>4 DEF IInv, TypeOK, OrderInv, OrderOK, CallInv, CallOK, Accepted,
    Granting, Fulfilling, QueryUnpaid, Goto, Finish, Cancels, orderVars,
    rowVars, grantVars, providerVars, history
<1>5. ASSUME NEW w \in Workers, CloseUpstream(w) PROVE CallOK(v)'
  BY <1>5 DEF IInv, TypeOK, OrderInv, OrderOK, CallInv, CallOK, Accepted,
    Granting, Fulfilling, CloseUpstream, Goto, orderVars, rowVars, grantVars,
    history
<1>6. ASSUME NEW w \in Workers, CloseLocally(w) PROVE CallOK(v)'
  BY <1>6 DEF IInv, TypeOK, OrderInv, OrderOK, CallInv, CallOK, Accepted,
    Granting, Fulfilling, CloseLocally, SetStatus, Touch, Finish, LocalStatus,
    grantVars, providerVars
<1>7. ASSUME NEW w \in Workers, PersistTradeNo(w) PROVE CallOK(v)'
  BY <1>7 DEF IInv, TypeOK, OrderInv, OrderOK, CallInv, CallOK, Accepted,
    Granting, Fulfilling, PersistTradeNo, Touch, Goto, grantVars,
    providerVars, history
<1>8. ASSUME NEW w \in Workers, RejectAmount(w) PROVE CallOK(v)'
  BY <1>8 DEF IInv, TypeOK, OrderInv, OrderOK, CallInv, CallOK, Accepted,
    Granting, Fulfilling, RejectAmount, ReturnError, Finish, providerVars,
    orderVars, rowVars, grantVars, history
<1>9. ASSUME NEW w \in Workers, ToPaid(w) PROVE CallOK(v)'
  BY <1>9 DEF IInv, TypeOK, OrderInv, OrderOK, CallInv, CallOK, Accepted,
    Granting, Fulfilling, ToPaid, SetStatus, Touch, Goto, Payable, grantVars,
    providerVars
<1>10. ASSUME NEW w \in Workers, AlreadyProcessed(w) PROVE CallOK(v)'
  BY <1>10 DEF IInv, TypeOK, OrderInv, OrderOK, CallInv, CallOK, Accepted,
    Granting, Fulfilling, AlreadyProcessed, Goto, Return, Finish, Payable,
    rowVars, grantVars, providerVars, history
<1>11. ASSUME NEW w \in Workers, AcquireLease(w) PROVE CallOK(v)'
  BY <1>11 DEF IInv, TypeOK, OrderInv, OrderOK, CallInv, CallOK, Accepted,
    Granting, Fulfilling, AcquireLease, SetStatus, Touch, Goto, Claimable,
    grantVars, providerVars
<1>12. ASSUME NEW w \in Workers, LeaseRefused(w) PROVE CallOK(v)'
  BY <1>12 DEF IInv, TypeOK, OrderInv, OrderOK, CallInv, CallOK, Accepted,
    Granting, Fulfilling, LeaseRefused, Return, Finish, ReturnError,
    providerVars, Claimable, orderVars, rowVars, grantVars, history
<1>13. ASSUME NEW w \in Workers, ReadLease(w) PROVE CallOK(v)'
  BY <1>13 DEF IInv, TypeOK, OrderInv, OrderOK, CallInv, CallOK, Accepted,
    Granting, Fulfilling, ReadLease, Goto, Finish, grantVars, providerVars,
    history
<1>14. ASSUME NEW w \in Workers, ResolveRedeemAction(w) PROVE CallOK(v)'
  BY <1>14 DEF IInv, TypeOK, OrderInv, OrderOK, CallInv, CallOK, Accepted,
    Granting, Fulfilling, ResolveRedeemAction, Goto, orderVars, rowVars,
    grantVars, providerVars, history
<1>15. ASSUME NEW w \in Workers, CreateCode(w) PROVE CallOK(v)'
  BY <1>15 DEF IInv, TypeOK, OrderInv, OrderOK, CallInv, CallOK, Accepted,
    Granting, Fulfilling, CreateCode, Goto, orderVars, rowVars, providerVars,
    history
<1>16. ASSUME NEW w \in Workers, RedeemCode(w) PROVE CallOK(v)'
  BY <1>16 DEF IInv, TypeOK, OrderInv, OrderOK, CallInv, CallOK, Accepted,
    Granting, Fulfilling, RedeemCode, Goto, orderVars, rowVars, providerVars,
    history
<1>17. ASSUME NEW w \in Workers, AssignSubscription(w) PROVE CallOK(v)'
  BY <1>17 DEF IInv, TypeOK, OrderInv, OrderOK, CallInv, CallOK, Accepted,
    Granting, Fulfilling, AssignSubscription, Goto, orderVars, rowVars,
    providerVars, history
<1>18. ASSUME NEW w \in Workers, ApplyAffiliateRebate(w) PROVE CallOK(v)'
  BY <1>18 DEF IInv, TypeOK, OrderInv, OrderOK, CallInv, CallOK, Accepted,
    Granting, Fulfilling, ApplyAffiliateRebate, Goto, orderVars, rowVars,
    providerVars, history
<1>19. ASSUME NEW w \in Workers, MarkCompleted(w) PROVE CallOK(v)'
  BY <1>19 DEF IInv, TypeOK, OrderInv, OrderOK, CallInv, CallOK, Accepted,
    Granting, Fulfilling, MarkCompleted, SetStatus, Touch, Return, Finish,
    OwnsLease, grantVars
<1>20. ASSUME NEW w \in Workers, LeaseLost(w) PROVE CallOK(v)'
  BY <1>20 DEF IInv, TypeOK, OrderInv, OrderOK, CallInv, CallOK, Accepted,
    Granting, Fulfilling, LeaseLost, Goto, Return, Finish, OwnsLease,
    orderVars, rowVars, grantVars, providerVars, history
<1>21. ASSUME NEW w \in Workers, MarkFailed(w) PROVE CallOK(v)'
  BY <1>21 DEF IInv, TypeOK, OrderInv, OrderOK, CallInv, CallOK, Accepted,
    Granting, Fulfilling, MarkFailed, SetStatus, Touch, ReturnError, Finish,
    providerVars, OwnsLease, grantVars
<1>22. ASSUME NEW w \in Workers, QueryFails(w) PROVE CallOK(v)'
  BY <1>22 DEF IInv, TypeOK, OrderInv, OrderOK, CallInv, CallOK, Accepted,
    Granting, Fulfilling, QueryFails, GiveUpQuery, Goto, Finish, Fault, Cancels, orderVars,
    rowVars, grantVars, providerVars, history
<1>23. ASSUME NEW w \in Workers, SwallowReadError(w) PROVE CallOK(v)'
  BY <1>23 DEF IInv, TypeOK, OrderInv, OrderOK, CallInv, CallOK, Accepted,
    Granting, Fulfilling, SwallowReadError, Return, Finish, Fault, orderVars,
    rowVars, grantVars, history
<1>24. ASSUME NEW w \in Workers, FulfilmentError(w) PROVE CallOK(v)'
  BY <1>24 DEF IInv, TypeOK, OrderInv, OrderOK, CallInv, CallOK, Accepted,
    Granting, Fulfilling, FulfilmentError, Goto, Fault, Fulfilling, orderVars,
    rowVars, grantVars, providerVars, history
<1>25. ASSUME NEW w \in Workers, Crash(w) PROVE CallOK(v)'
  BY <1>25 DEF IInv, TypeOK, OrderInv, OrderOK, CallInv, CallOK, Accepted,
    Granting, Fulfilling, Crash, ReturnError, Finish, providerVars, Fault,
    grantVars, history
<1>26. ASSUME NEW w \in Workers, NEW o \in Orders, CreateOrder(w, o) PROVE CallOK(v)'
  BY <1>26 DEF IInv, TypeOK, OrderInv, OrderOK, CallInv, CallOK, Accepted,
    Granting, Fulfilling, CreateOrder, SetStatus, Touch, Begin, grantVars,
    providerVars
<1>27. ASSUME NEW w \in Workers, NEW o \in Orders, Notify(w, o) PROVE CallOK(v)'
  BY <1>27 DEF IInv, TypeOK, OrderInv, OrderOK, CallInv, CallOK, Accepted,
    Granting, Fulfilling, Notify, Begin, orderVars, rowVars, grantVars,
    providerVars, history
<1>28. ASSUME NEW w \in Workers, NEW o \in Orders, Verify(w, o) PROVE CallOK(v)'
  BY <1>28 DEF IInv, TypeOK, OrderInv, OrderOK, CallInv, CallOK, Accepted,
    Granting, Fulfilling, Verify, Begin, orderVars, rowVars, grantVars,
    providerVars, history
<1>29. ASSUME NEW w \in Workers, NEW o \in Orders, Reconcile(w, o) PROVE CallOK(v)'
  BY <1>29 DEF IInv, TypeOK, OrderInv, OrderOK, CallInv, CallOK, Accepted,
    Granting, Fulfilling, Reconcile, Begin, orderVars, rowVars, grantVars,
    providerVars, history
<1>30. ASSUME NEW w \in Workers, NEW o \in Orders, Expire(w, o) PROVE CallOK(v)'
  BY <1>30 DEF IInv, TypeOK, OrderInv, OrderOK, CallInv, CallOK, Accepted,
    Granting, Fulfilling, Expire, Begin, orderVars, rowVars, grantVars,
    providerVars, history
<1>31. ASSUME NEW w \in Workers, NEW o \in Orders, Cancel(w, o) PROVE CallOK(v)'
  BY <1>31 DEF IInv, TypeOK, OrderInv, OrderOK, CallInv, CallOK, Accepted,
    Granting, Fulfilling, Cancel, Begin, orderVars, rowVars, grantVars,
    providerVars, history
<1>32. ASSUME NEW w \in Workers, NEW o \in Orders, Retry(w, o) PROVE CallOK(v)'
  BY <1>32 DEF IInv, TypeOK, OrderInv, OrderOK, CallInv, CallOK, Accepted,
    Granting, Fulfilling, Retry, Begin, orderVars, rowVars, grantVars,
    providerVars, history
<1>33. ASSUME NEW o \in Orders, Pay(o) PROVE CallOK(v)'
  BY <1>33 DEF IInv, TypeOK, OrderInv, OrderOK, CallInv, CallOK, Accepted,
    Granting, Fulfilling, Pay, orderVars, rowVars, grantVars, callVars,
    history
<1>34. ASSUME NEW o \in Orders, Age(o) PROVE CallOK(v)'
  BY <1>34 DEF IInv, TypeOK, OrderInv, OrderOK, CallInv, CallOK, Accepted,
    Granting, Fulfilling, Age, grantVars, providerVars, callVars
<1>35. ASSUME NEW o \in Orders, PassDeadline(o) PROVE CallOK(v)'
  BY <1>35 DEF IInv, TypeOK, OrderInv, OrderOK, CallInv, CallOK, Accepted,
    Granting, Fulfilling, PassDeadline, orderVars, rowVars, grantVars,
    providerVars, callVars, history
<1>37. ASSUME NEW w \in Workers, SavePayment(w) PROVE CallOK(v)'
  BY <1>37 DEF IInv, TypeOK, OrderInv, OrderOK, CallInv, CallOK, CreationInv,
    CreationOK, Accepted, Granting, SavePayment, Touch, Finish, orderVars,
    rowVars, grantVars, providerVars, callVars, history
<1>38. ASSUME NEW w \in Workers, SaveFails(w) PROVE CallOK(v)'
  BY <1>38 DEF IInv, TypeOK, OrderInv, OrderOK, CallInv, CallOK, CreationInv,
    CreationOK, Accepted, Granting, SaveFails, SetStatus, Touch, Finish, Fault,
    orderVars, rowVars, grantVars, providerVars, callVars, history
<1>39. ASSUME NEW w \in Workers, QueryUnknown(w) PROVE CallOK(v)'
  BY <1>39 DEF IInv, TypeOK, OrderInv, OrderOK, CallInv, CallOK, CreationInv,
    CreationOK, Accepted, Granting, QueryUnknown, GiveUpQuery, Goto, Finish,
    Cancels, orderVars, rowVars, grantVars, providerVars, callVars, history
<1>40. ASSUME NEW w \in Workers, CheckGroup(w) PROVE CallOK(v)'
  BY <1>40 DEF IInv, TypeOK, OrderInv, OrderOK, CallInv, CallOK, CreationInv,
    CreationOK, Accepted, Granting, CheckGroup, Goto, orderVars, rowVars,
    grantVars, providerVars, callVars, history
<1>41. ASSUME NEW o \in Orders, SwitchGroup(o) PROVE CallOK(v)'
  BY <1>41 DEF IInv, TypeOK, OrderInv, OrderOK, CallInv, CallOK, CreationInv,
    CreationOK, Accepted, Granting, SwitchGroup, orderVars, rowVars, grantVars,
    providerVars, callVars, history
<1>36. CASE UNCHANGED vars
  BY <1>36 DEF IInv, TypeOK, OrderInv, OrderOK, CallInv, CallOK, Accepted,
    Granting, Fulfilling, vars, orderVars, rowVars, grantVars, providerVars,
    callVars, history
<1> QED
  BY <1>1, <1>2, <1>3, <1>4, <1>5, <1>6, <1>7, <1>8, <1>9, <1>10, <1>11,
    <1>12, <1>13, <1>14, <1>15, <1>16, <1>17, <1>18, <1>19, <1>20, <1>21,
    <1>22, <1>23, <1>24, <1>25, <1>26, <1>27, <1>28, <1>29, <1>30, <1>31,
    <1>32, <1>33, <1>34, <1>35, <1>36, <1>37, <1>38, <1>39,
    <1>40, <1>41
    DEF Next, Call, Faulty, Start, Environment

(* Every step keeps the creation of an order in the hands of one call. *)
LEMMA StepCreationInv ==
  ASSUME IInv, [Next]_vars, NEW v \in Workers PROVE CreationOK(v)'
<1> USE NoWorkerAssumption DEF worldVars, Creating, Fulfilling
<1>1. ASSUME NEW w \in Workers, ProviderAccepts(w) PROVE CreationOK(v)'
  BY <1>1 DEF IInv, TypeOK, OrderInv, OrderOK, CreationInv, CreationOK,
    Accepted, ProviderAccepts, Goto, orderVars, rowVars, grantVars, history
<1>2. ASSUME NEW w \in Workers, ProviderRejects(w) PROVE CreationOK(v)'
  BY <1>2 DEF IInv, TypeOK, OrderInv, OrderOK, CreationInv, CreationOK,
    Accepted, ProviderRejects, SetStatus, Touch, Finish, grantVars,
    providerVars
<1>3. ASSUME NEW w \in Workers, QueryPaid(w) PROVE CreationOK(v)'
  BY <1>3 DEF IInv, TypeOK, OrderInv, OrderOK, CreationInv, CreationOK,
    Accepted, QueryPaid, Goto, orderVars, rowVars, grantVars, providerVars,
    history
<1>4. ASSUME NEW w \in Workers, QueryUnpaid(w) PROVE CreationOK(v)'
  BY <1>4 DEF IInv, TypeOK, OrderInv, OrderOK, CreationInv, CreationOK,
    Accepted, QueryUnpaid, Goto, Finish, Cancels, orderVars, rowVars,
    grantVars, providerVars, history
<1>5. ASSUME NEW w \in Workers, CloseUpstream(w) PROVE CreationOK(v)'
  BY <1>5 DEF IInv, TypeOK, OrderInv, OrderOK, CreationInv, CreationOK,
    Accepted, CloseUpstream, Goto, orderVars, rowVars, grantVars, history
<1>6. ASSUME NEW w \in Workers, CloseLocally(w) PROVE CreationOK(v)'
  BY <1>6 DEF IInv, TypeOK, OrderInv, OrderOK, CreationInv, CreationOK,
    Accepted, CloseLocally, SetStatus, Touch, Finish, LocalStatus, grantVars,
    providerVars
<1>7. ASSUME NEW w \in Workers, PersistTradeNo(w) PROVE CreationOK(v)'
  BY <1>7 DEF IInv, TypeOK, OrderInv, OrderOK, CreationInv, CreationOK,
    Accepted, PersistTradeNo, Touch, Goto, grantVars, providerVars, history
<1>8. ASSUME NEW w \in Workers, RejectAmount(w) PROVE CreationOK(v)'
  BY <1>8 DEF IInv, TypeOK, OrderInv, OrderOK, CreationInv, CreationOK,
    Accepted, RejectAmount, ReturnError, Finish, providerVars, orderVars,
    rowVars, grantVars, history
<1>9. ASSUME NEW w \in Workers, ToPaid(w) PROVE CreationOK(v)'
  BY <1>9 DEF IInv, TypeOK, OrderInv, OrderOK, CreationInv, CreationOK,
    Accepted, ToPaid, SetStatus, Touch, Goto, Payable, grantVars, providerVars
<1>10. ASSUME NEW w \in Workers, AlreadyProcessed(w) PROVE CreationOK(v)'
  BY <1>10 DEF IInv, TypeOK, OrderInv, OrderOK, CreationInv, CreationOK,
    Accepted, AlreadyProcessed, Goto, Return, Finish, Payable, rowVars,
    grantVars, providerVars, history
<1>11. ASSUME NEW w \in Workers, AcquireLease(w) PROVE CreationOK(v)'
  BY <1>11 DEF IInv, TypeOK, OrderInv, OrderOK, CreationInv, CreationOK,
    Accepted, AcquireLease, SetStatus, Touch, Goto, Claimable, grantVars,
    providerVars
<1>12. ASSUME NEW w \in Workers, LeaseRefused(w) PROVE CreationOK(v)'
  BY <1>12 DEF IInv, TypeOK, OrderInv, OrderOK, CreationInv, CreationOK,
    Accepted, LeaseRefused, Return, Finish, ReturnError, providerVars,
    Claimable, orderVars, rowVars, grantVars, history
<1>13. ASSUME NEW w \in Workers, ReadLease(w) PROVE CreationOK(v)'
  BY <1>13 DEF IInv, TypeOK, OrderInv, OrderOK, CreationInv, CreationOK,
    Accepted, ReadLease, Goto, Finish, grantVars, providerVars, history
<1>14. ASSUME NEW w \in Workers, ResolveRedeemAction(w) PROVE CreationOK(v)'
  BY <1>14 DEF IInv, TypeOK, OrderInv, OrderOK, CreationInv, CreationOK,
    Accepted, ResolveRedeemAction, Goto, orderVars, rowVars, grantVars,
    providerVars, history
<1>15. ASSUME NEW w \in Workers, CreateCode(w) PROVE CreationOK(v)'
  BY <1>15 DEF IInv, TypeOK, OrderInv, OrderOK, CreationInv, CreationOK,
    Accepted, CreateCode, Goto, orderVars, rowVars, providerVars, history
<1>16. ASSUME NEW w \in Workers, RedeemCode(w) PROVE CreationOK(v)'
  BY <1>16 DEF IInv, TypeOK, OrderInv, OrderOK, CreationInv, CreationOK,
    Accepted, RedeemCode, Goto, orderVars, rowVars, providerVars, history
<1>17. ASSUME NEW w \in Workers, AssignSubscription(w) PROVE CreationOK(v)'
  BY <1>17 DEF IInv, TypeOK, OrderInv, OrderOK, CreationInv, CreationOK,
    Accepted, AssignSubscription, Goto, orderVars, rowVars, providerVars,
    history
<1>18. ASSUME NEW w \in Workers, ApplyAffiliateRebate(w) PROVE CreationOK(v)'
  BY <1>18 DEF IInv, TypeOK, OrderInv, OrderOK, CreationInv, CreationOK,
    Accepted, ApplyAffiliateRebate, Goto, orderVars, rowVars, providerVars,
    history
<1>19. ASSUME NEW w \in Workers, MarkCompleted(w) PROVE CreationOK(v)'
  BY <1>19 DEF IInv, TypeOK, OrderInv, OrderOK, CreationInv, CreationOK,
    Accepted, MarkCompleted, SetStatus, Touch, Return, Finish, OwnsLease,
    grantVars
<1>20. ASSUME NEW w \in Workers, LeaseLost(w) PROVE CreationOK(v)'
  BY <1>20 DEF IInv, TypeOK, OrderInv, OrderOK, CreationInv, CreationOK,
    Accepted, LeaseLost, Goto, Return, Finish, OwnsLease, orderVars, rowVars,
    grantVars, providerVars, history
<1>21. ASSUME NEW w \in Workers, MarkFailed(w) PROVE CreationOK(v)'
  BY <1>21 DEF IInv, TypeOK, OrderInv, OrderOK, CreationInv, CreationOK,
    Accepted, MarkFailed, SetStatus, Touch, ReturnError, Finish, providerVars,
    OwnsLease, grantVars
<1>22. ASSUME NEW w \in Workers, QueryFails(w) PROVE CreationOK(v)'
  BY <1>22 DEF IInv, TypeOK, OrderInv, OrderOK, CreationInv, CreationOK,
    Accepted, QueryFails, GiveUpQuery, Goto, Finish, Fault, Cancels, orderVars, rowVars,
    grantVars, providerVars, history
<1>23. ASSUME NEW w \in Workers, SwallowReadError(w) PROVE CreationOK(v)'
  BY <1>23 DEF IInv, TypeOK, OrderInv, OrderOK, CreationInv, CreationOK,
    Accepted, SwallowReadError, Return, Finish, Fault, orderVars, rowVars,
    grantVars, history
<1>24. ASSUME NEW w \in Workers, FulfilmentError(w) PROVE CreationOK(v)'
  BY <1>24 DEF IInv, TypeOK, OrderInv, OrderOK, CreationInv, CreationOK,
    Accepted, FulfilmentError, Goto, Fault, Fulfilling, orderVars, rowVars,
    grantVars, providerVars, history
<1>25. ASSUME NEW w \in Workers, Crash(w) PROVE CreationOK(v)'
  BY <1>25 DEF IInv, TypeOK, OrderInv, OrderOK, CreationInv, CreationOK,
    Accepted, Crash, ReturnError, Finish, providerVars, Fault, grantVars,
    history
<1>26. ASSUME NEW w \in Workers, NEW o \in Orders, CreateOrder(w, o) PROVE CreationOK(v)'
  <2>1. /\ status[o] = "absent" /\ status' = [status EXCEPT ![o] = "PENDING"]
        /\ pc' = [pc EXCEPT ![w] = "create"] /\ ord' = [ord EXCEPT ![w] = o]
        /\ pc[w] = "idle" /\ UNCHANGED upstream
    BY <1>26 DEF CreateOrder, SetStatus, Begin, providerVars
  <2>2. \A u \in Workers : pc[u] \in Creating => ord[u] # o
    BY <2>1 DEF IInv, CreationInv, CreationOK
  <2>3. CASE v = w
    BY <2>1, <2>2, <2>3 DEF IInv, TypeOK, OrderInv, OrderOK, CreationOK
  <2>4. CASE v # w
    BY <2>1, <2>2, <2>4 DEF IInv, TypeOK, CreationInv, CreationOK
  <2> QED BY <2>3, <2>4
<1>27. ASSUME NEW w \in Workers, NEW o \in Orders, Notify(w, o) PROVE CreationOK(v)'
  BY <1>27 DEF IInv, TypeOK, OrderInv, OrderOK, CreationInv, CreationOK,
    Accepted, Notify, Begin, orderVars, rowVars, grantVars, providerVars,
    history
<1>28. ASSUME NEW w \in Workers, NEW o \in Orders, Verify(w, o) PROVE CreationOK(v)'
  BY <1>28 DEF IInv, TypeOK, OrderInv, OrderOK, CreationInv, CreationOK,
    Accepted, Verify, Begin, orderVars, rowVars, grantVars, providerVars,
    history
<1>29. ASSUME NEW w \in Workers, NEW o \in Orders, Reconcile(w, o) PROVE CreationOK(v)'
  BY <1>29 DEF IInv, TypeOK, OrderInv, OrderOK, CreationInv, CreationOK,
    Accepted, Reconcile, Begin, orderVars, rowVars, grantVars, providerVars,
    history
<1>30. ASSUME NEW w \in Workers, NEW o \in Orders, Expire(w, o) PROVE CreationOK(v)'
  BY <1>30 DEF IInv, TypeOK, OrderInv, OrderOK, CreationInv, CreationOK,
    Accepted, Expire, Begin, orderVars, rowVars, grantVars, providerVars,
    history
<1>31. ASSUME NEW w \in Workers, NEW o \in Orders, Cancel(w, o) PROVE CreationOK(v)'
  BY <1>31 DEF IInv, TypeOK, OrderInv, OrderOK, CreationInv, CreationOK,
    Accepted, Cancel, Begin, orderVars, rowVars, grantVars, providerVars,
    history
<1>32. ASSUME NEW w \in Workers, NEW o \in Orders, Retry(w, o) PROVE CreationOK(v)'
  BY <1>32 DEF IInv, TypeOK, OrderInv, OrderOK, CreationInv, CreationOK,
    Accepted, Retry, Begin, orderVars, rowVars, grantVars, providerVars,
    history
<1>33. ASSUME NEW o \in Orders, Pay(o) PROVE CreationOK(v)'
  BY <1>33 DEF IInv, TypeOK, OrderInv, OrderOK, CreationInv, CreationOK,
    Accepted, Pay, orderVars, rowVars, grantVars, callVars, history
<1>34. ASSUME NEW o \in Orders, Age(o) PROVE CreationOK(v)'
  BY <1>34 DEF IInv, TypeOK, OrderInv, OrderOK, CreationInv, CreationOK,
    Accepted, Age, grantVars, providerVars, callVars
<1>35. ASSUME NEW o \in Orders, PassDeadline(o) PROVE CreationOK(v)'
  BY <1>35 DEF IInv, TypeOK, OrderInv, OrderOK, CreationInv, CreationOK,
    Accepted, PassDeadline, orderVars, rowVars, grantVars, providerVars,
    callVars, history
<1>37. ASSUME NEW w \in Workers, SavePayment(w) PROVE CreationOK(v)'
  BY <1>37 DEF IInv, TypeOK, OrderInv, OrderOK, CreationInv, CreationOK,
    Accepted, Granting, SavePayment, Touch, Finish, orderVars, rowVars,
    grantVars, providerVars, callVars, history
<1>38. ASSUME NEW w \in Workers, SaveFails(w) PROVE CreationOK(v)'
  BY <1>38 DEF IInv, TypeOK, OrderInv, OrderOK, CreationInv, CreationOK,
    Accepted, Granting, SaveFails, SetStatus, Touch, Finish, Fault, orderVars,
    rowVars, grantVars, providerVars, callVars, history
<1>39. ASSUME NEW w \in Workers, QueryUnknown(w) PROVE CreationOK(v)'
  BY <1>39 DEF IInv, TypeOK, OrderInv, OrderOK, CreationInv, CreationOK,
    Accepted, Granting, QueryUnknown, GiveUpQuery, Goto, Finish, Cancels,
    orderVars, rowVars, grantVars, providerVars, callVars, history
<1>40. ASSUME NEW w \in Workers, CheckGroup(w) PROVE CreationOK(v)'
  BY <1>40 DEF IInv, TypeOK, OrderInv, OrderOK, CreationInv, CreationOK,
    Accepted, Granting, CheckGroup, Goto, orderVars, rowVars, grantVars,
    providerVars, callVars, history
<1>41. ASSUME NEW o \in Orders, SwitchGroup(o) PROVE CreationOK(v)'
  BY <1>41 DEF IInv, TypeOK, OrderInv, OrderOK, CreationInv, CreationOK,
    Accepted, Granting, SwitchGroup, orderVars, rowVars, grantVars,
    providerVars, callVars, history
<1>36. CASE UNCHANGED vars
  BY <1>36 DEF IInv, TypeOK, OrderInv, OrderOK, CreationInv, CreationOK,
    Accepted, vars, orderVars, rowVars, grantVars, providerVars, callVars,
    history
<1> QED
  BY <1>1, <1>2, <1>3, <1>4, <1>5, <1>6, <1>7, <1>8, <1>9, <1>10, <1>11,
    <1>12, <1>13, <1>14, <1>15, <1>16, <1>17, <1>18, <1>19, <1>20, <1>21,
    <1>22, <1>23, <1>24, <1>25, <1>26, <1>27, <1>28, <1>29, <1>30, <1>31,
    <1>32, <1>33, <1>34, <1>35, <1>36, <1>37, <1>38, <1>39,
    <1>40, <1>41
    DEF Next, Call, Faulty, Start, Environment

-----------------------------------------------------------------------------
(* The initial states satisfy the invariant. *)
LEMMA InitIInv ==
  ASSUME Init PROVE IInv
<1> USE DEF Creating, Fulfilling
<1>1. TypeOK
  BY FaultAssumption, RedeliveryAssumption DEF Init, TypeOK, Statuses, Jobs, Steps
<1>2. OrderInv
  BY DEF Init, OrderInv, OrderOK
<1>3. CallInv
  BY DEF Init, CallInv, CallOK, Fulfilling
<1>4. CreationInv
  BY DEF Init, CreationInv, CreationOK
<1> QED BY <1>1, <1>2, <1>3, <1>4 DEF IInv

(* The invariant is inductive. *)
LEMMA StepIInv ==
  ASSUME IInv, [Next]_vars PROVE IInv'
<1>1. TypeOK'
  BY StepTypeOK DEF IInv
<1>2. OrderInv'
  BY StepOrderInv DEF OrderInv
<1>3. CallInv'
  BY StepCallInv DEF CallInv
<1>4. CreationInv'
  BY StepCreationInv DEF CreationInv
<1> QED BY <1>1, <1>2, <1>3, <1>4 DEF IInv

(* The inductive invariant holds of every behaviour of the payment service. *)
THEOREM Invariance == Spec => []IInv
<1>1. Init => IInv
  BY InitIInv
<1>2. IInv /\ [Next]_vars => IInv'
  BY StepIInv
<1> QED BY <1>1, <1>2, PTL DEF Spec

(* Every variable of the payment service keeps its type. *)
THEOREM TypeCorrect == Spec => []TypeOK
<1>1. IInv => TypeOK
  BY DEF IInv
<1> QED BY <1>1, Invariance, PTL

(* However many calls fulfil an order, and however they are interrupted, its
   value and its rebate are granted at most once (redeem, and the claim row
   of applyAffiliateRebateForOrder).                                        *)
THEOREM GrantOnce == Spec => []CreditedAtMostOnce
<1>1. IInv => CreditedAtMostOnce
  BY DEF IInv, OrderInv, OrderOK, CreditedAtMostOnce
<1> QED BY <1>1, Invariance, PTL

(* A completed order is credited and rebated: markCompleted is never reached
   by a call that skipped one of them.                                      *)
THEOREM CompletionSettles == Spec => []CompletedIsSettled
<1>1. IInv => CompletedIsSettled
  BY DEF IInv, OrderInv, OrderOK, CompletedIsSettled
<1> QED BY <1>1, Invariance, PTL

(* No order is credited that the provider was not paid in full for. *)
THEOREM CreditNeedsPayment == Spec => []CreditedOnlyIfPaid
<1>1. IInv => CreditedOnlyIfPaid
  BY DEF IInv, OrderInv, OrderOK, CreditedOnlyIfPaid
<1> QED BY <1>1, Invariance, PTL

(* No rebate is accrued for an order that is not credited. *)
THEOREM RebateNeedsCredit == Spec => []RebateFollowsCredit
<1>1. IInv => RebateFollowsCredit
  BY DEF IInv, OrderInv, OrderOK, RebateFollowsCredit
<1> QED BY <1>1, Invariance, PTL

(* A credited order is not cancelled, expired or reopened by a call that read
   it earlier.                                                              *)
THEOREM CreditIsKept == Spec => []CreditedStaysFulfilled
<1>1. IInv => CreditedStaysFulfilled
  BY DEF IInv, OrderInv, OrderOK, Granting, CreditedStaysFulfilled
<1> QED BY <1>1, Invariance, PTL

-----------------------------------------------------------------------------
(* Every step is a step of PaymentPromise or leaves what it speaks of alone. *)

(* One phase of an order changes, the others stay. *)
LEMMA PhaseStep ==
  ASSUME NEW o \in Orders, NEW p,
         Phase(o)' = p,
         \A x \in Orders : x # o => Phase(x)' = Phase(x)
  PROVE  [x \in Orders |-> Phase(x)]' = [[x \in Orders |-> Phase(x)] EXCEPT ![o] = p]
OBVIOUS

(* Steps that neither move the order, nor pay it, nor grant anything. *)
LEMMA PromiseFrame ==
  ASSUME UNCHANGED <<status, claimant, upstream, credits, rebates>>
  PROVE  UNCHANGED Promise!promised
BY DEF Promise!promised, Phase

LEMMA StepPromise ==
  ASSUME IInv, [Next]_vars PROVE [Promise!Next]_(Promise!promised)
<1> USE NoWorkerAssumption DEF IInv, worldVars, Creating, Fulfilling
<1>1. ASSUME NEW w \in Workers, ProviderAccepts(w) PROVE UNCHANGED Promise!promised
  <2>1. /\ upstream' = [upstream EXCEPT ![ord[w]] = "open"]
        /\ UNCHANGED <<status, claimant, credits, rebates>>
    BY <1>1 DEF ProviderAccepts, orderVars, rowVars, grantVars, history
  <2>2. ord[w] \in Orders /\ upstream[ord[w]] = "none"
    BY <1>1 DEF ProviderAccepts, CreationInv, CreationOK, TypeOK
  <2>3. \A o \in Orders : (upstream[o] = "paid")' = (upstream[o] = "paid")
    BY <2>1, <2>2 DEF TypeOK
  <2> QED BY <2>1, <2>3 DEF Promise!promised, Phase
<1>2. ASSUME NEW w \in Workers, ProviderRejects(w) PROVE [Promise!Next]_(Promise!promised)
  <2>0. PICK o \in Orders : o = ord[w]
    BY DEF TypeOK
  <2>1. /\ status' = [status EXCEPT ![o] = "FAILED"]
        /\ upstream' \in {upstream, [upstream EXCEPT ![o] = "open"]}
        /\ UNCHANGED <<claimant, credits, rebates>>
    BY <2>0, <1>2 DEF ProviderRejects, SetStatus, grantVars
  <2>2. /\ o \in Orders /\ status[o] \in {"PENDING", "EXPIRED", "CANCELLED"}
        /\ claimant[o] = NoWorker /\ upstream[o] = "none"
    BY <2>0, <1>2 DEF ProviderRejects, CreationInv, CreationOK, OrderInv, OrderOK, Granting, TypeOK
  <2>8. \A x \in Orders : (upstream[x] = "paid")' = (upstream[x] = "paid")
    BY <2>1, <2>2 DEF TypeOK
  <2>3. Phase(o)' = "closed" /\ \A x \in Orders : x # o => Phase(x)' = Phase(x)
    BY <2>0, <2>1, <2>2 DEF Phase, TypeOK
  <2>4. [x \in Orders |-> Phase(x)]' = [[x \in Orders |-> Phase(x)] EXCEPT ![o] = "closed"]
    BY <2>0, <2>2, <2>3, PhaseStep
  <2>5. Phase(o) \in {"open", "closed"}
    BY <2>0, <2>2 DEF Phase
  <2>6. CASE Phase(o) = "open"
    <3>1. Promise!Close(o)
      BY <2>0, <2>1, <2>2, <2>4, <2>6, <2>8 DEF Promise!Close
    <3> QED BY <2>0, <3>1, <2>2 DEF Promise!Next
  <2>7. CASE Phase(o) = "closed"
    BY <2>0, <2>1, <2>2, <2>4, <2>7, <2>8 DEF Promise!promised
  <2> QED BY <2>0, <2>5, <2>6, <2>7
<1>3. ASSUME NEW w \in Workers, QueryPaid(w) PROVE UNCHANGED Promise!promised
  <2>1. UNCHANGED <<status, claimant, upstream, credits, rebates>>
    BY <1>3 DEF QueryPaid, orderVars, rowVars, grantVars, providerVars, history
  <2> QED BY <2>1, PromiseFrame
<1>4. ASSUME NEW w \in Workers, QueryUnpaid(w) PROVE UNCHANGED Promise!promised
  <2>1. UNCHANGED <<status, claimant, upstream, credits, rebates>>
    BY <1>4 DEF QueryUnpaid, orderVars, rowVars, grantVars, providerVars, history
  <2> QED BY <2>1, PromiseFrame
<1>5. ASSUME NEW w \in Workers, CloseUpstream(w) PROVE UNCHANGED Promise!promised
  <2>1. /\ \/ upstream[ord[w]] = "open" /\ upstream' = [upstream EXCEPT ![ord[w]] = "closed"]
           \/ UNCHANGED upstream
        /\ UNCHANGED <<status, claimant, credits, rebates>>
    BY <1>5 DEF CloseUpstream, orderVars, rowVars, grantVars, history
  <2>2. \A o \in Orders : (upstream[o] = "paid")' = (upstream[o] = "paid")
    BY <2>1 DEF TypeOK
  <2> QED BY <2>1, <2>2 DEF Promise!promised, Phase
<1>6. ASSUME NEW w \in Workers, CloseLocally(w) PROVE [Promise!Next]_(Promise!promised)
  <2>0. PICK o \in Orders : o = ord[w]
    BY DEF TypeOK
  <2>1. UNCHANGED <<claimant, upstream, credits, rebates>>
    BY <2>0, <1>6 DEF CloseLocally, grantVars, providerVars
  <2>2. CASE status[o] = "PENDING"
    <3>1. status' = [status EXCEPT ![o] = LocalStatus(w)]
      BY <2>0, <1>6, <2>2 DEF CloseLocally, SetStatus
    <3>2. o \in Orders /\ LocalStatus(w) \in {"EXPIRED", "CANCELLED"}
      BY <2>0, <2>2 DEF LocalStatus, TypeOK
    <3>3. Phase(o)' = "closed" /\ \A x \in Orders : x # o => Phase(x)' = Phase(x)
      BY <2>0, <2>1, <3>1, <3>2 DEF Phase, TypeOK
    <3>4. [x \in Orders |-> Phase(x)]' = [[x \in Orders |-> Phase(x)] EXCEPT ![o] = "closed"]
      BY <2>0, <3>2, <3>3, PhaseStep
    <3>5. Phase(o) = "open"
      BY <2>0, <2>2, <3>2 DEF Phase
    <3>6. Promise!Close(o)
      BY <2>0, <2>1, <3>2, <3>4, <3>5 DEF Promise!Close
    <3> QED BY <2>0, <3>2, <3>6 DEF Promise!Next
  <2>3. CASE status[o] # "PENDING"
    <3>1. UNCHANGED status
      BY <2>0, <1>6, <2>3 DEF CloseLocally
    <3> QED BY <2>0, <2>1, <3>1, PromiseFrame
  <2> QED BY <2>0, <2>2, <2>3
<1>7. ASSUME NEW w \in Workers, PersistTradeNo(w) PROVE UNCHANGED Promise!promised
  <2>1. UNCHANGED <<status, claimant, upstream, credits, rebates>>
    BY <1>7 DEF PersistTradeNo, grantVars, providerVars, history
  <2> QED BY <2>1, PromiseFrame
<1>8. ASSUME NEW w \in Workers, RejectAmount(w) PROVE UNCHANGED Promise!promised
  <2>1. UNCHANGED <<status, claimant, upstream, credits, rebates>>
    BY <1>8 DEF RejectAmount, ReturnError, orderVars, rowVars, grantVars, providerVars, history
  <2> QED BY <2>1, PromiseFrame
<1>9. ASSUME NEW w \in Workers, ToPaid(w) PROVE [Promise!Next]_(Promise!promised)
  <2>0. PICK o \in Orders : o = ord[w]
    BY DEF TypeOK
  <2>1. /\ status' = [status EXCEPT ![o] = "PAID"]
        /\ upstream[o] = "paid"
        /\ status[o] \in {"PENDING", "EXPIRED", "CANCELLED"}
        /\ UNCHANGED <<claimant, upstream, credits, rebates>>
    BY <2>0, <1>9 DEF ToPaid, SetStatus, Payable, grantVars, providerVars
  <2>2. o \in Orders
    BY <2>0, <2>1 DEF TypeOK
  <2>3. Phase(o)' = "accepted" /\ \A x \in Orders : x # o => Phase(x)' = Phase(x)
    BY <2>0, <2>1, <2>2 DEF Phase, TypeOK
  <2>4. [x \in Orders |-> Phase(x)]' = [[x \in Orders |-> Phase(x)] EXCEPT ![o] = "accepted"]
    BY <2>0, <2>2, <2>3, PhaseStep
  <2>5. Phase(o) \in {"open", "closed"}
    BY <2>0, <2>1, <2>2 DEF Phase
  <2>6. Promise!Accept(o)
    BY <2>0, <2>1, <2>2, <2>4, <2>5 DEF Promise!Accept
  <2> QED BY <2>0, <2>2, <2>6 DEF Promise!Next
<1>10. ASSUME NEW w \in Workers, AlreadyProcessed(w) PROVE UNCHANGED Promise!promised
  <2>1. UNCHANGED <<status, claimant, credits, rebates>>
    BY <1>10 DEF AlreadyProcessed, rowVars, grantVars, history
  <2>2. UNCHANGED upstream
    BY <1>10 DEF AlreadyProcessed, Return, providerVars
  <2> QED BY <2>1, <2>2, PromiseFrame
<1>11. ASSUME NEW w \in Workers, AcquireLease(w) PROVE [Promise!Next]_(Promise!promised)
  <2>0. PICK o \in Orders : o = ord[w]
    BY DEF TypeOK
  <2>1. /\ status' = [status EXCEPT ![o] = "RECHARGING"]
        /\ status[o] \in {"PAID", "FAILED", "RECHARGING"}
        /\ claimant' = [claimant EXCEPT ![o] = w]
        /\ pc[w] = "fulfil"
        /\ UNCHANGED <<upstream, credits, rebates>>
    BY <2>0, <1>11 DEF AcquireLease, SetStatus, Claimable, grantVars, providerVars
  <2>2. o \in Orders /\ upstream[o] = "paid"
    BY <2>0, <2>1 DEF CallInv, CallOK, TypeOK
  <2>3. Phase(o)' = "accepted" /\ \A x \in Orders : x # o => Phase(x)' = Phase(x)
    BY <2>0, <2>1, <2>2 DEF Phase, TypeOK
  <2>4. [x \in Orders |-> Phase(x)]' = [[x \in Orders |-> Phase(x)] EXCEPT ![o] = "accepted"]
    BY <2>2, <2>3, PhaseStep
  <2>5. Phase(o) \in {"closed", "accepted"}
    BY <2>1 DEF Phase
  <2>6. CASE Phase(o) = "closed"
    <3>1. Promise!Accept(o)
      BY <2>1, <2>2, <2>4, <2>6 DEF Promise!Accept
    <3> QED BY <2>2, <3>1 DEF Promise!Next
  <2>7. CASE Phase(o) = "accepted"
    BY <2>1, <2>2, <2>4, <2>7 DEF Promise!promised
  <2> QED BY <2>5, <2>6, <2>7
<1>12. ASSUME NEW w \in Workers, LeaseRefused(w) PROVE UNCHANGED Promise!promised
  <2>1. UNCHANGED <<status, claimant, upstream, credits, rebates>>
    BY <1>12 DEF LeaseRefused, Return, ReturnError, orderVars, rowVars, grantVars, providerVars, history
  <2> QED BY <2>1, PromiseFrame
<1>13. ASSUME NEW w \in Workers, ReadLease(w) PROVE UNCHANGED Promise!promised
  <2>1. UNCHANGED <<status, claimant, upstream, credits, rebates>>
    BY <1>13 DEF ReadLease, grantVars, providerVars, history
  <2> QED BY <2>1, PromiseFrame
<1>14. ASSUME NEW w \in Workers, ResolveRedeemAction(w) PROVE UNCHANGED Promise!promised
  <2>1. UNCHANGED <<status, claimant, upstream, credits, rebates>>
    BY <1>14 DEF ResolveRedeemAction, orderVars, rowVars, grantVars, providerVars, history
  <2> QED BY <2>1, PromiseFrame
<1>15. ASSUME NEW w \in Workers, CreateCode(w) PROVE UNCHANGED Promise!promised
  <2>1. UNCHANGED <<status, claimant, upstream, credits, rebates>>
    BY <1>15 DEF CreateCode, orderVars, rowVars, providerVars, history
  <2> QED BY <2>1, PromiseFrame
<1>16. ASSUME NEW w \in Workers, RedeemCode(w) PROVE [Promise!Next]_(Promise!promised)
  <2>0. PICK o \in Orders : o = ord[w]
    BY DEF TypeOK
  <2>1. pc[w] \in Fulfilling /\ UNCHANGED <<status, claimant, upstream, rebates>>
    BY <2>0, <1>16 DEF RedeemCode, orderVars, rowVars, providerVars, history
  <2>2. o \in Orders /\ claimant[o] # NoWorker /\ status[o] \in Granting
    BY <2>0, <2>1 DEF CallInv, CallOK, OrderInv, OrderOK, TypeOK
  <2>3. CASE grant[o] = "issued"
    <3>1. /\ credits' = [credits EXCEPT ![o] = @ + 1]
          /\ credits[o] = 0
      BY <2>0, <1>16, <2>2, <2>3 DEF RedeemCode, OrderInv, OrderOK
    <3>2. status[o] # "COMPLETED"
      BY <2>0, <2>2, <2>3 DEF OrderInv, OrderOK
    <3>3. Phase(o) = "accepted"
      BY <2>0, <2>2, <3>2 DEF Phase, Granting
    <3>4. UNCHANGED [x \in Orders |-> Phase(x)]
      BY <2>0, <2>1 DEF Phase
    <3>5. Promise!Grant(o)
      BY <2>0, <2>1, <2>2, <3>1, <3>3, <3>4 DEF Promise!Grant, TypeOK
    <3> QED BY <2>0, <2>2, <3>5 DEF Promise!Next
  <2>4. CASE grant[o] # "issued"
    <3>1. UNCHANGED credits
      BY <2>0, <1>16, <2>4 DEF RedeemCode
    <3> QED BY <2>0, <2>1, <3>1, PromiseFrame
  <2> QED BY <2>0, <2>3, <2>4
<1>17. ASSUME NEW w \in Workers, AssignSubscription(w) PROVE [Promise!Next]_(Promise!promised)
  <2>0. PICK o \in Orders : o = ord[w]
    BY DEF TypeOK
  <2>1. pc[w] \in Fulfilling /\ UNCHANGED <<status, claimant, upstream, rebates>>
    BY <2>0, <1>17 DEF AssignSubscription, orderVars, rowVars, providerVars, history
  <2>2. o \in Orders /\ claimant[o] # NoWorker /\ status[o] \in Granting
    BY <2>0, <2>1 DEF CallInv, CallOK, OrderInv, OrderOK, TypeOK
  <2>3. CASE grant[o] # "applied"
    <3>1. /\ credits' = [credits EXCEPT ![o] = @ + 1]
          /\ credits[o] = 0
      BY <2>0, <1>17, <2>2, <2>3 DEF AssignSubscription, OrderInv, OrderOK
    <3>2. status[o] # "COMPLETED"
      BY <2>0, <2>2, <2>3 DEF OrderInv, OrderOK
    <3>3. Phase(o) = "accepted"
      BY <2>0, <2>2, <3>2 DEF Phase, Granting
    <3>4. UNCHANGED [x \in Orders |-> Phase(x)]
      BY <2>0, <2>1 DEF Phase
    <3>5. Promise!Grant(o)
      BY <2>0, <2>1, <2>2, <3>1, <3>3, <3>4 DEF Promise!Grant, TypeOK
    <3> QED BY <2>0, <2>2, <3>5 DEF Promise!Next
  <2>4. CASE grant[o] = "applied"
    <3>1. UNCHANGED credits
      BY <2>0, <1>17, <2>4 DEF AssignSubscription
    <3> QED BY <2>0, <2>1, <3>1, PromiseFrame
  <2> QED BY <2>0, <2>3, <2>4
<1>18. ASSUME NEW w \in Workers, ApplyAffiliateRebate(w) PROVE [Promise!Next]_(Promise!promised)
  <2>0. PICK o \in Orders : o = ord[w]
    BY DEF TypeOK
  <2>1. pc[w] = "rebate" /\ UNCHANGED <<status, claimant, upstream, credits>>
    BY <2>0, <1>18 DEF ApplyAffiliateRebate, orderVars, rowVars, providerVars, history
  <2>2. /\ o \in Orders /\ claimant[o] # NoWorker /\ status[o] \in Granting
        /\ grant[o] = "applied"
    BY <2>0, <2>1 DEF CallInv, CallOK, OrderInv, OrderOK, TypeOK
  <2>3. CASE ~rebateClaimed[o]
    <3>1. /\ rebates' = [rebates EXCEPT ![o] = @ + 1]
          /\ rebates[o] = 0 /\ credits[o] = 1
      BY <2>0, <1>18, <2>2, <2>3 DEF ApplyAffiliateRebate, OrderInv, OrderOK
    <3>2. status[o] # "COMPLETED"
      BY <2>0, <2>2, <2>3 DEF OrderInv, OrderOK
    <3>3. Phase(o) = "accepted"
      BY <2>0, <2>2, <3>2 DEF Phase, Granting
    <3>4. UNCHANGED [x \in Orders |-> Phase(x)]
      BY <2>0, <2>1 DEF Phase
    <3>5. Promise!Rebate(o)
      BY <2>0, <2>1, <2>2, <3>1, <3>3, <3>4 DEF Promise!Rebate, TypeOK
    <3> QED BY <2>0, <2>2, <3>5 DEF Promise!Next
  <2>4. CASE rebateClaimed[o]
    <3>1. UNCHANGED rebates
      BY <2>0, <1>18, <2>4 DEF ApplyAffiliateRebate
    <3> QED BY <2>0, <2>1, <3>1, PromiseFrame
  <2> QED BY <2>0, <2>3, <2>4
<1>19. ASSUME NEW w \in Workers, MarkCompleted(w) PROVE [Promise!Next]_(Promise!promised)
  <2>0. PICK o \in Orders : o = ord[w]
    BY DEF TypeOK
  <2>1. /\ pc[w] = "complete" /\ status[o] = "RECHARGING"
        /\ status' = [status EXCEPT ![o] = "COMPLETED"]
        /\ UNCHANGED <<claimant, upstream, credits, rebates>>
    BY <2>0, <1>19 DEF MarkCompleted, OwnsLease, SetStatus, Return, grantVars
  <2>2. o \in Orders /\ grant[o] = "applied" /\ rebateClaimed[o]
    BY <2>0, <2>1 DEF CallInv, CallOK, TypeOK
  <2>3. Phase(o)' = "completed" /\ \A x \in Orders : x # o => Phase(x)' = Phase(x)
    BY <2>0, <2>1, <2>2 DEF Phase, TypeOK
  <2>4. [x \in Orders |-> Phase(x)]' = [[x \in Orders |-> Phase(x)] EXCEPT ![o] = "completed"]
    BY <2>0, <2>2, <2>3, PhaseStep
  <2>5. Phase(o) = "accepted" /\ credits[o] = 1 /\ rebates[o] = 1
    BY <2>0, <2>1, <2>2 DEF Phase, OrderInv, OrderOK
  <2>6. Promise!Complete(o)
    BY <2>0, <2>1, <2>2, <2>4, <2>5 DEF Promise!Complete
  <2> QED BY <2>0, <2>2, <2>6 DEF Promise!Next
<1>20. ASSUME NEW w \in Workers, LeaseLost(w) PROVE UNCHANGED Promise!promised
  <2>1. UNCHANGED <<status, claimant, upstream, credits, rebates>>
    BY <1>20 DEF LeaseLost, Return, orderVars, rowVars, grantVars, providerVars, history
  <2> QED BY <2>1, PromiseFrame
<1>21. ASSUME NEW w \in Workers, MarkFailed(w) PROVE UNCHANGED Promise!promised
  <2>0. PICK o \in Orders : o = ord[w]
    BY DEF TypeOK
  <2>1. pc[w] = "fail" /\ UNCHANGED <<claimant, upstream, credits, rebates>>
    BY <2>0, <1>21 DEF MarkFailed, ReturnError, providerVars, grantVars
  <2>2. CASE OwnsLease(w)
    <3>1. status[o] = "RECHARGING" /\ status' = [status EXCEPT ![o] = "FAILED"]
      BY <2>0, <1>21, <2>2 DEF MarkFailed, OwnsLease, SetStatus
    <3>2. o \in Orders /\ claimant[o] # NoWorker
      BY <2>0, <2>1 DEF CallInv, CallOK, TypeOK
    <3>3. \A x \in Orders : Phase(x)' = Phase(x)
      BY <2>0, <2>1, <3>1, <3>2 DEF Phase, TypeOK
    <3> QED BY <2>0, <2>1, <3>3 DEF Promise!promised
  <2>3. CASE ~OwnsLease(w)
    <3>1. UNCHANGED status
      BY <2>0, <1>21, <2>3 DEF MarkFailed
    <3> QED BY <2>0, <2>1, <3>1, PromiseFrame
  <2> QED BY <2>0, <2>2, <2>3
<1>22. ASSUME NEW w \in Workers, QueryFails(w) PROVE UNCHANGED Promise!promised
  <2>1. UNCHANGED <<status, claimant, upstream, credits, rebates>>
    BY <1>22 DEF QueryFails, GiveUpQuery, orderVars, rowVars, grantVars, providerVars, history
  <2> QED BY <2>1, PromiseFrame
<1>23. ASSUME NEW w \in Workers, SwallowReadError(w) PROVE UNCHANGED Promise!promised
  <2>1. UNCHANGED <<status, claimant, upstream, credits, rebates>>
    BY <1>23 DEF SwallowReadError, Return, orderVars, rowVars, grantVars, history
  <2> QED BY <2>1, PromiseFrame
<1>24. ASSUME NEW w \in Workers, FulfilmentError(w) PROVE UNCHANGED Promise!promised
  <2>1. UNCHANGED <<status, claimant, upstream, credits, rebates>>
    BY <1>24 DEF FulfilmentError, orderVars, rowVars, grantVars, providerVars, history
  <2> QED BY <2>1, PromiseFrame
<1>25. ASSUME NEW w \in Workers, Crash(w) PROVE UNCHANGED Promise!promised
  <2>1. UNCHANGED <<status, claimant, upstream, credits, rebates>>
    BY <1>25 DEF Crash, ReturnError, grantVars, providerVars, history
  <2> QED BY <2>1, PromiseFrame
<1>26. ASSUME NEW w \in Workers, NEW o \in Orders, CreateOrder(w, o)
      PROVE UNCHANGED Promise!promised
  <2>1. /\ status[o] = "absent" /\ status' = [status EXCEPT ![o] = "PENDING"]
        /\ UNCHANGED <<claimant, upstream, credits, rebates>>
    BY <1>26 DEF CreateOrder, SetStatus, grantVars, providerVars
  <2>2. \A x \in Orders : Phase(x)' = Phase(x)
    BY <2>1 DEF Phase, TypeOK
  <2> QED BY <2>1, <2>2 DEF Promise!promised
<1>27. ASSUME NEW w \in Workers, NEW o \in Orders, Notify(w, o) PROVE UNCHANGED Promise!promised
  <2>1. UNCHANGED <<status, claimant, upstream, credits, rebates>>
    BY <1>27 DEF Notify, orderVars, rowVars, grantVars, providerVars, history
  <2> QED BY <2>1, PromiseFrame
<1>28. ASSUME NEW w \in Workers, NEW o \in Orders, Verify(w, o) PROVE UNCHANGED Promise!promised
  <2>1. UNCHANGED <<status, claimant, upstream, credits, rebates>>
    BY <1>28 DEF Verify, orderVars, rowVars, grantVars, providerVars, history
  <2> QED BY <2>1, PromiseFrame
<1>29. ASSUME NEW w \in Workers, NEW o \in Orders, Reconcile(w, o) PROVE UNCHANGED Promise!promised
  <2>1. UNCHANGED <<status, claimant, upstream, credits, rebates>>
    BY <1>29 DEF Reconcile, orderVars, rowVars, grantVars, providerVars, history
  <2> QED BY <2>1, PromiseFrame
<1>30. ASSUME NEW w \in Workers, NEW o \in Orders, Expire(w, o) PROVE UNCHANGED Promise!promised
  <2>1. UNCHANGED <<status, claimant, upstream, credits, rebates>>
    BY <1>30 DEF Expire, orderVars, rowVars, grantVars, providerVars, history
  <2> QED BY <2>1, PromiseFrame
<1>31. ASSUME NEW w \in Workers, NEW o \in Orders, Cancel(w, o) PROVE UNCHANGED Promise!promised
  <2>1. UNCHANGED <<status, claimant, upstream, credits, rebates>>
    BY <1>31 DEF Cancel, orderVars, rowVars, grantVars, providerVars, history
  <2> QED BY <2>1, PromiseFrame
<1>32. ASSUME NEW w \in Workers, NEW o \in Orders, Retry(w, o) PROVE UNCHANGED Promise!promised
  <2>1. UNCHANGED <<status, claimant, upstream, credits, rebates>>
    BY <1>32 DEF Retry, orderVars, rowVars, grantVars, providerVars, history
  <2> QED BY <2>1, PromiseFrame
<1>33. ASSUME NEW o \in Orders, Pay(o) PROVE [Promise!Next]_(Promise!promised)
  <2>1. /\ upstream[o] = "open"
        /\ \/ upstream' = [upstream EXCEPT ![o] = "paid"]
           \/ upstream' = [upstream EXCEPT ![o] = "mispaid"]
        /\ UNCHANGED <<status, paidAt, credits, rebates>>
    BY <1>33 DEF Pay, orderVars, rowVars, grantVars
  <2>2. UNCHANGED [x \in Orders |-> Phase(x)]
    BY <2>1 DEF Phase
  <2>3. CASE upstream' = [upstream EXCEPT ![o] = "paid"]
    <3>1. [x \in Orders |-> upstream[x] = "paid"]'
            = [[x \in Orders |-> upstream[x] = "paid"] EXCEPT ![o] = TRUE]
      BY <2>3 DEF TypeOK
    <3>2. Promise!Pay(o)
      BY <2>1, <2>2, <3>1 DEF Promise!Pay
    <3> QED BY <3>2 DEF Promise!Next
  <2>4. CASE upstream' = [upstream EXCEPT ![o] = "mispaid"]
    <3>1. \A x \in Orders : (upstream[x] = "paid")' = (upstream[x] = "paid")
      BY <2>1, <2>4 DEF TypeOK
    <3> QED BY <2>1, <2>2, <3>1 DEF Promise!promised
  <2> QED BY <2>1, <2>3, <2>4
<1>34. ASSUME NEW o \in Orders, Age(o) PROVE UNCHANGED Promise!promised
  <2>1. UNCHANGED <<status, claimant, upstream, credits, rebates>>
    BY <1>34 DEF Age, grantVars, providerVars, history
  <2> QED BY <2>1, PromiseFrame
<1>35. ASSUME NEW o \in Orders, PassDeadline(o) PROVE UNCHANGED Promise!promised
  <2>1. UNCHANGED <<status, claimant, upstream, credits, rebates>>
    BY <1>35 DEF PassDeadline, orderVars, rowVars, grantVars, providerVars, history
  <2> QED BY <2>1, PromiseFrame
<1>37. ASSUME NEW w \in Workers, SavePayment(w) PROVE UNCHANGED Promise!promised
  <2>1. UNCHANGED <<status, claimant, upstream, credits, rebates>>
    BY <1>37 DEF SavePayment, grantVars, providerVars, history
  <2> QED BY <2>1, PromiseFrame
<1>38. ASSUME NEW w \in Workers, SaveFails(w) PROVE [Promise!Next]_(Promise!promised)
  <2>0. PICK o \in Orders : o = ord[w]
    BY DEF TypeOK
  <2>1. /\ status' = [status EXCEPT ![o] = "FAILED"]
        /\ UNCHANGED <<claimant, upstream, credits, rebates>>
    BY <2>0, <1>38 DEF SaveFails, SetStatus, grantVars, providerVars
  <2>2. /\ o \in Orders /\ status[o] \in {"PENDING", "EXPIRED", "CANCELLED"}
        /\ claimant[o] = NoWorker
    BY <2>0, <1>38 DEF SaveFails, CreationInv, CreationOK, OrderInv, OrderOK, Granting, TypeOK
  <2>3. Phase(o)' = "closed" /\ \A x \in Orders : x # o => Phase(x)' = Phase(x)
    BY <2>1, <2>2 DEF Phase, TypeOK
  <2>4. [x \in Orders |-> Phase(x)]' = [[x \in Orders |-> Phase(x)] EXCEPT ![o] = "closed"]
    BY <2>2, <2>3, PhaseStep
  <2>5. Phase(o) \in {"open", "closed"}
    BY <2>2 DEF Phase
  <2>6. CASE Phase(o) = "open"
    <3>1. Promise!Close(o)
      BY <2>1, <2>4, <2>6 DEF Promise!Close
    <3> QED BY <2>2, <3>1 DEF Promise!Next
  <2>7. CASE Phase(o) = "closed"
    BY <2>1, <2>4, <2>7 DEF Promise!promised
  <2> QED BY <2>5, <2>6, <2>7
<1>39. ASSUME NEW w \in Workers, QueryUnknown(w) PROVE UNCHANGED Promise!promised
  <2>1. UNCHANGED <<status, claimant, upstream, credits, rebates>>
    BY <1>39 DEF QueryUnknown, GiveUpQuery, orderVars, rowVars, grantVars, providerVars, history
  <2> QED BY <2>1, PromiseFrame
<1>40. ASSUME NEW w \in Workers, CheckGroup(w) PROVE UNCHANGED Promise!promised
  <2>1. UNCHANGED <<status, claimant, upstream, credits, rebates>>
    BY <1>40 DEF CheckGroup, orderVars, rowVars, grantVars, providerVars, history
  <2> QED BY <2>1, PromiseFrame
<1>41. ASSUME NEW o \in Orders, SwitchGroup(o) PROVE UNCHANGED Promise!promised
  <2>1. UNCHANGED <<status, claimant, upstream, credits, rebates>>
    BY <1>41 DEF SwitchGroup, orderVars, rowVars, grantVars, providerVars, history
  <2> QED BY <2>1, PromiseFrame
<1>36. CASE UNCHANGED vars
  BY <1>36, PromiseFrame DEF vars, orderVars, rowVars, grantVars, providerVars, history
<1> QED
  BY <1>1, <1>2, <1>3, <1>4, <1>5, <1>6, <1>7, <1>8, <1>9, <1>10, <1>11,
    <1>12, <1>13, <1>14, <1>15, <1>16, <1>17, <1>18, <1>19, <1>20, <1>21,
    <1>22, <1>23, <1>24, <1>25, <1>26, <1>27, <1>28, <1>29, <1>30, <1>31,
    <1>32, <1>33, <1>34, <1>35, <1>36, <1>37, <1>38, <1>39,
    <1>40, <1>41
    DEF Next, Call, Faulty, Start, Environment

(* The payment service implements PaymentPromise: every behaviour of the
   interleaved calls, crashes and takeovers is one the promise allows.      *)
THEOREM Implementation == Spec => ImplementsPromise
<1>1. Init => Promise!Init
  <2>1. ASSUME Init, NEW o \in Orders PROVE Phase(o) = "open" /\ upstream[o] # "paid"
    BY <2>1 DEF Init, Phase
  <2> QED BY <2>1 DEF Init, Promise!Init
<1>2. IInv /\ [Next]_vars => [Promise!Next]_(Promise!promised)
  BY StepPromise
<1> QED BY <1>1, <1>2, Invariance, PTL DEF Spec, ImplementsPromise, Promise!Spec

(* A step that moves an order out of COMPLETED does not exist: CreateOrder,
   cancelCore, toPaid and the lease each test the status they replace, and a
   failing creation finds its own order still unaccepted.                   *)
LEMMA StepFinal ==
  ASSUME IInv, [Next]_vars, NEW o \in Orders, status[o] = "COMPLETED"
  PROVE  status'[o] = "COMPLETED"
<1> USE DEF IInv, Creating
<1>0. SUFFICES ASSUME status'[o] # "COMPLETED" PROVE FALSE
  OBVIOUS
<1>1. \/ \E w \in Workers : \/ ProviderRejects(w) \/ SaveFails(w) \/ CloseLocally(w) \/ ToPaid(w)
                             \/ AcquireLease(w) \/ MarkCompleted(w) \/ MarkFailed(w)
      \/ \E w \in Workers, x \in Orders : CreateOrder(w, x)
  BY <1>0 DEF Next, Call, Faulty, Start, Environment, vars, orderVars,
    rowVars, ProviderAccepts, SavePayment, QueryPaid, QueryUnpaid, QueryUnknown,
    GiveUpQuery, CheckGroup, SwitchGroup, CloseUpstream, PersistTradeNo, RejectAmount, AlreadyProcessed, LeaseRefused, ReadLease,
    ResolveRedeemAction, CreateCode, RedeemCode, AssignSubscription,
    ApplyAffiliateRebate, LeaseLost, QueryFails, GiveUpQuery, SwallowReadError,
    FulfilmentError, Crash, Notify, Verify, Reconcile, Expire, Cancel,
    Retry, Pay, Age, PassDeadline
<1>2. ASSUME NEW w \in Workers, ProviderRejects(w) \/ SaveFails(w) PROVE FALSE
  BY <1>0, <1>2 DEF ProviderRejects, SaveFails, SetStatus, CreationInv, CreationOK, TypeOK
<1>3. ASSUME NEW w \in Workers, CloseLocally(w) PROVE FALSE
  BY <1>0, <1>3 DEF CloseLocally, SetStatus, TypeOK
<1>4. ASSUME NEW w \in Workers, ToPaid(w) PROVE FALSE
  BY <1>0, <1>4 DEF ToPaid, SetStatus, Payable, TypeOK
<1>5. ASSUME NEW w \in Workers, AcquireLease(w) PROVE FALSE
  BY <1>0, <1>5 DEF AcquireLease, SetStatus, Claimable, TypeOK
<1>6. ASSUME NEW w \in Workers, MarkCompleted(w) PROVE FALSE
  BY <1>0, <1>6 DEF MarkCompleted, SetStatus, TypeOK
<1>7. ASSUME NEW w \in Workers, MarkFailed(w) PROVE FALSE
  BY <1>0, <1>7 DEF MarkFailed, SetStatus, OwnsLease, TypeOK
<1>8. ASSUME NEW w \in Workers, NEW x \in Orders, CreateOrder(w, x) PROVE FALSE
  BY <1>0, <1>8 DEF CreateOrder, SetStatus, TypeOK
<1> QED BY <1>1, <1>2, <1>3, <1>4, <1>5, <1>6, <1>7, <1>8

(* COMPLETED is final: no sweep, cancel call, late notification or stale
   worker takes the order out of it.                                        *)
THEOREM CompletionIsFinal == Spec => CompletedIsFinal
<1>1. IInv /\ [Next]_vars =>
        [\A o \in Orders : status[o] = "COMPLETED" => status'[o] = "COMPLETED"]_vars
  BY StepFinal
<1> QED BY <1>1, Invariance, PTL DEF Spec, CompletedIsFinal

-----------------------------------------------------------------------------
(* Of a call between winning the lease and reading its version: as long as no
   call is paused there for five minutes, nobody else has won it since, and no
   version of it was read.                                                   *)
LeasedOK(w) ==
  pc[w] = "leased" =>
    /\ status[ord[w]] = "RECHARGING" /\ ~stale[ord[w]]
    /\ claimant[ord[w]] = w /\ held[ord[w]] = {}

LeasedInv == \A w \in Workers : LeasedOK(w)

(* The version that the row has is the one that its last owner has read. *)
HeldInv == \A o \in Orders : \A w \in held[o] : claimant[o] = w

LeaseInv == IInv /\ LeasedInv /\ HeldInv

(* A step after which no call is newly between the lease and its version. *)
Unleased ==
  \A w \in Workers : pc'[w] = "leased" => pc[w] = "leased" /\ ord'[w] = ord[w]

(* Most steps touch neither the lease nor its version. *)
LEMMA LeaseFrame ==
  ASSUME LeaseInv, Unleased, UNCHANGED <<status, stale, held, claimant>>
  PROVE  LeasedInv' /\ HeldInv'
BY DEF LeaseInv, LeasedInv, LeasedOK, HeldInv, Unleased

(* Nor do the updates of the row that leave a lease alone: they renew
   updated_at, and with that drop every version that was read.               *)
LEMMA LeaseTouched ==
  ASSUME LeaseInv, Unleased, NEW o \in Orders, Touch(o), UNCHANGED claimant,
         \A x \in Orders : status'[x] = status[x] \/ x = o,
         status'[o] = status[o] \/ \A w \in Workers : pc'[w] = "leased" => ord[w] # o
  PROVE  LeasedInv' /\ HeldInv'
BY DEF LeaseInv, IInv, TypeOK, LeasedInv, LeasedOK, HeldInv, Unleased, Touch

(* Every step keeps the lease's owner and its version together. *)
LEMMA StepLease ==
  ASSUME "leased" \in PromptSteps, LeaseInv, [Next]_vars
  PROVE  LeasedInv' /\ HeldInv'
<1> USE NoWorkerAssumption DEF LeaseInv, IInv, Creating, Fulfilling, worldVars
<1>1. ASSUME NEW w \in Workers,
             \/ ProviderAccepts(w) \/ QueryPaid(w) \/ QueryUnpaid(w) \/ QueryUnknown(w)
             \/ CloseUpstream(w) \/ RejectAmount(w) \/ CheckGroup(w)
             \/ AlreadyProcessed(w) \/ LeaseRefused(w) \/ ResolveRedeemAction(w)
             \/ CreateCode(w) \/ RedeemCode(w) \/ AssignSubscription(w)
             \/ ApplyAffiliateRebate(w) \/ LeaseLost(w) \/ QueryFails(w)
             \/ SwallowReadError(w) \/ FulfilmentError(w)
      PROVE  LeasedInv' /\ HeldInv'
  <2>1. /\ UNCHANGED <<status, stale, held, claimant, ord>>
        /\ \E s \in Steps \ {"leased"} : pc' = [pc EXCEPT ![w] = s]
    BY <1>1 DEF ProviderAccepts, QueryPaid, QueryUnpaid, QueryUnknown, GiveUpQuery,
      CheckGroup, CloseUpstream, RejectAmount, AlreadyProcessed,
      LeaseRefused, ResolveRedeemAction, CreateCode, RedeemCode, AssignSubscription,
      ApplyAffiliateRebate, LeaseLost, QueryFails, GiveUpQuery, SwallowReadError, FulfilmentError,
      Goto, Finish, Return, ReturnError, orderVars, rowVars, history, Steps
  <2>2. Unleased
    BY <2>1 DEF Unleased, TypeOK
  <2> QED BY <2>1, <2>2, LeaseFrame
<1>2. ASSUME NEW w \in Workers, NEW o \in Orders,
             \/ Notify(w, o) \/ Verify(w, o) \/ Reconcile(w, o) \/ Expire(w, o)
             \/ Cancel(w, o) \/ Retry(w, o)
      PROVE  LeasedInv' /\ HeldInv'
  <2>1. /\ UNCHANGED <<status, stale, held, claimant>>
        /\ ord' = [ord EXCEPT ![w] = o]
        /\ \E s \in Steps \ {"leased"} : pc' = [pc EXCEPT ![w] = s]
    BY <1>2 DEF Notify, Verify, Reconcile, Expire, Cancel, Retry, Begin, orderVars,
      rowVars, history, Steps
  <2>2. Unleased
    BY <2>1 DEF Unleased, TypeOK
  <2> QED BY <2>1, <2>2, LeaseFrame
<1>3. ASSUME NEW w \in Workers, NEW o \in Orders, CreateOrder(w, o)
      PROVE  LeasedInv' /\ HeldInv'
  <2>1. Unleased
    BY <1>3 DEF Unleased, CreateOrder, Begin, TypeOK
  <2>2. /\ Touch(o) /\ UNCHANGED claimant /\ status[o] = "absent"
        /\ \A x \in Orders : status'[x] = status[x] \/ x = o
    BY <1>3 DEF CreateOrder, SetStatus, TypeOK
  <2>3. \A v \in Workers : pc'[v] = "leased" => ord[v] # o
    BY <2>1, <2>2 DEF Unleased, LeasedInv, LeasedOK
  <2> QED BY <2>1, <2>2, <2>3, LeaseTouched
<1>4. ASSUME NEW w \in Workers, SavePayment(w) \/ PersistTradeNo(w)
      PROVE  LeasedInv' /\ HeldInv'
  <2>1. /\ Unleased /\ Touch(ord[w]) /\ UNCHANGED <<status, claimant>> /\ ord[w] \in Orders
    BY <1>4 DEF Unleased, SavePayment, PersistTradeNo, Finish, Goto, history, TypeOK
  <2> QED BY <2>1, LeaseTouched
<1>5. ASSUME NEW w \in Workers,
             \/ ProviderRejects(w) \/ SaveFails(w) \/ ToPaid(w)
             \/ CloseLocally(w) /\ status[ord[w]] = "PENDING"
      PROVE  LeasedInv' /\ HeldInv'
  <2>1. /\ Unleased /\ Touch(ord[w]) /\ UNCHANGED claimant /\ ord[w] \in Orders
        /\ \A x \in Orders : status'[x] = status[x] \/ x = ord[w]
    BY <1>5 DEF Unleased, ProviderRejects, SaveFails, ToPaid, CloseLocally, SetStatus, Finish, Goto, TypeOK
  <2>2. status[ord[w]] # "RECHARGING"
    BY <1>5 DEF ProviderRejects, SaveFails, ToPaid, Payable, CloseLocally, CreationInv,
      CreationOK, TypeOK
  <2>3. \A v \in Workers : pc'[v] = "leased" => ord[v] # ord[w]
    BY <2>1, <2>2 DEF Unleased, LeasedInv, LeasedOK
  <2> QED BY <2>1, <2>3, LeaseTouched
<1>6. ASSUME NEW w \in Workers, CloseLocally(w) /\ status[ord[w]] # "PENDING"
      PROVE  LeasedInv' /\ HeldInv'
  <2>1. Unleased /\ UNCHANGED <<status, stale, held, claimant>>
    BY <1>6 DEF Unleased, CloseLocally, Finish, TypeOK
  <2> QED BY <2>1, LeaseFrame
<1>7. ASSUME NEW w \in Workers, AcquireLease(w)
      PROVE  LeasedInv' /\ HeldInv'
  <2> DEFINE o == ord[w]
  <2>1. /\ o \in Orders /\ pc[w] = "fulfil" /\ Claimable(o) /\ UNCHANGED ord
        /\ pc' = [pc EXCEPT ![w] = "leased"] /\ claimant' = [claimant EXCEPT ![o] = w]
        /\ status' = [status EXCEPT ![o] = "RECHARGING"]
        /\ stale' = [stale EXCEPT ![o] = FALSE] /\ held' = [held EXCEPT ![o] = {}]
    BY <1>7 DEF AcquireLease, SetStatus, Touch, Goto, TypeOK
  <2>2. \A v \in Workers : pc[v] = "leased" => ord[v] # o
    BY <2>1 DEF Claimable, LeasedInv, LeasedOK
  <2>3. HeldInv'
    BY <2>1 DEF HeldInv, TypeOK
  <2>4. ASSUME NEW v \in Workers PROVE LeasedOK(v)'
    BY <2>1, <2>2 DEF LeasedInv, LeasedOK, TypeOK
  <2> QED BY <2>3, <2>4 DEF LeasedInv
<1>8. ASSUME NEW w \in Workers, ReadLease(w)
      PROVE  LeasedInv' /\ HeldInv'
  <2> DEFINE o == ord[w]
  <2>1. /\ o \in Orders /\ pc[w] = "leased" /\ UNCHANGED <<ord, status, stale, claimant>>
        /\ pc' = [pc EXCEPT ![w] = "apply"] /\ held' = [held EXCEPT ![o] = @ \cup {w}]
    BY <1>8 DEF ReadLease, Goto, history, LeasedInv, LeasedOK, TypeOK
  <2>2. claimant[o] = w
    BY <2>1 DEF LeasedInv, LeasedOK
  <2>3. HeldInv'
    BY <2>1, <2>2 DEF HeldInv, TypeOK
  <2>4. \A v \in Workers : v # w /\ pc[v] = "leased" => ord[v] # o
    BY <2>2 DEF LeasedInv, LeasedOK
  <2>5. ASSUME NEW v \in Workers PROVE LeasedOK(v)'
    BY <2>1, <2>4 DEF LeasedInv, LeasedOK, TypeOK
  <2> QED BY <2>3, <2>5 DEF LeasedInv
<1>9. ASSUME NEW w \in Workers, MarkCompleted(w) \/ (MarkFailed(w) /\ OwnsLease(w))
      PROVE  LeasedInv' /\ HeldInv'
  <2>1. /\ Unleased /\ Touch(ord[w]) /\ UNCHANGED claimant /\ ord[w] \in Orders
        /\ \A x \in Orders : status'[x] = status[x] \/ x = ord[w]
        /\ w \in held[ord[w]]
    BY <1>9 DEF Unleased, MarkCompleted, MarkFailed, OwnsLease, SetStatus, Return,
      ReturnError, Finish, TypeOK
  <2>2. \A v \in Workers : pc'[v] = "leased" => ord[v] # ord[w]
    BY <2>1 DEF Unleased, LeasedInv, LeasedOK
  <2> QED BY <2>1, <2>2, LeaseTouched
<1>10. ASSUME NEW w \in Workers, MarkFailed(w) /\ ~OwnsLease(w)
       PROVE  LeasedInv' /\ HeldInv'
  <2>1. Unleased /\ UNCHANGED <<status, stale, held, claimant>>
    BY <1>10 DEF Unleased, MarkFailed, ReturnError, Finish, TypeOK
  <2> QED BY <2>1, LeaseFrame
<1>11. ASSUME NEW w \in Workers, Crash(w)
       PROVE  LeasedInv' /\ HeldInv'
  <2>1. /\ UNCHANGED <<status, stale, claimant, ord>> /\ pc' = [pc EXCEPT ![w] = "idle"]
        /\ \A x \in Orders : held'[x] \subseteq held[x]
    BY <1>11 DEF Crash, ReturnError, Finish, history, TypeOK
  <2> QED BY <2>1 DEF LeasedInv, LeasedOK, HeldInv, TypeOK
<1>12. ASSUME NEW o \in Orders, Age(o)
       PROVE  LeasedInv' /\ HeldInv'
  <2>1. /\ \A w \in Workers : ord[w] = o => pc[w] # "leased"
        /\ stale' = [stale EXCEPT ![o] = TRUE]
        /\ UNCHANGED <<status, held, claimant, pc, ord>>
    BY <1>12 DEF Age, callVars
  <2> QED BY <2>1 DEF LeasedInv, LeasedOK, HeldInv, TypeOK
<1>13. ASSUME (\E o \in Orders : Pay(o) \/ PassDeadline(o) \/ SwitchGroup(o)) \/ UNCHANGED vars
       PROVE  LeasedInv' /\ HeldInv'
  <2>1. Unleased /\ UNCHANGED <<status, stale, held, claimant>>
    BY <1>13 DEF Unleased, Pay, PassDeadline, SwitchGroup, vars, orderVars, rowVars, callVars, history
  <2> QED BY <2>1, LeaseFrame
<1> QED
  BY <1>1, <1>2, <1>3, <1>4, <1>5, <1>6, <1>7, <1>8, <1>9, <1>10, <1>11, <1>12, <1>13
    DEF Next, Call, Faulty, Start, Environment

(* The lease, along every behaviour in which its version is read in time. *)
LEMMA LeaseInvariance == ASSUME "leased" \in PromptSteps PROVE Spec => []LeaseInv
<1>1. Init => LeaseInv
  <2>1. Init => LeasedInv /\ HeldInv
    BY DEF Init, LeasedInv, LeasedOK, HeldInv
  <2> QED BY <2>1, InitIInv DEF LeaseInv
<1>2. LeaseInv /\ [Next]_vars => LeaseInv'
  BY StepLease, StepIInv DEF LeaseInv
<1> QED BY <1>1, <1>2, PTL DEF Spec

(* A step in which w leaves its last statement and the order changes its
   status is w's own, under the version guard of markCompleted or markFailed. *)
LEMMA StepOwner ==
  ASSUME LeaseInv, [Next]_vars, NEW w \in Workers,
         pc[w] \in {"complete", "fail"}, pc'[w] # pc[w], status'[ord[w]] # status[ord[w]]
  PROVE  claimant[ord[w]] = w
<1> USE DEF LeaseInv, IInv, Creating, Fulfilling, worldVars
<1>1. \/ \E v \in Workers : \/ ProviderRejects(v) \/ SaveFails(v) \/ CloseLocally(v) \/ ToPaid(v)
                             \/ AcquireLease(v) \/ MarkCompleted(v) \/ MarkFailed(v)
      \/ \E v \in Workers, x \in Orders : CreateOrder(v, x)
  BY DEF Next, Call, Faulty, Start, Environment, vars, orderVars,
    rowVars, ProviderAccepts, SavePayment, QueryPaid, QueryUnpaid, QueryUnknown,
    GiveUpQuery, CheckGroup, SwitchGroup, CloseUpstream, PersistTradeNo, RejectAmount, AlreadyProcessed, LeaseRefused, ReadLease,
    ResolveRedeemAction, CreateCode, RedeemCode, AssignSubscription,
    ApplyAffiliateRebate, LeaseLost, QueryFails, GiveUpQuery, SwallowReadError,
    FulfilmentError, Crash, Notify, Verify, Reconcile, Expire, Cancel,
    Retry, Pay, Age, PassDeadline
<1>2. ASSUME NEW v \in Workers,
             \/ ProviderRejects(v) \/ SaveFails(v) \/ CloseLocally(v) \/ ToPaid(v)
             \/ AcquireLease(v) \/ MarkCompleted(v) \/ MarkFailed(v)
      PROVE  MarkCompleted(w) \/ MarkFailed(w)
  <2>1. \E s \in Steps : pc' = [pc EXCEPT ![v] = s]
    BY <1>2 DEF ProviderRejects, SaveFails, CloseLocally, ToPaid, AcquireLease, MarkCompleted,
      MarkFailed, Finish, Goto, Return, ReturnError, Steps
  <2>2. v = w
    BY <2>1 DEF TypeOK
  <2> QED
    BY <1>2, <2>2 DEF ProviderRejects, SaveFails, CloseLocally, ToPaid, AcquireLease
<1>3. ASSUME NEW v \in Workers, NEW x \in Orders, CreateOrder(v, x) PROVE FALSE
  BY <1>3 DEF CreateOrder, Begin, TypeOK
<1>4. OwnsLease(w)
  BY <1>1, <1>2, <1>3 DEF MarkCompleted, MarkFailed
<1> QED
  BY <1>4 DEF OwnsLease, HeldInv, TypeOK

(* As long as no call is paused for five minutes between winning the lease and
   reading its version back, only the worker that last won the lease ends the
   fulfilment: the version guard of markCompleted and markFailed stops every
   other one (payment_fulfillment.go).                                        *)
THEOREM OwnerEndsFulfilment ==
  ASSUME "leased" \in PromptSteps PROVE Spec => OnlyOwnerEndsFulfilment
<1>1. LeaseInv /\ [Next]_vars =>
        [\A w \in Workers :
           LET o == ord[w] IN
           pc[w] \in {"complete", "fail"} /\ pc'[w] # pc[w] /\ status'[o] # status[o]
             => claimant[o] = w]_vars
  BY StepOwner
<1> QED BY <1>1, LeaseInvariance, PTL DEF Spec, OnlyOwnerEndsFulfilment
=============================================================================
