---------------------------- MODULE LimitProofs ----------------------------
(***************************************************************************)
(* Proofs about the two limits that many requests share: how far the       *)
(* unlocked checks of PaymentAdmission can be overshot, and that the       *)
(* scripts of ConcurrencySlots are not overshot at all, for any limits and *)
(* any number of requests.                                                 *)
(***************************************************************************)
EXTENDS PaymentAdmission, ConcurrencySlots, FiniteSetTheorems, TLAPS

(***************************************************************************)
(* PaymentAdmission                                                        *)
(***************************************************************************)

\* Requests that passed checkPendingLimit, and those of them that passed
\* checkDailyLimit, and have not inserted their order.
Checked == {r \in Requests : stage[r] \in {"daily", "insert"}}
Admitted == {r \in Requests : stage[r] = "insert"}

N == Cardinality(Requests)

AdmissionInv ==
  /\ TypeOK
  /\ pending + Cardinality(Checked) <= MaxPending + N - 1
  /\ spent + pending + strays + Cardinality(Admitted)
       <= DailyLimit + MaxPending + N - 2 + lapsed
  /\ strays <= lapsed

-----------------------------------------------------------------------------
(* Every subset of the requests can be counted. *)
LEMMA SubsetCount ==
  ASSUME NEW S \in SUBSET Requests
  PROVE  IsFiniteSet(S) /\ Cardinality(S) \in 0..N /\ N \in Nat
BY RequestsAssumption, FS_Subset, FS_CardinalityType DEF N

LEMMA RequestCount == N \in Nat \ {0}
BY RequestsAssumption, FS_CardinalityType, FS_EmptySet DEF N

LEMMA AdmissionInit == Init => AdmissionInv
<1> SUFFICES ASSUME Init PROVE AdmissionInv
  OBVIOUS
<1>1. Checked = {} /\ Admitted = {}
  BY DEF Init, Checked, Admitted
<1>2. TypeOK
  BY LimitAssumption DEF Init, TypeOK
<1> QED
  BY <1>1, <1>2, FS_EmptySet, RequestCount, LimitAssumption DEF Init, AdmissionInv

LEMMA AdmissionNext == AdmissionInv /\ [Next]_vars => AdmissionInv'
<1> SUFFICES ASSUME AdmissionInv, [Next]_vars PROVE AdmissionInv'
  OBVIOUS
<1>0. /\ TypeOK
      /\ Cardinality(Checked) \in 0..N /\ Cardinality(Admitted) \in 0..N
      /\ IsFiniteSet(Checked) /\ IsFiniteSet(Admitted)
      /\ N \in Nat \ {0}
  BY SubsetCount, RequestCount DEF AdmissionInv, Checked, Admitted
<1>a. /\ MaxPending \in Nat \ {0} /\ DailyLimit \in Nat \ {0}
      /\ MaxOrders \in Nat /\ MaxLapses \in Nat
  BY LimitAssumption
<1>b. /\ pending \in Nat /\ spent \in Nat /\ strays \in Nat /\ lapsed \in Nat
      /\ pending + Cardinality(Checked) <= MaxPending + N - 1
      /\ spent + pending + strays + Cardinality(Admitted)
           <= DailyLimit + MaxPending + N - 2 + lapsed
      /\ strays <= lapsed
  BY <1>0, <1>a DEF AdmissionInv, TypeOK
<1> USE <1>0, <1>a
<1>1. ASSUME NEW r \in Requests, stage[r] # "insert", stage'[r] # "insert",
             stage' = [stage EXCEPT ![r] = stage'[r]],
             stage'[r] \in {"idle", "pending", "daily"},
             stage'[r] = "daily" => pending < MaxPending,
             UNCHANGED <<orderVars, instance, deleter>>
      PROVE  AdmissionInv'
  <2>1. Admitted' = Admitted
    BY <1>1 DEF Admitted, TypeOK
  <2>2. CASE stage'[r] = "daily"
    <3>1. Cardinality(Checked)' \in 0..N
      BY SubsetCount DEF Checked
    <3> QED
      BY <1>1, <2>1, <2>2, <3>1 DEF AdmissionInv, TypeOK, orderVars
  <2>3. CASE stage'[r] # "daily"
    <3>1. Checked' = Checked \ {r}
      BY <1>1, <2>3 DEF Checked, TypeOK
    <3>2. Cardinality(Checked') \in Int /\ Cardinality(Checked') <= Cardinality(Checked)
      <4>1. Cardinality(Checked \ {r}) \in {Cardinality(Checked), Cardinality(Checked) - 1}
        BY FS_RemoveElement
      <4> QED
        BY <3>1, <4>1
    <3>3. TypeOK' /\ UNCHANGED <<pending, spent, strays, lapsed>>
      BY <1>1 DEF TypeOK, orderVars
    <3>4. pending' + Cardinality(Checked') <= MaxPending + N - 1
      BY <1>b, <3>2, <3>3
    <3> QED
      BY <1>b, <2>1, <3>3, <3>4 DEF AdmissionInv
  <2> QED
    BY <2>2, <2>3
<1>2. ASSUME NEW r \in Requests, SelectInstance(r) PROVE AdmissionInv'
  BY <1>1, <1>2 DEF SelectInstance, Goto, TypeOK
<1>3. ASSUME NEW r \in Requests, CheckPending(r) PROVE AdmissionInv'
  <2>1. CASE pending >= MaxPending
    BY <1>1, <1>3, <2>1 DEF CheckPending, Goto, TypeOK
  <2>2. CASE ~(pending >= MaxPending)
    <3>1. /\ stage[r] = "pending" /\ stage' = [stage EXCEPT ![r] = "daily"]
          /\ UNCHANGED <<orderVars, instance, deleter>>
      BY <1>3, <2>2 DEF CheckPending, Goto
    <3>2. stage'[r] = "daily" /\ pending < MaxPending
      BY <2>2, <3>1 DEF TypeOK
    <3> QED
      BY <1>1, <3>1, <3>2
  <2> QED
    BY <2>1, <2>2
<1>4. ASSUME NEW r \in Requests, CheckDaily(r) PROVE AdmissionInv'
  <2>1. CASE spent + 1 > DailyLimit
    BY <1>1, <1>4, <2>1 DEF CheckDaily, Goto, TypeOK
  <2>2. CASE ~(spent + 1 > DailyLimit)
    <3>1. Checked' = Checked
      BY <1>4, <2>2 DEF CheckDaily, Goto, Checked, TypeOK
    <3>2. Admitted' \in SUBSET Checked
      BY <3>1 DEF Admitted, Checked
    <3>3. Cardinality(Admitted') \in Nat /\ Cardinality(Admitted') <= Cardinality(Checked)
      BY <3>2, FS_Subset, FS_CardinalityType
    <3> QED
      BY <1>4, <2>2, <3>1, <3>3 DEF CheckDaily, Goto, AdmissionInv, TypeOK, orderVars
  <2> QED
    BY <2>1, <2>2
<1>5. ASSUME NEW r \in Requests, stage[r] = "insert", stage' = [stage EXCEPT ![r] = "idle"]
      PROVE  /\ Cardinality(Checked') = Cardinality(Checked) - 1
             /\ Cardinality(Admitted') = Cardinality(Admitted) - 1
  <2>1. Checked' = Checked \ {r} /\ r \in Checked
    BY <1>5 DEF Checked, TypeOK
  <2>2. Admitted' = Admitted \ {r} /\ r \in Admitted
    BY <1>5 DEF Admitted, TypeOK
  <2> QED
    BY <2>1, <2>2, FS_RemoveElement
<1>6. ASSUME NEW r \in Requests, Insert(r) PROVE AdmissionInv'
  <2>1. /\ Cardinality(Checked') = Cardinality(Checked) - 1
        /\ Cardinality(Admitted') = Cardinality(Admitted) - 1
    BY <1>5, <1>6 DEF Insert, Goto
  <2>2. /\ TypeOK' /\ pending' = pending + 1
        /\ UNCHANGED <<spent, strays, lapsed>>
    BY <1>6 DEF Insert, Goto, TypeOK
  <2>3. /\ pending' + Cardinality(Checked') <= MaxPending + N - 1
        /\ spent' + pending' + strays' + Cardinality(Admitted')
             <= DailyLimit + MaxPending + N - 2 + lapsed'
    BY <1>b, <2>1, <2>2
  <2> QED
    BY <1>b, <2>2, <2>3 DEF AdmissionInv
<1>7. ASSUME NEW r \in Requests, Abort(r) PROVE AdmissionInv'
  <2>1. CASE stage[r] = "insert"
    <3>1. /\ Cardinality(Checked') = Cardinality(Checked) - 1
          /\ Cardinality(Admitted') = Cardinality(Admitted) - 1
      BY <1>5, <1>7, <2>1 DEF Abort, Goto
    <3>2. TypeOK' /\ UNCHANGED <<pending, spent, strays, lapsed>>
      BY <1>7 DEF Abort, Goto, TypeOK, orderVars
    <3>3. /\ pending' + Cardinality(Checked') <= MaxPending + N - 1
          /\ spent' + pending' + strays' + Cardinality(Admitted')
               <= DailyLimit + MaxPending + N - 2 + lapsed'
      BY <1>b, <3>1, <3>2
    <3> QED
      BY <1>b, <3>2, <3>3 DEF AdmissionInv
  <2>2. CASE stage[r] # "insert"
    BY <1>1, <1>7, <2>2 DEF Abort, Goto, TypeOK
  <2> QED
    BY <2>1, <2>2
<1>8. ASSUME UNCHANGED stage PROVE UNCHANGED <<Checked, Admitted>>
  BY <1>8 DEF Checked, Admitted
<1>9. CASE Pay \/ Close \/ Complete \/ Leave \/ Return \/ Midnight
  BY <1>8, <1>9 DEF Pay, Close, Complete, Leave, Return, Midnight, AdmissionInv, TypeOK
<1>10. CASE CountInProgress \/ DeleteInstance \/ UNCHANGED vars
  BY <1>8, <1>10 DEF CountInProgress, DeleteInstance, vars, orderVars, AdmissionInv, TypeOK
<1> QED
  BY <1>2, <1>3, <1>4, <1>6, <1>7, <1>9, <1>10 DEF Next, Create

LEMMA AdmissionInvariance == Spec => []AdmissionInv
BY AdmissionInit, AdmissionNext, PTL DEF Spec

-----------------------------------------------------------------------------
(* The counts of pending, paid and stray orders stay within the bounds of
   their types, whatever the requests, sweepers and administrators do.      *)
THEOREM AdmissionTypeCorrect == Spec => []TypeOK
<1>1. AdmissionInv => TypeOK
  BY DEF AdmissionInv
<1> QED
  BY <1>1, AdmissionInvariance, PTL

(* With n requests at a time the pending orders exceed their limit by at
   most n - 1.                                                              *)
THEOREM PendingBound == Spec => []PendingOvershoot
<1>1. AdmissionInv => PendingOvershoot
  <2> SUFFICES ASSUME AdmissionInv PROVE PendingOvershoot
    OBVIOUS
  <2>1. Cardinality(Checked) \in 0..N /\ N \in Nat
    BY SubsetCount DEF Checked
  <2> QED
    BY <2>1, LimitAssumption DEF AdmissionInv, TypeOK, PendingOvershoot, N
<1> QED
  BY <1>1, AdmissionInvariance, PTL

(* With n requests at a time the orders paid in a day exceed the daily limit
   by at most n + MaxPending - 2, and one for each order that lapsed.       *)
THEOREM DailyBound == Spec => []DailyOvershoot
<1>1. AdmissionInv => DailyOvershoot
  <2> SUFFICES ASSUME AdmissionInv PROVE DailyOvershoot
    OBVIOUS
  <2>1. Cardinality(Admitted) \in 0..N /\ N \in Nat
    BY SubsetCount DEF Admitted
  <2> QED
    BY <2>1, LimitAssumption DEF AdmissionInv, TypeOK, DailyOvershoot, N
<1> QED
  BY <1>1, AdmissionInvariance, PTL

(***************************************************************************)
(* ConcurrencySlots                                                        *)
(*                                                                         *)
(* A call is served while it has a slot or a lease.  Both are counted, but *)
(* the set that has to stay within the limit is their union: the lease of  *)
(* a session in the making is taken beside the slot of the same call.      *)
(***************************************************************************)
\* The steps of a call at which it has a slot, and those at which it has a
\* lease: a session that is created has both until it gives its slot back.
WithSlot(c) ==
  \/ pc[c] \in {"touch", "running", "handoff", "create", "release"}
  \/ pc[c] \in {"unwait", "refresh", "reindex"} /\ next[c] = "running"

WithLease(c) ==
  \/ pc[c] \in {"create", "save", "live", "close", "drop"}
  \/ pc[c] \in {"release", "refresh", "reindex"} /\ next[c] \in {"save", "drop"}

Members == slots \cup live
Counted == {c \in Calls : counted[c]}

\* The parts of the type invariant without the flags, and the bound on the
\* wait counter: beside MaxWait only a failed increment adds to it.
Placed ==
  /\ slots \subseteq Calls /\ live \subseteq Calls
  /\ wait \in Nat /\ faults \in 0..MaxFaults
  /\ wait + faults <= MaxWait + MaxFaults
  /\ pc \in [Calls -> Steps]
  /\ next \in [Calls -> {"idle", "running", "save", "drop"}]
  /\ up \in [Processes -> {"down", "sweep", "unwait", "unindex", "up"}]
  /\ cleaner \in {"idle", "remove"}

Flagged ==
  /\ indexed \in BOOLEAN
  /\ counted \in [Calls -> BOOLEAN] /\ empty \in [Calls -> BOOLEAN]
  /\ lost \in BOOLEAN /\ leaked \in BOOLEAN /\ drift \in BOOLEAN

\* Where a call may go after its index refresh, and who has been counted.
Planned ==
  \A c \in Calls :
    /\ pc[c] = "unwait" => next[c] \in {"idle", "running"}
    /\ pc[c] = "release" => next[c] # "running"
    /\ pc[c] \notin {"unwait", "refresh", "reindex", "release"} => next[c] = "idle"
    /\ pc[c] \in {"touch_wait", "waiting", "unwait"} => counted[c]

Formed == Placed /\ Flagged /\ Planned

\* Whoever should have a slot or a lease has it, and nobody else.
Holding ==
  ~lost => \A c \in Calls : /\ WithSlot(c) => c \in slots
                            /\ WithLease(c) => c \in live

Returned ==
  ~leaked => \A c \in Calls : /\ c \in slots => WithSlot(c)
                              /\ c \in live => WithLease(c)

\* The members of the account stay within its limit.
Room ==
  /\ IsFiniteSet(slots) /\ IsFiniteSet(live)
  /\ ~lost => Cardinality(Members) <= Max

\* The counter counts at least the requests that wait.
Queued ==
  /\ IsFiniteSet(Counted)
  /\ ~drift => wait <= MaxWait /\ Cardinality(Counted) <= wait

LimitsInv == Formed /\ Holding /\ Returned /\ Room /\ Queued

-----------------------------------------------------------------------------
LEMMA FormedIsTyped == Formed => SlotsTypeOK
BY SlotLimitAssumption DEF Formed, Placed, Flagged, SlotsTypeOK

LEMMA PlacedNext ==
  Placed /\ [SlotsNext]_slotsVars => Placed'
<1> SUFFICES ASSUME Placed, [SlotsNext]_slotsVars PROVE Placed'
  OBVIOUS
<1> USE SlotLimitAssumption DEF Placed, Steps, Fault, redisVars, callVars, histVars, MoveTo, MoveOn
<1>1. ASSUME NEW c \in Calls,
             Acquire(c) \/ AcquireRefused(c) \/ AcquireLost(c) \/ Touch(c)
      PROVE  Placed'
  BY <1>1 DEF Acquire, AcquireRefused, AcquireLost, Touch
<1>2. ASSUME NEW c \in Calls,
             IncrementAccountWaitCount(c) \/ QueueFull(c) \/ IncrementFails(c)
             \/ TouchWait(c) \/ WaitTimesOut(c) \/ DecrementAccountWaitCount(c)
             \/ DecrementFails(c)
      PROVE  Placed'
  BY <1>2 DEF IncrementAccountWaitCount, QueueFull, IncrementFails, TouchWait, WaitTimesOut,
     DecrementAccountWaitCount, DecrementFails
<1>3. ASSUME NEW c \in Calls,
             ReadActiveLoad(c) \/ WriteActiveIndex(c) \/ RefreshFails(c)
             \/ ReleaseAccountSlot(c) \/ ReleaseFails(c)
      PROVE  Placed'
  BY <1>3 DEF ReadActiveLoad, WriteActiveIndex, RefreshFails, ReleaseAccountSlot, ReleaseFails
<1>4. ASSUME NEW c \in Calls,
             AcquireLiveLease(c) \/ LeaseRefused(c) \/ LeaseLost(c)
             \/ CreateUpstreamLiveCall(c)
      PROVE  Placed'
  BY <1>4 DEF AcquireLiveLease, LeaseRefused, LeaseLost, CreateUpstreamLiveCall
<1>5. ASSUME NEW c \in Calls,
             SaveLiveCall(c) \/ SessionEnds(c) \/ MarkLiveCallClosed(c)
             \/ ReleaseLiveLease(c) \/ FinalizeFails(c)
      PROVE  Placed'
  BY <1>5 DEF SaveLiveCall, SessionEnds, MarkLiveCallClosed, ReleaseLiveLease, FinalizeFails
<1>6. ASSUME NEW c \in Calls,
             SlotExpires(c) \/ LeaseExpires(c) \/ OutlivesMember(c)
      PROVE  Placed'
  BY <1>6 DEF SlotExpires, LeaseExpires, OutlivesMember
<1>7. ASSUME NEW p \in Processes, Crash(p) PROVE Placed'
  BY <1>7 DEF Crash
<1>8. ASSUME NEW p \in Processes,
             Start(p) \/ SweepSlots(p) \/ DeleteWaitCount(p) \/ RemoveIndexEntry(p)
             \/ StartFails(p)
      PROVE  Placed'
  BY <1>8 DEF Start, SweepSlots, DeleteWaitCount, RemoveIndexEntry, StartFails
<1>9. CASE WaitCountExpires \/ CleanerReads \/ CleanerRemoves
  BY <1>9 DEF WaitCountExpires, CleanerReads, CleanerRemoves
<1>10. CASE UNCHANGED slotsVars
  BY <1>10 DEF slotsVars
<1> QED
  BY <1>1, <1>2, <1>3, <1>4, <1>5, <1>6, <1>7, <1>8, <1>9, <1>10
  DEF SlotsNext, Proceed, Expires, StartStep

LEMMA FlaggedNext ==
  Flagged /\ [SlotsNext]_slotsVars => Flagged'
<1> SUFFICES ASSUME Flagged, [SlotsNext]_slotsVars PROVE Flagged'
  OBVIOUS
<1> USE DEF Flagged, redisVars, callVars, histVars, MoveTo, MoveOn
<1>1. ASSUME NEW c \in Calls,
             Acquire(c) \/ AcquireRefused(c) \/ AcquireLost(c) \/ Touch(c)
      PROVE  Flagged'
  BY <1>1, Zenon DEF Acquire, AcquireRefused, AcquireLost, Touch
<1>2. ASSUME NEW c \in Calls,
             IncrementAccountWaitCount(c) \/ QueueFull(c) \/ IncrementFails(c)
             \/ TouchWait(c) \/ WaitTimesOut(c) \/ DecrementAccountWaitCount(c)
             \/ DecrementFails(c)
      PROVE  Flagged'
  BY <1>2, Zenon DEF IncrementAccountWaitCount, QueueFull, IncrementFails, TouchWait, WaitTimesOut,
     DecrementAccountWaitCount, DecrementFails
<1>3. ASSUME NEW c \in Calls,
             ReadActiveLoad(c) \/ WriteActiveIndex(c) \/ RefreshFails(c)
             \/ ReleaseAccountSlot(c) \/ ReleaseFails(c)
      PROVE  Flagged'
  <2>1. Idle \in BOOLEAN
    BY Zenon DEF Idle
  <2>2. empty' \in [Calls -> BOOLEAN]
    BY <1>3, <2>1, Zenon DEF ReadActiveLoad, WriteActiveIndex, RefreshFails,
       ReleaseAccountSlot, ReleaseFails
  <2> QED
    BY <1>3, <2>2, Zenon DEF ReadActiveLoad, WriteActiveIndex, RefreshFails,
       ReleaseAccountSlot, ReleaseFails
<1>4. ASSUME NEW c \in Calls,
             AcquireLiveLease(c) \/ LeaseRefused(c) \/ LeaseLost(c)
             \/ CreateUpstreamLiveCall(c)
      PROVE  Flagged'
  BY <1>4, Zenon DEF AcquireLiveLease, LeaseRefused, LeaseLost, CreateUpstreamLiveCall
<1>5. ASSUME NEW c \in Calls,
             SaveLiveCall(c) \/ SessionEnds(c) \/ MarkLiveCallClosed(c)
             \/ ReleaseLiveLease(c) \/ FinalizeFails(c)
      PROVE  Flagged'
  BY <1>5, Zenon DEF SaveLiveCall, SessionEnds, MarkLiveCallClosed, ReleaseLiveLease, FinalizeFails
<1>6. ASSUME NEW c \in Calls,
             SlotExpires(c) \/ LeaseExpires(c) \/ OutlivesMember(c)
      PROVE  Flagged'
  BY <1>6, Zenon DEF SlotExpires, LeaseExpires, OutlivesMember
<1>7. ASSUME NEW p \in Processes, Crash(p) PROVE Flagged'
  BY <1>7, Zenon DEF Crash
<1>8. ASSUME NEW p \in Processes,
             Start(p) \/ SweepSlots(p) \/ DeleteWaitCount(p) \/ RemoveIndexEntry(p)
             \/ StartFails(p)
      PROVE  Flagged'
  BY <1>8, Zenon DEF Start, SweepSlots, DeleteWaitCount, RemoveIndexEntry, StartFails
<1>9. CASE WaitCountExpires \/ CleanerReads \/ CleanerRemoves
  BY <1>9, Zenon DEF WaitCountExpires, CleanerReads, CleanerRemoves
<1>10. CASE UNCHANGED slotsVars
  BY <1>10, Zenon DEF slotsVars
<1> QED
  BY <1>1, <1>2, <1>3, <1>4, <1>5, <1>6, <1>7, <1>8, <1>9, <1>10
  DEF SlotsNext, Proceed, Expires, StartStep

LEMMA PlannedNext ==
  Formed /\ [SlotsNext]_slotsVars => Planned'
<1> SUFFICES ASSUME Formed, [SlotsNext]_slotsVars PROVE Planned'
  OBVIOUS
<1> USE DEF redisVars, callVars, histVars, MoveTo, MoveOn, Formed, Planned, Placed, Flagged
<1>1. ASSUME NEW c \in Calls,
             Acquire(c) \/ AcquireRefused(c) \/ AcquireLost(c) \/ Touch(c)
      PROVE  Planned'
  BY <1>1 DEF Acquire, AcquireRefused, AcquireLost, Touch
<1>2. ASSUME NEW c \in Calls,
             IncrementAccountWaitCount(c) \/ QueueFull(c) \/ IncrementFails(c)
             \/ TouchWait(c) \/ WaitTimesOut(c) \/ DecrementAccountWaitCount(c)
             \/ DecrementFails(c)
      PROVE  Planned'
  BY <1>2 DEF IncrementAccountWaitCount, QueueFull, IncrementFails, TouchWait, WaitTimesOut,
     DecrementAccountWaitCount, DecrementFails
<1>3. ASSUME NEW c \in Calls,
             ReadActiveLoad(c) \/ WriteActiveIndex(c) \/ RefreshFails(c)
             \/ ReleaseAccountSlot(c) \/ ReleaseFails(c)
      PROVE  Planned'
  BY <1>3 DEF ReadActiveLoad, WriteActiveIndex, RefreshFails, ReleaseAccountSlot, ReleaseFails
<1>4. ASSUME NEW c \in Calls,
             AcquireLiveLease(c) \/ LeaseRefused(c) \/ LeaseLost(c)
             \/ CreateUpstreamLiveCall(c)
      PROVE  Planned'
  BY <1>4 DEF AcquireLiveLease, LeaseRefused, LeaseLost, CreateUpstreamLiveCall
<1>5. ASSUME NEW c \in Calls,
             SaveLiveCall(c) \/ SessionEnds(c) \/ MarkLiveCallClosed(c)
             \/ ReleaseLiveLease(c) \/ FinalizeFails(c)
      PROVE  Planned'
  BY <1>5 DEF SaveLiveCall, SessionEnds, MarkLiveCallClosed, ReleaseLiveLease, FinalizeFails
<1>6. ASSUME NEW c \in Calls,
             SlotExpires(c) \/ LeaseExpires(c) \/ OutlivesMember(c)
      PROVE  Planned'
  BY <1>6 DEF SlotExpires, LeaseExpires, OutlivesMember
<1>7. ASSUME NEW p \in Processes, Crash(p) PROVE Planned'
  BY <1>7 DEF Crash
<1>8. ASSUME NEW p \in Processes,
             Start(p) \/ SweepSlots(p) \/ DeleteWaitCount(p) \/ RemoveIndexEntry(p)
             \/ StartFails(p)
      PROVE  Planned'
  BY <1>8 DEF Start, SweepSlots, DeleteWaitCount, RemoveIndexEntry, StartFails
<1>9. CASE WaitCountExpires \/ CleanerReads \/ CleanerRemoves
  BY <1>9 DEF WaitCountExpires, CleanerReads, CleanerRemoves
<1>10. CASE UNCHANGED slotsVars
  BY <1>10 DEF slotsVars
<1> QED
  BY <1>1, <1>2, <1>3, <1>4, <1>5, <1>6, <1>7, <1>8, <1>9, <1>10
  DEF SlotsNext, Proceed, Expires, StartStep

LEMMA HoldingNext ==
  Formed /\ Holding /\ [SlotsNext]_slotsVars => Holding'
<1> SUFFICES ASSUME Formed /\ Holding, [SlotsNext]_slotsVars PROVE Holding'
  OBVIOUS
<1> USE DEF redisVars, callVars, histVars, MoveTo, MoveOn,
        Formed, Planned, Placed, Holding, WithSlot, WithLease
<1>1. ASSUME NEW c \in Calls,
             Acquire(c) \/ AcquireRefused(c) \/ AcquireLost(c) \/ Touch(c)
      PROVE  Holding'
  BY <1>1 DEF Acquire, AcquireRefused, AcquireLost, Touch
<1>2. ASSUME NEW c \in Calls,
             IncrementAccountWaitCount(c) \/ QueueFull(c) \/ IncrementFails(c)
             \/ TouchWait(c) \/ WaitTimesOut(c) \/ DecrementAccountWaitCount(c)
             \/ DecrementFails(c)
      PROVE  Holding'
  BY <1>2 DEF IncrementAccountWaitCount, QueueFull, IncrementFails, TouchWait, WaitTimesOut,
     DecrementAccountWaitCount, DecrementFails
<1>3. ASSUME NEW c \in Calls,
             ReadActiveLoad(c) \/ WriteActiveIndex(c) \/ RefreshFails(c)
             \/ ReleaseAccountSlot(c) \/ ReleaseFails(c)
      PROVE  Holding'
  BY <1>3 DEF ReadActiveLoad, WriteActiveIndex, RefreshFails, ReleaseAccountSlot, ReleaseFails
<1>4. ASSUME NEW c \in Calls,
             AcquireLiveLease(c) \/ LeaseRefused(c) \/ LeaseLost(c)
             \/ CreateUpstreamLiveCall(c)
      PROVE  Holding'
  BY <1>4 DEF AcquireLiveLease, LeaseRefused, LeaseLost, CreateUpstreamLiveCall
<1>5. ASSUME NEW c \in Calls,
             SaveLiveCall(c) \/ SessionEnds(c) \/ MarkLiveCallClosed(c)
             \/ ReleaseLiveLease(c) \/ FinalizeFails(c)
      PROVE  Holding'
  BY <1>5 DEF SaveLiveCall, SessionEnds, MarkLiveCallClosed, ReleaseLiveLease, FinalizeFails
<1>6. ASSUME NEW c \in Calls,
             SlotExpires(c) \/ LeaseExpires(c) \/ OutlivesMember(c)
      PROVE  Holding'
  BY <1>6 DEF SlotExpires, LeaseExpires, OutlivesMember
<1>7. ASSUME NEW p \in Processes, Crash(p) PROVE Holding'
  BY <1>7 DEF Crash
<1>8. ASSUME NEW p \in Processes,
             Start(p) \/ SweepSlots(p) \/ DeleteWaitCount(p) \/ RemoveIndexEntry(p)
             \/ StartFails(p)
      PROVE  Holding'
  BY <1>8 DEF Start, SweepSlots, DeleteWaitCount, RemoveIndexEntry, StartFails
<1>9. CASE WaitCountExpires \/ CleanerReads \/ CleanerRemoves
  BY <1>9 DEF WaitCountExpires, CleanerReads, CleanerRemoves
<1>10. CASE UNCHANGED slotsVars
  BY <1>10 DEF slotsVars
<1> QED
  BY <1>1, <1>2, <1>3, <1>4, <1>5, <1>6, <1>7, <1>8, <1>9, <1>10
  DEF SlotsNext, Proceed, Expires, StartStep

LEMMA ReturnedNext ==
  Formed /\ Returned /\ [SlotsNext]_slotsVars => Returned'
<1> SUFFICES ASSUME Formed /\ Returned, [SlotsNext]_slotsVars PROVE Returned'
  OBVIOUS
<1> USE DEF redisVars, callVars, histVars, MoveTo, MoveOn,
        Formed, Planned, Placed, Returned, WithSlot, WithLease, Fresh
<1>1. ASSUME NEW c \in Calls,
             Acquire(c) \/ AcquireRefused(c) \/ AcquireLost(c) \/ Touch(c)
      PROVE  Returned'
  BY <1>1 DEF Acquire, AcquireRefused, AcquireLost, Touch
<1>2. ASSUME NEW c \in Calls,
             IncrementAccountWaitCount(c) \/ QueueFull(c) \/ IncrementFails(c)
             \/ TouchWait(c) \/ WaitTimesOut(c) \/ DecrementAccountWaitCount(c)
             \/ DecrementFails(c)
      PROVE  Returned'
  BY <1>2 DEF IncrementAccountWaitCount, QueueFull, IncrementFails, TouchWait, WaitTimesOut,
     DecrementAccountWaitCount, DecrementFails
<1>3. ASSUME NEW c \in Calls,
             ReadActiveLoad(c) \/ WriteActiveIndex(c) \/ RefreshFails(c)
             \/ ReleaseAccountSlot(c) \/ ReleaseFails(c)
      PROVE  Returned'
  BY <1>3 DEF ReadActiveLoad, WriteActiveIndex, RefreshFails, ReleaseAccountSlot, ReleaseFails
<1>4. ASSUME NEW c \in Calls,
             AcquireLiveLease(c) \/ LeaseRefused(c) \/ LeaseLost(c)
             \/ CreateUpstreamLiveCall(c)
      PROVE  Returned'
  BY <1>4 DEF AcquireLiveLease, LeaseRefused, LeaseLost, CreateUpstreamLiveCall
<1>5. ASSUME NEW c \in Calls,
             SaveLiveCall(c) \/ SessionEnds(c) \/ MarkLiveCallClosed(c)
             \/ ReleaseLiveLease(c) \/ FinalizeFails(c)
      PROVE  Returned'
  BY <1>5 DEF SaveLiveCall, SessionEnds, MarkLiveCallClosed, ReleaseLiveLease, FinalizeFails
<1>6. ASSUME NEW c \in Calls,
             SlotExpires(c) \/ LeaseExpires(c) \/ OutlivesMember(c)
      PROVE  Returned'
  BY <1>6 DEF SlotExpires, LeaseExpires, OutlivesMember
<1>7. ASSUME NEW p \in Processes, Crash(p) PROVE Returned'
  BY <1>7 DEF Crash
<1>8. ASSUME NEW p \in Processes,
             Start(p) \/ SweepSlots(p) \/ DeleteWaitCount(p) \/ RemoveIndexEntry(p)
             \/ StartFails(p)
      PROVE  Returned'
  BY <1>8 DEF Start, SweepSlots, DeleteWaitCount, RemoveIndexEntry, StartFails
<1>9. CASE WaitCountExpires \/ CleanerReads \/ CleanerRemoves
  BY <1>9 DEF WaitCountExpires, CleanerReads, CleanerRemoves
<1>10. CASE UNCHANGED slotsVars
  BY <1>10 DEF slotsVars
<1> QED
  BY <1>1, <1>2, <1>3, <1>4, <1>5, <1>6, <1>7, <1>8, <1>9, <1>10
  DEF SlotsNext, Proceed, Expires, StartStep

(* What a step does to the members: it adds no one, or a slot while there is
   room, or a lease to a call that has a slot already.                       *)
LEMMA MembersStep ==
  ASSUME Formed, Holding, [SlotsNext]_slotsVars
  PROVE  \/ slots' \subseteq slots /\ live' \subseteq live /\ (lost => lost')
         \/ \E c \in Calls : slots' = slots \cup {c} /\ Load < Max /\ UNCHANGED <<live, lost>>
         \/ \E c \in Calls : /\ live' = live \cup {c} /\ UNCHANGED <<slots, lost>>
                             /\ ~lost => c \in slots
<1> DEFINE Quiet == slots' \subseteq slots /\ live' \subseteq live /\ (lost => lost')
           Takes == \E c \in Calls : slots' = slots \cup {c} /\ Load < Max
                                     /\ UNCHANGED <<live, lost>>
           Leases == \E c \in Calls : /\ live' = live \cup {c} /\ UNCHANGED <<slots, lost>>
                                      /\ ~lost => c \in slots
<1> SUFFICES Quiet \/ Takes \/ Leases
  OBVIOUS
<1> USE DEF redisVars, callVars, histVars
<1>1. ASSUME NEW c \in Calls, Acquire(c) \/ AcquireLost(c) PROVE Takes
  BY <1>1, Zenon DEF Acquire, AcquireLost
<1>2. ASSUME NEW c \in Calls, AcquireLiveLease(c) \/ LeaseLost(c) PROVE Leases
  <2>1. ~lost => c \in slots
    BY <1>2 DEF Holding, WithSlot, AcquireLiveLease, LeaseLost
  <2> QED
    BY <1>2, <2>1, Zenon DEF AcquireLiveLease, LeaseLost
<1> HIDE DEF Takes, Leases
<1>3. ASSUME NEW c \in Calls, AcquireRefused(c) \/ Proceed(c) PROVE Quiet \/ Leases
  BY <1>2, <1>3 DEF Proceed, AcquireRefused, Touch,
     IncrementAccountWaitCount, QueueFull, IncrementFails, TouchWait, WaitTimesOut,
     DecrementAccountWaitCount, DecrementFails, ReadActiveLoad, WriteActiveIndex,
     RefreshFails, ReleaseAccountSlot, ReleaseFails, LeaseRefused, CreateUpstreamLiveCall,
     SaveLiveCall, SessionEnds, MarkLiveCallClosed, ReleaseLiveLease, FinalizeFails
<1>4. ASSUME NEW c \in Calls, Expires(c) \/ OutlivesMember(c) PROVE Quiet
  BY <1>4 DEF Expires, SlotExpires, LeaseExpires, OutlivesMember
<1>5. ASSUME NEW p \in Processes, Crash(p) \/ StartStep(p) PROVE Quiet
  <2>1. CASE SweepSlots(p)
    <3>1. lost => lost'
      BY <2>1, Zenon DEF SweepSlots
    <3> QED
      BY <2>1, <3>1 DEF SweepSlots
  <2>2. CASE ~SweepSlots(p)
    BY <1>5, <2>2 DEF Crash, StartStep, Start, DeleteWaitCount, RemoveIndexEntry, StartFails
  <2> QED
    BY <2>1, <2>2
<1>6. CASE WaitCountExpires \/ CleanerReads \/ CleanerRemoves \/ UNCHANGED slotsVars
  BY <1>6 DEF WaitCountExpires, CleanerReads, CleanerRemoves, slotsVars
<1> QED
  BY <1>1, <1>3, <1>4, <1>5, <1>6 DEF SlotsNext

LEMMA RoomNext ==
  Formed /\ Holding /\ Room /\ [SlotsNext]_slotsVars => Room'
<1> SUFFICES ASSUME Formed, Holding, Room, [SlotsNext]_slotsVars PROVE Room'
  OBVIOUS
<1>0. /\ IsFiniteSet(slots) /\ IsFiniteSet(live) /\ IsFiniteSet(Members)
      /\ Cardinality(slots) \in Nat /\ Cardinality(live) \in Nat
      /\ Cardinality(Members) \in Nat /\ Max \in Nat
      /\ Cardinality(Members) <= Load
  <2>1. /\ IsFiniteSet(slots) /\ IsFiniteSet(live) /\ IsFiniteSet(slots \cap live)
        /\ slots \cap live \in SUBSET slots
    BY FS_Subset DEF Room
  <2>2. /\ IsFiniteSet(Members)
        /\ Cardinality(Members)
             = Cardinality(slots) + Cardinality(live) - Cardinality(slots \cap live)
    BY <2>1, FS_Union DEF Members
  <2>3. /\ Cardinality(slots) \in Nat /\ Cardinality(live) \in Nat
        /\ Cardinality(slots \cap live) \in Nat /\ Cardinality(Members) \in Nat
    BY <2>1, <2>2, FS_CardinalityType
  <2> QED
    BY <2>1, <2>2, <2>3, SlotLimitAssumption DEF Load
<1>1. CASE slots' \subseteq slots /\ live' \subseteq live /\ (lost => lost')
  <2>1. Members' \subseteq Members
    BY <1>1 DEF Members
  <2>2. IsFiniteSet(slots') /\ IsFiniteSet(live')
    BY <1>0, <1>1, FS_Subset
  <2>3. Cardinality(Members') \in Nat /\ Cardinality(Members') <= Cardinality(Members)
    BY <1>0, <2>1, FS_Subset, FS_CardinalityType
  <2> QED
    BY <1>0, <1>1, <2>2, <2>3 DEF Room
<1>2. ASSUME NEW c \in Calls, slots' = slots \cup {c}, Load < Max, UNCHANGED <<live, lost>>
      PROVE  Room'
  <2>1. Members' = Members \cup {c}
    BY <1>2 DEF Members
  <2>2. IsFiniteSet(slots') /\ IsFiniteSet(live')
    BY <1>0, <1>2, FS_AddElement
  <2>3. Cardinality(Members') <= Cardinality(Members) + 1 /\ Cardinality(Members') \in Nat
    <3>1. Cardinality(Members \cup {c}) \in {Cardinality(Members), Cardinality(Members) + 1}
      BY <1>0, FS_AddElement
    <3> QED
      BY <1>0, <2>1, <3>1
  <2>4. Cardinality(Members') <= Max
    BY <1>0, <1>2, <2>3 DEF Load
  <2> QED
    BY <2>2, <2>4 DEF Room
<1>3. ASSUME NEW c \in Calls, live' = live \cup {c}, UNCHANGED <<slots, lost>>,
             ~lost => c \in slots
      PROVE  Room'
  <2>1. ~lost => Members' = Members
    BY <1>3 DEF Members
  <2>2. IsFiniteSet(slots') /\ IsFiniteSet(live')
    BY <1>0, <1>3, FS_AddElement
  <2> QED
    BY <1>3, <2>1, <2>2 DEF Room
<1> QED
  BY <1>1, <1>2, <1>3, MembersStep

(* What a step does to the waiters' counter.  Only an increment that failed
   adds a waiter who need not be counted, and drift records it.             *)
LEMMA CounterStep ==
  ASSUME Formed, [SlotsNext]_slotsVars
  PROVE  \/ /\ Counted' \subseteq Counted /\ (drift => drift')
            /\ wait' = wait \/ (wait' = 0 /\ (~drift' => Counted = {}))
         \/ \E c \in Calls : /\ Counted' = Counted \cup {c}
                             /\ \/ drift'
                                \/ wait < MaxWait /\ wait' = wait + 1 /\ UNCHANGED drift
         \/ \E c \in Counted : /\ Counted' = Counted \ {c} /\ UNCHANGED drift
                               /\ wait' = IF wait > 0 THEN wait - 1 ELSE wait
<1> DEFINE Quiet == /\ Counted' \subseteq Counted /\ (drift => drift')
                    /\ wait' = wait \/ (wait' = 0 /\ (~drift' => Counted = {}))
           Queues == \E c \in Calls :
                       /\ Counted' = Counted \cup {c}
                       /\ \/ drift'
                          \/ wait < MaxWait /\ wait' = wait + 1 /\ UNCHANGED drift
           Leaves == \E c \in Counted :
                       /\ Counted' = Counted \ {c} /\ UNCHANGED drift
                       /\ wait' = IF wait > 0 THEN wait - 1 ELSE wait
<1> SUFFICES Quiet \/ Queues \/ Leaves
  OBVIOUS
<1>0. counted \in [Calls -> BOOLEAN]
  BY DEF Formed, Flagged
<1> USE DEF redisVars, callVars, histVars
<1>1. ASSUME NEW c \in Calls, IncrementAccountWaitCount(c) \/ IncrementFails(c) PROVE Queues
  <2>1. Counted' = Counted \cup {c}
    BY <1>0, <1>1 DEF IncrementAccountWaitCount, IncrementFails, Counted
  <2>2. \/ drift'
        \/ wait < MaxWait /\ wait' = wait + 1 /\ UNCHANGED drift
    BY <1>1, Zenon DEF IncrementAccountWaitCount, IncrementFails
  <2> QED
    BY <2>1, <2>2
<1>2. ASSUME NEW c \in Calls, DecrementAccountWaitCount(c) PROVE Leaves
  <2>1. Counted' = Counted \ {c} /\ c \in Counted
    BY <1>0, <1>2 DEF DecrementAccountWaitCount, Counted, Formed, Planned
  <2> QED
    BY <1>2, <2>1 DEF DecrementAccountWaitCount
<1>3. ASSUME NEW c \in Calls, DecrementFails(c) PROVE Quiet
  <2>1. Counted' \subseteq Counted
    BY <1>0, <1>3 DEF DecrementFails, Counted
  <2> QED
    BY <1>3, <2>1 DEF DecrementFails
<1>4. ASSUME UNCHANGED <<counted, wait, drift>> PROVE Quiet
  BY <1>4 DEF Counted
<1> HIDE DEF Quiet, Queues, Leaves
<1>5. ASSUME NEW c \in Calls, Acquire(c) \/ AcquireRefused(c) \/ AcquireLost(c) \/ Proceed(c)
      PROVE  Quiet \/ Queues \/ Leaves
  BY <1>1, <1>2, <1>3, <1>4, <1>5, Zenon DEF Proceed, Acquire, AcquireRefused, AcquireLost,
     Touch, QueueFull, TouchWait, WaitTimesOut, ReadActiveLoad, WriteActiveIndex,
     RefreshFails, ReleaseAccountSlot, ReleaseFails, AcquireLiveLease, LeaseRefused,
     LeaseLost, CreateUpstreamLiveCall, SaveLiveCall, SessionEnds, MarkLiveCallClosed,
     ReleaseLiveLease, FinalizeFails
<1>6. ASSUME NEW c \in Calls, Expires(c) \/ OutlivesMember(c) PROVE Quiet
  BY <1>4, <1>6, Zenon DEF Expires, SlotExpires, LeaseExpires, OutlivesMember
<1>7. ASSUME NEW p \in Processes, Crash(p) PROVE Quiet
  <2>1. Counted' \subseteq Counted
    BY <1>7 DEF Crash, Counted
  <2> QED
    BY <1>7, <2>1 DEF Crash, Quiet
<1>8. ASSUME wait' = 0, UNCHANGED counted, drift' = (drift \/ \E c \in Calls : counted[c])
      PROVE  Quiet
  BY <1>8, Zenon DEF Quiet, Counted
<1>9. ASSUME NEW p \in Processes, StartStep(p) PROVE Quiet
  BY <1>4, <1>8, <1>9, Zenon DEF StartStep, Start, SweepSlots, DeleteWaitCount,
     RemoveIndexEntry, StartFails
<1>10. CASE WaitCountExpires \/ CleanerReads \/ CleanerRemoves \/ UNCHANGED slotsVars
  BY <1>4, <1>8, <1>10, Zenon DEF WaitCountExpires, CleanerReads, CleanerRemoves, slotsVars
<1> QED
  BY <1>5, <1>6, <1>7, <1>9, <1>10 DEF SlotsNext

LEMMA QueuedNext ==
  Formed /\ Queued /\ [SlotsNext]_slotsVars => Queued'
<1> SUFFICES ASSUME Formed, Queued, [SlotsNext]_slotsVars PROVE Queued'
  OBVIOUS
<1>0. /\ IsFiniteSet(Counted) /\ Cardinality(Counted) \in Nat
      /\ wait \in Nat /\ MaxWait \in Nat
  BY FS_CardinalityType, SlotLimitAssumption DEF Queued, Formed, Placed
<1>1. CASE /\ Counted' \subseteq Counted /\ (drift => drift')
           /\ wait' = wait \/ (wait' = 0 /\ (~drift' => Counted = {}))
  <2>1. /\ IsFiniteSet(Counted') /\ Cardinality(Counted') \in Nat
        /\ Cardinality(Counted') <= Cardinality(Counted)
    BY <1>0, <1>1, FS_Subset, FS_CardinalityType
  <2>2. Counted = {} => Cardinality(Counted) = 0
    BY FS_EmptySet
  <2> QED
    BY <1>0, <1>1, <2>1, <2>2 DEF Queued
<1>2. ASSUME NEW c \in Calls, Counted' = Counted \cup {c},
             drift' \/ (wait < MaxWait /\ wait' = wait + 1 /\ UNCHANGED drift)
      PROVE  Queued'
  <2>1. /\ IsFiniteSet(Counted') /\ Cardinality(Counted') \in Nat
        /\ Cardinality(Counted') <= Cardinality(Counted) + 1
    BY <1>0, <1>2, FS_AddElement
  <2> QED
    BY <1>0, <1>2, <2>1 DEF Queued
<1>3. ASSUME NEW c \in Counted, Counted' = Counted \ {c}, UNCHANGED drift,
             wait' = IF wait > 0 THEN wait - 1 ELSE wait
      PROVE  Queued'
  <2>1. /\ IsFiniteSet(Counted') /\ Cardinality(Counted') \in Int
        /\ Cardinality(Counted') = Cardinality(Counted) - 1
    BY <1>0, <1>3, FS_RemoveElement
  <2> QED
    BY <1>0, <1>3, <2>1 DEF Queued
<1> QED
  BY <1>1, <1>2, <1>3, CounterStep, Zenon

-----------------------------------------------------------------------------
LEMMA LimitsInit == SlotsInit => LimitsInv
<1> SUFFICES ASSUME SlotsInit PROVE LimitsInv
  OBVIOUS
<1>1. Placed
  BY SlotLimitAssumption DEF SlotsInit, Placed, Steps
<1>2. Flagged
  BY Zenon DEF SlotsInit, Flagged
<1>3. Planned /\ Holding /\ Returned
  BY DEF SlotsInit, Planned, Holding, Returned, WithSlot, WithLease
<1>4. Members = {} /\ Counted = {}
  BY DEF SlotsInit, Members, Counted
<1>5. Room /\ Queued
  BY <1>4, FS_EmptySet, SlotLimitAssumption DEF SlotsInit, Room, Queued
<1> QED
  BY <1>1, <1>2, <1>3, <1>5 DEF LimitsInv, Formed

LEMMA LimitsNext == LimitsInv /\ [SlotsNext]_slotsVars => LimitsInv'
BY PlacedNext, FlaggedNext, PlannedNext, HoldingNext, ReturnedNext, RoomNext, QueuedNext
   DEF LimitsInv, Formed

LEMMA LimitsInvariance == SlotsSpec => []LimitsInv
BY LimitsInit, LimitsNext, PTL DEF SlotsSpec

(* Whatever the number of calls, processes and faults, and for every limit:
   an account serves at most Max calls unless one outlived its slot or lease or
   a starting process removed it, and no more than MaxWait requests wait unless
   the counter lost one.                                                     *)
THEOREM SlotLimits == SlotsSpec => []SlotsInv
<1>1. LimitsInv => SlotsInv
  <2> SUFFICES ASSUME LimitsInv PROVE SlotsInv
    OBVIOUS
  <2>1. CallsWithinLimit
    <3> SUFFICES ASSUME ~lost
                 PROVE  Cardinality({c \in Calls : Serving(c)}) <= Max
      BY DEF CallsWithinLimit
    <3>1. {c \in Calls : Serving(c)} \subseteq Members
      BY DEF LimitsInv, Holding, Serving, WithSlot, WithLease, Members
    <3>2. IsFiniteSet(Members) /\ Cardinality(Members) <= Max
      BY FS_Union DEF LimitsInv, Room, Members
    <3>3. /\ Cardinality({c \in Calls : Serving(c)}) <= Cardinality(Members)
          /\ Cardinality({c \in Calls : Serving(c)}) \in Nat
          /\ Cardinality(Members) \in Nat /\ Max \in Nat
      BY <3>1, <3>2, FS_Subset, FS_CardinalityType, SlotLimitAssumption
    <3> QED
      BY <3>2, <3>3
  <2>2. WaitersWithinLimit
    <3>1. /\ Cardinality(Counted) \in Nat /\ wait \in Nat /\ MaxWait \in Nat
      BY FS_CardinalityType, SlotLimitAssumption DEF LimitsInv, Queued, Formed, Placed
    <3> QED
      BY <3>1 DEF LimitsInv, Queued, Counted, WaitersWithinLimit
  <2> QED
    BY <2>1, <2>2, FormedIsTyped DEF LimitsInv, SlotsInv
<1> QED
  BY <1>1, LimitsInvariance, PTL

(* Every path out of a call returns its slot and its lease: what no call has
   at the steps where it should is left only by a crash, a lost answer or a
   failed release.                                                           *)
THEOREM SlotsReturned == SlotsSpec => []NothingLeaks
<1>1. LimitsInv => NothingLeaks
  BY DEF LimitsInv, Returned, NothingLeaks, WithSlot, WithLease, Serving
<1> QED
  BY <1>1, LimitsInvariance, PTL
=============================================================================
