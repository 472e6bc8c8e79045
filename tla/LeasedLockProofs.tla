--------------------------- MODULE LeasedLockProofs ---------------------------
(***************************************************************************)
(* Proofs about the two locks whose lease may end under the holder: the    *)
(* system operations' of SystemOperationLock, which renews it, and the     *)
(* OAuth refresh's of OAuthRefresh, which does not and relies on a second  *)
(* read of the account.                                                    *)
(***************************************************************************)
EXTENDS SystemOperationLock, OAuthRefresh, FiniteSetTheorems, TLAPS

(***************************************************************************)
(* SystemOperationLock                                                     *)
(*                                                                         *)
(* The lock excludes operations of any ids, for any number of calls and    *)
(* any durations that meet TimeAssumption, until a lease ends under a      *)
(* holder whose row bears another operation's id.                          *)
(*                                                                         *)
(* The invariant accounts for the time a holder's lease has left.  If the  *)
(* row bears its own id, a renewal that succeeded leaves Lease, less the   *)
(* delay of its call, and each tick since then, answered or not, has taken *)
(* one Interval.  If it does not, nothing is known but that outlived is    *)
(* still FALSE: the lease has not ended yet.                               *)
(***************************************************************************)

\* The holder can renew its lease.
Renewing(o) == row.fp = OpId[o]

\* The time that fails[o] ticks have taken.
Missed(o) == fails[o] * Interval

\* What a running operation has left of its lease when it ends, at least.
Floor == Lease - 2 * MaxDelay - (MaxFails + 1) * Interval

\* A holder's row is the one it acquired, and locked.
HoldsRow(o) ==
  Holder(o) =>
    /\ row.id = held[o] /\ row.id # 0
    /\ row.status = "processing"
    /\ row.lock > 0

\* The lease of a running operation between two renewals.
LeaseOn(o) ==
  Renewing(o) /\ phase[o] = "running" /\ renew[o] = "on" =>
    row.lock >= Lease - MaxDelay - Missed(o) - since[o]

\* The lease of a running operation during a renewal.
LeaseFiring(o) ==
  Renewing(o) /\ phase[o] = "running" /\ renew[o] = "firing" =>
    row.lock >= Lease - MaxDelay - Missed(o) - Interval - since[o]

LeaseReleasing(o) ==
  Renewing(o) /\ phase[o] = "releasing" => row.lock >= Floor - age[o]

LoopRuns(o) ==
  /\ Renewing(o) /\ phase[o] = "running" => renew[o] # "off"
  /\ renew[o] = "firing" => since[o] <= MaxDelay
  /\ phase[o] = "reclaim" => held[o] # 0

CallInv(o) ==
  HoldsRow(o) /\ LeaseOn(o) /\ LeaseFiring(o) /\ LeaseReleasing(o) /\ LoopRuns(o)

RowInv == row.lock <= row.ttl

OneHolder == \A o, p \in Ops : Holder(o) /\ Holder(p) => o = p

\* What holds until a lease ends under a holder that cannot renew it.
LockInv == TypeOK /\ RowInv /\ OneHolder /\ \A o \in Ops : CallInv(o)

-----------------------------------------------------------------------------
LEMMA Durations ==
  /\ Lease \in Nat /\ Interval \in Nat \ {0} /\ Ttl \in Nat
  /\ MaxDelay \in Nat /\ MaxFails \in Nat
  /\ MaxDelay <= Interval /\ Lease <= Ttl /\ MaxDelay < Lease
  /\ Floor \in Int /\ MaxDelay < Floor
  /\ Floor <= Lease - 2 * MaxDelay - Interval
<1>1. (MaxFails + 1) * Interval \in Nat /\ Interval <= (MaxFails + 1) * Interval
  BY TimeAssumption
<1> QED
  BY <1>1, TimeAssumption DEF Floor

\* n ticks take no longer than the bound on failures allows for.
LEMMA MissedBound ==
  ASSUME NEW n \in 0..MaxFails
  PROVE  /\ n * Interval \in Nat
         /\ n * Interval + Interval <= (MaxFails + 1) * Interval
         /\ (n + 1) * Interval = n * Interval + Interval
         /\ 0 * Interval = 0
BY TimeAssumption

LEMMA NoRowType == NoRow \in Rows
<1>1. -MaxDelay \in -MaxDelay..Lease /\ 0 \in 0..Ttl /\ 0 \in Nat
  BY Durations
<1> QED
  BY <1>1 DEF NoRow, Rows, Statuses

LEMMA RowType ==
  ASSUME NEW r \in Rows, NEW st \in Statuses,
         NEW lk \in -MaxDelay..Lease, NEW ttl \in 0..Ttl
  PROVE  /\ [r EXCEPT !.status = st, !.lock = lk, !.ttl = ttl] \in Rows
         /\ [r EXCEPT !.lock = lk, !.ttl = ttl] \in Rows
BY DEF Rows

LEMMA TypeInit == Init => TypeOK
<1> SUFFICES ASSUME Init PROVE TypeOK
  OBVIOUS
<1>1. 0 \in 0..MaxDelay /\ 0 \in 0..Interval /\ 0 \in 0..MaxFails /\ 1 \in Nat \ {0}
  BY Durations
<1>2. row \in Rows
  BY NoRowType DEF Init
<1> QED
  BY <1>1, <1>2 DEF Init, TypeOK, Statuses

LEMMA TypeNext == TypeOK /\ [Next]_vars => TypeOK'
<1> SUFFICES ASSUME TypeOK, [Next]_vars PROVE TypeOK'
  OBVIOUS
<1> USE Durations DEF Pass
<1>0. "succeeded" \in Statuses /\ "processing" \in Statuses
  BY DEF Statuses
<1>1. ASSUME NEW o \in Ops, Start(o) PROVE TypeOK'
  BY <1>0, <1>1 DEF Start, Goto, renewVars, TypeOK
<1>2. ASSUME NEW o \in Ops, CreateProcessing(o) PROVE TypeOK'
  <2>1. Lease - age[o] \in -MaxDelay..Lease /\ Ttl - age[o] \in 0..Ttl
    BY DEF TypeOK
  <2>2. OpId[o] \in Ids
    BY DEF Ids
  <2>3. CASE row.id = 0
    <3>1. row' \in Rows
      BY <1>0, <1>2, <2>1, <2>2, <2>3 DEF CreateProcessing, Created, TypeOK, Rows
    <3> QED
      BY <1>0, <1>2, <2>3, <3>1 DEF CreateProcessing, Created, Enter, Goto, TypeOK
  <2>4. CASE row.id # 0
    BY <1>0, <1>2, <2>4 DEF CreateProcessing, Created, Goto, renewVars, TypeOK
  <2> QED
    BY <2>3, <2>4
<1>3. ASSUME NEW o \in Ops, GetExisting(o) PROVE TypeOK'
  <2>1. row.id \in Nat /\ row.status \in Statuses
    BY DEF TypeOK, Rows
  <2> QED
    BY <1>0, <1>3, <2>1 DEF GetExisting, Goto, renewVars, TypeOK
<1>4. ASSUME NEW o \in Ops, TryReclaim(o) PROVE TypeOK'
  <2>1. Lease - age[o] \in -MaxDelay..Lease /\ Ttl - age[o] \in 0..Ttl
    BY DEF TypeOK
  <2>2. CASE Reclaimable(row, held[o], from[o], -age[o])
    <3>1. row' \in Rows
      <4>1. row' = [row EXCEPT !.status = "processing", !.lock = Lease - age[o],
                               !.ttl = Ttl - age[o]]
        BY <1>0, <1>4, <2>2 DEF TryReclaim, Reclaimed
      <4>2. "processing" \in Statuses /\ row \in Rows
        BY <1>0 DEF TypeOK
      <4> QED
        BY <2>1, <4>1, <4>2, RowType
    <3> QED
      BY <1>0, <1>4, <2>2, <3>1 DEF TryReclaim, Reclaimed, Enter, Goto, TypeOK
  <2>3. CASE ~Reclaimable(row, held[o], from[o], -age[o])
    BY <1>0, <1>4, <2>3 DEF TryReclaim, Reclaimed, Goto, renewVars, TypeOK
  <2> QED
    BY <2>2, <2>3
<1>5. ASSUME NEW o \in Ops, StoreError(o) PROVE TypeOK'
  BY <1>0, <1>5 DEF StoreError, Goto, renewVars, TypeOK
<1>6. ASSUME NEW o \in Ops, StopRenewal(o) PROVE TypeOK'
  BY <1>0, <1>6 DEF StopRenewal, Goto, renewVars, TypeOK
<1>7. ASSUME NEW o \in Ops, NEW st \in Statuses, NEW lk \in -MaxDelay..Lease,
             Mark(o, st, lk)
      PROVE  TypeOK'
  <2>1. Ttl - age[o] \in 0..Ttl
    BY DEF TypeOK
  <2>2. row' \in Rows
    BY <1>0, <1>7, <2>1, RowType DEF Mark, Marked, TypeOK
  <2> QED
    BY <1>0, <1>7, <2>2 DEF Mark, Marked, Goto, renewVars, TypeOK
<1>8. ASSUME NEW o \in Ops, MarkSucceeded(o) PROVE TypeOK'
  BY <1>0, <1>7, <1>8 DEF MarkSucceeded
<1>9. ASSUME NEW o \in Ops, MarkFailedRetryable(o) PROVE TypeOK'
  <2>1. -age[o] \in -MaxDelay..Lease
    BY DEF TypeOK
  <2> QED
    BY <1>0, <1>7, <1>9, <2>1 DEF MarkFailedRetryable, Statuses
<1>10. ASSUME NEW o \in Ops, MarkFails(o) PROVE TypeOK'
  BY <1>0, <1>10 DEF MarkFails, Goto, renewVars, TypeOK
<1>11. ASSUME NEW o \in Ops, RenewFires(o) PROVE TypeOK'
  BY <1>0, <1>11 DEF RenewFires, callVars, TypeOK
<1>12. ASSUME NEW o \in Ops, ExtendProcessingLock(o) PROVE TypeOK'
  <2>1. Lease - since[o] \in -MaxDelay..Lease /\ Ttl - since[o] \in 0..Ttl
    BY DEF TypeOK
  <2>2. row' \in Rows
    <3>1. row' = row \/ row' = [row EXCEPT !.lock = Lease - since[o],
                                           !.ttl = Ttl - since[o]]
      BY <1>0, <1>12 DEF ExtendProcessingLock, Extended
    <3>2. "processing" \in Statuses /\ row \in Rows
      BY <1>0 DEF TypeOK
    <3>3. [row EXCEPT !.lock = Lease - since[o], !.ttl = Ttl - since[o]] \in Rows
      BY <2>1, <3>2, RowType, Zenon
    <3> QED
      BY <3>1, <3>2, <3>3
  <2> QED
    BY <1>0, <1>12, <2>2 DEF ExtendProcessingLock, LoopEnds, callVars, TypeOK
<1>13. ASSUME NEW o \in Ops, RenewFails(o) PROVE TypeOK'
  BY <1>0, <1>13 DEF RenewFails, callVars, TypeOK
<1>14. ASSUME NEW o \in Ops, RenewStops(o) PROVE TypeOK'
  BY <1>0, <1>14 DEF RenewStops, LoopEnds, callVars, TypeOK
<1>15. ASSUME NEW o \in Ops, Crash(o) PROVE TypeOK'
  BY <1>0, <1>15 DEF Crash, LoopEnds, Goto, TypeOK
<1>16. CASE DeleteExpired
  BY <1>0, <1>16, NoRowType DEF DeleteExpired, callVars, renewVars, TypeOK
<1>17. CASE Tick
  <2>1. row' \in Rows
    <3>1. row.lock \in -MaxDelay..Lease /\ row.ttl \in 0..Ttl
      BY DEF TypeOK, Rows
    <3>2. PICK lk \in -MaxDelay..Lease, ttl \in 0..Ttl :
            row' = [row EXCEPT !.lock = lk, !.ttl = ttl]
      <4>1. (IF row.lock > -MaxDelay THEN row.lock - 1 ELSE row.lock) \in -MaxDelay..Lease
        BY <3>1
      <4>2. (IF row.ttl > 0 THEN row.ttl - 1 ELSE row.ttl) \in 0..Ttl
        BY <3>1
      <4> QED
        BY <1>0, <1>17, <4>1, <4>2 DEF Tick
    <3> QED
      BY <3>2, RowType DEF TypeOK, Rows
  <2>2. age' \in [Ops -> 0..MaxDelay]
    BY <1>0, <1>17 DEF Tick, InCall, TypeOK
  <2>4. held' \in [Ops -> Nat] /\ fails' \in [Ops -> 0..MaxFails]
    BY <1>0, <1>17 DEF Tick, TypeOK
  <2>3. since' \in [Ops -> 0..Interval]
    BY <1>0, <1>17 DEF Tick, TypeOK
  <2> QED
    BY <1>0, <1>17, <2>1, <2>2, <2>3, <2>4 DEF Tick, TypeOK
<1>18. CASE UNCHANGED vars
  BY <1>0, <1>18 DEF vars, callVars, renewVars, TypeOK
<1> QED
  BY <1>1, <1>2, <1>3, <1>4, <1>5, <1>6, <1>8, <1>9, <1>10, <1>11, <1>12, <1>13,
     <1>14, <1>15, <1>16, <1>17, <1>18 DEF Next, Acquire, Release, renewLoop

-----------------------------------------------------------------------------
\* The lease of a running operation lasts for its Release and longer.
LEMMA RenewedLasts ==
  ASSUME LockInv, NEW o \in Ops, Renewing(o), phase[o] = "running"
  PROVE  row.lock >= Floor
<1>1. /\ row.lock \in Int /\ since[o] \in 0..Interval /\ age[o] \in 0..MaxDelay
      /\ fails[o] \in 0..MaxFails
  BY Durations DEF LockInv, TypeOK, Rows
<1>2. Missed(o) \in Nat /\ Missed(o) + Interval <= (MaxFails + 1) * Interval
  BY <1>1, MissedBound DEF Missed
<1>3. (MaxFails + 1) * Interval \in Nat
  BY Durations
<1>4. /\ LeaseOn(o) /\ LeaseFiring(o) /\ LeaseReleasing(o) /\ LoopRuns(o)
      /\ renew[o] \in {"on", "firing", "off"}
  BY DEF LockInv, CallInv, TypeOK
<1>5. CASE renew[o] = "on"
  <2>1. row.lock >= Lease - MaxDelay - Missed(o) - since[o]
    BY <1>4, <1>5 DEF LeaseOn
  <2> QED
    BY <1>1, <1>2, <1>3, <2>1, Durations DEF Floor
<1>6. CASE renew[o] = "firing"
  <2>1. /\ row.lock >= Lease - MaxDelay - Missed(o) - Interval - since[o]
        /\ since[o] <= MaxDelay
    BY <1>4, <1>6 DEF LeaseFiring, LoopRuns
  <2> QED
    BY <1>1, <1>2, <1>3, <2>1, Durations DEF Floor
<1> QED
  BY <1>4, <1>5, <1>6 DEF LoopRuns

\* Nobody holds a row that is not there, or not locked.
LEMMA HolderIsLive ==
  ASSUME LockInv, NEW o \in Ops, Holder(o)
  PROVE  row.id # 0 /\ row.lock > 0
BY DEF LockInv, CallInv, HoldsRow

\* A step that changes nothing of a call, nor the row, keeps its invariant.
LEMMA Unaffected ==
  ASSUME NEW p \in Ops, CallInv(p), row' = row, phase'[p] = phase[p],
         age'[p] = age[p], held'[p] = held[p], renew'[p] = renew[p],
         since'[p] = since[p], fails'[p] = fails[p]
  PROVE  CallInv(p)'
<1>1. (HoldsRow(p) <=> HoldsRow(p)') /\ (LoopRuns(p) <=> LoopRuns(p)')
  BY DEF HoldsRow, Holder, LoopRuns, Renewing
<1>2. LeaseOn(p) <=> LeaseOn(p)'
  BY DEF LeaseOn, Missed, Renewing
<1>3. LeaseFiring(p) <=> LeaseFiring(p)'
  BY DEF LeaseFiring, Missed, Renewing
<1>4. LeaseReleasing(p) <=> LeaseReleasing(p)'
  BY DEF LeaseReleasing, Floor, Renewing
<1> QED
  BY <1>1, <1>2, <1>3, <1>4 DEF CallInv

\* Nothing is asked of the row for a call that does not hold it.
LEMMA NotHolding ==
  ASSUME NEW p \in Ops, LoopRuns(p)', ~Holder(p)'
  PROVE  CallInv(p)'
BY DEF CallInv, HoldsRow, LeaseOn, LeaseFiring, LeaseReleasing, Holder

\* The other calls are as they were.
OthersKept(o) ==
  \A p \in Ops \ {o} :
    /\ phase'[p] = phase[p] /\ age'[p] = age[p] /\ held'[p] = held[p]
    /\ renew'[p] = renew[p] /\ since'[p] = since[p] /\ fails'[p] = fails[p]

\* A step of one call that does not write the row.
LEMMA OwnStep ==
  ASSUME LockInv, TypeOK', row' = row, NEW o \in Ops, OthersKept(o),
         CallInv(o)', Holder(o)' => Holder(o)
  PROVE  LockInv'
<1>1. \A p \in Ops : CallInv(p)'
  BY Unaffected DEF LockInv, OthersKept
<1>2. \A p \in Ops : Holder(p)' => Holder(p)
  BY DEF OthersKept, Holder
<1>3. OneHolder'
  BY <1>2 DEF LockInv, OneHolder
<1>4. RowInv'
  BY DEF LockInv, RowInv
<1> QED
  BY <1>1, <1>3, <1>4 DEF LockInv

\* A call that acquires the lock while nobody holds it.
LEMMA Acquired ==
  ASSUME LockInv, TypeOK', NEW o \in Ops, OthersKept(o),
         \A p \in Ops : ~Holder(p),
         phase'[o] = "running", renew'[o] = "on", since'[o] = 0, fails'[o] = 0,
         row'.id = held'[o], row'.id # 0, row'.status = "processing",
         row'.lock = Lease - age[o], row'.ttl = Ttl - age[o]
  PROVE  LockInv'
<1>1. age[o] \in 0..MaxDelay
  BY DEF LockInv, TypeOK
<1>2. RowInv'
  BY <1>1, Durations DEF RowInv
<1>3. ASSUME NEW p \in Ops, p # o PROVE ~Holder(p)' /\ CallInv(p)'
  <2>1. ~Holder(p)'
    BY <1>3 DEF OthersKept, Holder
  <2>2. LoopRuns(p) => LoopRuns(p)'
    BY <1>3, <2>1 DEF OthersKept, LoopRuns, Holder
  <2> QED
    BY <2>1, <2>2, NotHolding DEF LockInv, CallInv
<1>4. HoldsRow(o)'
  BY <1>1, Durations DEF HoldsRow
<1>5. LeaseOn(o)'
  <2>1. Missed(o)' = 0
    BY MissedBound, Durations DEF Missed
  <2> QED
    BY <1>1, <2>1, Durations DEF LeaseOn
<1>6. LeaseFiring(o)' /\ LeaseReleasing(o)' /\ LoopRuns(o)'
  BY DEF LeaseFiring, LeaseReleasing, LoopRuns
<1>7. CallInv(o)'
  BY <1>4, <1>5, <1>6 DEF CallInv
<1>8. OneHolder'
  BY <1>3 DEF OneHolder
<1> QED
  BY <1>2, <1>3, <1>7, <1>8 DEF LockInv

LEMMA LockInit == Init => LockInv
<1> SUFFICES ASSUME Init PROVE LockInv
  OBVIOUS
<1>1. \A o \in Ops : ~Holder(o) /\ LoopRuns(o)
  BY DEF Init, Holder, LoopRuns
<1>2. \A o \in Ops : CallInv(o)
  BY <1>1 DEF CallInv, HoldsRow, LeaseOn, LeaseFiring, LeaseReleasing, Holder
<1>3. RowInv
  BY Durations DEF Init, RowInv, NoRow
<1> QED
  BY <1>1, <1>2, <1>3, TypeInit DEF LockInv, OneHolder

LEMMA LockNext == LockInv /\ ~outlived' /\ [Next]_vars => LockInv'
<1> SUFFICES ASSUME LockInv, ~outlived', [Next]_vars PROVE LockInv'
  OBVIOUS
<1>t. TypeOK /\ TypeOK'
  BY TypeNext DEF LockInv
<1>c. \A o \in Ops : CallInv(o)
  BY DEF LockInv
<1>1. ASSUME NEW o \in Ops, Start(o) PROVE LockInv'
  <2>1. OthersKept(o) /\ row' = row /\ ~Holder(o)' /\ LoopRuns(o)'
    BY <1>1, <1>t, <1>c
       DEF Start, Goto, Pass, renewVars, OthersKept, Holder, TypeOK, CallInv, LoopRuns
  <2> QED
    BY <1>t, <2>1, NotHolding, OwnStep
<1>2. ASSUME NEW o \in Ops, CreateProcessing(o) PROVE LockInv'
  <2>1. CASE row.id = 0
    <3>1. \A p \in Ops : ~Holder(p)
      BY <1>c, <2>1 DEF CallInv, HoldsRow
    <3>2. /\ OthersKept(o) /\ phase'[o] = "running" /\ renew'[o] = "on"
          /\ since'[o] = 0 /\ fails'[o] = 0 /\ held'[o] = nextId
      BY <1>2, <1>t, <2>1 DEF CreateProcessing, Created, Enter, Goto, Pass, OthersKept, TypeOK
    <3>3. /\ row'.id = nextId /\ row'.status = "processing"
          /\ row'.lock = Lease - age[o] /\ row'.ttl = Ttl - age[o] /\ nextId # 0
      BY <1>2, <1>t, <2>1 DEF CreateProcessing, Created, TypeOK
    <3> QED
      BY <1>t, <3>1, <3>2, <3>3, Acquired
  <2>2. CASE row.id # 0
    <3>1. OthersKept(o) /\ row' = row /\ ~Holder(o)' /\ LoopRuns(o)'
      BY <1>2, <1>t, <1>c, <2>2
         DEF CreateProcessing, Created, Goto, Pass, renewVars, OthersKept, Holder, TypeOK, CallInv,
             LoopRuns
    <3> QED
      BY <1>t, <3>1, NotHolding, OwnStep
  <2> QED
    BY <2>1, <2>2
<1>3. ASSUME NEW o \in Ops, GetExisting(o) PROVE LockInv'
  <2>1. OthersKept(o) /\ row' = row /\ ~Holder(o)'
    BY <1>3, <1>t DEF GetExisting, Goto, Pass, renewVars, OthersKept, Holder, TypeOK
  <2>2. LoopRuns(o)'
    BY <1>3, <1>t, <1>c DEF GetExisting, Goto, Pass, renewVars, TypeOK, CallInv, LoopRuns
  <2> QED
    BY <1>t, <2>1, <2>2, NotHolding, OwnStep
<1>4. ASSUME NEW o \in Ops, TryReclaim(o) PROVE LockInv'
  <2>1. CASE Reclaimable(row, held[o], from[o], -age[o])
    <3>1. /\ row.lock \in Int /\ age[o] \in 0..MaxDelay /\ row.lock <= -age[o]
          /\ row.id = held[o] /\ held[o] # 0
      BY <1>4, <1>t, <1>c, <2>1, Durations
         DEF TryReclaim, Reclaimed, Reclaimable, TypeOK, Rows, CallInv, LoopRuns
    <3>2. ~(row.lock > 0)
      BY <3>1, Durations
    <3>3. \A p \in Ops : ~Holder(p)
      BY <3>2, HolderIsLive
    <3>4. /\ OthersKept(o) /\ phase'[o] = "running" /\ renew'[o] = "on"
          /\ since'[o] = 0 /\ fails'[o] = 0 /\ held'[o] = held[o]
      BY <1>4, <1>t, <2>1 DEF TryReclaim, Reclaimed, Enter, Goto, Pass, OthersKept, TypeOK
    <3>5. /\ row'.id = row.id /\ row'.status = "processing"
          /\ row'.lock = Lease - age[o] /\ row'.ttl = Ttl - age[o]
      BY <1>4, <1>t, <2>1 DEF TryReclaim, Reclaimed, TypeOK, Rows
    <3> QED
      BY <1>t, <3>1, <3>3, <3>4, <3>5, Acquired
  <2>2. CASE ~Reclaimable(row, held[o], from[o], -age[o])
    <3>1. OthersKept(o) /\ row' = row /\ ~Holder(o)' /\ LoopRuns(o)'
      BY <1>4, <1>t, <1>c, <2>2
         DEF TryReclaim, Reclaimed, Goto, Pass, renewVars, OthersKept, Holder, TypeOK, CallInv,
             LoopRuns
    <3> QED
      BY <1>t, <3>1, NotHolding, OwnStep
  <2> QED
    BY <2>1, <2>2
<1>5. ASSUME NEW o \in Ops, StoreError(o) PROVE LockInv'
  <2>1. OthersKept(o) /\ row' = row /\ ~Holder(o)' /\ LoopRuns(o)'
    BY <1>5, <1>t, <1>c
       DEF StoreError, Goto, Pass, renewVars, OthersKept, Holder, TypeOK, CallInv, LoopRuns
  <2> QED
    BY <1>t, <2>1, NotHolding, OwnStep
<1>6. ASSUME NEW o \in Ops, StopRenewal(o) PROVE LockInv'
  <2>1. OthersKept(o) /\ row' = row /\ Holder(o) /\ LoopRuns(o)'
    BY <1>6, <1>t, <1>c
       DEF StopRenewal, Running, Goto, Pass, renewVars, OthersKept, Holder, TypeOK, CallInv, LoopRuns
  <2>2. HoldsRow(o)'
    BY <1>6, <1>t, <1>c, <2>1 DEF StopRenewal, HoldsRow, CallInv
  <2>3. LeaseOn(o)' /\ LeaseFiring(o)'
    BY <1>6, <1>t DEF StopRenewal, Goto, Pass, LeaseOn, LeaseFiring, TypeOK
  <2>4. LeaseReleasing(o)'
    <3>1. Renewing(o) => row.lock >= Floor
      BY <1>6, RenewedLasts DEF StopRenewal, Running
    <3>2. age'[o] = 0
      BY <1>6, <1>t DEF StopRenewal, Pass, TypeOK
    <3>3. Renewing(o)' => row'.lock >= Floor' - age'[o]
      BY <2>1, <3>1, <3>2, Durations DEF Floor, Renewing
    <3> QED
      BY <3>3 DEF LeaseReleasing
  <2> QED
    BY <1>t, <2>1, <2>2, <2>3, <2>4, OwnStep DEF CallInv
<1>7. ASSUME NEW o \in Ops, NEW st, NEW lk \in -MaxDelay..0, Mark(o, st, lk)
      PROVE  LockInv'
  <2>1. /\ OthersKept(o) /\ ~Holder(o)' /\ LoopRuns(o)' /\ Holder(o)
        /\ row.id = held[o]
    BY <1>7, <1>t, <1>c
       DEF Mark, Marked, Goto, Pass, renewVars, OthersKept, Holder, TypeOK, CallInv, LoopRuns, HoldsRow
  <2>2. ASSUME NEW p \in Ops PROVE ~Holder(p)' /\ CallInv(p)'
    <3>1. CASE p = o
      BY <2>1, <3>1, NotHolding
    <3>2. CASE p # o
      <4>1. ~Holder(p)
        BY <2>1, <3>2 DEF LockInv, OneHolder
      <4>2. ~Holder(p)' /\ (LoopRuns(p) => LoopRuns(p)')
        BY <2>1, <3>2, <4>1 DEF OthersKept, Holder, LoopRuns
      <4> QED
        BY <1>c, <4>2, NotHolding DEF CallInv
    <3> QED
      BY <3>1, <3>2
  <2>3. RowInv'
    <3>1. age[o] \in 0..MaxDelay
      BY <1>t DEF TypeOK
    <3>2. row'.lock = lk /\ row'.ttl = Ttl - age[o] /\ row'.id = row.id /\ row'.fp = row.fp
      BY <1>7, <1>t, <2>1 DEF Mark, Marked, TypeOK, Rows
    <3> QED
      BY <3>1, <3>2, Durations DEF RowInv, LockInv
  <2> QED
    BY <1>t, <2>2, <2>3 DEF LockInv, OneHolder
<1>8. ASSUME NEW o \in Ops, MarkSucceeded(o) PROVE LockInv'
  <2>1. -MaxDelay \in -MaxDelay..0
    BY Durations
  <2> QED
    BY <1>7, <1>8, <2>1 DEF MarkSucceeded
<1>9. ASSUME NEW o \in Ops, MarkFailedRetryable(o) PROVE LockInv'
  <2>1. -age[o] \in -MaxDelay..0
    BY <1>t, Durations DEF TypeOK
  <2> QED
    BY <1>7, <1>9, <2>1 DEF MarkFailedRetryable
<1>10. ASSUME NEW o \in Ops, MarkFails(o) PROVE LockInv'
  <2>1. OthersKept(o) /\ row' = row /\ ~Holder(o)' /\ LoopRuns(o)'
    BY <1>10, <1>t, <1>c
       DEF MarkFails, Goto, Pass, renewVars, OthersKept, Holder, TypeOK, CallInv, LoopRuns
  <2> QED
    BY <1>t, <2>1, NotHolding, OwnStep
<1>11. ASSUME NEW o \in Ops, RenewFires(o) PROVE LockInv'
  <2>1. /\ OthersKept(o) /\ row' = row /\ phase' = phase /\ held' = held /\ age' = age
        /\ fails' = fails /\ since'[o] = 0 /\ renew'[o] = "firing"
        /\ renew[o] = "on" /\ since[o] = Interval
    BY <1>11, <1>t DEF RenewFires, callVars, OthersKept, TypeOK
  <2>2. HoldsRow(o)' /\ (Holder(o)' => Holder(o))
    BY <1>c, <2>1 DEF HoldsRow, Holder, CallInv
  <2>3. LoopRuns(o)'
    BY <1>c, <2>1, Durations DEF LoopRuns, CallInv, Renewing
  <2>4. LeaseOn(o)' /\ LeaseReleasing(o)'
    BY <1>c, <2>1 DEF LeaseOn, LeaseReleasing, CallInv, Floor, Renewing
  <2>5. LeaseFiring(o)'
    <3>1. Missed(o)' = Missed(o) /\ Missed(o) \in Nat
      BY <1>t, <2>1, MissedBound DEF Missed, TypeOK
    <3>2. Renewing(o) /\ phase[o] = "running" => row.lock >= Lease - MaxDelay - Missed(o) - Interval
      BY <1>c, <2>1 DEF CallInv, LeaseOn
    <3> QED
      BY <2>1, <3>1, <3>2, Durations DEF LeaseFiring, Renewing
  <2> QED
    BY <1>t, <2>1, <2>2, <2>3, <2>4, <2>5, OwnStep DEF CallInv
<1>12. ASSUME NEW o \in Ops, ExtendProcessingLock(o) PROVE LockInv'
  <2>0. /\ phase' = phase /\ held' = held /\ age' = age
        /\ fails'[o] = 0 /\ renew[o] = "firing" /\ OthersKept(o)
        /\ since[o] \in 0..MaxDelay
    BY <1>12, <1>t, <1>c, Durations
       DEF ExtendProcessingLock, LoopEnds, callVars, OthersKept, TypeOK, CallInv, LoopRuns
  <2>1. CASE Extendable(row, held[o], OpId[o])
    <3>e. /\ row' = [row EXCEPT !.lock = Lease - since[o], !.ttl = Ttl - since[o]]
          /\ renew' = [renew EXCEPT ![o] = "on"] /\ since' = since
      BY <1>12, <2>1 DEF ExtendProcessingLock, Extended
    <3>1. /\ row'.lock = Lease - since[o] /\ row'.ttl = Ttl - since[o]
          /\ row'.id = row.id /\ row'.fp = row.fp /\ row'.status = row.status
          /\ renew'[o] = "on" /\ since' = since
      BY <1>t, <3>e DEF TypeOK, Rows
    <3>2. RowInv'
      BY <2>0, <3>1, Durations DEF LockInv, RowInv
    <3>3. ASSUME NEW p \in Ops PROVE (Holder(p)' <=> Holder(p)) /\ CallInv(p)'
      <4>1. (Holder(p)' <=> Holder(p)) /\ HoldsRow(p)'
        BY <1>c, <2>0, <3>1, Durations DEF CallInv, Holder, HoldsRow
      <4>2. LoopRuns(p)'
        BY <1>c, <2>0, <3>1 DEF CallInv, LoopRuns, OthersKept, Renewing
      <4>3. Missed(p)' \in Nat /\ since'[p] \in Nat /\ age'[p] \in Nat
        BY <1>t, MissedBound, Durations DEF TypeOK, Missed
      <4>4. row'.lock >= Lease - MaxDelay
        BY <2>0, <3>1, Durations
      <4>5. LeaseOn(p)' /\ LeaseFiring(p)'
        BY <2>0, <3>1, <4>3, <4>4, Durations DEF LeaseOn, LeaseFiring
      <4>6. LeaseReleasing(p)'
        BY <2>0, <3>1, <4>3, <4>4, Durations DEF LeaseReleasing, Floor
      <4> QED
        BY <1>c, <4>1, <4>2, <4>5, <4>6 DEF CallInv
    <3> QED
      BY <1>t, <3>2, <3>3 DEF LockInv, OneHolder
  <2>2. CASE ~Extendable(row, held[o], OpId[o])
    <3>1. row' = row /\ renew'[o] = "off"
      BY <1>12, <1>t, <2>2 DEF ExtendProcessingLock, LoopEnds, TypeOK
    <3>2. ~(Renewing(o) /\ phase[o] = "running")
      BY <1>c, <2>0, <2>2 DEF CallInv, HoldsRow, Holder, Renewing, Extendable
    <3>3. HoldsRow(o)' /\ (Holder(o)' => Holder(o)) /\ LoopRuns(o)'
      BY <1>c, <2>0, <3>1, <3>2 DEF HoldsRow, Holder, CallInv, LoopRuns, Renewing
    <3>4. LeaseOn(o)' /\ LeaseFiring(o)' /\ LeaseReleasing(o)'
      BY <1>c, <2>0, <3>1, <3>2
         DEF LeaseOn, LeaseFiring, LeaseReleasing, CallInv, Floor, Renewing
    <3> QED
      BY <1>t, <2>0, <3>1, <3>3, <3>4, OwnStep DEF CallInv
  <2> QED
    BY <2>1, <2>2
<1>13. ASSUME NEW o \in Ops, RenewFails(o) PROVE LockInv'
  <2>0. /\ phase' = phase /\ held' = held /\ age' = age /\ since' = since /\ row' = row
        /\ renew[o] = "firing" /\ renew'[o] = "on" /\ OthersKept(o)
        /\ phase[o] = "running" => fails[o] < MaxFails /\ fails'[o] = fails[o] + 1
    BY <1>13, <1>t DEF RenewFails, Running, callVars, OthersKept, TypeOK
  <2>1. HoldsRow(o)' /\ (Holder(o)' => Holder(o)) /\ LoopRuns(o)'
    BY <1>c, <2>0 DEF HoldsRow, Holder, CallInv, LoopRuns, Renewing
  <2>2. LeaseFiring(o)' /\ LeaseReleasing(o)'
    BY <1>c, <2>0 DEF LeaseFiring, LeaseReleasing, CallInv, Floor, Renewing
  <2>3. LeaseOn(o)'
    <3> SUFFICES ASSUME Renewing(o), phase[o] = "running"
                 PROVE  row.lock >= Lease - MaxDelay - Missed(o)' - since[o]
      BY <2>0 DEF LeaseOn, Renewing
    <3>1. Missed(o)' = Missed(o) + Interval /\ Missed(o) \in Nat
      BY <1>t, <2>0, MissedBound DEF Missed, TypeOK
    <3>2. row.lock >= Lease - MaxDelay - Missed(o) - Interval - since[o]
      BY <1>c, <2>0 DEF CallInv, LeaseFiring
    <3>3. since[o] \in Nat /\ row.lock \in Int
      BY <1>t, Durations DEF TypeOK, Rows
    <3> QED
      BY <3>1, <3>2, <3>3, Durations
  <2> QED
    BY <1>t, <2>0, <2>1, <2>2, <2>3, OwnStep DEF CallInv
<1>14. ASSUME NEW o \in Ops, RenewStops(o) PROVE LockInv'
  <2>0. /\ phase' = phase /\ held' = held /\ age' = age /\ row' = row
        /\ renew'[o] = "off" /\ OthersKept(o) /\ phase[o] # "running"
    BY <1>14, <1>t DEF RenewStops, LoopEnds, callVars, OthersKept, TypeOK
  <2>1. HoldsRow(o)' /\ (Holder(o)' => Holder(o)) /\ LoopRuns(o)'
    BY <1>c, <2>0 DEF HoldsRow, Holder, CallInv, LoopRuns, Renewing
  <2>2. LeaseOn(o)' /\ LeaseFiring(o)' /\ LeaseReleasing(o)'
    BY <1>c, <2>0 DEF LeaseOn, LeaseFiring, LeaseReleasing, CallInv, Floor, Renewing
  <2> QED
    BY <1>t, <2>0, <2>1, <2>2, OwnStep DEF CallInv
<1>15. ASSUME NEW o \in Ops, Crash(o) PROVE LockInv'
  <2>1. OthersKept(o) /\ row' = row /\ ~Holder(o)' /\ LoopRuns(o)'
    BY <1>15, <1>t DEF Crash, LoopEnds, Goto, Pass, OthersKept, Holder, TypeOK, LoopRuns
  <2> QED
    BY <1>t, <2>1, NotHolding, OwnStep
<1>16. CASE DeleteExpired
  <2>1. ~(row.lock > 0)
    BY <1>16, <1>t, Durations DEF DeleteExpired, Expired, LockInv, RowInv, TypeOK, Rows
  <2>2. \A p \in Ops : ~Holder(p)
    BY <2>1, HolderIsLive
  <2>3. ASSUME NEW p \in Ops PROVE ~Holder(p)' /\ CallInv(p)'
    <3>1. ~Holder(p)' /\ (LoopRuns(p) => LoopRuns(p)')
      BY <1>16, <2>2 DEF DeleteExpired, callVars, renewVars, Holder, LoopRuns
    <3> QED
      BY <1>c, <3>1, NotHolding DEF CallInv
  <2>4. RowInv'
    BY <1>16, Durations DEF DeleteExpired, RowInv, NoRow
  <2> QED
    BY <1>t, <2>3, <2>4 DEF LockInv, OneHolder
<1>17. CASE Tick
  <2>0. /\ phase' = phase /\ renew' = renew
        /\ row'.id = row.id /\ row'.fp = row.fp /\ row'.status = row.status
    BY <1>17, <1>t DEF Tick, TypeOK, Rows
  <2>1. /\ row.lock \in Int /\ row.ttl \in Nat /\ row'.lock \in Int
        /\ row'.lock >= row.lock - 1
        /\ row'.lock = IF row.lock > -MaxDelay THEN row.lock - 1 ELSE row.lock
        /\ row'.ttl = IF row.ttl > 0 THEN row.ttl - 1 ELSE row.ttl
    BY <1>17, <1>t, Durations DEF Tick, TypeOK, Rows
  <2>2. RowInv'
    <3>1. row'.lock <= row'.ttl
      BY <2>1, <1>t, Durations DEF LockInv, RowInv
    <3> QED
      BY <2>0, <3>1 DEF LockInv, RowInv
  <2>3. ASSUME NEW p \in Ops PROVE (Holder(p)' <=> Holder(p)) /\ CallInv(p)'
    <3>k. phase[p] # "done" => held'[p] = held[p] /\ fails'[p] = fails[p]
      BY <1>17, <1>t DEF Tick, TypeOK
    <3>1. (Holder(p)' <=> Holder(p)) /\ HoldsRow(p)'
      <4>1. Holder(p) => row.lock > 1
        <5>1. CASE Renewing(p) /\ phase[p] = "running"
          <6>1. Missed(p) \in Nat /\ Missed(p) + Interval <= (MaxFails + 1) * Interval
            BY <1>t, MissedBound DEF Missed, TypeOK
          <6>2. (MaxFails + 1) * Interval \in Nat /\ since[p] \in Nat
            BY <1>t, Durations DEF TypeOK
          <6>3. LeaseOn(p) /\ LeaseFiring(p) /\ LoopRuns(p) /\ renew[p] \in {"on", "firing", "off"}
            BY <1>t, <1>c DEF CallInv, TypeOK
          <6>4. /\ renew[p] = "on" => since[p] < Interval
                /\ renew[p] = "firing" => since[p] < MaxDelay
            BY <1>17 DEF Tick
          <6>5. CASE renew[p] = "on"
            BY <2>1, <5>1, <6>1, <6>2, <6>3, <6>4, <6>5, Durations DEF LeaseOn, Floor
          <6>6. CASE renew[p] = "firing"
            BY <2>1, <5>1, <6>1, <6>2, <6>3, <6>4, <6>6, Durations DEF LeaseFiring, Floor
          <6> QED
            BY <5>1, <6>3, <6>5, <6>6 DEF LoopRuns
        <5>2. CASE Renewing(p) /\ phase[p] = "releasing"
          <6>1. row.lock >= Floor - age[p] /\ age[p] < MaxDelay /\ age[p] \in Nat
            BY <1>17, <1>t, <1>c, <5>2, Durations
               DEF CallInv, LeaseReleasing, Tick, InCall, TypeOK
          <6> QED
            BY <2>1, <6>1, Durations
        <5>3. CASE ~Renewing(p)
          <6>1. ~(Holder(p) /\ row.fp # OpId[p] /\ row.lock <= 1)
            BY <1>17, Zenon DEF Tick
          <6> QED
            BY <2>1, <5>3, <6>1 DEF Renewing
        <5> QED
          BY <5>1, <5>2, <5>3 DEF Holder
      <4> QED
        BY <1>c, <2>0, <2>1, <3>k, <4>1 DEF Holder, HoldsRow, CallInv
    <3>2. /\ renew[p] # "off" => since'[p] = since[p] + 1
          /\ renew[p] = "firing" => since[p] < MaxDelay
          /\ phase[p] = "releasing" => age'[p] = age[p] + 1
          /\ since[p] \in Nat /\ age[p] \in Nat
      BY <1>17, <1>t, Durations DEF Tick, InCall, TypeOK
    <3>3. LoopRuns(p)'
      BY <1>c, <2>0, <3>k, <3>2, Durations DEF CallInv, LoopRuns, Renewing
    <3>4. Missed(p) \in Nat /\ (phase[p] = "running" => Missed(p)' = Missed(p))
      BY <1>t, <3>k, MissedBound DEF Missed, TypeOK
    <3>5. LeaseOn(p)'
      BY <1>c, <2>0, <2>1, <3>2, <3>4, Durations DEF CallInv, LeaseOn, Renewing
    <3>6. LeaseFiring(p)'
      BY <1>c, <2>0, <2>1, <3>2, <3>4, Durations DEF CallInv, LeaseFiring, Renewing
    <3>7. LeaseReleasing(p)'
      <4>1. Floor' = Floor
        BY DEF Floor
      <4> QED
        BY <1>c, <2>0, <2>1, <3>2, <4>1, Durations DEF CallInv, LeaseReleasing, Renewing
    <3> QED
      BY <1>c, <3>1, <3>3, <3>5, <3>6, <3>7 DEF CallInv
  <2> QED
    BY <1>t, <2>2, <2>3 DEF LockInv, OneHolder
<1>18. CASE UNCHANGED vars
  <2>1. \A p \in Ops : CallInv(p)' /\ (Holder(p)' <=> Holder(p))
    BY <1>18, <1>c, Unaffected DEF vars, callVars, renewVars, Holder
  <2>2. RowInv'
    BY <1>18 DEF vars, LockInv, RowInv
  <2> QED
    BY <1>t, <2>1, <2>2 DEF LockInv, OneHolder
<1> QED
  BY <1>1, <1>2, <1>3, <1>4, <1>5, <1>6, <1>8, <1>9, <1>10, <1>11, <1>12, <1>13,
     <1>14, <1>15, <1>16, <1>17, <1>18 DEF Next, Acquire, Release, renewLoop

-----------------------------------------------------------------------------
\* The lock's state keeps its type.
THEOREM LockTypeCorrect == Spec => []TypeOK
BY TypeInit, TypeNext, PTL DEF Spec

\* Once a lease has ended under such a holder, it has.
LEMMA OutlivedStays ==
  ASSUME TypeOK, [Next]_vars, outlived PROVE outlived'
BY DEF TypeOK, Next, vars, Acquire, Release, renewLoop, Start, CreateProcessing,
       GetExisting, TryReclaim, StoreError, StopRenewal, MarkSucceeded,
       MarkFailedRetryable, Mark, MarkFails, RenewFires, ExtendProcessingLock,
       RenewFails, RenewStops, Crash, DeleteExpired, Tick

LEMMA LockInvariant == Spec => [](~outlived => LockInv)
<1>1. Init => TypeOK /\ (~outlived => LockInv)
  BY LockInit, TypeInit
<1>2. TypeOK /\ (~outlived => LockInv) /\ [Next]_vars => (~outlived => LockInv)'
  BY LockNext, OutlivedStays
<1> QED
  BY <1>1, <1>2, LockTypeCorrect, PTL DEF Spec

LEMMA LockInvImplies == (~outlived => LockInv) => HeldLockIsLive /\ OneOperationAtATime
<1> SUFFICES ASSUME ~outlived, LockInv PROVE HeldLockIsLive /\ OneOperationAtATime
  BY DEF HeldLockIsLive, OneOperationAtATime
<1>1. ASSUME NEW o \in Ops, Holder(o) PROVE row.ttl > 0
  <2>1. row.lock > 0
    BY <1>1, HolderIsLive
  <2> QED
    BY <2>1, Durations DEF LockInv, RowInv, TypeOK, Rows
<1>2. HeldLockIsLive
  BY <1>1 DEF LockInv, CallInv, HoldsRow, HeldLockIsLive
<1>3. OneOperationAtATime
  BY DEF LockInv, OneHolder, OneOperationAtATime, NoTwoOperations, Holder, Running
<1> QED
  BY <1>2, <1>3

\* Until a lease ends under an operation whose row bears another's id, the row
\* of every operation stays locked until Release has marked it: with at most
\* MaxFails failed renewals in a row, and calls that take at most MaxDelay.
THEOREM HeldLockStaysLive == Spec => []HeldLockIsLive
BY LockInvariant, LockInvImplies, PTL

\* Until then no two system operations, of any ids, run at the same time.
THEOREM SystemOperationsExclude == Spec => []OneOperationAtATime
BY LockInvariant, LockInvImplies, PTL

(***************************************************************************)
(* OAuthRefresh                                                            *)
(*                                                                         *)
(* For any number of background workers, requests and replicas and any     *)
(* bounds.  The books: which credentials were issued, who has read which,  *)
(* and that each is used up once, when it is due (Numbers, Drawn, Issued). *)
(* The safety: while the lock lasts, one worker is between the second read *)
(* and the release (Exclusive), so the token it presents is the stored one *)
(* and whoever bars the account has seen a token rejected that nobody will *)
(* replace (Rejected, Sound).  A request's version tells whether its       *)
(* account is the stored one (Roles).                                      *)
(***************************************************************************)

\* A worker, with what it has read not yet bounded.
WorkerRec == [pc : Pcs, then : Pcs, acct : Nat, aver : Nat, used : Nat, got : Nat,
              held : BOOLEAN]
AdminPcs == {"idle", "update", "clear", "invalidate"}

\* The types but for the numbers of credentials and versions.
Shapes ==
  /\ platform \in Platforms /\ status \in {"active", "error"}
  /\ lock \in BOOLEAN /\ local \in [Replicas -> Workers \cup {"none"}]
  /\ wk \in [Workers -> WorkerRec]
  /\ adm \in [pc : AdminPcs, aver : Nat]
  /\ faults \in 0..MaxFaults /\ seen \subseteq Kinds /\ late \in BOOLEAN

\* The credentials whose refresh token was used, and the workers that hold the
\* successor of one.
Dead == (1..made) \ live
Persisting == {w \in Workers : wk[w].pc = "persist"}
Pending == IF adm.pc = "update" THEN 1 ELSE 0

\* Between the second read and the update; and from the lock to its release.
Using == {"refresh", "recover", "persist"}
Inside == Using \cup {"reread", "durable"}

\* Whatever anybody has read was issued, and a token that is presented was due.
Numbers ==
  /\ made \in Nat /\ clock \in Nat /\ reauths \in 0..MaxReauths
  /\ live \subseteq 1..made /\ due \subseteq 1..made /\ cred \in 1..made
  /\ ver \in 0..clock /\ adm.aver \in 0..clock /\ cache \in 0..made
  /\ \A w \in Workers :
       /\ wk[w].acct \in 0..made /\ wk[w].used \in 0..made /\ wk[w].got \in 0..made
       /\ wk[w].aver \in 0..clock
       /\ wk[w].pc \in Using => wk[w].used \in due

\* A credential is used up once, and only when due: that bounds the credentials
\* issued and the versions given.
Drawn ==
  /\ IsFiniteSet(due) /\ Cardinality(due) <= MaxDue /\ Dead \subseteq due
  /\ IsFiniteSet(Persisting)
  /\ clock + Cardinality(Persisting) <= Cardinality(Dead)
  /\ made + Pending <= 1 + Cardinality(Dead) + reauths
  /\ adm.pc # "idle" => reauths > 0

\* A credential that was issued and is not stored is nobody else's.
Issued ==
  \A w \in Workers : wk[w].pc = "persist" =>
    /\ wk[w].got \in live /\ wk[w].got # cred
    /\ \A u \in Workers :
         /\ wk[u].used # wk[w].got /\ wk[u].acct # wk[w].got
         /\ u # w /\ wk[u].pc = "persist" => wk[u].got # wk[w].got

\* The lock, as long as its lease lasts and Redis answers.
Exclusive ==
  /\ \A w \in Workers : wk[w].held => wk[w].pc \in Inside \cup {"release"}
  /\ seen \cap {"lapse", "redis"} = {} =>
       /\ \A w \in Workers : wk[w].held => lock
       /\ \A w \in Workers : wk[w].pc \in Inside => wk[w].held
       /\ \A u, w \in Workers : wk[u].held /\ wk[w].held => u = w

\* w is about to bar the account; c is used up and nobody has its successor.
Barring(w) == wk[w].pc = "seterror" \/ wk[w].then = "seterror"
Gone(c) == c \notin live /\ \A w \in Workers : wk[w].pc = "persist" => wk[w].used # c

\* Whoever is to bar the account has seen its credential rejected, and nobody
\* is about to replace it by one that is accepted.
Rejected ==
  /\ \A w \in Workers : wk[w].pc = "recover" => wk[w].used \notin live
  /\ seen \cap {"lapse", "redis", "denied"} = {} =>
       /\ \A w \in Workers : Barring(w) => Gone(wk[w].acct)
       /\ reauths = 0 => \A w \in Workers :
            /\ wk[w].pc \in Using => wk[w].used = cred
            /\ Barring(w) => wk[w].acct = cred
       /\ "clear" \notin seen /\ (platform = "grok" \/ reauths = 0) /\ status = "error"
            => Gone(cred) \/ adm.pc = "clear"

\* Without the faults that lose a token, none is rejected.
Sound ==
  seen \cap {"lapse", "redis", "db", "dropped", "denied", "crash"} = {} =>
    /\ status = "active"
    /\ \A w \in Workers : /\ wk[w].pc = "refresh" => wk[w].used \in live
                          /\ wk[w].pc # "recover" /\ ~Barring(w)

RequestPcs == {"asked", "cache", "check", "set", "wait", "end"}
Afterwards == {"idle", "local", "check", "wait", "end", "sync", "seterror"}

\* What only requests do, and how the version tells the credentials apart.
Roles ==
  /\ \A w \in Workers : /\ wk[w].then \in Afterwards
                        /\ wk[w].then # "idle" => wk[w].pc = "release"
  /\ \A w \in Background : wk[w].pc \notin RequestPcs /\ wk[w].then \notin RequestPcs
  /\ \A w \in Requests :
       /\ wk[w].acct = 0 => wk[w].pc \in {"asked", "end"}
       /\ wk[w].acct = cred => wk[w].aver = ver
       /\ reauths = 0 /\ wk[w].acct # 0 /\ wk[w].acct # cred => wk[w].aver < ver

\* The invariant: what was issued, read and drawn, and what follows from it.
Books == Shapes /\ Numbers /\ Drawn /\ Issued
Safety == Exclusive /\ Rejected /\ Sound /\ Roles /\ StoredIsLive /\ StaleTokenGoes
OAuthInd == Books /\ Safety

-----------------------------------------------------------------------------
\* A step of worker w and what it has afterwards.
Becomes(w, pc, then, acct, aver, used, got, mine) ==
  /\ \A u \in Workers : u # w => wk'[u] = wk[u]
  /\ wk' \in [Workers -> WorkerRec]
  /\ wk'[w].pc = pc /\ wk'[w].then = then /\ wk'[w].acct = acct /\ wk'[w].aver = aver
  /\ wk'[w].used = used /\ wk'[w].got = got /\ wk'[w].held = mine

\* The fields of w when its record is replaced by r.
LEMMA BecomesRecord ==
  ASSUME wk \in [Workers -> WorkerRec], NEW w \in Workers, NEW r \in WorkerRec,
         wk' = [wk EXCEPT ![w] = r]
  PROVE  Becomes(w, r.pc, r.then, r.acct, r.aver, r.used, r.got, r.held)
BY DEF Becomes

\* What MoveTo changes.
LEMMA MoveEffect ==
  ASSUME wk \in [Workers -> WorkerRec], NEW w \in Workers, NEW pc \in Pcs, MoveTo(w, pc)
  PROVE  Becomes(w, pc, wk[w].then, wk[w].acct, wk[w].aver, wk[w].used, wk[w].got, wk[w].held)
<1> DEFINE r == [wk[w] EXCEPT !.pc = pc]
<1>1. wk' = [wk EXCEPT ![w] = r] /\ wk[w] \in WorkerRec
  BY DEF MoveTo
<1>2. /\ r \in WorkerRec /\ r.pc = pc /\ r.then = wk[w].then /\ r.acct = wk[w].acct
      /\ r.aver = wk[w].aver /\ r.used = wk[w].used /\ r.got = wk[w].got /\ r.held = wk[w].held
  BY <1>1, Zenon DEF WorkerRec
<1> HIDE DEF r
<1> QED
  BY <1>1, <1>2, BecomesRecord

\* What Return changes.
LEMMA ReturnEffect ==
  ASSUME wk \in [Workers -> WorkerRec], NEW w \in Workers, NEW pc \in Pcs, Return(w, pc)
  PROVE  Becomes(w, "release", pc, wk[w].acct, wk[w].aver, wk[w].used, wk[w].got, wk[w].held)
<1> DEFINE r == [wk[w] EXCEPT !.pc = "release", !.then = pc]
<1>1. wk' = [wk EXCEPT ![w] = r] /\ wk[w] \in WorkerRec
  BY DEF Return
<1>2. /\ r \in WorkerRec /\ r.pc = "release" /\ r.then = pc /\ r.acct = wk[w].acct
      /\ r.aver = wk[w].aver /\ r.used = wk[w].used /\ r.got = wk[w].got /\ r.held = wk[w].held
  BY <1>1, Zenon DEF WorkerRec, Pcs
<1> HIDE DEF r
<1> QED
  BY <1>1, <1>2, BecomesRecord

\* A worker takes the account as it is stored and goes on.
LEMMA ReadEffect ==
  ASSUME wk \in [Workers -> WorkerRec], NEW w \in Workers, NEW pc \in Pcs,
         cred \in Nat, ver \in Nat,
         wk' = [wk EXCEPT ![w] = [Fresh(w) EXCEPT !.pc = pc]]
  PROVE  Becomes(w, pc, wk[w].then, cred, ver, wk[w].used, wk[w].got, wk[w].held)
<1> DEFINE r == [Fresh(w) EXCEPT !.pc = pc]
<1>1. wk[w] \in WorkerRec
  OBVIOUS
<1>2. /\ r \in WorkerRec /\ r.pc = pc /\ r.then = wk[w].then /\ r.acct = cred
      /\ r.aver = ver /\ r.used = wk[w].used /\ r.got = wk[w].got /\ r.held = wk[w].held
  BY <1>1, Zenon DEF WorkerRec, Fresh
<1> HIDE DEF r
<1> QED
  BY <1>2, BecomesRecord DEF r

\* A worker takes the account as it is stored and returns.
LEMMA ReadReturnEffect ==
  ASSUME wk \in [Workers -> WorkerRec], NEW w \in Workers, NEW pc \in Pcs,
         cred \in Nat, ver \in Nat,
         wk' = [wk EXCEPT ![w] = [Fresh(w) EXCEPT !.pc = "release", !.then = pc]]
  PROVE  Becomes(w, "release", pc, cred, ver, wk[w].used, wk[w].got, wk[w].held)
<1> DEFINE r == [Fresh(w) EXCEPT !.pc = "release", !.then = pc]
<1>1. wk[w] \in WorkerRec
  OBVIOUS
<1>2. /\ r \in WorkerRec /\ r.pc = "release" /\ r.then = pc /\ r.acct = cred
      /\ r.aver = ver /\ r.used = wk[w].used /\ r.got = wk[w].got /\ r.held = wk[w].held
  BY <1>1, Zenon DEF WorkerRec, Fresh, Pcs
<1> HIDE DEF r
<1> QED
  BY <1>2, BecomesRecord DEF r

\* A worker has the lock.
LEMMA AcquireEffect ==
  ASSUME wk \in [Workers -> WorkerRec], NEW w \in Workers,
         wk' = [wk EXCEPT ![w].pc = "reread", ![w].held = TRUE]
  PROVE  Becomes(w, "reread", wk[w].then, wk[w].acct, wk[w].aver, wk[w].used, wk[w].got, TRUE)
<1> DEFINE r == [wk[w] EXCEPT !.pc = "reread", !.held = TRUE]
<1>1. wk' = [wk EXCEPT ![w] = r] /\ wk[w] \in WorkerRec
  OBVIOUS
<1>2. /\ r \in WorkerRec /\ r.pc = "reread" /\ r.then = wk[w].then /\ r.acct = wk[w].acct
      /\ r.aver = wk[w].aver /\ r.used = wk[w].used /\ r.got = wk[w].got /\ r.held = TRUE
  BY <1>1, Zenon DEF WorkerRec, Pcs
<1> HIDE DEF r
<1>3. Becomes(w, r.pc, r.then, r.acct, r.aver, r.used, r.got, r.held)
  BY <1>1, <1>2, BecomesRecord, Zenon
<1> QED
  BY <1>2, <1>3, Zenon

\* A worker has read the refresh token that it will present.
LEMMA RereadEffect ==
  ASSUME wk \in [Workers -> WorkerRec], NEW w \in Workers, cred \in Nat,
         wk' = [wk EXCEPT ![w].pc = "refresh", ![w].used = cred]
  PROVE  Becomes(w, "refresh", wk[w].then, wk[w].acct, wk[w].aver, cred, wk[w].got, wk[w].held)
<1> DEFINE r == [wk[w] EXCEPT !.pc = "refresh", !.used = cred]
<1>1. wk' = [wk EXCEPT ![w] = r] /\ wk[w] \in WorkerRec
  OBVIOUS
<1>2. /\ r \in WorkerRec /\ r.pc = "refresh" /\ r.then = wk[w].then /\ r.acct = wk[w].acct
      /\ r.aver = wk[w].aver /\ r.used = cred /\ r.got = wk[w].got /\ r.held = wk[w].held
  BY <1>1, Zenon DEF WorkerRec, Pcs
<1> HIDE DEF r
<1>3. Becomes(w, r.pc, r.then, r.acct, r.aver, r.used, r.got, r.held)
  BY <1>1, <1>2, BecomesRecord, Zenon
<1> QED
  BY <1>2, <1>3, Zenon

\* A worker has the successor of its token.
LEMMA RotateEffect ==
  ASSUME wk \in [Workers -> WorkerRec], NEW w \in Workers, NEW n \in Nat,
         wk' = [wk EXCEPT ![w].pc = "persist", ![w].got = n]
  PROVE  Becomes(w, "persist", wk[w].then, wk[w].acct, wk[w].aver, wk[w].used, n, wk[w].held)
<1> DEFINE r == [wk[w] EXCEPT !.pc = "persist", !.got = n]
<1>1. wk' = [wk EXCEPT ![w] = r] /\ wk[w] \in WorkerRec
  OBVIOUS
<1>2. /\ r \in WorkerRec /\ r.pc = "persist" /\ r.then = wk[w].then /\ r.acct = wk[w].acct
      /\ r.aver = wk[w].aver /\ r.used = wk[w].used /\ r.got = n /\ r.held = wk[w].held
  BY <1>1, Zenon DEF WorkerRec, Pcs
<1> HIDE DEF r
<1>3. Becomes(w, r.pc, r.then, r.acct, r.aver, r.used, r.got, r.held)
  BY <1>1, <1>2, BecomesRecord, Zenon
<1> QED
  BY <1>2, <1>3, Zenon

\* A worker returns after invalid_grant.
LEMMA GiveUpEffect ==
  ASSUME wk \in [Workers -> WorkerRec], NEW w \in Workers, NEW a \in Nat, NEW pc \in Pcs,
         wk' = [wk EXCEPT ![w].pc = "release", ![w].acct = a, ![w].then = pc]
  PROVE  Becomes(w, "release", pc, a, wk[w].aver, wk[w].used, wk[w].got, wk[w].held)
<1> DEFINE r == [wk[w] EXCEPT !.pc = "release", !.acct = a, !.then = pc]
<1>1. wk' = [wk EXCEPT ![w] = r] /\ wk[w] \in WorkerRec
  OBVIOUS
<1>2. /\ r \in WorkerRec /\ r.pc = "release" /\ r.then = pc /\ r.acct = a
      /\ r.aver = wk[w].aver /\ r.used = wk[w].used /\ r.got = wk[w].got /\ r.held = wk[w].held
  BY <1>1, Zenon DEF WorkerRec, Pcs
<1> HIDE DEF r
<1>3. Becomes(w, r.pc, r.then, r.acct, r.aver, r.used, r.got, r.held)
  BY <1>1, <1>2, BecomesRecord, Zenon
<1> QED
  BY <1>2, <1>3, Zenon

\* A worker returns with the credential that it has stored.
LEMMA StoredEffect ==
  ASSUME wk \in [Workers -> WorkerRec], NEW w \in Workers, NEW c \in Nat, NEW pc \in Pcs,
         wk' = [wk EXCEPT ![w].pc = "release", ![w].acct = wk[w].got, ![w].aver = c,
                          ![w].then = pc]
  PROVE  Becomes(w, "release", pc, wk[w].got, c, wk[w].used, wk[w].got, wk[w].held)
<1> DEFINE r == [wk[w] EXCEPT !.pc = "release", !.acct = wk[w].got, !.aver = c, !.then = pc]
<1>1. wk' = [wk EXCEPT ![w] = r] /\ wk[w] \in WorkerRec
  OBVIOUS
<1>2. /\ r \in WorkerRec /\ r.pc = "release" /\ r.then = pc /\ r.acct = wk[w].got
      /\ r.aver = c /\ r.used = wk[w].used /\ r.got = wk[w].got /\ r.held = wk[w].held
  BY <1>1, Zenon DEF WorkerRec, Pcs
<1> HIDE DEF r
<1>3. Becomes(w, r.pc, r.then, r.acct, r.aver, r.used, r.got, r.held)
  BY <1>1, <1>2, BecomesRecord, Zenon
<1> QED
  BY <1>2, <1>3, Zenon

\* A worker has released the lock.
LEMMA ReleaseEffect ==
  ASSUME wk \in [Workers -> WorkerRec], NEW w \in Workers,
         wk' = [wk EXCEPT ![w].pc = wk[w].then, ![w].then = "idle", ![w].held = FALSE,
                          ![w].used = 0, ![w].got = 0]
  PROVE  Becomes(w, wk[w].then, "idle", wk[w].acct, wk[w].aver, 0, 0, FALSE)
<1> DEFINE r == [wk[w] EXCEPT !.pc = wk[w].then, !.then = "idle", !.held = FALSE,
                              !.used = 0, !.got = 0]
<1>1. wk' = [wk EXCEPT ![w] = r] /\ wk[w] \in WorkerRec
  OBVIOUS
<1>2. /\ r \in WorkerRec /\ r.pc = wk[w].then /\ r.then = "idle" /\ r.acct = wk[w].acct
      /\ r.aver = wk[w].aver /\ r.used = 0 /\ r.got = 0 /\ r.held = FALSE
  <2>1. 0 \in Nat
    OBVIOUS
  <2> QED
    BY <1>1, <2>1, Zenon DEF WorkerRec, Pcs
<1> HIDE DEF r
<1>3. Becomes(w, r.pc, r.then, r.acct, r.aver, r.used, r.got, r.held)
  BY <1>1, <1>2, BecomesRecord, Zenon
<1> QED
  BY <1>2, <1>3, Zenon

\* A worker that has not begun, or has died.
LEMMA ReadyRecord ==
  ASSUME NEW w \in Workers, NEW pc \in Pcs
  PROVE  /\ Ready(w) \in WorkerRec /\ [Ready(w) EXCEPT !.pc = pc] \in WorkerRec
         /\ Ready(w).pc = Begin(w) /\ [Ready(w) EXCEPT !.pc = pc].pc = pc
         /\ Ready(w).then = "idle" /\ [Ready(w) EXCEPT !.pc = pc].then = "idle"
         /\ Ready(w).acct = 0 /\ [Ready(w) EXCEPT !.pc = pc].acct = 0
         /\ Ready(w).aver = 0 /\ [Ready(w) EXCEPT !.pc = pc].aver = 0
         /\ Ready(w).used = 0 /\ [Ready(w) EXCEPT !.pc = pc].used = 0
         /\ Ready(w).got = 0 /\ [Ready(w) EXCEPT !.pc = pc].got = 0
         /\ ~Ready(w).held /\ ~[Ready(w) EXCEPT !.pc = pc].held
<1>1. Begin(w) \in Pcs /\ "idle" \in Pcs /\ 0 \in Nat
  BY DEF Begin, Pcs
<1> QED
  BY <1>1, Zenon DEF WorkerRec, Ready

\* w is about to set the cached token right.
Following(w) ==
  \/ wk[w].pc \in {"durable", "sync"} \/ wk[w].then = "sync"
  \/ wk[w].acct = cred /\ {wk[w].pc, wk[w].then} \cap {"check", "set"} # {}

\* After a step of w the cached token is right, or w is about to set it right,
\* or nothing has changed that w was to see to.
CacheStep(w) ==
  ~late' /\ seen' \cap {"redis", "db", "crash"} = {} =>
    \/ cache' \in {0, cred'}
    \/ Following(w)'
    \/ cache' = cache /\ cred' = cred /\ ~Following(w)

\* CacheIsFollowing, worker by worker.
LEMMA Followers ==
  CacheIsFollowing <=>
    adm.pc \in {"clear", "invalidate"} \/ \E w \in Workers : Following(w)
BY Zenon DEF CacheIsFollowing, Following

\* A step of w that sets the cached token right, or leaves it and what follows
\* it alone, keeps StaleTokenGoes.
LEMMA StaleKept ==
  ASSUME StaleTokenGoes, NEW w \in Workers, CacheStep(w), adm' = adm,
         late => late', seen \subseteq seen', \A u \in Workers : u # w => wk'[u] = wk[u],
         cred' = cred \/ Following(w)' \/ cache' \in {0, cred'}
  PROVE  StaleTokenGoes'
<1> SUFFICES ASSUME ~late', seen' \cap {"redis", "db", "crash"} = {}, cache' \notin {0, cred'}
             PROVE  CacheIsFollowing'
  BY Zenon DEF StaleTokenGoes
<1>1. CASE Following(w)'
  BY <1>1 DEF Following, CacheIsFollowing
<1>2. CASE cache' = cache /\ cred' = cred /\ ~Following(w)
  <2>1. CacheIsFollowing
    BY <1>2 DEF StaleTokenGoes
  <2>2. \A u \in Workers : Following(u) => Following(u)'
    BY <1>2 DEF Following
  <2> QED
    BY <2>1, <2>2, Followers DEF CacheIsFollowing, Following
<1> QED
  BY <1>1, <1>2 DEF CacheStep

\* A fault adds to the history, within its bound.
LEMMA HistoryEffect ==
  ASSUME Shapes, NoFault \/ \E k \in Kinds : Fault(k)
  PROVE  faults' \in 0..MaxFaults /\ seen' \subseteq Kinds /\ seen \subseteq seen'
BY BoundsAssumption DEF Shapes, NoFault, Fault, history

\* A step of w that reads at most, and leaves the locks, the account and the
\* provider alone.
Walk(w) ==
  /\ \A u \in Workers : u # w => wk'[u] = wk[u]
  /\ wk'[w].used = wk[w].used /\ wk'[w].got = wk[w].got /\ wk'[w].held = wk[w].held
  /\ \/ /\ wk'[w].acct = wk[w].acct /\ wk'[w].aver = wk[w].aver
        /\ wk[w].pc \notin {"asked", "end"}
     \/ wk'[w].acct = cred /\ wk'[w].aver = ver
  /\ wk[w].pc \notin {"persist", "release"}
  /\ wk'[w].pc \notin Inside \cup {"seterror"} 
  /\ wk'[w].then \in Afterwards \ {"seterror"}
  /\ wk[w].pc \in Inside => wk'[w].pc = "release"
  /\ wk'[w].then # "idle" => wk'[w].pc = "release"
  /\ w \in Background => wk'[w].pc \notin RequestPcs /\ wk'[w].then \notin RequestPcs
  /\ seen \subseteq seen' /\ (late => late')
  /\ cache' \in {0, cache, wk[w].acct}
  /\ UNCHANGED <<platform, cred, ver, status, live, made, due, clock, adm, reauths, lock>>
  /\ CacheStep(w)
  /\ Shapes'

\* Such a step keeps the invariant.
LEMMA WalkKeeps ==
  ASSUME OAuthInd, NEW w \in Workers, Walk(w)
  PROVE  OAuthInd'
<1> USE DEF OAuthInd, Books, Safety
<1>1. Numbers'
  BY DEF Walk, Numbers, Inside, Using
<1>2. Drawn'
  <2>1. Persisting' = Persisting /\ Dead' = Dead /\ Pending' = Pending
    BY DEF Walk, Persisting, Dead, Pending, Inside, Using
  <2> QED
    BY <2>1 DEF Walk, Drawn
<1>3. Issued'
  BY DEF Walk, Issued, Inside, Using
<1>4. Exclusive'
  BY DEF Walk, Exclusive, Inside, Using
<1>5. \A c : Gone(c) => Gone(c)'
  BY DEF Walk, Gone, Inside, Using
<1>6. ~Barring(w)' /\ \A u \in Workers : u # w => Barring(u)' = Barring(u)
  BY DEF Walk, Barring
<1>7. Rejected'
  BY <1>5, <1>6 DEF Walk, Rejected, Inside, Using
<1>8. Sound'
  BY <1>6 DEF Walk, Sound, Inside, Using
<1>9. Roles'
  <2>1. cred # 0
    BY DEF Numbers
  <2>2. \A u \in Workers : /\ wk'[u].then \in Afterwards
                           /\ wk'[u].then # "idle" => wk'[u].pc = "release"
    BY DEF Walk, Roles
  <2>3. \A u \in Background : wk'[u].pc \notin RequestPcs /\ wk'[u].then \notin RequestPcs
    BY DEF Walk, Roles, Workers
  <2>4. \A u \in Requests :
          /\ wk'[u].acct = 0 => wk'[u].pc \in {"asked", "end"}
          /\ wk'[u].acct = cred => wk'[u].aver = ver
          /\ reauths = 0 /\ wk'[u].acct # 0 /\ wk'[u].acct # cred => wk'[u].aver < ver
    BY <2>1 DEF Walk, Roles, Workers
  <2> QED
    BY <2>2, <2>3, <2>4 DEF Walk, Roles
<1>10. StoredIsLive'
  BY DEF Walk, StoredIsLive
<1>11. StaleTokenGoes'
  BY StaleKept DEF Walk
<1> QED
  BY <1>1, <1>2, <1>3, <1>4, <1>7, <1>8, <1>9, <1>10, <1>11 DEF Walk

\* The types, after a step of a worker.
LEMMA ShapesKept ==
  ASSUME Shapes, wk' \in [Workers -> WorkerRec],
         local' \in [Replicas -> Workers \cup {"none"}], lock' \in BOOLEAN,
         status' \in {"active", "error"}, late' \in BOOLEAN, UNCHANGED <<platform, adm>>,
         NoFault \/ \E k \in Kinds : Fault(k)
  PROVE  Shapes' /\ seen \subseteq seen'
BY HistoryEffect DEF Shapes

\* What the invariant says of one worker.
LEMMA InHand ==
  ASSUME OAuthInd, NEW w \in Workers
  PROVE  /\ Shapes /\ wk \in [Workers -> WorkerRec] /\ cred \in Nat /\ ver \in Nat /\ cred # 0
         /\ local \in [Replicas -> Workers \cup {"none"}] /\ lock \in BOOLEAN
         /\ status \in {"active", "error"} /\ late \in BOOLEAN
         /\ made \in Nat /\ clock \in Nat
         /\ wk[w].pc \in Pcs /\ wk[w].then \in Pcs /\ wk[w].held \in BOOLEAN
         /\ wk[w].pc # "release" => wk[w].then = "idle"
         /\ wk[w].acct \in 0..made /\ wk[w].used \in 0..made /\ wk[w].got \in 0..made
         /\ wk[w].aver \in 0..clock
         /\ wk[w].pc \in RequestPcs => w \in Requests /\ w \notin Background
<1>1. wk[w] \in WorkerRec
  BY DEF OAuthInd, Books, Shapes
<1>2. wk[w].pc \in Pcs /\ wk[w].then \in Pcs /\ wk[w].held \in BOOLEAN
  BY <1>1 DEF WorkerRec
<1>3. wk[w].pc \in RequestPcs => w \in Requests /\ w \notin Background
  BY DEF OAuthInd, Safety, Roles, Workers
<1>4. wk[w].pc # "release" => wk[w].then = "idle"
  BY DEF OAuthInd, Safety, Roles
<1> QED
  BY <1>2, <1>3, <1>4 DEF OAuthInd, Books, Shapes, Numbers

\* A worker that has not changed the credential does not see to the cache.
LEMMA NotFollowing ==
  ASSUME NEW w, wk[w].pc \notin {"durable", "sync", "check", "set"}, wk[w].then = "idle"
  PROVE  ~Following(w)
BY DEF Following

\* The callers' reads of the account.
LEMMA Candidates ==
  ASSUME OAuthInd, NEW w \in Workers,
         \/ w \in Background /\ processCandidatePage(w)
         \/ w \in Requests /\ SelectAccount(w)
  PROVE  Walk(w)
<1>0. PICK pc \in {"local", "cache"} :
        /\ wk[w].pc \in {"idle", "asked"}
        /\ wk' = [wk EXCEPT ![w] = [Fresh(w) EXCEPT !.pc = pc]]
        /\ pc = "local" \/ w \notin Background
        /\ NoFault
        /\ UNCHANGED <<platform, due, cred, ver, status, live, made, clock, cache, lock,
                       local, adm, reauths, late>>
  BY WorkersAssumption DEF processCandidatePage, SelectAccount, rest, account, provider, locks,
     admin, NoFault
<1>1. Becomes(w, pc, wk[w].then, cred, ver, wk[w].used, wk[w].got, wk[w].held)
  BY <1>0, ReadEffect, InHand DEF Pcs
<1>2. wk[w].then = "idle" /\ ~Following(w)
  BY <1>0, InHand, NotFollowing
<1>3. Shapes' /\ seen \subseteq seen'
  BY <1>0, <1>1, InHand, ShapesKept DEF Becomes
<1> QED
  BY <1>0, <1>1, <1>2, <1>3 DEF Becomes, Walk, CacheStep, RequestPcs, Afterwards, Inside, Using

\* The steps of one worker that only move it on, with the cache and the mutex.
LEMMA Moves ==
  ASSUME OAuthInd, NEW w \in Workers,
         \/ GetAccessToken(w) \/ LockLocal(w) \/ WaitForCache(w) \/ InvalidateToken(w)
         \/ CheckTokenVersion(w) \/ SetAccessToken(w)
  PROVE  Walk(w)
<1>0. PICK pc \in {"end", "local", "check", "lock", "set", "idle"} :
        /\ wk[w].pc \in {"cache", "local", "wait", "sync", "check", "set"}
        /\ MoveTo(w, pc)
        /\ wk[w].pc \in {"local", "sync"} => pc \in {"lock", "idle"}
        /\ UNCHANGED <<platform, due, cred, ver, status, live, made, clock, lock, adm, reauths>>
  BY DEF GetAccessToken, LockLocal, WaitForCache, InvalidateToken, CheckTokenVersion,
         SetAccessToken, rest, account, provider, locks, admin
<1>1. Becomes(w, pc, "idle", wk[w].acct, wk[w].aver, wk[w].used, wk[w].got, wk[w].held)
  BY <1>0, MoveEffect, InHand DEF Pcs
<1>2. NoFault \/ \E k \in Kinds : Fault(k)
  BY DEF GetAccessToken, LockLocal, WaitForCache, InvalidateToken, CheckTokenVersion,
         SetAccessToken, NoFault, Kinds
<1>3. local' \in [Replicas -> Workers \cup {"none"}] /\ late' \in BOOLEAN /\ (late => late')
  <2>1. CASE LockLocal(w)
    BY <2>1, InHand DEF LockLocal
  <2>2. CASE SetAccessToken(w)
    <3>1. late' = late \/ late' = (late \/ wk[w].acct # cred)
      BY <2>2 DEF SetAccessToken
    <3>2. late \in BOOLEAN
      BY InHand
    <3>3. late' \in BOOLEAN /\ (late => late')
      <4>1. CASE late' = late
        BY <3>2, <4>1
      <4>2. CASE late' = (late \/ wk[w].acct # cred)
        <5>1. (late \/ wk[w].acct # cred) \in BOOLEAN
          BY Zenon
        <5>2. late' <=> (late \/ wk[w].acct # cred)
          BY <4>2, Zenon
        <5>3. late' \in BOOLEAN
          BY <4>2, <5>1, Zenon
        <5> QED
          BY <5>2, <5>3, Zenon
      <4> QED
        BY <3>1, <4>1, <4>2
    <3> QED
      BY <2>2, <3>3, InHand DEF SetAccessToken, locks
  <2>3. CASE GetAccessToken(w) \/ WaitForCache(w) \/ InvalidateToken(w) \/ CheckTokenVersion(w)
    BY <2>3, InHand DEF GetAccessToken, WaitForCache, InvalidateToken, CheckTokenVersion, locks
  <2> QED
    BY <2>1, <2>2, <2>3
<1>4. Shapes' /\ seen \subseteq seen'
  BY <1>0, <1>1, <1>2, <1>3, InHand, ShapesKept DEF Becomes
<1>5. cache' \in {0, cache, wk[w].acct}
  BY DEF GetAccessToken, LockLocal, WaitForCache, InvalidateToken, CheckTokenVersion,
         SetAccessToken
<1>6. CacheStep(w)
  <2> SUFFICES ASSUME ~late', seen' \cap {"redis", "db", "crash"} = {}
               PROVE  \/ cache' \in {0, cred'}
                      \/ Following(w)'
                      \/ cache' = cache /\ cred' = cred /\ ~Following(w)
    BY DEF CacheStep
  <2>1. CASE GetAccessToken(w) \/ LockLocal(w) \/ WaitForCache(w)
    <3>1. wk[w].pc \in {"cache", "local", "wait"} /\ cache' = cache
      BY <2>1 DEF GetAccessToken, LockLocal, WaitForCache
    <3> QED
      BY <1>0, <3>1, InHand, NotFollowing
  <2>2. CASE InvalidateToken(w)
    BY <2>2 DEF InvalidateToken, Fault
  <2>3. CASE CheckTokenVersion(w)
    <3>1. /\ wk[w].pc = "check" /\ cache' = cache
          /\ MoveTo(w, IF ver > wk[w].aver THEN "end" ELSE "set")
      BY <2>3 DEF CheckTokenVersion, Fault
    <3>2. w \in Requests /\ wk[w].then = "idle" /\ ver \in Nat
      BY <3>1, InHand DEF RequestPcs
    <3>3. CASE wk[w].acct = cred
      <4>1. ~(ver > wk[w].aver)
        BY <3>2, <3>3 DEF OAuthInd, Safety, Roles
      <4>2. MoveTo(w, "set")
        BY <3>1, <4>1
      <4>3. wk'[w].pc = "set" /\ wk'[w].acct = wk[w].acct
        BY <4>2, MoveEffect, InHand DEF Pcs, Becomes
      <4> QED
        BY <1>0, <3>3, <4>3 DEF Following
    <3>4. CASE wk[w].acct # cred
      BY <1>0, <3>1, <3>2, <3>4 DEF Following
    <3> QED
      BY <3>3, <3>4
  <2>4. CASE SetAccessToken(w)
    <3>1. cache' = wk[w].acct /\ late' = (late \/ wk[w].acct # cred)
      BY <2>4 DEF SetAccessToken, Fault
    <3>2. wk[w].acct = cred
      BY <3>1, Zenon
    <3> QED
      BY <1>0, <3>1, <3>2
  <2> QED
    BY <2>1, <2>2, <2>3, <2>4
<1>7. w \in Background => pc \notin RequestPcs
  BY <1>0, InHand DEF RequestPcs
<1> QED
  BY <1>0, <1>1, <1>3, <1>4, <1>5, <1>6, <1>7
     DEF Becomes, Walk, RequestPcs, Afterwards, Inside, Using

\* A return of RefreshIfNeeded that does not lead to barring the account.
LEMMA Returns ==
  ASSUME OAuthInd, NEW w \in Workers, NEW pc \in Afterwards \ {"seterror"},
         w \in Background => pc \notin RequestPcs,
         \/ Return(w, pc)
         \/ wk' = [wk EXCEPT ![w] = [Fresh(w) EXCEPT !.pc = "release", !.then = pc]]
         \/ Becomes(w, "release", pc, wk[w].acct, wk[w].aver, wk[w].used, wk[w].got, wk[w].held),
         wk[w].pc \in {"lock", "reread", "refresh", "recover", "durable"},
         NoFault \/ \E k \in Kinds : Fault(k), cache' \in {0, cache},
         wk[w].pc = "durable" => cache' = 0 \/ "redis" \in seen',
         UNCHANGED <<platform, due, cred, ver, status, live, made, clock, lock, local, adm,
                     reauths, late>>
  PROVE  Walk(w)
<1>1. \/ Becomes(w, "release", pc, wk[w].acct, wk[w].aver, wk[w].used, wk[w].got, wk[w].held)
      \/ Becomes(w, "release", pc, cred, ver, wk[w].used, wk[w].got, wk[w].held)
  <2>1. pc \in Pcs
    BY DEF Afterwards, Pcs
  <2>2. wk \in [Workers -> WorkerRec] /\ cred \in Nat /\ ver \in Nat
    BY InHand
  <2>3. Return(w, pc) =>
          Becomes(w, "release", pc, wk[w].acct, wk[w].aver, wk[w].used, wk[w].got, wk[w].held)
    BY <2>1, <2>2, ReturnEffect
  <2>4. wk' = [wk EXCEPT ![w] = [Fresh(w) EXCEPT !.pc = "release", !.then = pc]] =>
          Becomes(w, "release", pc, cred, ver, wk[w].used, wk[w].got, wk[w].held)
    BY <2>1, <2>2, ReadReturnEffect
  <2> QED
    BY <2>3, <2>4
<1>2. wk' \in [Workers -> WorkerRec]
  BY <1>1 DEF Becomes
<1>3. Shapes' /\ seen \subseteq seen'
  BY <1>2, InHand, ShapesKept
<1>4. CacheStep(w)
  <2>1. wk[w].then = "idle"
    BY InHand
  <2>2. wk[w].pc # "durable" => ~Following(w)
    BY <2>1, NotFollowing
  <2> QED
    BY <2>2 DEF CacheStep
<1>5. "release" \notin RequestPcs
  BY DEF RequestPcs
<1> QED
  BY <1>1, <1>3, <1>4, <1>5 DEF Becomes, Walk, Inside, Using

\* A step of w towards the provider, which leaves the account, the provider and
\* the cache alone.
Approach(w) ==
  /\ \A u \in Workers : u # w => wk'[u] = wk[u]
  /\ wk'[w].acct = wk[w].acct /\ wk'[w].aver = wk[w].aver /\ wk'[w].got = wk[w].got
  /\ wk'[w].then = "idle" /\ wk[w].then = "idle"
  /\ wk[w].pc \in {"lock", "reread", "refresh"}
  /\ wk'[w].pc \in {"reread", "refresh", "recover"}
  /\ wk'[w].used \in {wk[w].used, cred} /\ (wk'[w].pc \in Using => wk'[w].used \in due)
  /\ UNCHANGED <<platform, cred, ver, status, live, made, due, clock, adm, reauths, cache, late>>
  /\ seen \subseteq seen'
  /\ Shapes'

\* Such a step keeps what does not depend on the lock.
LEMMA ApproachKeeps ==
  ASSUME OAuthInd, NEW w \in Workers, Approach(w)
  PROVE  /\ Books' /\ Roles' /\ StoredIsLive' /\ StaleTokenGoes'
         /\ \A c : Gone(c) => Gone(c)'
         /\ ~Barring(w)' /\ \A u \in Workers : u # w => Barring(u)' = Barring(u)
<1> USE DEF OAuthInd, Books, Safety
<1>1. Numbers'
  BY DEF Approach, Numbers, Using
<1>2. Drawn'
  <2>1. Persisting' = Persisting /\ Dead' = Dead /\ Pending' = Pending
    BY DEF Approach, Persisting, Dead, Pending
  <2> QED
    BY <2>1 DEF Approach, Drawn
<1>3. Issued'
  BY DEF Approach, Issued
<1>4. Roles'
  <2>1. \A u \in Workers : /\ wk'[u].then \in Afterwards
                           /\ wk'[u].then # "idle" => wk'[u].pc = "release"
    BY DEF Approach, Roles, Afterwards
  <2>2. \A u \in Background : wk'[u].pc \notin RequestPcs /\ wk'[u].then \notin RequestPcs
    BY DEF Approach, Roles, Workers, RequestPcs
  <2>3. \A u \in Requests :
          /\ wk'[u].acct = 0 => wk'[u].pc \in {"asked", "end"}
          /\ wk'[u].acct = cred => wk'[u].aver = ver
          /\ reauths = 0 /\ wk'[u].acct # 0 /\ wk'[u].acct # cred => wk'[u].aver < ver
    BY DEF Approach, Roles, Workers
  <2> QED
    BY <2>1, <2>2, <2>3 DEF Approach, Roles
<1>5. StoredIsLive'
  BY DEF Approach, StoredIsLive
<1>6. StaleTokenGoes'
  <2>1. ~Following(w)
    BY NotFollowing DEF Approach
  <2> QED
    BY <2>1, StaleKept DEF Approach, CacheStep
<1> QED
  BY <1>1, <1>2, <1>3, <1>4, <1>5, <1>6 DEF Approach, Gone, Barring

\* With the lock, or without Redis, a worker goes on to the second read.
LEMMA AcquireKeeps ==
  ASSUME OAuthInd, NEW w \in Workers, AcquireRefreshLock(w)
  PROVE  OAuthInd'
<1>0. /\ wk[w].pc = "lock" /\ wk[w].then = "idle"
      /\ UNCHANGED <<platform, due, cred, ver, status, live, made, clock, cache, local, adm,
                     reauths, late>>
  BY InHand DEF AcquireRefreshLock, rest, account, provider, admin
<1>1. CASE /\ lock /\ NoFault /\ UNCHANGED lock
           /\ Return(w, IF w \in Background THEN "idle" ELSE "wait")
  <2>1. PICK pc \in {"idle", "wait"} : Return(w, pc) /\ (w \in Background => pc = "idle")
    BY <1>1
  <2> QED
    BY <1>0, <1>1, <2>1, Returns, WalkKeeps DEF Afterwards, RequestPcs
<1>2. ASSUME \/ /\ ~lock /\ lock' = TRUE /\ NoFault
                /\ wk' = [wk EXCEPT ![w].pc = "reread", ![w].held = TRUE]
             \/ Fault("redis") /\ UNCHANGED lock /\ MoveTo(w, "reread")
      PROVE  OAuthInd'
  <2>1. PICK h \in BOOLEAN :
          /\ Becomes(w, "reread", "idle", wk[w].acct, wk[w].aver, wk[w].used, wk[w].got, h)
          /\ \/ ~lock /\ lock' /\ h
             \/ "redis" \in seen' /\ lock' = lock
    <3>1. CASE /\ ~lock /\ lock' = TRUE /\ NoFault
               /\ wk' = [wk EXCEPT ![w].pc = "reread", ![w].held = TRUE]
      BY <1>0, <3>1, AcquireEffect, InHand
    <3>2. CASE Fault("redis") /\ UNCHANGED lock /\ MoveTo(w, "reread")
      BY <1>0, <3>2, MoveEffect, InHand DEF Fault, Pcs
    <3> QED
      BY <1>2, <3>1, <3>2
  <2>2. Shapes' /\ seen \subseteq seen'
    BY <1>0, <1>2, <2>1, InHand, ShapesKept DEF Becomes, Kinds
  <2>3. Approach(w)
    BY <1>0, <2>1, <2>2 DEF Becomes, Approach, Using
  <2>4. Exclusive'
    BY <1>0, <2>1, <2>2, InHand DEF OAuthInd, Safety, Exclusive, Becomes, Inside, Using
  <2>5. Rejected' /\ Sound'
    BY <1>0, <2>1, <2>3, ApproachKeeps
       DEF OAuthInd, Safety, Rejected, Sound, Approach, Becomes, Using
  <2> QED
    BY <2>3, <2>4, <2>5, ApproachKeeps DEF OAuthInd, Safety
<1> QED
  BY <1>1, <1>2 DEF AcquireRefreshLock

\* The second read: the token that will be presented is the stored one.
LEMMA RereadKeeps ==
  ASSUME OAuthInd, NEW w \in Workers, RereadAccount(w)
  PROVE  OAuthInd'
<1>0. /\ wk[w].pc = "reread" /\ wk[w].then = "idle"
      /\ UNCHANGED <<platform, due, cred, ver, status, live, made, clock, cache, lock, local,
                     adm, reauths, late>>
  BY InHand DEF RereadAccount, rest, account, provider, locks, admin
<1>1. CASE /\ NoFault
           /\ wk' = [wk EXCEPT ![w] = [Fresh(w) EXCEPT
                !.pc = "release", !.then = IF w \in Background THEN "idle" ELSE "check"]]
  <2>1. PICK pc \in {"idle", "check"} :
          /\ wk' = [wk EXCEPT ![w] = [Fresh(w) EXCEPT !.pc = "release", !.then = pc]]
          /\ w \in Background => pc = "idle"
    BY <1>1, Zenon
  <2> QED
    BY <1>0, <1>1, <2>1, Returns, WalkKeeps DEF Afterwards, RequestPcs
<1>2. CASE Fault("db") /\ Return(w, IF w \in Background THEN "idle" ELSE "check")
  <2>1. PICK pc \in {"idle", "check"} : Return(w, pc) /\ (w \in Background => pc = "idle")
    BY <1>2
  <2> QED
    BY <1>0, <1>2, <2>1, Returns, WalkKeeps DEF Afterwards, RequestPcs, Kinds
<1>3. CASE /\ status = "active" /\ cred \in due /\ NoFault
           /\ wk' = [wk EXCEPT ![w].pc = "refresh", ![w].used = cred]
  <2>1. Becomes(w, "refresh", "idle", wk[w].acct, wk[w].aver, cred, wk[w].got, wk[w].held)
    BY <1>0, <1>3, RereadEffect, InHand
  <2>2. Shapes' /\ seen' = seen
    BY <1>0, <1>3, <2>1, InHand, ShapesKept DEF Becomes, NoFault, history
  <2>3. Approach(w)
    BY <1>0, <1>3, <2>1, <2>2 DEF Becomes, Approach
  <2>4. Exclusive'
    BY <1>0, <2>1, <2>2 DEF OAuthInd, Safety, Exclusive, Becomes, Inside, Using
  <2>5. Rejected'
    BY <1>0, <2>1, <2>2, <2>3, ApproachKeeps DEF OAuthInd, Safety, Rejected, Becomes
  <2>6. Sound'
    <3>1. seen \cap {"lapse", "redis", "db", "dropped", "denied", "crash"} = {} => cred \in live
      BY <1>0 DEF OAuthInd, Safety, StoredIsLive, Exclusive, Inside, Using
    <3> QED
      BY <1>0, <2>1, <2>2, <2>3, <3>1, ApproachKeeps DEF OAuthInd, Safety, Sound, Becomes
  <2> QED
    BY <2>3, <2>4, <2>5, <2>6, ApproachKeeps DEF OAuthInd, Safety
<1> QED
  BY <1>1, <1>2, <1>3 DEF RereadAccount

\* What a failed attempt changes.
LEMMA FailedEffect ==
  ASSUME OAuthInd, NEW w \in Workers, Failed(w)
  PROVE  \E pc \in {"local", "idle", "check", "end"} :
           /\ Return(w, pc) /\ (w \in Background => pc \in {"local", "idle"})
           /\ Becomes(w, "release", pc, wk[w].acct, wk[w].aver, wk[w].used, wk[w].got, wk[w].held)
<1>1. PICK pc \in {"local", "idle", "check", "end"} :
        Return(w, pc) /\ (w \in Background => pc \in {"local", "idle"})
  BY DEF Failed
<1> QED
  BY <1>1, ReturnEffect, InHand DEF Pcs

\* The provider has used up the token of w, whose next step is to store its
\* successor, or the answer is lost.
LEMMA RotateKeeps ==
  ASSUME OAuthInd, NEW w \in Workers, wk[w].pc = "refresh", wk[w].then = "idle",
         Rotate(wk[w].used), NEW pc \in Pcs, NEW then \in Afterwards \ {"seterror"}, NEW got,
         Becomes(w, pc, then, wk[w].acct, wk[w].aver, wk[w].used, got, wk[w].held),
         \/ pc = "persist" /\ then = "idle" /\ got = made + 1 /\ NoFault
         \/ pc = "release" /\ got = wk[w].got /\ Fault("dropped"),
         w \in Background => then \notin RequestPcs,
         UNCHANGED <<platform, due, cred, ver, status, clock, cache, lock, local, adm, reauths,
                     late>>
  PROVE  OAuthInd'
<1> USE DEF OAuthInd, Books, Safety
<1>0. /\ made \in Nat /\ made' = made + 1 /\ wk[w].used \in live /\ wk[w].used \in due
      /\ live' = (live \ {wk[w].used}) \cup {made + 1}
      /\ live \subseteq 1..made /\ due \subseteq 1..made /\ cred \in 1..made
      /\ \A u \in Workers : /\ wk[u].acct \in 0..made /\ wk[u].used \in 0..made
                            /\ wk[u].got \in 0..made
  BY DEF Rotate, Numbers, Using
<1>1. Shapes' /\ seen \subseteq seen' /\ (pc = "release" => "dropped" \in seen')
  <2>1. NoFault \/ \E k \in Kinds : Fault(k)
    BY DEF Kinds
  <2>2. pc = "release" => "dropped" \in seen'
    BY DEF Fault
  <2> QED
    BY <2>1, <2>2, InHand, ShapesKept DEF Becomes
<1>2. Numbers'
  <2>1. /\ live' \subseteq 1..(made + 1) /\ due \subseteq 1..(made + 1)
        /\ cred \in 1..(made + 1) /\ cache \in 0..(made + 1)
        /\ 0..made \subseteq 0..(made + 1) /\ made + 1 \in 0..(made + 1)
    <3>1. /\ 0..made \subseteq 0..(made + 1) /\ made + 1 \in 0..(made + 1)
          /\ 1..made \subseteq 1..(made + 1) /\ made + 1 \in 1..(made + 1)
      BY <1>0
    <3>2. cache \in 0..made
      BY DEF Numbers
    <3> QED
      BY <1>0, <3>1, <3>2
  <2>2. \A u \in Workers :
          /\ wk'[u].acct \in 0..(made + 1) /\ wk'[u].used \in 0..(made + 1)
          /\ wk'[u].got \in 0..(made + 1) /\ wk'[u].aver \in 0..clock
          /\ wk'[u].pc \in Using => wk'[u].used \in due
    <3>1. \A u \in Workers : /\ wk[u].aver \in 0..clock
                             /\ wk[u].pc \in Using => wk[u].used \in due
      BY DEF Numbers
    <3> QED
      BY <1>0, <2>1, <3>1 DEF Becomes
  <2> QED
    BY <1>0, <2>1, <2>2 DEF Numbers
<1>3. Drawn'
  <2>1. Dead' = Dead \cup {wk[w].used} /\ wk[w].used \notin Dead /\ IsFiniteSet(Dead)
    <3>1. Dead' = Dead \cup {wk[w].used} /\ wk[w].used \notin Dead
      BY <1>0 DEF Dead
    <3> QED
      BY <3>1, FS_Subset DEF Drawn
  <2>2. /\ Cardinality(Dead') = Cardinality(Dead) + 1
        /\ Cardinality(Dead) \in Nat /\ Cardinality(Persisting) \in Nat
    BY <2>1, FS_AddElement, FS_CardinalityType DEF Drawn
  <2>3. IsFiniteSet(Persisting') /\ Cardinality(Persisting') \in
          {Cardinality(Persisting), Cardinality(Persisting) + 1}
    <3>1. Persisting' = Persisting \/ Persisting' = Persisting \cup {w}
      BY DEF Becomes, Persisting
    <3> QED
      BY <3>1, FS_AddElement DEF Drawn
  <2>4. Pending' = Pending /\ Dead' \subseteq due /\ Pending \in Nat
    BY <1>0, <2>1 DEF Pending, Drawn
  <2>5. reauths \in Nat /\ clock \in Nat
    BY BoundsAssumption DEF Numbers
  <2> QED
    BY <1>0, <2>2, <2>3, <2>4, <2>5 DEF Drawn
<1>4. Issued'
  BY <1>0 DEF Becomes, Issued
<1>5. Exclusive'
  BY <1>1 DEF Becomes, Exclusive, Inside, Using
<1>6. \A c \in 0..made : Gone(c) => Gone(c)'
  BY <1>0 DEF Becomes, Gone
<1>7. ~Barring(w)' /\ \A u \in Workers : u # w => Barring(u)' = Barring(u)
  BY DEF Becomes, Barring
<1>8. Rejected'
  <2>1. \A u \in Workers : wk'[u].pc = "recover" => wk'[u].used \notin live'
    BY <1>0 DEF Becomes, Rejected
  <2> QED
    BY <1>0, <1>1, <1>6, <1>7, <2>1 DEF Becomes, Rejected, Using
<1>9. Sound'
  <2>1. seen \cap {"lapse", "redis"} = {} =>
          \A u \in Workers : u # w => wk[u].pc # "refresh"
    BY DEF Exclusive, Inside, Using
  <2> QED
    BY <1>1, <1>7, <2>1 DEF Becomes, Sound
<1>10. Roles'
  <2>1. \A u \in Workers : /\ wk'[u].then \in Afterwards
                           /\ wk'[u].then # "idle" => wk'[u].pc = "release"
    BY DEF Becomes, Roles
  <2>2. \A u \in Background : wk'[u].pc \notin RequestPcs /\ wk'[u].then \notin RequestPcs
    BY DEF Becomes, Roles, Workers, RequestPcs
  <2>3. \A u \in Requests :
          /\ wk'[u].acct = 0 => wk'[u].pc \in {"asked", "end"}
          /\ wk'[u].acct = cred => wk'[u].aver = ver
          /\ reauths = 0 /\ wk'[u].acct # 0 /\ wk'[u].acct # cred => wk'[u].aver < ver
    BY DEF Becomes, Roles, Workers
  <2> QED
    BY <2>1, <2>2, <2>3 DEF Roles
<1>11. StoredIsLive'
  BY <1>0, <1>1 DEF Becomes, StoredIsLive
<1>12. StaleTokenGoes'
  <2>1. ~Following(w)
    BY NotFollowing
  <2> QED
    BY <1>1, <2>1, StaleKept DEF Becomes, CacheStep
<1> QED
  BY <1>1, <1>2, <1>3, <1>4, <1>5, <1>8, <1>9, <1>10, <1>11, <1>12

\* The account is to be barred: its credential was rejected, or denied.
LEMMA BarKeeps ==
  ASSUME OAuthInd, NEW w \in Workers, wk[w].pc \in {"refresh", "recover"}, wk[w].then = "idle",
         UNCHANGED <<platform, due, cred, ver, status, live, made, clock, cache, lock, local,
                     adm, reauths, late>>,
         NoFault \/ \E k \in Kinds : Fault(k),
         wk[w].pc = "recover" \/ "denied" \in seen', Bar(w)
  PROVE  OAuthInd'
<1>0. /\ wk[w].pc \in {"refresh", "recover"} /\ wk[w].then = "idle"
      /\ UNCHANGED <<platform, due, cred, ver, status, live, made, clock, cache, lock, local,
                     adm, reauths, late>>
      /\ NoFault \/ \E k \in Kinds : Fault(k)
      /\ wk[w].pc = "recover" \/ "denied" \in seen'
  OBVIOUS
<1>3. wk' = [wk EXCEPT ![w].pc = "release",
                      ![w].acct = IF w \in Background THEN wk[w].used ELSE @,
                      ![w].then = IF w \in Background THEN "seterror" ELSE "check"]
  BY DEF Bar
<1>1. CASE w \notin Background
  <2>1. wk' = [wk EXCEPT ![w].pc = "release", ![w].acct = wk[w].acct, ![w].then = "check"]
    BY <1>3, <1>1, InHand
  <2>2. Becomes(w, "release", "check", wk[w].acct, wk[w].aver, wk[w].used, wk[w].got, wk[w].held)
    <3>1. /\ wk \in [Workers -> WorkerRec] /\ wk[w].acct \in Nat /\ wk[w].used \in Nat
          /\ "check" \in Pcs /\ "seterror" \in Pcs
      BY InHand DEF Pcs
    <3> QED
      BY <2>1, <3>1, GiveUpEffect, Zenon
  <2>3. "check" \in Afterwards \ {"seterror"} /\ cache' \in {0, cache}
    BY <1>0 DEF Afterwards
  <2>4. Walk(w)
    BY <1>0, <1>1, <2>2, <2>3, Returns
  <2> QED
    BY <2>4, WalkKeeps
<1>2. CASE w \in Background
  <2>1. wk' = [wk EXCEPT ![w].pc = "release", ![w].acct = wk[w].used, ![w].then = "seterror"]
    BY <1>3, <1>2, InHand
  <2>2. Becomes(w, "release", "seterror", wk[w].used, wk[w].aver, wk[w].used, wk[w].got,
                wk[w].held)
    <3>1. /\ wk \in [Workers -> WorkerRec] /\ wk[w].acct \in Nat /\ wk[w].used \in Nat
          /\ "check" \in Pcs /\ "seterror" \in Pcs
      BY InHand DEF Pcs
    <3> QED
      BY <2>1, <3>1, GiveUpEffect, Zenon
  <2>3. Shapes' /\ seen \subseteq seen'
    BY <1>0, <2>2, InHand, ShapesKept DEF Becomes
  <2> HIDE <1>3
  <2> USE DEF OAuthInd, Books, Safety
  <2>4. Numbers'
    BY <1>0, <2>2 DEF Becomes, Numbers, Using
  <2>5. Drawn'
    <3>1. Persisting' = Persisting /\ Dead' = Dead /\ Pending' = Pending
      BY <1>0, <2>2 DEF Becomes, Persisting, Dead, Pending
    <3> QED
      BY <1>0, <3>1 DEF Drawn
  <2>6. Issued'
    BY <1>0, <2>2 DEF Becomes, Issued
  <2>7. Exclusive'
    BY <1>0, <2>2, <2>3 DEF Becomes, Exclusive, Inside, Using
  <2>8. \A c : Gone(c) => Gone(c)'
    BY <1>0, <2>2 DEF Becomes, Gone
  <2>9. \A u \in Workers : u # w => Barring(u)' = Barring(u)
    BY <2>2 DEF Becomes, Barring
  <2>10. /\ seen' \cap {"lapse", "redis", "denied"} = {} => Gone(wk[w].used)
         /\ seen' \cap {"lapse", "redis", "denied"} = {} /\ reauths = 0 => wk[w].used = cred
    <3>1. seen \cap {"lapse", "redis"} = {} =>
            \A u \in Workers : wk[u].pc # "persist"
      BY <1>0 DEF Exclusive, Inside, Using
    <3> QED
      BY <1>0, <2>3, <3>1 DEF Rejected, Gone, Using
  <2>11. Rejected'
    BY <1>0, <2>2, <2>3, <2>8, <2>9, <2>10 DEF Becomes, Rejected, Using
  <2>12. Sound'
    BY <1>0, <2>3 DEF Sound
  <2>13. Roles'
    BY <1>0, <1>2, <2>2, WorkersAssumption DEF Becomes, Roles, Workers, Afterwards, RequestPcs
  <2>14. StoredIsLive'
    BY <1>0, <2>2, <2>3 DEF Becomes, StoredIsLive
  <2>15. StaleTokenGoes'
    <3>1. ~Following(w)
      BY <1>0, NotFollowing
    <3> QED
      BY <1>0, <2>2, <2>3, <3>1, StaleKept DEF Becomes, CacheStep
  <2> QED
    BY <2>3, <2>4, <2>5, <2>6, <2>7, <2>11, <2>12, <2>13, <2>14, <2>15
<1> QED
  BY <1>1, <1>2

\* The provider rotates the token, fails or rejects it.
LEMMA RefreshKeeps ==
  ASSUME OAuthInd, NEW w \in Workers, Refresh(w)
  PROVE  OAuthInd'
<1>0. /\ wk[w].pc = "refresh" /\ wk[w].then = "idle"
      /\ UNCHANGED <<platform, due, cred, ver, status, clock, cache, lock, local, adm, reauths,
                     late>>
  BY InHand DEF Refresh, rest, account, locks, admin
<1>1. CASE /\ Rotate(wk[w].used) /\ NoFault
           /\ wk' = [wk EXCEPT ![w].pc = "persist", ![w].got = made + 1]
  <2>1. made + 1 \in Nat
    BY InHand
  <2>2. Becomes(w, "persist", "idle", wk[w].acct, wk[w].aver, wk[w].used, made + 1, wk[w].held)
    BY <1>0, <1>1, <2>1, RotateEffect, InHand
  <2>3. "persist" \in Pcs /\ "idle" \in Afterwards \ {"seterror"} /\ "idle" \notin RequestPcs
    BY DEF Pcs, Afterwards, RequestPcs
  <2> QED
    BY <1>0, <1>1, <2>2, <2>3, RotateKeeps
<1>2. CASE Rotate(wk[w].used) /\ Fault("dropped") /\ Failed(w)
  <2>1. PICK pc \in {"local", "idle", "check", "end"} :
          /\ w \in Background => pc \in {"local", "idle"}
          /\ Becomes(w, "release", pc, wk[w].acct, wk[w].aver, wk[w].used, wk[w].got, wk[w].held)
    BY <1>2, FailedEffect
  <2>2. /\ "release" \in Pcs /\ pc \in Afterwards \ {"seterror"}
        /\ w \in Background => pc \notin RequestPcs
    BY <2>1 DEF Pcs, Afterwards, RequestPcs
  <2> QED
    BY <1>0, <1>2, <2>1, <2>2, RotateKeeps
<1>3. CASE wk[w].used \notin live /\ NoFault /\ MoveTo(w, "recover") /\ UNCHANGED provider
  <2>1. Becomes(w, "recover", "idle", wk[w].acct, wk[w].aver, wk[w].used, wk[w].got, wk[w].held)
    BY <1>0, <1>3, MoveEffect, InHand DEF Pcs
  <2>2. Shapes' /\ seen' = seen /\ UNCHANGED <<live, made>>
    BY <1>0, <1>3, <2>1, InHand, ShapesKept DEF Becomes, NoFault, history, provider
  <2>3. wk[w].used \in due
    BY <1>0 DEF OAuthInd, Books, Numbers, Using
  <2>4. Approach(w)
    BY <1>0, <2>1, <2>2, <2>3 DEF Becomes, Approach
  <2>5. Exclusive'
    BY <1>0, <2>1, <2>2 DEF OAuthInd, Safety, Exclusive, Becomes, Inside, Using
  <2>6. Rejected'
    BY <1>0, <1>3, <2>1, <2>2, <2>4, ApproachKeeps DEF OAuthInd, Safety, Rejected, Becomes, Using
  <2>7. Sound'
    BY <1>0, <1>3, <2>1, <2>2, <2>4, ApproachKeeps DEF OAuthInd, Safety, Sound, Becomes
  <2> QED
    BY <2>4, <2>5, <2>6, <2>7, ApproachKeeps DEF OAuthInd, Safety
<1>4. CASE Fault("provider") /\ Failed(w) /\ UNCHANGED provider
  <2>1. PICK pc \in {"local", "idle", "check", "end"} :
          Return(w, pc) /\ (w \in Background => pc \in {"local", "idle"})
    BY <1>4, FailedEffect
  <2>2. UNCHANGED <<live, made>> /\ "provider" \in Kinds
    BY <1>4 DEF provider, Kinds
  <2> QED
    BY <1>0, <1>4, <2>1, <2>2, Returns, WalkKeeps DEF Afterwards, RequestPcs
<1>5. CASE Fault("denied") /\ Bar(w) /\ UNCHANGED provider
  <2>1. UNCHANGED <<live, made>> /\ "denied" \in Kinds /\ "denied" \in seen'
    BY <1>5 DEF provider, Kinds, Fault
  <2> QED
    BY <1>0, <1>5, <2>1, BarKeeps
<1> QED
  BY <1>1, <1>2, <1>3, <1>4, <1>5 DEF Refresh

\* After invalid_grant: the background is to bar the account only if the token
\* it presented is stored, or the database failed.
LEMMA RecoverKeeps ==
  ASSUME OAuthInd, NEW w \in Workers, tryRecoverFromRefreshRace(w)
  PROVE  OAuthInd'
<1>0. /\ wk[w].pc = "recover" /\ wk[w].then = "idle"
      /\ UNCHANGED <<platform, due, cred, ver, status, live, made, clock, cache, lock, local,
                     adm, reauths, late>>
      /\ NoFault \/ \E k \in Kinds : Fault(k)
  BY InHand DEF tryRecoverFromRefreshRace, rest, account, provider, locks, admin, Kinds
<1>1. CASE wk' = [wk EXCEPT ![w] = [Fresh(w) EXCEPT
             !.pc = "release", !.then = IF w \in Background THEN "idle" ELSE "check"]]
  <2>1. PICK pc \in {"idle", "check"} :
          /\ wk' = [wk EXCEPT ![w] = [Fresh(w) EXCEPT !.pc = "release", !.then = pc]]
          /\ w \in Background => pc = "idle"
    BY <1>1, Zenon
  <2> QED
    BY <1>0, <2>1, Returns, WalkKeeps DEF Afterwards, RequestPcs
<1>2. ASSUME Bar(w) PROVE OAuthInd'
  BY <1>0, <1>2, BarKeeps
<1> QED
  BY <1>1, <1>2 DEF tryRecoverFromRefreshRace

\* w is done with storing: it has stored its credential, over whatever was there
\* or in the place of the one it was issued for, or not.
LEMMA PersistKeeps ==
  ASSUME OAuthInd, NEW w \in Workers, wk[w].pc = "persist", wk[w].then = "idle",
         NEW pc \in {"release", "durable"}, NEW then \in Afterwards \ {"seterror"},
         NEW acct, NEW aver, NEW stored \in BOOLEAN,
         Becomes(w, pc, then, acct, aver, wk[w].used, wk[w].got, wk[w].held),
         clock' = clock + 1,
         stored => /\ cred' = wk[w].got /\ ver' = clock + 1
                   /\ platform # "grok" \/ cred = wk[w].used,
         ~stored => cred' = cred /\ ver' = ver,
         \/ acct = wk[w].acct /\ aver = wk[w].aver
         \/ stored /\ acct = wk[w].got /\ aver = clock + 1,
         pc = "durable" => then = "idle", w \in Background => then \notin RequestPcs,
         \/ "db" \in seen'
         \/ stored /\ Following(w)'
         \/ ~stored /\ cred # wk[w].used,
         NoFault \/ \E k \in Kinds : Fault(k),
         UNCHANGED <<platform, due, status, live, made, cache, lock, local, adm, reauths, late>>
  PROVE  OAuthInd'
<1> USE DEF OAuthInd, Books, Safety
<1>0. /\ made \in Nat /\ clock \in Nat /\ live \subseteq 1..made /\ cred \in 1..made
      /\ wk[w].got \in live /\ wk[w].got \in 1..made /\ ver \in 0..clock
      /\ \A u \in Workers : wk[u].used # wk[w].got /\ wk[u].acct # wk[w].got
      /\ \A u \in Workers : wk[u].acct \in 0..made /\ wk[u].aver \in 0..clock
  BY DEF Numbers, Issued
<1>1. Shapes' /\ seen \subseteq seen'
  BY InHand, ShapesKept DEF Becomes
<1>2. Numbers'
  <2>1. /\ 0..clock \subseteq 0..(clock + 1) /\ clock + 1 \in 0..(clock + 1)
        /\ 1..made \subseteq 0..made
    BY <1>0
  <2>2. cred' \in 1..made /\ ver' \in 0..(clock + 1) /\ adm.aver \in 0..(clock + 1)
    BY <1>0, <2>1 DEF Numbers
  <2>3. \A u \in Workers :
          /\ wk[u].acct \in 0..made /\ wk[u].used \in 0..made /\ wk[u].got \in 0..made
          /\ wk[u].aver \in 0..(clock + 1)
          /\ wk[u].pc \in Using => wk[u].used \in due
    BY <2>1 DEF Numbers
  <2>4. acct \in 0..made /\ aver \in 0..(clock + 1) /\ pc \notin Using
    BY <1>0, <2>1, <2>3 DEF Using
  <2>5. \A u \in Workers :
          /\ wk'[u].acct \in 0..made /\ wk'[u].used \in 0..made /\ wk'[u].got \in 0..made
          /\ wk'[u].aver \in 0..(clock + 1)
          /\ wk'[u].pc \in Using => wk'[u].used \in due
    BY <2>3, <2>4 DEF Becomes
  <2> QED
    BY <1>0, <2>2, <2>5 DEF Numbers
<1>3. Drawn'
  <2>1. Persisting' = Persisting \ {w} /\ w \in Persisting /\ Dead' = Dead /\ Pending' = Pending
    BY DEF Becomes, Persisting, Dead, Pending
  <2>2. /\ IsFiniteSet(Persisting') /\ Cardinality(Persisting') = Cardinality(Persisting) - 1
        /\ Cardinality(Persisting) \in Nat
    BY <2>1, FS_RemoveElement, FS_CardinalityType DEF Drawn
  <2> QED
    BY <1>0, <2>1, <2>2 DEF Drawn
<1>4. Issued'
  BY <1>0 DEF Becomes, Issued
<1>5. Exclusive'
  BY <1>1 DEF Becomes, Exclusive, Inside, Using
<1>6. \A c : Gone(c) => Gone(c)' /\ wk[w].used # c
  BY DEF Becomes, Gone
<1>7. ~Barring(w)' /\ \A u \in Workers : u # w => Barring(u)' = Barring(u)
  BY DEF Becomes, Barring
<1>8. Rejected'
  <2>1. \A u \in Workers : wk'[u].pc = "recover" => wk'[u].used \notin live'
    BY DEF Becomes, Rejected
  <2> SUFFICES ASSUME seen' \cap {"lapse", "redis", "denied"} = {}
               PROVE  /\ \A u \in Workers : Barring(u)' =>
                           Gone(wk[u].acct)' /\ wk'[u].acct = wk[u].acct
                      /\ reauths = 0 => \A u \in Workers :
                           /\ wk'[u].pc \in Using => wk'[u].used = cred'
                           /\ Barring(u)' => wk'[u].acct = cred'
                      /\ /\ "clear" \notin seen' /\ (platform = "grok" \/ reauths = 0)
                         /\ status = "error"
                         => (Gone(cred)' /\ cred' = cred) \/ adm.pc = "clear"
    BY <2>1 DEF Rejected, Gone
  <2>2. seen \cap {"lapse", "redis", "denied"} = {}
    BY <1>1
  <2>3. \A u \in Workers : Barring(u)' => u # w /\ Barring(u) /\ Gone(wk[u].acct)
    BY <1>7, <2>2 DEF Rejected
  <2>4. \A u \in Workers : Barring(u)' => Gone(wk[u].acct)' /\ wk'[u].acct = wk[u].acct
    BY <1>6, <2>3 DEF Becomes, Gone
  <2>5. reauths = 0 => wk[w].used = cred /\ \A u \in Workers : ~Barring(u)'
    BY <1>6, <2>2, <2>3 DEF Rejected, Using
  <2>6. \A u \in Workers : wk'[u].pc \notin Using
    BY <2>2 DEF Exclusive, Becomes, Inside, Using
  <2>7. /\ "clear" \notin seen' /\ (platform = "grok" \/ reauths = 0) /\ status = "error"
        => (Gone(cred)' /\ cred' = cred) \/ adm.pc = "clear"
    <3> SUFFICES ASSUME "clear" \notin seen', platform = "grok" \/ reauths = 0,
                        status = "error", adm.pc # "clear"
                 PROVE  Gone(cred)' /\ cred' = cred
      OBVIOUS
    <3>1. Gone(cred)
      BY <1>1, <2>2 DEF Rejected
    <3>2. ~stored
      BY <1>6, <2>5, <3>1
    <3>3. cred' = cred
      BY <3>2
    <3> QED
      BY <3>1, <3>3 DEF Gone, Becomes
  <2> QED
    BY <2>4, <2>5, <2>6, <2>7
<1>9. Sound'
  BY <1>1, <1>7 DEF Becomes, Sound
<1>10. Roles'
  <2>1. \A u \in Workers : /\ wk'[u].then \in Afterwards
                           /\ wk'[u].then # "idle" => wk'[u].pc = "release"
    BY DEF Becomes, Roles
  <2>2. \A u \in Background : wk'[u].pc \notin RequestPcs /\ wk'[u].then \notin RequestPcs
    BY DEF Becomes, Roles, Workers, RequestPcs
  <2>3. \A u \in Requests :
          /\ wk'[u].acct = 0 => wk'[u].pc \in {"asked", "end"}
          /\ wk'[u].acct = cred' => wk'[u].aver = ver'
          /\ reauths = 0 /\ wk'[u].acct # 0 /\ wk'[u].acct # cred' => wk'[u].aver < ver'
    <3> TAKE u \in Requests
    <3>0. u \in Workers
      BY DEF Workers
    <3>1. /\ wk[u].acct = 0 => wk[u].pc \in {"asked", "end"}
          /\ wk[u].acct = cred => wk[u].aver = ver
          /\ reauths = 0 /\ wk[u].acct # 0 /\ wk[u].acct # cred => wk[u].aver < ver
      BY DEF Roles
    <3>2. CASE u # w
      BY <1>0, <3>0, <3>1, <3>2 DEF Becomes
    <3>3. CASE u = w
      BY <1>0, <3>0, <3>1, <3>3 DEF Becomes
    <3> QED
      BY <3>2, <3>3
  <2> QED
    BY <2>1, <2>2, <2>3 DEF Roles
<1>11. StoredIsLive'
  BY <1>0, <1>1 DEF Becomes, StoredIsLive
<1>12. StaleTokenGoes'
  <2>1. ~Following(w)
    BY NotFollowing
  <2>2. CASE "db" \in seen'
    BY <2>2 DEF StaleTokenGoes
  <2>3. CASE Following(w)' \/ ~stored
    BY <1>1, <2>1, <2>3, StaleKept DEF Becomes, CacheStep
  <2> QED
    BY <2>2, <2>3
<1> QED
  BY <1>1, <1>2, <1>3, <1>4, <1>5, <1>8, <1>9, <1>10, <1>11, <1>12

\* The update of an account that is not a Grok account.
LEMMA ClaudePersistKeeps ==
  ASSUME OAuthInd, NEW w \in Workers, persistAccountCredentials(w)
  PROVE  OAuthInd'
<1>0. /\ wk[w].pc = "persist" /\ wk[w].then = "idle" /\ platform # "grok"
      /\ clock' = clock + 1 /\ clock + 1 \in Nat
      /\ UNCHANGED <<platform, due, status, live, made, cache, lock, local, adm, reauths, late>>
  BY InHand DEF persistAccountCredentials, rest, provider, locks, admin
<1>1. CASE /\ Store(w) /\ NoFault
           /\ wk' = [wk EXCEPT ![w].pc = "release", ![w].acct = wk[w].got, ![w].aver = clock',
                       ![w].then = IF w \in Background THEN "sync" ELSE "check"]
  <2>1. PICK pc \in {"sync", "check"} :
          /\ wk' = [wk EXCEPT ![w].pc = "release", ![w].acct = wk[w].got, ![w].aver = clock + 1,
                      ![w].then = pc]
          /\ w \in Background => pc = "sync"
    BY <1>0, <1>1, Zenon
  <2>2. Becomes(w, "release", pc, wk[w].got, clock + 1, wk[w].used, wk[w].got, wk[w].held)
    <3>1. wk \in [Workers -> WorkerRec] /\ pc \in Pcs
      BY InHand DEF Pcs
    <3> QED
      BY <1>0, <2>1, <3>1, StoredEffect, Zenon
  <2>3. cred' = wk[w].got /\ ver' = clock + 1
    BY <1>0, <1>1 DEF Store
  <2>4. Following(w)'
    BY <2>2, <2>3 DEF Becomes, Following
  <2>5. pc \in Afterwards \ {"seterror"} /\ (w \in Background => pc \notin RequestPcs)
    BY <2>1 DEF Afterwards, RequestPcs
  <2> QED
    BY <1>0, <1>1, <2>2, <2>3, <2>4, <2>5, PersistKeeps
<1>2. CASE Fault("db") /\ Failed(w) /\ (Store(w) \/ UNCHANGED <<cred, ver>>)
  <2>1. PICK pc \in {"local", "idle", "check", "end"} :
          /\ w \in Background => pc \in {"local", "idle"}
          /\ Becomes(w, "release", pc, wk[w].acct, wk[w].aver, wk[w].used, wk[w].got, wk[w].held)
    BY <1>2, FailedEffect
  <2>2. PICK stored \in BOOLEAN : /\ stored => cred' = wk[w].got /\ ver' = clock + 1
                                  /\ ~stored => cred' = cred /\ ver' = ver
    <3>1. CASE Store(w)
      BY <1>0, <3>1 DEF Store
    <3>2. CASE UNCHANGED <<cred, ver>>
      BY <3>2
    <3> QED
      BY <1>2, <3>1, <3>2
  <2>3. "db" \in seen' /\ "db" \in Kinds
    BY <1>2 DEF Fault, Kinds
  <2>4. pc \in Afterwards \ {"seterror"} /\ (w \in Background => pc \notin RequestPcs)
    BY <2>1 DEF Afterwards, RequestPcs
  <2> QED
    BY <1>0, <1>2, <2>1, <2>2, <2>3, <2>4, PersistKeeps
<1> QED
  BY <1>1, <1>2 DEF persistAccountCredentials

\* The conditional update of a Grok account.
LEMMA GrokPersistKeeps ==
  ASSUME OAuthInd, NEW w \in Workers, UpdateGrokOAuthCredentialsIfUnchanged(w)
  PROVE  OAuthInd'
<1>0. /\ wk[w].pc = "persist" /\ wk[w].then = "idle"
      /\ clock' = clock + 1
      /\ UNCHANGED <<platform, due, status, live, made, cache, lock, local, adm, reauths, late>>
  BY InHand DEF UpdateGrokOAuthCredentialsIfUnchanged, rest, provider, locks, admin
<1>1. "idle" \in Afterwards \ {"seterror"} /\ "idle" \notin RequestPcs /\ "db" \in Kinds
  BY DEF Afterwards, RequestPcs, Kinds
<1>2. CASE cred = wk[w].used /\ Store(w) /\ NoFault /\ MoveTo(w, "durable")
  <2>1. Becomes(w, "durable", "idle", wk[w].acct, wk[w].aver, wk[w].used, wk[w].got, wk[w].held)
    BY <1>0, <1>2, MoveEffect, InHand DEF Pcs
  <2>2. cred' = wk[w].got /\ ver' = clock + 1
    BY <1>0, <1>2 DEF Store
  <2>3. Following(w)'
    BY <2>1 DEF Becomes, Following
  <2> QED
    BY <1>0, <1>1, <1>2, <2>1, <2>2, <2>3, PersistKeeps
<1>3. CASE \/ cred # wk[w].used /\ NoFault /\ Return(w, "idle") /\ UNCHANGED <<cred, ver>>
           \/ /\ Fault("db") /\ Return(w, "idle")
              /\ (cred = wk[w].used /\ Store(w)) \/ UNCHANGED <<cred, ver>>
  <2>1. Becomes(w, "release", "idle", wk[w].acct, wk[w].aver, wk[w].used, wk[w].got, wk[w].held)
    BY <1>0, <1>3, ReturnEffect, InHand DEF Pcs
  <2>2. NoFault \/ \E k \in Kinds : Fault(k)
    BY <1>1, <1>3
  <2>3. CASE cred = wk[w].used /\ Store(w) /\ Fault("db")
    <3>1. cred' = wk[w].got /\ ver' = clock + 1 /\ "db" \in seen'
      BY <1>0, <2>3 DEF Store, Fault
    <3> QED
      BY <1>0, <1>1, <2>1, <2>2, <2>3, <3>1, PersistKeeps
  <2>4. CASE UNCHANGED <<cred, ver>> /\ (cred # wk[w].used \/ Fault("db"))
    <3>1. cred' = cred /\ ver' = ver /\ (cred # wk[w].used \/ "db" \in seen')
      BY <2>4 DEF Fault
    <3> QED
      BY <1>0, <1>1, <2>1, <2>2, <3>1, PersistKeeps
  <2> QED
    BY <1>3, <2>3, <2>4
<1> QED
  BY <1>2, <1>3 DEF UpdateGrokOAuthCredentialsIfUnchanged

\* The cached token of a Grok account is deleted.
LEMMA DurableKeeps ==
  ASSUME OAuthInd, NEW w \in Workers, loadGrokDurableAccountAfterPersist(w)
  PROVE  OAuthInd'
<1>0. /\ wk[w].pc = "durable" /\ cache' \in {0, cache}
      /\ UNCHANGED <<platform, due, cred, ver, status, live, made, clock, lock, local, adm,
                     reauths, late>>
  BY DEF loadGrokDurableAccountAfterPersist, rest, account, provider, locks, admin
<1>1. PICK pc \in {"sync", "idle"} : Return(w, pc)
  BY DEF loadGrokDurableAccountAfterPersist
<1>2. /\ cache' = 0 \/ "redis" \in seen'
      /\ NoFault \/ \E k \in Kinds : Fault(k)
  BY DEF loadGrokDurableAccountAfterPersist, Fault, Kinds
<1> QED
  BY <1>0, <1>1, <1>2, Returns, WalkKeeps DEF Afterwards, RequestPcs

\* The lock is deleted by its key: whoever has it, that is w, unless a lease
\* has run out or Redis has failed.
LEMMA ReleaseKeeps ==
  ASSUME OAuthInd, NEW w \in Workers, releaseRefreshLock(w)
  PROVE  OAuthInd'
<1>0. /\ wk[w].pc = "release" /\ (NoFault \/ Fault("redis"))
      /\ UNCHANGED <<platform, due, cred, ver, status, live, made, clock, cache, adm, reauths,
                     late>>
  BY DEF releaseRefreshLock, rest, account, provider, admin
<1>1. Becomes(w, wk[w].then, "idle", wk[w].acct, wk[w].aver, 0, 0, FALSE)
  <2>1. wk \in [Workers -> WorkerRec]
    BY InHand
  <2> QED
    BY <2>1, ReleaseEffect DEF releaseRefreshLock
<1>2. /\ lock' \in BOOLEAN /\ local' \in [Replicas -> Workers \cup {"none"}]
      /\ \/ lock' <=> lock /\ ~wk[w].held
         \/ "redis" \in seen'
  <2>1. local' \in [Replicas -> Workers \cup {"none"}]
    BY InHand DEF releaseRefreshLock
  <2>2. CASE lock' = (lock /\ ~wk[w].held)
    <3>1. (lock /\ ~wk[w].held) \in BOOLEAN
      BY Zenon
    <3>2. lock' \in BOOLEAN /\ (lock' <=> lock /\ ~wk[w].held)
      BY <2>2, <3>1, Zenon
    <3> QED
      BY <2>1, <3>2
  <2>3. CASE wk[w].held /\ Fault("redis") /\ UNCHANGED lock
    BY <2>1, <2>3, InHand DEF Fault
  <2> QED
    BY <2>2, <2>3 DEF releaseRefreshLock
<1>3. Shapes' /\ seen \subseteq seen'
  <2>1. NoFault \/ \E k \in Kinds : Fault(k)
    BY <1>0 DEF Kinds
  <2> QED
    BY <1>0, <1>1, <1>2, <2>1, InHand, ShapesKept DEF Becomes
<1> USE DEF OAuthInd, Books, Safety
<1>4. wk[w].then \in Afterwards
  BY DEF Roles
<1>5. wk[w].then \notin Inside /\ wk[w].then # "release"
  BY <1>4 DEF Afterwards, Inside, Using
<1>6. Numbers'
  BY <1>0, <1>1, <1>5 DEF Becomes, Numbers, Inside
<1>7. Drawn'
  <2>1. Persisting' = Persisting /\ Dead' = Dead /\ Pending' = Pending
    BY <1>0, <1>1, <1>5 DEF Becomes, Persisting, Dead, Pending, Inside, Using
  <2> QED
    BY <1>0, <2>1 DEF Drawn
<1>8. Issued'
  <2>1. 0 \notin live
    BY DEF Numbers
  <2> QED
    BY <1>0, <1>1, <1>5, <2>1 DEF Becomes, Issued, Inside, Using
<1>9. Exclusive'
  BY <1>0, <1>1, <1>2, <1>3, <1>5 DEF Becomes, Exclusive
<1>10. \A c : Gone(c) => Gone(c)'
  BY <1>0, <1>1, <1>5 DEF Becomes, Gone, Inside, Using
<1>11. \A u \in Workers : Barring(u)' => Barring(u) /\ wk'[u].acct = wk[u].acct
  BY <1>0, <1>1 DEF Becomes, Barring
<1>12. Rejected'
  BY <1>0, <1>1, <1>3, <1>5, <1>10, <1>11 DEF Becomes, Rejected, Inside, Using
<1>13. Sound'
  BY <1>0, <1>1, <1>3, <1>5, <1>11 DEF Becomes, Sound, Inside, Using
<1>14. Roles'
  <2>1. \A u \in Workers : /\ wk'[u].then \in Afterwards
                           /\ wk'[u].then # "idle" => wk'[u].pc = "release"
    BY <1>1 DEF Becomes, Roles, Afterwards
  <2>2. \A u \in Background : wk'[u].pc \notin RequestPcs /\ wk'[u].then \notin RequestPcs
    BY <1>1 DEF Becomes, Roles, Workers, RequestPcs
  <2>3. \A u \in Requests :
          /\ wk'[u].acct = 0 => wk'[u].pc \in {"asked", "end"}
          /\ wk'[u].acct = cred => wk'[u].aver = ver
          /\ reauths = 0 /\ wk'[u].acct # 0 /\ wk'[u].acct # cred => wk'[u].aver < ver
    BY <1>0, <1>1 DEF Becomes, Roles, Workers
  <2> QED
    BY <1>0, <2>1, <2>2, <2>3 DEF Roles
<1>15. StoredIsLive'
  BY <1>0, <1>1, <1>3 DEF Becomes, StoredIsLive
<1>16. StaleTokenGoes'
  <2>1. Following(w) => Following(w)'
    BY <1>0, <1>1 DEF Becomes, Following
  <2> QED
    BY <1>0, <1>1, <1>3, <2>1, StaleKept DEF Becomes, CacheStep
<1> QED
  BY <1>3, <1>6, <1>7, <1>8, <1>9, <1>12, <1>13, <1>14, <1>15, <1>16

\* The account is barred.
LEMMA SetErrorKeeps ==
  ASSUME OAuthInd, NEW w \in Workers, SetError(w)
  PROVE  OAuthInd'
<1>0. /\ wk[w].pc = "seterror" /\ wk[w].then = "idle"
      /\ UNCHANGED <<platform, due, cred, ver, live, made, clock, cache, lock, local, adm,
                     reauths, late>>
  BY InHand DEF SetError, rest, provider, locks, admin
<1>1. PICK pc \in {"idle", "sync"} : MoveTo(w, pc) /\ (status' # status => pc = "sync")
  BY InHand DEF SetError
<1>2. /\ Becomes(w, pc, "idle", wk[w].acct, wk[w].aver, wk[w].used, wk[w].got, wk[w].held)
      /\ NoFault \/ \E k \in Kinds : Fault(k)
  <2>1. Becomes(w, pc, "idle", wk[w].acct, wk[w].aver, wk[w].used, wk[w].got, wk[w].held)
    BY <1>0, <1>1, MoveEffect, InHand DEF Pcs
  <2> QED
    BY <2>1 DEF SetError, Kinds
<1>3. Shapes' /\ seen \subseteq seen'
  <2>1. status' \in {"active", "error"}
    BY InHand DEF SetError
  <2> QED
    BY <1>0, <1>2, <2>1, InHand, ShapesKept DEF Becomes
<1>4. ~Following(w)
  BY <1>0, NotFollowing
<1>5. CASE status' = status
  BY <1>0, <1>2, <1>3, <1>4, <1>5, InHand, WalkKeeps
     DEF Becomes, Walk, CacheStep, RequestPcs, Afterwards, Inside, Using
<1>6. CASE status' = "error" /\ NoFault /\ (platform = "grok" => Unchanged(w))
  <2> USE DEF OAuthInd, Books, Safety
  <2>1. Numbers'
    BY <1>0, <1>2 DEF Becomes, Numbers, Using
  <2>2. Drawn'
    <3>1. Persisting' = Persisting /\ Dead' = Dead /\ Pending' = Pending
      BY <1>0, <1>2 DEF Becomes, Persisting, Dead, Pending
    <3> QED
      BY <1>0, <3>1 DEF Drawn
  <2>3. Issued' /\ Exclusive'
    BY <1>0, <1>2, <1>3 DEF Becomes, Issued, Exclusive, Inside, Using
  <2>4. (\A c : Gone(c) => Gone(c)') /\ Barring(w) /\ ~Barring(w)'
    BY <1>0, <1>2 DEF Becomes, Gone, Barring
  <2>5. \A u \in Workers : u # w => Barring(u)' = Barring(u)
    BY <1>2 DEF Becomes, Barring
  <2>6. seen \cap {"lapse", "redis", "denied"} = {} /\ (platform = "grok" \/ reauths = 0) =>
          Gone(cred)
    BY <1>6, <2>4 DEF Rejected, Unchanged
  <2>7. Rejected'
    BY <1>0, <1>2, <1>3, <2>4, <2>5, <2>6 DEF Becomes, Rejected, Using
  <2>8. Sound'
    BY <1>3, <2>4 DEF Sound
  <2>9. Roles'
    <3>1. \A u \in Workers : /\ wk'[u].then \in Afterwards
                             /\ wk'[u].then # "idle" => wk'[u].pc = "release"
      BY <1>2 DEF Becomes, Roles, Afterwards
    <3>2. \A u \in Background : wk'[u].pc \notin RequestPcs /\ wk'[u].then \notin RequestPcs
      BY <1>2 DEF Becomes, Roles, Workers, RequestPcs
    <3>3. \A u \in Requests :
            /\ wk'[u].acct = 0 => wk'[u].pc \in {"asked", "end"}
            /\ wk'[u].acct = cred => wk'[u].aver = ver
            /\ reauths = 0 /\ wk'[u].acct # 0 /\ wk'[u].acct # cred => wk'[u].aver < ver
      BY <1>0, <1>2 DEF Becomes, Roles, Workers
    <3> QED
      BY <1>0, <3>1, <3>2, <3>3 DEF Roles
  <2>10. StoredIsLive'
    BY <1>0, <1>2, <1>3 DEF Becomes, StoredIsLive
  <2>11. StaleTokenGoes'
    BY <1>0, <1>2, <1>3, <1>4, StaleKept DEF Becomes, CacheStep
  <2> QED
    BY <1>3, <2>1, <2>2, <2>3, <2>7, <2>8, <2>9, <2>10, <2>11
<1> QED
  BY <1>5, <1>6 DEF SetError

\* A step of the administrator, of time or of Redis alone: the credential, the
\* provider and the workers stay.
Quiet ==
  /\ UNCHANGED <<platform, cred, ver, live, made, clock, wk, local, late>>
  /\ NoFault \/ \E k \in Kinds : Fault(k)
  /\ adm' \in [pc : AdminPcs, aver : 0..clock]
  /\ reauths' \in reauths..MaxReauths
  /\ adm'.pc = "update" => adm.pc = "update" \/ reauths' > reauths
  /\ adm'.pc # "idle" => reauths' > 0
  /\ due \subseteq due' /\ due' \subseteq 1..made
  /\ IsFiniteSet(due') /\ Cardinality(due') <= MaxDue
  /\ cache' \in {0, cache} /\ lock' \in BOOLEAN /\ status' \in {status, "active"}
  /\ lock' = lock \/ (\A w \in Workers : ~wk[w].held) \/ "lapse" \in seen'
  /\ adm.pc = "clear" => adm'.pc = "clear" \/ status' = "active" \/ "clear" \in seen'
  /\ adm.pc \in {"clear", "invalidate"} =>
       adm'.pc \in {"clear", "invalidate"} \/ cache' = 0 \/ "redis" \in seen'

\* Such a step keeps the invariant.
LEMMA QuietKeeps ==
  ASSUME OAuthInd, Quiet
  PROVE  OAuthInd'
<1> USE DEF OAuthInd, Books, Safety
<1>1. Shapes' /\ seen \subseteq seen'
  <2>1. adm' \in [pc : AdminPcs, aver : Nat] /\ status' \in {"active", "error"}
    <3>1. clock \in Nat /\ adm' \in [pc : AdminPcs, aver : 0..clock]
      BY DEF Quiet, Numbers
    <3>2. 0..clock \subseteq Nat
      BY <3>1
    <3>3. adm' \in [pc : AdminPcs, aver : Nat]
      BY <3>1, <3>2, Zenon
    <3> QED
      BY <3>3 DEF Quiet, Shapes
  <2> QED
    BY <2>1, HistoryEffect DEF Quiet, Shapes
<1>2. Numbers'
  BY DEF Quiet, Numbers, AdminPcs
<1>3. Drawn'
  <2>1. Persisting' = Persisting /\ Dead' = Dead
    BY DEF Quiet, Persisting, Dead
  <2>2. /\ Pending \in 0..1 /\ Pending' \in 0..1 /\ made \in Nat /\ reauths \in Nat
        /\ IsFiniteSet(Dead) /\ Cardinality(Dead) \in Nat
    <3>1. IsFiniteSet(Dead)
      BY FS_Subset DEF Drawn
    <3> QED
      BY <3>1, FS_CardinalityType DEF Pending, Numbers
  <2>3. made + Pending' <= 1 + Cardinality(Dead) + reauths'
    <3>1. reauths' \in Nat /\ reauths' >= reauths
      BY <2>2, BoundsAssumption DEF Quiet
    <3>2. made + Pending <= 1 + Cardinality(Dead) + reauths
      BY DEF Drawn
    <3>3. CASE adm'.pc = "update" /\ adm.pc # "update"
      <4>1. Pending' = 1 /\ Pending = 0 /\ reauths' > reauths
        BY <3>3 DEF Pending, Quiet
      <4> QED
        BY <2>2, <3>1, <3>2, <4>1
    <3>4. CASE adm'.pc = "update" => adm.pc = "update"
      <4>1. Pending' = Pending \/ Pending' = 0
        BY <3>4 DEF Pending
      <4> QED
        BY <2>2, <3>1, <3>2, <4>1
    <3> QED
      BY <3>3, <3>4
  <2> QED
    BY <2>1, <2>3 DEF Quiet, Drawn
<1>4. Issued'
  BY DEF Quiet, Issued
<1>5. Exclusive'
  BY <1>1 DEF Quiet, Exclusive
<1>6. /\ \A c : Gone(c)' <=> Gone(c)
      /\ \A w : Barring(w)' <=> Barring(w)
      /\ reauths' = 0 => reauths = 0
  BY DEF Quiet, Gone, Barring, Numbers
<1>7. Rejected'
  BY <1>1, <1>6 DEF Quiet, Rejected
<1>8. Sound'
  BY <1>1, <1>6 DEF Quiet, Sound
<1>9. Roles'
  BY <1>6 DEF Quiet, Roles
<1>10. StoredIsLive'
  BY <1>1 DEF Quiet, StoredIsLive
<1>11. StaleTokenGoes'
  BY <1>1 DEF Quiet, StaleTokenGoes, CacheIsFollowing
<1> QED
  BY <1>1, <1>2, <1>3, <1>4, <1>5, <1>7, <1>8, <1>9, <1>10, <1>11

\* The steps of the administrator but for the update, of time and of Redis.
LEMMA QuietSteps ==
  ASSUME OAuthInd,
         \/ ReadExisting \/ ClearAccountError \/ InvalidateAfterReauth \/ ExpiryNears
         \/ CacheExpires \/ LockExpires \/ LockLapses \/ UNCHANGED oauthVars
  PROVE  OAuthInd'
<1> USE DEF OAuthInd, Books
<1> DEFINE AdmSet == [pc : AdminPcs, aver : 0..clock]
<1>0. /\ adm \in AdmSet /\ reauths \in reauths..MaxReauths /\ (adm.pc # "idle" => reauths > 0)
      /\ due \subseteq 1..made /\ IsFiniteSet(due) /\ Cardinality(due) <= MaxDue
      /\ lock \in BOOLEAN /\ ver \in 0..clock /\ 0 \in 0..clock
      /\ reauths \in Nat /\ MaxReauths \in Nat /\ made \in Nat
  <2>1. adm \in AdmSet
    <3>1. adm \in [pc : AdminPcs, aver : Nat] /\ adm.aver \in 0..clock
      BY DEF Shapes, Numbers
    <3> QED
      BY <3>1
  <2> QED
    BY <2>1, BoundsAssumption DEF Shapes, Numbers, Drawn
<1>1. ASSUME ReadExisting PROVE Quiet
  <2>1. /\ adm.pc = "idle" /\ adm' = [pc |-> "update", aver |-> ver] /\ NoFault
        /\ reauths' = reauths + 1 /\ reauths < MaxReauths
        /\ UNCHANGED <<platform, due, cred, ver, status, live, made, clock, cache, lock, local,
                       wk, late>>
    BY <1>1 DEF ReadExisting, NoFault, rest, account, provider, locks
  <2>2. adm' \in AdmSet /\ adm'.pc = "update"
    BY <1>0, <2>1 DEF AdminPcs
  <2> QED
    BY <1>0, <2>1, <2>2 DEF Quiet
<1>2. ASSUME ClearAccountError PROVE Quiet
  <2>1. /\ adm.pc = "clear" /\ adm' = [adm EXCEPT !.pc = "invalidate"]
        /\ NoFault \/ \E k \in Kinds : Fault(k)
        /\ status' \in {status, "active"} /\ (status' = "active" \/ "clear" \in seen')
        /\ UNCHANGED <<platform, due, cred, ver, live, made, clock, cache, lock, local, wk,
                       reauths, late>>
    BY <1>2 DEF ClearAccountError, Fault, Kinds, rest, provider, locks
  <2>2. adm' \in AdmSet /\ adm'.pc = "invalidate"
    BY <1>0, <2>1, Zenon DEF AdminPcs
  <2> QED
    BY <1>0, <2>1, <2>2 DEF Quiet
<1>3. ASSUME InvalidateAfterReauth PROVE Quiet
  <2>1. /\ adm.pc = "invalidate" /\ adm' = [pc |-> "idle", aver |-> 0]
        /\ NoFault \/ \E k \in Kinds : Fault(k)
        /\ cache' \in {0, cache} /\ (cache' = 0 \/ "redis" \in seen')
        /\ UNCHANGED <<platform, due, cred, ver, status, live, made, clock, lock, local, wk,
                       reauths, late>>
    BY <1>3 DEF InvalidateAfterReauth, Fault, Kinds, rest, account, provider, locks
  <2>2. adm' \in AdmSet /\ adm'.pc = "idle"
    BY <1>0, <2>1 DEF AdminPcs
  <2> QED
    BY <1>0, <2>1, <2>2 DEF Quiet
<1>4. ASSUME ExpiryNears PROVE Quiet
  <2>1. /\ cred \notin due /\ Cardinality(due) < MaxDue /\ due' = due \cup {cred} /\ NoFault
        /\ UNCHANGED <<platform, cred, ver, status, live, made, clock, cache, lock, local, wk,
                       adm, reauths, late>>
    BY <1>4 DEF ExpiryNears, NoFault, account, provider, locks, admin
  <2>2. IsFiniteSet(due') /\ Cardinality(due') = Cardinality(due) + 1 /\ Cardinality(due) \in Nat
    BY <1>0, <2>1, FS_AddElement, FS_CardinalityType
  <2>3. due' \subseteq 1..made /\ MaxDue \in Nat
    BY <1>0, <2>1, BoundsAssumption DEF Numbers
  <2> QED
    BY <1>0, <2>1, <2>2, <2>3 DEF Quiet
<1>5. ASSUME CacheExpires \/ LockExpires \/ LockLapses \/ UNCHANGED oauthVars PROVE Quiet
  <2>1. /\ NoFault \/ \E k \in Kinds : Fault(k)
        /\ cache' \in {0, cache} /\ lock' \in BOOLEAN
        /\ lock' = lock \/ (\A w \in Workers : ~wk[w].held) \/ "lapse" \in seen'
        /\ UNCHANGED <<platform, due, cred, ver, status, live, made, clock, local, wk, adm,
                       reauths, late>>
    BY <1>0, <1>5 DEF CacheExpires, LockExpires, LockLapses, oauthVars, NoFault, Fault, Kinds,
       rest, account, provider, locks, admin, history
  <2> QED
    BY <1>0, <2>1 DEF Quiet
<1> QED
  BY <1>1, <1>2, <1>3, <1>4, <1>5, QuietKeeps

\* A new authorization: its credential is stored and nobody has read it.
LEMMA UpdateAccountKeeps ==
  ASSUME OAuthInd, UpdateAccount
  PROVE  OAuthInd'
<1> USE DEF OAuthInd, Books, Safety
<1>0. /\ adm.pc = "update" /\ made' = made + 1 /\ live' = live \cup {made + 1}
      /\ cred' = made + 1 /\ ver' = adm.aver /\ adm' = [adm EXCEPT !.pc = "clear"] /\ NoFault
      /\ UNCHANGED <<platform, due, status, clock, cache, lock, local, wk, reauths, faults, seen,
                     late>>
  BY DEF UpdateAccount, NoFault, rest, locks, history
<1>1. made \in Nat /\ 0..made \subseteq 0..(made + 1) /\ 1..made \subseteq 1..(made + 1)
  BY DEF Numbers
<1>2. /\ adm' \in [pc : AdminPcs, aver : Nat] /\ adm'.pc = "clear" /\ adm'.aver = adm.aver
  <2>1. adm \in [pc : AdminPcs, aver : Nat]
    BY DEF Shapes
  <2> QED
    BY <1>0, <2>1, Zenon DEF AdminPcs
<1>3. Shapes'
  BY <1>0, <1>2 DEF Shapes
<1>4. Numbers'
  BY <1>0, <1>1, <1>2 DEF Numbers
<1>5. Drawn'
  <2>1. Persisting' = Persisting /\ Pending = 1 /\ Pending' = 0
    BY <1>0, <1>2 DEF Persisting, Pending
  <2>2. Dead' = Dead
    BY <1>0, <1>1 DEF Dead
  <2>3. Cardinality(Dead) \in Nat /\ reauths \in Nat
    <3>1. IsFiniteSet(Dead)
      BY FS_Subset DEF Drawn
    <3> QED
      BY <3>1, FS_CardinalityType DEF Numbers
  <2> QED
    BY <1>0, <1>1, <2>1, <2>2, <2>3 DEF Drawn
<1>6. \A w \in Workers : /\ wk[w].acct # made + 1 /\ wk[w].used # made + 1
                         /\ wk[w].got # made + 1
  BY <1>1 DEF Numbers
<1>7. Issued'
  BY <1>0, <1>6 DEF Issued
<1>8. Exclusive'
  BY <1>0 DEF Exclusive
<1>9. reauths # 0 /\ \A w \in Workers : /\ Barring(w)' <=> Barring(w)
                                        /\ Gone(wk[w].acct) => Gone(wk[w].acct)'
  BY <1>0, <1>6 DEF Drawn, Numbers, Barring, Gone
<1>10. Rejected'
  BY <1>0, <1>2, <1>6, <1>9 DEF Rejected
<1>11. Sound'
  BY <1>0, <1>9 DEF Sound
<1>12. Roles'
  BY <1>0, <1>6, <1>9 DEF Roles, Workers
<1>13. StoredIsLive' /\ StaleTokenGoes'
  BY <1>0, <1>2 DEF StoredIsLive, StaleTokenGoes, CacheIsFollowing
<1> QED
  BY <1>3, <1>4, <1>5, <1>7, <1>8, <1>10, <1>11, <1>12, <1>13

\* A crash frees nothing but the mutex; whatever the workers held is lost.
LEMMA ReplicaDiesKeeps ==
  ASSUME OAuthInd, NEW r \in Replicas, ReplicaDies(r)
  PROVE  OAuthInd'
<1> USE DEF OAuthInd, Books, Safety
<1>0. /\ Fault("crash") /\ local' = [local EXCEPT ![r] = "none"] /\ "crash" \in seen'
      /\ UNCHANGED <<platform, due, cred, ver, status, live, made, clock, cache, lock, adm,
                     reauths, late>>
  BY DEF ReplicaDies, Fault, rest, account, provider, admin
<1>1. \A w \in Workers :
        \/ wk'[w] = wk[w]
        \/ /\ wk'[w] \in WorkerRec /\ wk'[w].pc = Rest(w) /\ wk'[w].then = "idle"
           /\ wk'[w].acct = 0 /\ wk'[w].aver = 0 /\ wk'[w].used = 0 /\ wk'[w].got = 0
           /\ ~wk'[w].held
  <2> SUFFICES ASSUME NEW w \in Workers, wk'[w] # wk[w]
               PROVE  /\ wk'[w] \in WorkerRec /\ wk'[w].pc = Rest(w) /\ wk'[w].then = "idle"
                      /\ wk'[w].acct = 0 /\ wk'[w].aver = 0 /\ wk'[w].used = 0
                      /\ wk'[w].got = 0 /\ ~wk'[w].held
    OBVIOUS
  <2>1. wk'[w] = [Ready(w) EXCEPT !.pc = Rest(w)]
    BY DEF ReplicaDies
  <2>2. Rest(w) \in Pcs
    BY DEF Rest, Pcs
  <2> QED
    BY <2>1, <2>2, ReadyRecord
<1>2. \A w \in Workers : wk'[w] # wk[w] =>
        /\ wk'[w].pc \in {"idle", "end"} /\ (w \in Background => wk'[w].pc = "idle")
        /\ (w \notin Background => wk'[w].pc = "end")
  BY <1>1 DEF Rest
<1>3. Shapes' /\ seen \subseteq seen'
  <2>1. wk' \in [Workers -> WorkerRec]
    <3>1. \A w \in Workers : wk'[w] \in WorkerRec
      BY <1>1 DEF Shapes
    <3>2. DOMAIN wk' = Workers /\ wk' = [w \in DOMAIN wk' |-> wk'[w]]
      BY DEF ReplicaDies
    <3> QED
      BY <3>1, <3>2
  <2> QED
    BY <1>0, <2>1, ShapesKept DEF Shapes, Kinds
<1>4. Numbers'
  <2>1. made \in Nat /\ clock \in Nat /\ 0 \in 0..made /\ 0 \in 0..clock
    BY DEF Numbers
  <2>2. \A w \in Workers :
         /\ wk'[w].acct \in 0..made /\ wk'[w].used \in 0..made /\ wk'[w].got \in 0..made
         /\ wk'[w].aver \in 0..clock
         /\ wk'[w].pc \in Using => wk'[w].used \in due
    BY <1>1, <1>2, <2>1 DEF Numbers, Using
  <2> QED
    BY <1>0, <2>2 DEF Numbers
<1>5. Drawn'
  <2>1. Persisting' \subseteq Persisting /\ Dead' = Dead /\ Pending' = Pending
    BY <1>0, <1>1, <1>2 DEF Persisting, Dead, Pending
  <2>2. /\ IsFiniteSet(Persisting') /\ Cardinality(Persisting') <= Cardinality(Persisting)
        /\ Cardinality(Persisting') \in Nat /\ Cardinality(Persisting) \in Nat
    BY <2>1, FS_Subset, FS_CardinalityType DEF Drawn
  <2>3. Cardinality(Dead) \in Nat /\ clock \in Nat
    <3>1. IsFiniteSet(Dead)
      BY FS_Subset DEF Drawn
    <3> QED
      BY <3>1, FS_CardinalityType DEF Numbers
  <2> QED
    BY <1>0, <2>1, <2>2, <2>3 DEF Drawn
<1>6. Issued'
  <2>1. 0 \notin live
    BY DEF Numbers
  <2> QED
    BY <1>0, <1>1, <1>2, <2>1 DEF Issued
<1>7. Exclusive'
  <2>1. \A w \in Workers : wk'[w].held => wk'[w] = wk[w]
    BY <1>1
  <2>2. \A w \in Workers : wk'[w].pc \in Inside => wk'[w] = wk[w]
    BY <1>2 DEF Inside, Using
  <2> QED
    BY <1>0, <1>3, <2>1, <2>2 DEF Exclusive
<1>8. /\ \A w \in Workers : Barring(w)' => Barring(w) /\ wk'[w].acct = wk[w].acct
      /\ \A c : Gone(c) => Gone(c)'
  BY <1>0, <1>1, <1>2 DEF Barring, Gone
<1>9. Rejected'
  BY <1>0, <1>2, <1>3, <1>8 DEF Rejected, Using
<1>10. Sound' /\ StoredIsLive' /\ StaleTokenGoes'
  BY <1>0 DEF Sound, StoredIsLive, StaleTokenGoes
<1>11. Roles'
  <2>1. cred # 0
    BY DEF Numbers
  <2>2. \A w \in Workers : /\ wk'[w].then \in Afterwards
                           /\ wk'[w].then # "idle" => wk'[w].pc = "release"
    BY <1>1 DEF Roles, Afterwards
  <2>3. \A w \in Background : wk'[w].pc \notin RequestPcs /\ wk'[w].then \notin RequestPcs
    BY <1>1, <1>2 DEF Roles, RequestPcs, Workers
  <2>4. \A w \in Requests : w \in Workers /\ w \notin Background
    BY WorkersAssumption DEF Workers
  <2>5. \A w \in Requests :
          /\ wk'[w].acct = 0 => wk'[w].pc \in {"asked", "end"}
          /\ wk'[w].acct = cred => wk'[w].aver = ver
          /\ reauths = 0 /\ wk'[w].acct # 0 /\ wk'[w].acct # cred => wk'[w].aver < ver
    BY <1>1, <1>2, <2>1, <2>4 DEF Roles
  <2> QED
    BY <1>0, <2>2, <2>3, <2>5 DEF Roles
<1> QED
  BY <1>3, <1>4, <1>5, <1>6, <1>7, <1>9, <1>10, <1>11

-----------------------------------------------------------------------------
\* The invariant holds initially.
LEMMA IndInit == OAuthInit => OAuthInd
<1> SUFFICES ASSUME OAuthInit PROVE OAuthInd
  OBVIOUS
<1>1. \A w \in Workers :
        /\ wk[w] \in WorkerRec /\ wk[w].pc = Begin(w) /\ wk[w].then = "idle"
        /\ wk[w].acct = 0 /\ wk[w].aver = 0 /\ wk[w].used = 0 /\ wk[w].got = 0 /\ ~wk[w].held
  <2>1. \A w \in Workers : wk[w] = Ready(w)
    BY DEF OAuthInit
  <2>2. "idle" \in Pcs
    BY DEF Pcs
  <2> QED
    BY <2>1, <2>2, ReadyRecord
<1>2. \A w \in Workers : wk[w].pc = IF w \in Background THEN "idle" ELSE "asked"
  BY <1>1 DEF Begin
<1>3. adm = [pc |-> "idle", aver |-> 0]
  BY DEF OAuthInit
<1>4. Shapes
  <2>1. wk \in [Workers -> WorkerRec]
    BY <1>1 DEF OAuthInit
  <2>2. adm \in [pc : AdminPcs, aver : Nat]
    BY <1>3 DEF AdminPcs
  <2>3. lock \in BOOLEAN /\ late \in BOOLEAN
    BY Zenon DEF OAuthInit
  <2>4. 0 \in 0..MaxFaults
    BY BoundsAssumption
  <2> QED
    BY <2>1, <2>2, <2>3, <2>4 DEF OAuthInit, Shapes
<1>5. Numbers
  BY <1>1, <1>2, <1>3, BoundsAssumption DEF OAuthInit, Numbers, Using
<1>6. Drawn
  <2>1. Dead = {} /\ Persisting = {} /\ Pending = 0
    BY <1>2, <1>3 DEF OAuthInit, Dead, Persisting, Pending
  <2>2. IsFiniteSet({}) /\ Cardinality({}) = 0
    BY FS_EmptySet
  <2> QED
    BY <1>3, <2>1, <2>2, BoundsAssumption DEF OAuthInit, Drawn
<1>7. Issued /\ Exclusive /\ StoredIsLive /\ StaleTokenGoes
  BY <1>1, <1>2 DEF OAuthInit, Issued, Exclusive, Inside, Using, StoredIsLive, StaleTokenGoes
<1>8. Rejected /\ Sound
  BY <1>1, <1>2 DEF OAuthInit, Rejected, Sound, Barring, Using
<1>9. Roles
  <2>1. \A w \in Requests : w \in Workers /\ w \notin Background
    BY WorkersAssumption DEF Workers
  <2>2. \A w \in Background : wk[w].pc \notin RequestPcs /\ wk[w].then \notin RequestPcs
    BY <1>1, <1>2 DEF Workers, RequestPcs
  <2> QED
    BY <1>1, <1>2, <2>1, <2>2 DEF OAuthInit, Roles, Afterwards
<1> QED
  BY <1>4, <1>5, <1>6, <1>7, <1>8, <1>9 DEF OAuthInd, Books, Safety

\* Every step keeps it.
LEMMA IndNext == OAuthInd /\ [OAuthNext]_oauthVars => OAuthInd'
<1> SUFFICES ASSUME OAuthInd, [OAuthNext]_oauthVars
             PROVE  OAuthInd'
  OBVIOUS
<1>1. CASE \E w \in Background : processCandidatePage(w)
  BY <1>1, Candidates, WalkKeeps DEF Workers
<1>2. CASE \E w \in Requests : SelectAccount(w)
  BY <1>2, Candidates, WalkKeeps DEF Workers
<1>3. ASSUME NEW w \in Workers, Step(w) PROVE OAuthInd'
  <2>1. CASE \/ GetAccessToken(w) \/ LockLocal(w) \/ WaitForCache(w) \/ InvalidateToken(w)
             \/ CheckTokenVersion(w) \/ SetAccessToken(w)
    BY <2>1, Moves, WalkKeeps
  <2>2. CASE AcquireRefreshLock(w)
    BY <2>2, AcquireKeeps
  <2>3. CASE RereadAccount(w)
    BY <2>3, RereadKeeps
  <2>4. CASE Refresh(w)
    BY <2>4, RefreshKeeps
  <2>5. CASE tryRecoverFromRefreshRace(w)
    BY <2>5, RecoverKeeps
  <2>6. CASE persistAccountCredentials(w)
    BY <2>6, ClaudePersistKeeps
  <2>7. CASE UpdateGrokOAuthCredentialsIfUnchanged(w)
    BY <2>7, GrokPersistKeeps
  <2>8. CASE loadGrokDurableAccountAfterPersist(w)
    BY <2>8, DurableKeeps
  <2>9. CASE releaseRefreshLock(w)
    BY <2>9, ReleaseKeeps
  <2>10. CASE SetError(w)
    BY <2>10, SetErrorKeeps
  <2> QED
    BY <1>3, <2>1, <2>2, <2>3, <2>4, <2>5, <2>6, <2>7, <2>8, <2>9, <2>10 DEF Step
<1>4. CASE \/ ReadExisting \/ ClearAccountError \/ InvalidateAfterReauth \/ ExpiryNears
           \/ CacheExpires \/ LockExpires \/ LockLapses \/ UNCHANGED oauthVars
  BY <1>4, QuietSteps
<1>5. CASE UpdateAccount
  BY <1>5, UpdateAccountKeeps
<1>6. CASE \E r \in Replicas : ReplicaDies(r)
  BY <1>6, ReplicaDiesKeeps
<1> QED
  BY <1>1, <1>2, <1>3, <1>4, <1>5, <1>6 DEF OAuthNext, AdminStep

\* The bounds of the credentials and versions follow from what was drawn.
LEMMA IndTyped == OAuthInd => OAuthTypeOK
<1> SUFFICES ASSUME OAuthInd PROVE OAuthTypeOK
  OBVIOUS
<1> USE DEF OAuthInd, Books
<1>1. /\ made \in Nat /\ clock \in Nat /\ reauths \in Nat /\ MaxDue \in Nat /\ MaxReauths \in Nat
      /\ reauths <= MaxReauths
  BY BoundsAssumption DEF Numbers
<1>2. /\ Cardinality(Dead) \in Nat /\ Cardinality(Dead) <= MaxDue
      /\ Cardinality(Persisting) \in Nat
  <2>1. IsFiniteSet(Dead) /\ Cardinality(Dead) <= Cardinality(due)
    BY FS_Subset DEF Drawn
  <2>2. /\ Cardinality(Dead) \in Nat /\ Cardinality(Persisting) \in Nat
        /\ Cardinality(due) \in Nat
    BY <2>1, FS_CardinalityType DEF Drawn
  <2> QED
    BY <1>1, <2>1, <2>2 DEF Drawn
<1>3. clock <= MaxDue
  BY <1>1, <1>2 DEF Drawn
<1>4. made <= 1 + MaxDue + MaxReauths
  <2>1. made + Pending <= 1 + Cardinality(Dead) + reauths /\ Pending \in 0..1
    BY DEF Drawn, Pending
  <2> QED
    BY <1>1, <1>2, <2>1
<1>5. 1..made \subseteq Creds /\ 0..made \subseteq {0} \cup Creds /\ clock \in 0..MaxDue
  BY <1>1, <1>3, <1>4 DEF Creds
<1>6. wk \in [Workers -> [pc : Pcs, then : Pcs, acct : {0} \cup Creds, aver : 0..clock,
                          used : {0} \cup Creds, got : {0} \cup Creds, held : BOOLEAN]]
  <2>1. ASSUME NEW w \in Workers
        PROVE  wk[w] \in [pc : Pcs, then : Pcs, acct : {0} \cup Creds, aver : 0..clock,
                          used : {0} \cup Creds, got : {0} \cup Creds, held : BOOLEAN]
    <3>1. wk[w] \in WorkerRec
      BY DEF Shapes
    <3>2. /\ wk[w].acct \in {0} \cup Creds /\ wk[w].used \in {0} \cup Creds
          /\ wk[w].got \in {0} \cup Creds /\ wk[w].aver \in 0..clock
      BY <1>5 DEF Numbers
    <3> QED
      BY <3>1, <3>2, Zenon DEF WorkerRec
  <2> QED
    BY <2>1 DEF Shapes
<1>7. adm \in [pc : {"idle", "update", "clear", "invalidate"}, aver : 0..clock]
  <2>1. adm \in [pc : AdminPcs, aver : Nat] /\ adm.aver \in 0..clock
    BY DEF Shapes, Numbers
  <2> QED
    BY <2>1, Zenon DEF AdminPcs
<1>8. made \in Creds
  <2>1. made \in 1..made
    BY DEF Numbers
  <2> QED
    BY <1>5, <2>1
<1> QED
  BY <1>5, <1>6, <1>7, <1>8 DEF OAuthTypeOK, Shapes, Numbers

\* It implies what the runs check.
LEMMA IndImplies == OAuthInd => CredentialInv /\ BarredIsDead /\ StaleTokenGoes
<1>1. OAuthInd => NotBarredWithoutFault
  BY DEF OAuthInd, Safety, Sound, NotBarredWithoutFault
<1>2. OAuthInd => BarredIsDead
  BY DEF OAuthInd, Safety, Rejected, Gone, BarredIsDead
<1> QED
  BY <1>1, <1>2, IndTyped DEF OAuthInd, Safety, CredentialInv

\* The invariant of OAuthSpec.
LEMMA IndAlways == OAuthSpec => []OAuthInd
BY IndInit, IndNext, PTL DEF OAuthSpec

\* No rotated token is lost and no account barred without a fault that explains
\* it, although the lock has no owner and its lease may end under the holder
\* (RefreshIfNeeded).
THEOREM CredentialSafe == OAuthSpec => []CredentialInv
BY IndAlways, IndImplies, PTL

\* A barred account's credential is one that the provider rejects: a Grok
\* account's even when it is authorized again meanwhile
\* (SetGrokOAuthRefreshErrorIfCredentialsUnchanged), any other one's unless it is
\* (SetError).
THEOREM BarredCredentialDead == OAuthSpec => []BarredIsDead
BY IndAlways, IndImplies, PTL

\* Whoever changes the credential removes the token cached for the old one, unless
\* a request wrote it late (postRefreshStateSync, ApplyOAuthCredentials).
THEOREM StaleTokenFollowed == OAuthSpec => []StaleTokenGoes
BY IndAlways, IndImplies, PTL

\* CheckedIsStored, of one step.
CheckedNow ==
  \A w \in Requests :
    /\ wk[w].pc = "check" /\ wk'[w].pc = "set"
    /\ reauths = 0 /\ "db" \notin seen'
    => wk[w].acct = cred

\* Only the comparison leads from "check" to "set".
LEMMA CheckedStep == OAuthInd /\ [OAuthNext]_oauthVars => [CheckedNow]_oauthVars
<1> SUFFICES ASSUME OAuthInd, OAuthNext, NEW w \in Requests, wk[w].pc = "check",
                    wk'[w].pc = "set", reauths = 0, "db" \notin seen'
             PROVE  wk[w].acct = cred
  BY DEF CheckedNow
<1>1. w \in Workers /\ w \notin Background /\ wk \in [Workers -> WorkerRec]
  BY WorkersAssumption, InHand DEF Workers
<1>2. wk'[w] # wk[w]
  OBVIOUS
<1>3. Step(w)
  <2>1. ASSUME NEW u \in Workers, u # w,
               Step(u) \/ processCandidatePage(u) \/ SelectAccount(u)
        PROVE  FALSE
    <3>1. \A v \in Workers : v # u => wk'[v] = wk[v]
      BY <1>1, <2>1 DEF Step, GetAccessToken, LockLocal, AcquireRefreshLock, RereadAccount,
         Refresh, tryRecoverFromRefreshRace, persistAccountCredentials,
         UpdateGrokOAuthCredentialsIfUnchanged, loadGrokDurableAccountAfterPersist,
         releaseRefreshLock, SetError, InvalidateToken, WaitForCache, CheckTokenVersion,
         SetAccessToken, processCandidatePage, SelectAccount, MoveTo, Return, Failed, Bar
    <3> QED
      BY <1>1, <1>2, <2>1, <3>1
  <2>2. ~processCandidatePage(w) /\ ~SelectAccount(w)
    BY DEF processCandidatePage, SelectAccount
  <2>3. wk' # wk
    BY <1>2
  <2>4. ~ReadExisting /\ ~AdminStep /\ ~ExpiryNears /\ ~CacheExpires /\ ~LockExpires /\ ~LockLapses
    BY <2>3 DEF ReadExisting, AdminStep, UpdateAccount, ClearAccountError,
       InvalidateAfterReauth, ExpiryNears, CacheExpires, LockExpires, LockLapses
  <2>5. ASSUME NEW r \in Replicas, ReplicaDies(r) PROVE FALSE
    <3>1. wk'[w] = [Ready(w) EXCEPT !.pc = Rest(w)]
      BY <1>1, <1>2, <2>5 DEF ReplicaDies
    <3>2. Rest(w) = "end" /\ Rest(w) \in Pcs
      BY <1>1 DEF Rest, Pcs
    <3>3. wk'[w].pc = "end"
      BY <1>1, <3>1, <3>2, ReadyRecord
    <3> QED
      BY <3>3
  <2> QED
    BY <1>1, <2>1, <2>2, <2>4, <2>5 DEF OAuthNext, Workers
<1>4. CheckTokenVersion(w)
  BY <1>3 DEF Step, GetAccessToken, LockLocal, AcquireRefreshLock, RereadAccount,
     Refresh, tryRecoverFromRefreshRace, persistAccountCredentials,
     UpdateGrokOAuthCredentialsIfUnchanged, loadGrokDurableAccountAfterPersist,
     releaseRefreshLock, SetError, InvalidateToken, WaitForCache, SetAccessToken
<1>5. MoveTo(w, IF ver > wk[w].aver THEN "end" ELSE "set")
  BY <1>4 DEF CheckTokenVersion, Fault
<1>6. ~(ver > wk[w].aver)
  <2>1. ver > wk[w].aver => MoveTo(w, "end")
    BY <1>5
  <2>2. MoveTo(w, "end") => wk'[w].pc = "end"
    BY <1>1, MoveEffect DEF Becomes, Pcs
  <2> QED
    BY <2>1, <2>2
<1>7. ver \in Nat /\ wk[w].aver \in Nat
  <2>1. ver \in Nat /\ clock \in Nat /\ wk[w].aver \in 0..clock
    BY <1>1, InHand
  <2> QED
    BY <2>1
<1> QED
  BY <1>6, <1>7 DEF OAuthInd, Safety, Roles

\* A request that caches its token after the comparison of the versions has the
\* stored one at that moment, as long as only refreshes change it
\* (CheckTokenVersion).
THEOREM CheckedTokenStored == OAuthSpec => CheckedIsStored
<1>1. CheckedNow <=> \A w \in Requests :
        /\ wk[w].pc = "check" /\ wk'[w].pc = "set"
        /\ reauths = 0 /\ "db" \notin seen'
        => wk[w].acct = cred
  BY DEF CheckedNow
<1> QED
  BY <1>1, IndAlways, CheckedStep, PTL DEF OAuthSpec, CheckedIsStored

=============================================================================
