--------------------------- MODULE SchedulerProofs ---------------------------
(***************************************************************************)
(* Proofs about the scheduler's cache: the buckets' snapshots of           *)
(* SchedulerBuckets and the outbox of SchedulerOutbox that says what to    *)
(* reload, for any number of replicas, writers, rebuilders and requests    *)
(* and any bounds.                                                         *)
(***************************************************************************)
EXTENDS SchedulerBuckets, SchedulerOutbox, FiniteSetTheorems, TLAPS

(***************************************************************************)
(* SchedulerBuckets                                                        *)
(*                                                                         *)
(* The fence (FenceInv): a token of the current epoch was captured since   *)
(* the last retirement, and so was loaded what is written with it.  The    *)
(* lock (LockInv): while no accounts were loaded without it, one worker is *)
(* between loading and activating, and active is not newer than what it    *)
(* has loaded.  The lease (LifecycleInv): whoever holds it has read the    *)
(* number of events last, and decides by the group as it is unless another *)
(* event has arrived.                                                      *)
(***************************************************************************)

WorkerState ==
  [pc : {"idle", "unlock"} \cup LifecyclePcs \cup WritePcs, token : Nat, val : 0..MaxData,
   ver : Nat \cup {-1}, on : BOOLEAN, seen : 0..MaxChanges]

FenceInv ==
  /\ retired # 0 => retired = epoch
  /\ base <= data /\ active.data <= data
  /\ LoadedSinceRetirement
  /\ \A w \in Workers :
       /\ wk[w].token <= epoch /\ wk[w].val <= data
       /\ wk[w].pc \in WritePcs => wk[w].token # 0
       /\ wk[w].pc = "release" /\ wk[w].on => wk[w].token # 0
       /\ wk[w].pc \in {"group", "decide"} => wk[w].token = 0
       /\ wk[w].token = epoch /\ epoch # 0 => retired = 0
       /\ wk[w].token = epoch /\ wk[w].pc \in {"shared", "allocate", "activate"} =>
            wk[w].val >= base

LockInv ==
  ~loose =>
    /\ \A w \in Workers : HoldsLock(w) => lock = w
    /\ \A w \in Requests : wk[w].pc \in {"idle", "load"}
    /\ \A w \in Workers : wk[w].pc # "shared"
    /\ \A w \in Workers : wk[w].pc \in {"allocate", "activate"} /\ active.set =>
         wk[w].val >= active.data

LifecycleInv ==
  /\ done <= events /\ events <= changes
  /\ \A p \in Pollers :
       /\ wk[p].seen <= events
       /\ wk[p].pc \in LifecyclePcs => lease = p
       /\ wk[p].pc \in {"group", "decide"} =>
            done <= wk[p].seen /\ \A q \in Pollers : wk[q].seen <= wk[p].seen
       /\ wk[p].pc = "decide" /\ wk[p].seen = changes => wk[p].on = group
       /\ wk[p].pc \in {"release"} \cup WritePcs /\ wk[p].seen = changes =>
            ((retired # 0) <=> ~group)
  /\ LifecycleAgrees

BucketInv == TypeOK /\ FenceInv /\ LockInv /\ LifecycleInv

-----------------------------------------------------------------------------
(* Each part of the invariant is preserved. *)

LEMMA TypeNext == TypeOK /\ [Next]_vars => TypeOK'
<1> SUFFICES ASSUME TypeOK, [Next]_vars PROVE TypeOK'
  OBVIOUS
<1> USE KindsAssumption, BoundsAssumption
<1> USE DEF redis, outbox, Workers, LifecyclePcs, WritePcs
<1>1. ASSUME NEW w \in Pollers, TryAcquireGroupLifecycleLease(w) PROVE TypeOK'
  <2>1. Idle \in WorkerState
    BY DEF Idle, WorkerState
  <2>2. [Idle EXCEPT !.pc = "group", !.seen = events] \in WorkerState
    BY <2>1 DEF WorkerState, TypeOK
  <2>3. wk' \in [Workers -> WorkerState]
    BY <1>1, <2>2 DEF TryAcquireGroupLifecycleLease, TypeOK, WorkerState
  <2> QED
    BY <1>1, <2>3 DEF TryAcquireGroupLifecycleLease, TypeOK, WorkerState
<1>2. ASSUME NEW w \in Pollers, GetGroup(w) PROVE TypeOK'
  <2>1. wk[w] \in WorkerState /\ w \in Workers
    BY DEF TypeOK, WorkerState
  <2>2. [wk[w] EXCEPT !.pc = "decide", !.on = group] \in WorkerState
    BY <1>2, <2>1 DEF GetGroup, WorkerState, TypeOK
  <2>3. wk' \in [Workers -> WorkerState]
    BY <1>2, <2>2 DEF GetGroup, TypeOK, WorkerState
  <2> QED
    BY <1>2, <2>3 DEF GetGroup, TypeOK, WorkerState
<1>3. ASSUME NEW w \in Pollers, RetireBucket(w) PROVE TypeOK'
  BY <1>3 DEF RetireBucket, Goto, NoSnapshot, TypeOK, NoSnapshot
<1>4. ASSUME NEW w \in Pollers, ReopenBucket(w) PROVE TypeOK'
  <2>1. wk[w] \in WorkerState /\ w \in Workers
    BY DEF TypeOK, WorkerState
  <2>2. [wk[w] EXCEPT !.pc = "release", !.token = epoch'] \in WorkerState
    BY <1>4, <2>1 DEF ReopenBucket, WorkerState, TypeOK
  <2>3. wk' \in [Workers -> WorkerState]
    BY <1>4, <2>2 DEF ReopenBucket, TypeOK, WorkerState
  <2> QED
    BY <1>4, <2>3 DEF ReopenBucket, NoSnapshot, TypeOK, WorkerState
<1>5. ASSUME NEW w \in Pollers, ReleaseGroupLifecycleLease(w) PROVE TypeOK'
  <2>1. wk[w] \in WorkerState /\ Idle \in WorkerState
    BY DEF TypeOK, WorkerState, Idle
  <2>2. [wk[w] EXCEPT !.pc = "lock"] \in WorkerState
    BY <2>1 DEF WorkerState
  <2>3. wk' \in [Workers -> WorkerState]
    BY <1>5, <2>1, <2>2 DEF ReleaseGroupLifecycleLease, Goto, TypeOK, WorkerState
  <2>4. done' \in 0..MaxChanges
    BY <1>5 DEF ReleaseGroupLifecycleLease, Handled, TypeOK
  <2> QED
    BY <1>5, <2>3, <2>4 DEF ReleaseGroupLifecycleLease, TypeOK, WorkerState
<1>6. ASSUME NEW w \in Rebuilders \cup Requests, CaptureBucketWriteToken(w) PROVE TypeOK'
  <2>1. Idle \in WorkerState /\ epoch' \in Nat
    BY <1>6 DEF CaptureBucketWriteToken, TypeOK, WorkerState, Idle
  <2>2. \A pc \in {"load", "lock"} : [Idle EXCEPT !.token = epoch', !.pc = pc] \in WorkerState
    BY <2>1 DEF WorkerState
  <2>3. wk' \in [Workers -> WorkerState]
    BY <1>6, <2>2 DEF CaptureBucketWriteToken, TypeOK, WorkerState
  <2> QED
    BY <1>6, <2>1, <2>3 DEF CaptureBucketWriteToken, TypeOK, WorkerState
<1>7. ASSUME NEW w \in Workers, LoadForSibling(w) PROVE TypeOK'
  BY <1>7 DEF LoadForSibling, TypeOK, NoSnapshot
<1>8. ASSUME NEW w \in Workers, TryLockBucket(w) PROVE TypeOK'
  BY <1>8 DEF TryLockBucket, Goto, TypeOK, NoSnapshot
<1>9. ASSUME NEW w \in Workers, LockBusy(w) PROVE TypeOK'
  BY <1>9 DEF LockBusy, Idle, TypeOK, NoSnapshot
<1>10. ASSUME NEW w \in Workers, LoadAccounts(w) PROVE TypeOK'
  BY <1>10 DEF LoadAccounts, TypeOK, NoSnapshot
<1>11. ASSUME NEW w \in Workers, AllocateSnapshotVersion(w) PROVE TypeOK'
  BY <1>11 DEF AllocateSnapshotVersion, Current, TypeOK, NoSnapshot
<1>12. ASSUME NEW w \in Workers, Fenced(w) PROVE TypeOK'
  <2>1. EndOfWrite(w) \in WorkerState
    <3>1. Idle \in WorkerState
      BY DEF Idle, WorkerState
    <3>2. [Idle EXCEPT !.pc = "unlock"] \in WorkerState
      BY <3>1 DEF WorkerState
    <3> QED
      BY <3>1, <3>2 DEF EndOfWrite
  <2>2. wk' \in [Workers -> WorkerState]
    BY <1>12, <2>1 DEF Fenced, EndWrite, TypeOK, WorkerState
  <2> QED
    BY <1>12, <2>2 DEF Fenced, EndWrite, TypeOK, WorkerState
<1>13. ASSUME NEW w \in Workers, DropSnapshot(w) PROVE TypeOK'
  <2>1. EndOfWrite(w) \in WorkerState
    <3>1. Idle \in WorkerState
      BY DEF Idle, WorkerState
    <3>2. [Idle EXCEPT !.pc = "unlock"] \in WorkerState
      BY <3>1 DEF WorkerState
    <3> QED
      BY <3>1, <3>2 DEF EndOfWrite
  <2>2. wk' \in [Workers -> WorkerState]
    BY <1>13, <2>1 DEF DropSnapshot, EndWrite, TypeOK, WorkerState
  <2>3. done' \in 0..MaxChanges
    BY <1>13 DEF DropSnapshot, EndWrite, Handled, TypeOK
  <2> QED
    BY <1>13, <2>2, <2>3 DEF DropSnapshot, TypeOK, WorkerState
<1>14. ASSUME NEW w \in Workers, ActivateSnapshot(w) PROVE TypeOK'
  <2>1. EndOfWrite(w) \in WorkerState
    <3>1. Idle \in WorkerState
      BY DEF Idle, WorkerState
    <3>2. [Idle EXCEPT !.pc = "unlock"] \in WorkerState
      BY <3>1 DEF WorkerState
    <3> QED
      BY <3>1, <3>2 DEF EndOfWrite
  <2>2. wk[w].ver \in Nat \cup {-1} /\ wk[w].val \in 0..MaxData
    BY DEF TypeOK
  <2>3. Rebased(wk, wk[w].ver) \in [Workers -> WorkerState]
    <3> SUFFICES ASSUME NEW x \in Workers
                 PROVE  [wk[x] EXCEPT !.ver = IF wk[x].ver < wk[w].ver THEN -1
                                              ELSE wk[x].ver - wk[w].ver] \in WorkerState
      BY DEF Rebased, TypeOK, WorkerState
    <3>1. wk[x] \in WorkerState /\ wk[x].ver \in Nat \cup {-1}
      BY DEF TypeOK, WorkerState
    <3>2. (IF wk[x].ver < wk[w].ver THEN -1 ELSE wk[x].ver - wk[w].ver) \in Nat \cup {-1}
      BY <2>2, <3>1
    <3> QED
      BY <3>1, <3>2 DEF WorkerState
  <2>4. wk' \in [Workers -> WorkerState]
    BY <1>14, <2>1, <2>3 DEF ActivateSnapshot, WorkerState
  <2>5. active' \in [set : BOOLEAN, data : 0..MaxData] /\ version' \in Nat
    BY <1>14, <2>2 DEF ActivateSnapshot, TypeOK
  <2>6. done' \in 0..MaxChanges
    BY <1>14 DEF ActivateSnapshot, Handled, TypeOK
  <2> QED
    BY <1>14, <2>4, <2>5, <2>6 DEF ActivateSnapshot, TypeOK, WorkerState
<1>15. ASSUME NEW w \in Workers, UnlockBucket(w) PROVE TypeOK'
  BY <1>15 DEF UnlockBucket, Idle, TypeOK, NoSnapshot
<1>16. ASSUME NEW w \in Workers, WorkerFails(w) PROVE TypeOK'
  BY <1>16 DEF WorkerFails, Fault, Idle, TypeOK, NoSnapshot
<1>17. CASE ChangeData
  BY <1>17 DEF ChangeData, TypeOK, NoSnapshot
<1>18. CASE ChangeGroup
  BY <1>18 DEF ChangeGroup, TypeOK, NoSnapshot
<1>23. CASE EnqueueGroupEvent
  BY <1>23 DEF EnqueueGroupEvent, TypeOK, NoSnapshot
<1>24. CASE GroupEventFails
  BY <1>24 DEF GroupEventFails, Fault, TypeOK, NoSnapshot
<1>19. CASE LockExpires
  BY <1>19 DEF LockExpires, TypeOK, NoSnapshot
<1>20. CASE LockLapses
  BY <1>20 DEF LockLapses, Fault, TypeOK, NoSnapshot
<1>21. CASE LeaseExpires
  BY <1>21 DEF LeaseExpires, TypeOK, NoSnapshot
<1>22. CASE UNCHANGED vars
  BY <1>22 DEF vars, TypeOK, NoSnapshot
<1> QED
  BY <1>1, <1>2, <1>3, <1>4, <1>5, <1>6, <1>7, <1>8, <1>9, <1>10, <1>11, <1>12, <1>13,
     <1>14, <1>15, <1>16, <1>17, <1>18, <1>19, <1>20, <1>21, <1>22, <1>23, <1>24 DEF Next, Lifecycle,
     Write

LEMMA FenceNext == TypeOK /\ FenceInv /\ [Next]_vars => FenceInv'
<1> SUFFICES ASSUME TypeOK, FenceInv, [Next]_vars PROVE FenceInv'
  OBVIOUS
<1> USE KindsAssumption, BoundsAssumption
<1> USE DEF redis, outbox, Workers, LifecyclePcs, WritePcs
<1>1. ASSUME NEW w \in Pollers, TryAcquireGroupLifecycleLease(w) PROVE FenceInv'
  BY <1>1 DEF TryAcquireGroupLifecycleLease, Idle, TypeOK, FenceInv,
     LoadedSinceRetirement
<1>2. ASSUME NEW w \in Pollers, GetGroup(w) PROVE FenceInv'
  BY <1>2 DEF GetGroup, TypeOK, FenceInv, LoadedSinceRetirement
<1>3. ASSUME NEW w \in Pollers, RetireBucket(w) PROVE FenceInv'
  BY <1>3 DEF RetireBucket, Goto, NoSnapshot, TypeOK, FenceInv, LoadedSinceRetirement
<1>4. ASSUME NEW w \in Pollers, ReopenBucket(w) PROVE FenceInv'
  BY <1>4 DEF ReopenBucket, NoSnapshot, TypeOK, FenceInv, LoadedSinceRetirement
<1>5. ASSUME NEW w \in Pollers, ReleaseGroupLifecycleLease(w) PROVE FenceInv'
  BY <1>5 DEF ReleaseGroupLifecycleLease, Goto, Handled, Idle, TypeOK, FenceInv,
     LoadedSinceRetirement
<1>6. ASSUME NEW w \in Rebuilders \cup Requests, CaptureBucketWriteToken(w) PROVE FenceInv'
  BY <1>6 DEF CaptureBucketWriteToken, Idle, TypeOK, FenceInv, LoadedSinceRetirement
<1>7. ASSUME NEW w \in Workers, LoadForSibling(w) PROVE FenceInv'
  BY <1>7 DEF LoadForSibling, TypeOK, FenceInv, LoadedSinceRetirement
<1>8. ASSUME NEW w \in Workers, TryLockBucket(w) PROVE FenceInv'
  BY <1>8 DEF TryLockBucket, Goto, TypeOK, FenceInv, LoadedSinceRetirement
<1>9. ASSUME NEW w \in Workers, LockBusy(w) PROVE FenceInv'
  BY <1>9 DEF LockBusy, Idle, TypeOK, FenceInv, LoadedSinceRetirement
<1>10. ASSUME NEW w \in Workers, LoadAccounts(w) PROVE FenceInv'
  BY <1>10 DEF LoadAccounts, TypeOK, FenceInv, LoadedSinceRetirement
<1>11. ASSUME NEW w \in Workers, AllocateSnapshotVersion(w) PROVE FenceInv'
  BY <1>11 DEF AllocateSnapshotVersion, Current, TypeOK, FenceInv, LoadedSinceRetirement
<1>12. ASSUME NEW w \in Workers, Fenced(w) PROVE FenceInv'
  BY <1>12 DEF Fenced, Current, EndWrite, EndOfWrite, Idle, TypeOK, FenceInv,
     LoadedSinceRetirement
<1>13. ASSUME NEW w \in Workers, DropSnapshot(w) PROVE FenceInv'
  BY <1>13 DEF DropSnapshot, Current, Superseded, EndWrite, EndOfWrite, Handled, Idle,
     TypeOK, FenceInv, LoadedSinceRetirement
<1>14. ASSUME NEW w \in Workers, ActivateSnapshot(w) PROVE FenceInv'
  <2>1. /\ Current(w) /\ wk[w].pc = "activate"
        /\ active' = [set |-> TRUE, data |-> wk[w].val]
        /\ UNCHANGED <<data, epoch, retired, base>>
    BY <1>14 DEF ActivateSnapshot
  <2>2. \A x \in Workers :
          \/ /\ wk'[x].pc = wk[x].pc /\ wk'[x].on = wk[x].on
             /\ wk'[x].token = wk[x].token /\ wk'[x].val = wk[x].val
          \/ wk'[x].pc \in {"idle", "unlock"} /\ wk'[x].token = 0 /\ wk'[x].val = 0
    <3> DEFINE f == Rebased(wk, wk[w].ver)
    <3>1. wk' = [f EXCEPT ![w] = EndOfWrite(w)]
      BY <1>14 DEF ActivateSnapshot
    <3>2. \A x \in Workers : /\ f[x].pc = wk[x].pc /\ f[x].on = wk[x].on
                              /\ f[x].token = wk[x].token /\ f[x].val = wk[x].val
      BY DEF TypeOK, Rebased
    <3>3. DOMAIN f = Workers
      BY DEF Rebased
    <3> HIDE DEF f
    <3>4. wk'[w] = EndOfWrite(w) /\ \A x \in Workers : x # w => wk'[x] = f[x]
      BY <3>1, <3>3
    <3> QED
      BY <3>2, <3>4 DEF EndOfWrite, Idle
  <2> QED
    BY <2>1, <2>2 DEF Current, TypeOK, FenceInv, LoadedSinceRetirement
<1>15. ASSUME NEW w \in Workers, UnlockBucket(w) PROVE FenceInv'
  BY <1>15 DEF UnlockBucket, Idle, TypeOK, FenceInv, LoadedSinceRetirement
<1>16. ASSUME NEW w \in Workers, WorkerFails(w) PROVE FenceInv'
  BY <1>16 DEF WorkerFails, Fault, Idle, TypeOK, FenceInv, LoadedSinceRetirement
<1>17. CASE ChangeData
  BY <1>17 DEF ChangeData, TypeOK, FenceInv, LoadedSinceRetirement
<1>18. CASE ChangeGroup
  BY <1>18 DEF ChangeGroup, TypeOK, FenceInv, LoadedSinceRetirement
<1>23. CASE EnqueueGroupEvent
  BY <1>23 DEF EnqueueGroupEvent, TypeOK, FenceInv, LoadedSinceRetirement
<1>24. CASE GroupEventFails
  BY <1>24 DEF GroupEventFails, Fault, TypeOK, FenceInv, LoadedSinceRetirement
<1>19. CASE LockExpires
  BY <1>19 DEF LockExpires, TypeOK, FenceInv, LoadedSinceRetirement
<1>20. CASE LockLapses
  BY <1>20 DEF LockLapses, Fault, TypeOK, FenceInv, LoadedSinceRetirement
<1>21. CASE LeaseExpires
  BY <1>21 DEF LeaseExpires, TypeOK, FenceInv, LoadedSinceRetirement
<1>22. CASE UNCHANGED vars
  BY <1>22 DEF vars, TypeOK, FenceInv, LoadedSinceRetirement
<1> QED
  BY <1>1, <1>2, <1>3, <1>4, <1>5, <1>6, <1>7, <1>8, <1>9, <1>10, <1>11, <1>12, <1>13,
     <1>14, <1>15, <1>16, <1>17, <1>18, <1>19, <1>20, <1>21, <1>22, <1>23, <1>24 DEF Next, Lifecycle,
     Write

LEMMA LockNext == TypeOK /\ FenceInv /\ LockInv /\ [Next]_vars => LockInv'
<1> SUFFICES ASSUME TypeOK, FenceInv, LockInv, [Next]_vars PROVE LockInv'
  OBVIOUS
<1> USE KindsAssumption, BoundsAssumption
<1> USE DEF redis, outbox, Workers, LifecyclePcs, WritePcs
<1>1. ASSUME NEW w \in Pollers, TryAcquireGroupLifecycleLease(w) PROVE LockInv'
  BY <1>1 DEF TryAcquireGroupLifecycleLease, Idle, TypeOK, FenceInv, LockInv, HoldsLock
<1>2. ASSUME NEW w \in Pollers, GetGroup(w) PROVE LockInv'
  BY <1>2 DEF GetGroup, TypeOK, FenceInv, LockInv, HoldsLock
<1>3. ASSUME NEW w \in Pollers, RetireBucket(w) PROVE LockInv'
  BY <1>3 DEF RetireBucket, Goto, NoSnapshot, TypeOK, FenceInv, LockInv, HoldsLock
<1>4. ASSUME NEW w \in Pollers, ReopenBucket(w) PROVE LockInv'
  BY <1>4 DEF ReopenBucket, NoSnapshot, TypeOK, FenceInv, LockInv, HoldsLock
<1>5. ASSUME NEW w \in Pollers, ReleaseGroupLifecycleLease(w) PROVE LockInv'
  BY <1>5 DEF ReleaseGroupLifecycleLease, Goto, Handled, Idle, TypeOK, FenceInv,
     LockInv, HoldsLock
<1>6. ASSUME NEW w \in Rebuilders \cup Requests, CaptureBucketWriteToken(w) PROVE LockInv'
  BY <1>6 DEF CaptureBucketWriteToken, Idle, TypeOK, FenceInv, LockInv, HoldsLock
<1>7. ASSUME NEW w \in Workers, LoadForSibling(w) PROVE LockInv'
  BY <1>7 DEF LoadForSibling, TypeOK, FenceInv, LockInv, HoldsLock
<1>8. ASSUME NEW w \in Workers, TryLockBucket(w) PROVE LockInv'
  BY <1>8 DEF TryLockBucket, Goto, TypeOK, FenceInv, LockInv, HoldsLock
<1>9. ASSUME NEW w \in Workers, LockBusy(w) PROVE LockInv'
  BY <1>9 DEF LockBusy, Idle, TypeOK, FenceInv, LockInv, HoldsLock
<1>10. ASSUME NEW w \in Workers, LoadAccounts(w) PROVE LockInv'
  <2> SUFFICES ASSUME ~loose' PROVE LockInv'
    BY DEF LockInv
  <2>1. ~loose /\ w \notin Requests
    BY <1>10, Zenon DEF LoadAccounts
  <2>2. /\ wk' = [wk EXCEPT ![w].pc = "allocate", ![w].val = data]
        /\ wk[w].pc = "load" /\ UNCHANGED <<lock, active>>
    BY <1>10 DEF LoadAccounts
  <2> QED
    BY <2>1, <2>2 DEF TypeOK, FenceInv, LockInv, HoldsLock
<1>11. ASSUME NEW w \in Workers, AllocateSnapshotVersion(w) PROVE LockInv'
  BY <1>11 DEF AllocateSnapshotVersion, Current, TypeOK, FenceInv, LockInv, HoldsLock
<1>12. ASSUME NEW w \in Workers, Fenced(w) PROVE LockInv'
  BY <1>12 DEF Fenced, Current, EndWrite, EndOfWrite, Idle, TypeOK, FenceInv, LockInv,
     HoldsLock
<1>13. ASSUME NEW w \in Workers, DropSnapshot(w) PROVE LockInv'
  BY <1>13 DEF DropSnapshot, Current, Superseded, EndWrite, EndOfWrite, Handled, Idle,
     TypeOK, FenceInv, LockInv, HoldsLock
<1>14. ASSUME NEW w \in Workers, ActivateSnapshot(w) PROVE LockInv'
  BY <1>14 DEF ActivateSnapshot, Current, Superseded, Rebased, EndOfWrite, Handled,
     Idle, TypeOK, FenceInv, LockInv, HoldsLock
<1>15. ASSUME NEW w \in Workers, UnlockBucket(w) PROVE LockInv'
  BY <1>15 DEF UnlockBucket, Idle, TypeOK, FenceInv, LockInv, HoldsLock
<1>16. ASSUME NEW w \in Workers, WorkerFails(w) PROVE LockInv'
  BY <1>16 DEF WorkerFails, Fault, Idle, TypeOK, FenceInv, LockInv, HoldsLock
<1>17. CASE ChangeData
  BY <1>17 DEF ChangeData, TypeOK, FenceInv, LockInv, HoldsLock
<1>18. CASE ChangeGroup
  BY <1>18 DEF ChangeGroup, TypeOK, FenceInv, LockInv, HoldsLock
<1>23. CASE EnqueueGroupEvent
  BY <1>23 DEF EnqueueGroupEvent, TypeOK, FenceInv, LockInv, HoldsLock
<1>24. CASE GroupEventFails
  BY <1>24 DEF GroupEventFails, Fault, TypeOK, FenceInv, LockInv, HoldsLock
<1>19. CASE LockExpires
  BY <1>19 DEF LockExpires, TypeOK, FenceInv, LockInv, HoldsLock
<1>20. CASE LockLapses
  BY <1>20 DEF LockLapses, Fault, TypeOK, FenceInv, LockInv, HoldsLock
<1>21. CASE LeaseExpires
  BY <1>21 DEF LeaseExpires, TypeOK, FenceInv, LockInv, HoldsLock
<1>22. CASE UNCHANGED vars
  BY <1>22 DEF vars, TypeOK, FenceInv, LockInv, HoldsLock
<1> QED
  BY <1>1, <1>2, <1>3, <1>4, <1>5, <1>6, <1>7, <1>8, <1>9, <1>10, <1>11, <1>12, <1>13,
     <1>14, <1>15, <1>16, <1>17, <1>18, <1>19, <1>20, <1>21, <1>22, <1>23, <1>24 DEF Next, Lifecycle,
     Write

LEMMA LifecycleNext == TypeOK /\ FenceInv /\ LifecycleInv /\ [Next]_vars => LifecycleInv'
<1> SUFFICES ASSUME TypeOK, FenceInv, LifecycleInv, [Next]_vars PROVE LifecycleInv'
  OBVIOUS
<1> USE KindsAssumption, BoundsAssumption
<1> USE DEF redis, outbox, Workers, LifecyclePcs, WritePcs
<1>1. ASSUME NEW w \in Pollers, TryAcquireGroupLifecycleLease(w) PROVE LifecycleInv'
  BY <1>1 DEF TryAcquireGroupLifecycleLease, Idle, TypeOK, FenceInv, LifecycleInv,
     LifecycleAgrees
<1>2. ASSUME NEW w \in Pollers, GetGroup(w) PROVE LifecycleInv'
  BY <1>2 DEF GetGroup, TypeOK, FenceInv, LifecycleInv, LifecycleAgrees
<1>3. ASSUME NEW w \in Pollers, RetireBucket(w) PROVE LifecycleInv'
  <2>1. /\ wk' = [wk EXCEPT ![w].pc = "release"] /\ wk[w].pc = "decide" /\ ~wk[w].on
        /\ UNCHANGED <<group, changes, events, done, lease>>
    BY <1>3 DEF RetireBucket, Goto
  <2>2. retired' # 0
    BY <1>3 DEF RetireBucket, TypeOK, FenceInv
  <2>3. wk[w].seen = changes => ~group
    BY <2>1 DEF LifecycleInv
  <2>4. done <= wk[w].seen /\ wk[w].seen <= events /\ events <= changes /\ lease = w
    BY <2>1 DEF LifecycleInv
  <2>5. \A q \in Pollers : wk[q].seen <= wk[w].seen /\ wk[q].seen \in Nat
    BY <2>1 DEF LifecycleInv, TypeOK
  <2>6. done' = changes' => ~group'
    BY <2>1, <2>3, <2>4 DEF TypeOK
  <2>7. LifecycleAgrees'
    BY <2>2, <2>6 DEF LifecycleAgrees
  <2>8. \A p \in Pollers : wk'[p].seen = wk[p].seen /\ (p # w => wk'[p].pc = wk[p].pc
                            /\ wk'[p].on = wk[p].on) /\ wk'[w].pc = "release"
    BY <2>1 DEF TypeOK
  <2>9. \A p \in Pollers : wk[p].seen = changes => ~group
    BY <2>3, <2>4, <2>5 DEF TypeOK
  <2> QED
    BY <2>1, <2>2, <2>4, <2>7, <2>8, <2>9 DEF TypeOK, LifecycleInv
<1>4. ASSUME NEW w \in Pollers, ReopenBucket(w) PROVE LifecycleInv'
  BY <1>4 DEF ReopenBucket, NoSnapshot, TypeOK, FenceInv, LifecycleInv, LifecycleAgrees
<1>5. ASSUME NEW w \in Pollers, ReleaseGroupLifecycleLease(w) PROVE LifecycleInv'
  BY <1>5 DEF ReleaseGroupLifecycleLease, Goto, Handled, Idle, TypeOK, FenceInv,
     LifecycleInv, LifecycleAgrees
<1>6. ASSUME NEW w \in Rebuilders \cup Requests, CaptureBucketWriteToken(w) PROVE LifecycleInv'
  BY <1>6 DEF CaptureBucketWriteToken, Idle, TypeOK, FenceInv, LifecycleInv,
     LifecycleAgrees
<1>7. ASSUME NEW w \in Workers, LoadForSibling(w) PROVE LifecycleInv'
  BY <1>7 DEF LoadForSibling, TypeOK, FenceInv, LifecycleInv, LifecycleAgrees
<1>8. ASSUME NEW w \in Workers, TryLockBucket(w) PROVE LifecycleInv'
  BY <1>8 DEF TryLockBucket, Goto, TypeOK, FenceInv, LifecycleInv, LifecycleAgrees
<1>9. ASSUME NEW w \in Workers, LockBusy(w) PROVE LifecycleInv'
  BY <1>9 DEF LockBusy, Idle, TypeOK, FenceInv, LifecycleInv, LifecycleAgrees
<1>10. ASSUME NEW w \in Workers, LoadAccounts(w) PROVE LifecycleInv'
  BY <1>10 DEF LoadAccounts, TypeOK, FenceInv, LifecycleInv, LifecycleAgrees
<1>11. ASSUME NEW w \in Workers, AllocateSnapshotVersion(w) PROVE LifecycleInv'
  BY <1>11 DEF AllocateSnapshotVersion, Current, TypeOK, FenceInv, LifecycleInv,
     LifecycleAgrees
<1>12. ASSUME NEW w \in Workers, Fenced(w) PROVE LifecycleInv'
  BY <1>12 DEF Fenced, Current, EndWrite, EndOfWrite, Idle, TypeOK, FenceInv,
     LifecycleInv, LifecycleAgrees
<1>13. ASSUME NEW w \in Workers, DropSnapshot(w) PROVE LifecycleInv'
  BY <1>13 DEF DropSnapshot, Current, Superseded, EndWrite, EndOfWrite, Handled, Idle,
     TypeOK, FenceInv, LifecycleInv, LifecycleAgrees
<1>14. ASSUME NEW w \in Workers, ActivateSnapshot(w) PROVE LifecycleInv'
  BY <1>14 DEF ActivateSnapshot, Current, Superseded, Rebased, EndOfWrite, Handled,
     Idle, TypeOK, FenceInv, LifecycleInv, LifecycleAgrees
<1>15. ASSUME NEW w \in Workers, UnlockBucket(w) PROVE LifecycleInv'
  BY <1>15 DEF UnlockBucket, Idle, TypeOK, FenceInv, LifecycleInv, LifecycleAgrees
<1>16. ASSUME NEW w \in Workers, WorkerFails(w) PROVE LifecycleInv'
  BY <1>16 DEF WorkerFails, Fault, Idle, TypeOK, FenceInv, LifecycleInv, LifecycleAgrees
<1>17. CASE ChangeData
  BY <1>17 DEF ChangeData, TypeOK, FenceInv, LifecycleInv, LifecycleAgrees
<1>18. CASE ChangeGroup
  BY <1>18 DEF ChangeGroup, TypeOK, FenceInv, LifecycleInv, LifecycleAgrees
<1>23. CASE EnqueueGroupEvent
  BY <1>23 DEF EnqueueGroupEvent, TypeOK, FenceInv, LifecycleInv, LifecycleAgrees
<1>24. CASE GroupEventFails
  BY <1>24 DEF GroupEventFails, Fault, TypeOK, FenceInv, LifecycleInv, LifecycleAgrees
<1>19. CASE LockExpires
  BY <1>19 DEF LockExpires, TypeOK, FenceInv, LifecycleInv, LifecycleAgrees
<1>20. CASE LockLapses
  BY <1>20 DEF LockLapses, Fault, TypeOK, FenceInv, LifecycleInv, LifecycleAgrees
<1>21. CASE LeaseExpires
  BY <1>21 DEF LeaseExpires, TypeOK, FenceInv, LifecycleInv, LifecycleAgrees
<1>22. CASE UNCHANGED vars
  BY <1>22 DEF vars, TypeOK, FenceInv, LifecycleInv, LifecycleAgrees
<1> QED
  BY <1>1, <1>2, <1>3, <1>4, <1>5, <1>6, <1>7, <1>8, <1>9, <1>10, <1>11, <1>12, <1>13,
     <1>14, <1>15, <1>16, <1>17, <1>18, <1>19, <1>20, <1>21, <1>22, <1>23, <1>24 DEF Next, Lifecycle,
     Write

\* A step that leaves a snapshot in place of another does not go back.
LEMMA NotOlder ==
  ASSUME BucketInv, [Next]_vars, active.set, active'.set, ~loose'
  PROVE  active'.data >= active.data
<1>0. TypeOK /\ LockInv
  BY DEF BucketInv
<1> USE <1>0, BoundsAssumption DEF redis, outbox, TypeOK
<1>1. ASSUME NEW w \in Pollers, Lifecycle(w) PROVE active' = active \/ ~active'.set
  BY <1>1 DEF Lifecycle, TryAcquireGroupLifecycleLease, GetGroup, RetireBucket,
              ReopenBucket, ReleaseGroupLifecycleLease, NoSnapshot
<1>2. ASSUME NEW w \in Workers, ActivateSnapshot(w) PROVE active'.data >= active.data
  BY <1>2 DEF ActivateSnapshot, LockInv, Workers
<1>3. ASSUME NEW w \in Workers, Write(w) \/ WorkerFails(w), ~ActivateSnapshot(w)
      PROVE  active' = active
  BY <1>3 DEF Write, LoadForSibling, TryLockBucket, LockBusy, LoadAccounts,
     AllocateSnapshotVersion, Fenced,
              DropSnapshot, UnlockBucket, WorkerFails
<1>4. ASSUME NEW w \in Workers, CaptureBucketWriteToken(w) PROVE active' = active
  BY <1>4 DEF CaptureBucketWriteToken
<1>5. CASE ChangeData \/ ChangeGroup \/ EnqueueGroupEvent \/ GroupEventFails \/ LockExpires \/ LockLapses \/ LeaseExpires
  BY <1>5 DEF ChangeData, ChangeGroup, EnqueueGroupEvent, GroupEventFails, LockExpires, LockLapses, LeaseExpires
<1>6. CASE UNCHANGED vars
  BY <1>6 DEF vars
<1> QED
  BY <1>1, <1>2, <1>3, <1>4, <1>5, <1>6 DEF Next, Workers

-----------------------------------------------------------------------------
(* The theorems *)

\* The invariant that the theorems about a bucket follow from.
THEOREM Bucket == Spec => []BucketInv
<1>1. Init => BucketInv
  <2> SUFFICES ASSUME Init PROVE BucketInv
    OBVIOUS
  <2> USE BoundsAssumption, KindsAssumption DEF Workers, LifecyclePcs, WritePcs
  <2>1. TypeOK
    <3>1. Idle \in WorkerState
      BY DEF Idle, WorkerState
    <3>2. wk \in [Workers -> WorkerState]
      BY <3>1 DEF Init
    <3>3. active \in [set : BOOLEAN, data : 0..MaxData]
      BY DEF Init, NoSnapshot
    <3>4. /\ data \in 0..MaxData /\ changes \in 0..MaxChanges /\ done \in 0..MaxChanges
          /\ owed \in 0..MaxOwed /\ events \in 0..MaxChanges
          /\ epoch \in Nat /\ retired \in Nat /\ version \in Nat
          /\ faults \in 0..MaxFaults /\ base \in 0..MaxData
      BY DEF Init
    <3>5. /\ group \in BOOLEAN /\ loose \in BOOLEAN
          /\ lock \in Workers \cup {"none"} /\ lease \in Pollers \cup {"none"}
      BY Zenon DEF Init
    <3> HIDE DEF Workers
    <3> QED
      BY <3>2, <3>3, <3>4, <3>5 DEF TypeOK, WorkerState
  <2>2. FenceInv
    BY DEF Init, FenceInv, LoadedSinceRetirement, NoSnapshot, Idle
  <2>3. LockInv
    BY DEF Init, LockInv, HoldsLock, NoSnapshot, Idle
  <2>4. LifecycleInv
    <3>1. LifecycleAgrees
      <4>1. retired = 0 /\ group = TRUE
        BY DEF Init
      <4> QED
        BY <4>1, Zenon DEF LifecycleAgrees
    <3>2. done = 0 /\ events = 0 /\ changes = 0
      BY DEF Init
    <3>3. \A p \in Pollers : wk[p].pc = "idle" /\ wk[p].seen = 0
      BY DEF Init, Idle
    <3> QED
      BY <3>1, <3>2, <3>3 DEF LifecycleInv
  <2> QED
    BY <2>1, <2>2, <2>3, <2>4 DEF BucketInv
<1>2. BucketInv /\ [Next]_vars => BucketInv'
  BY TypeNext, FenceNext, LockNext, LifecycleNext DEF BucketInv
<1> QED
  BY <1>1, <1>2, PTL DEF Spec

\* The state of a bucket and of its writers has its type.
THEOREM BucketTypeCorrect == Spec => []TypeOK
<1>1. BucketInv => TypeOK
  BY DEF BucketInv
<1> QED
  BY <1>1, Bucket, PTL

\* A write that began before the bucket was retired is fenced: what the bucket
\* shows was loaded after its last retirement.
THEOREM RetirementFences == Spec => []LoadedSinceRetirement
<1>1. BucketInv => LoadedSinceRetirement
  BY DEF BucketInv, FenceInv
<1> QED
  BY <1>1, Bucket, PTL

\* When all group events are handled the bucket is retired exactly if its group
\* is not active, whatever replicas handled them, in whatever order.
THEOREM LifecycleFollowsGroup == Spec => []LifecycleAgrees
<1>1. BucketInv => LifecycleAgrees
  BY DEF BucketInv, LifecycleInv
<1> QED
  BY <1>1, Bucket, PTL

\* While accounts are loaded under a live lock only, no snapshot replaces one
\* that was loaded later.
THEOREM SnapshotsAdvance == Spec => NoOlderSnapshot
<1>1. BucketInv /\ [Next]_vars
        => [active.set /\ active'.set /\ ~loose' => active'.data >= active.data]_vars
  BY NotOlder
<1> QED
  BY <1>1, Bucket, PTL DEF Spec, NoOlderSnapshot

(***************************************************************************)
(* SchedulerOutbox                                                         *)
(*                                                                         *)
(* What makes the cached accounts' staleness known (Owed): while nothing   *)
(* was lost, for every version v between the cached one and the committed  *)
(* one there is an event that no poller has handled, and none that is      *)
(* about to write v or an older version will handle it in its batch.  The  *)
(* rest says why that event survives: which rows a writer's event is in    *)
(* (Links), what listing makes of rows (AreListed, Unlisted), that the     *)
(* watermark and every poller's position stand behind handled rows only    *)
(* (AreSettled), and that nobody holds a version that is not committed     *)
(* (Values).                                                               *)
(***************************************************************************)

RowRec == [acct : Accounts, keyed : BOOLEAN, st : {"none", "open", "live", "gone"}]
WriterRec == [pc : {"idle", "enqueue", "commit"}, tx : BOOLEAN, acct : Accounts,
              keyed : BOOLEAN, id : 0..MaxId, by : 0..MaxId]
PollerRec == [pc : {"idle", "list", "load", "store", "advance", "clean"},
              last : 0..MaxId, batch : SUBSET Ids, val : Versions]

Enqueuing == {w \in Writers : wr[w].pc = "enqueue"}

\* The sequence and the writers about to draw from it stay within the bound, and
\* an account has fewer changes, the one in the transaction that holds its row
\* included, than the ids drawn or about to be drawn.
Counting ==
  /\ IsFiniteSet(Enqueuing)
  /\ nextId + Cardinality(Enqueuing) <= MaxId + 1
  /\ \A a \in Accounts :
       /\ db[a] < nextId + Cardinality(Enqueuing)
       /\ RowLocked(a) => db[a] + 1 < nextId + Cardinality(Enqueuing)

\* An account's row is locked by one transaction at a time.
OneLocker ==
  \A u, w \in Writers :
    /\ wr[u].tx /\ wr[u].pc # "idle"
    /\ wr[w].tx /\ wr[w].pc # "idle"
    /\ wr[u].acct = wr[w].acct
    => u = w

\* A writer about to commit has its event in a row of its own, not committed
\* yet, or in the committed row that swallowed it, both of its account.
Links ==
  /\ \A w \in Writers :
       /\ wr[w].pc # "commit" => wr[w].id = 0 /\ wr[w].by = 0
       /\ wr[w].pc = "commit" => wr[w].id # 0 \/ wr[w].by # 0
       /\ wr[w].id # 0 => row[wr[w].id].st = "open" /\ row[wr[w].id].acct = wr[w].acct
       /\ wr[w].by # 0 => /\ row[wr[w].by].st \in {"live", "gone"}
                          /\ row[wr[w].by].acct = wr[w].acct
  /\ \A u, w \in Writers : wr[u].id # 0 /\ wr[u].id = wr[w].id => u = w
  /\ \A i \in Ids : row[i].keyed => row[i].st \in {"open", "live"}

\* Nobody is ahead of the sequence, and a batch ends where its poller stands.
Order ==
  /\ \A i \in Ids : i >= nextId => row[i].st = "none"
  /\ watermark < nextId
  /\ \A p \in Replicas : po[p].last < nextId /\ \A i \in po[p].batch : i <= po[p].last

\* A row that a poll has returned is committed and swallows nothing any more.
Listed(i) == row[i].st \in {"live", "gone"} /\ ~row[i].keyed

AreListed ==
  /\ \A i \in handled : Listed(i)
  /\ \A p \in Replicas : \A i \in po[p].batch : Listed(i)
  /\ \A p \in Replicas : po[p].pc \notin {"load", "store"} => po[p].batch = {}

\* The rows up to x are handled, late, or in B.
Settled(x, B) ==
  \A i \in Ids : i <= x /\ row[i].st \in {"open", "live"} => i \in handled \cup late \cup B

AreSettled ==
  /\ Settled(watermark, {})
  /\ \A p \in Replicas : Settled(po[p].last, po[p].batch)

\* A row that is not committed, or still swallows events, is in front of
\* everybody, unless one was late.
Unlisted ==
  late = {} =>
    \A i \in Ids : row[i].st = "open" \/ row[i].keyed =>
      i > watermark /\ \A p \in Replicas : i > po[p].last

\* The poller p has loaded account a and is about to write it.
Storing(p, a) ==
  po[p].pc = "store" /\ \E i \in Ids : IsFirst(i, po[p].batch) /\ row[i].acct = a

Values ==
  \A a \in Accounts :
    /\ reload[a] <= db[a] /\ cache[a] <= db[a]
    /\ \A p \in Replicas : Storing(p, a) => po[p].val <= db[a]

\* Someone owes the cache a version of a newer than v: a writer yet to insert,
\* or the unhandled event of row j, which is not in the batch of a poller that
\* is about to write v or an older version.
Owing(a, v) ==
  \/ \E w \in Writers : wr[w].acct = a /\ ~wr[w].tx /\ wr[w].pc = "enqueue"
  \/ \E j \in Ids :
       /\ \/ \E w \in Writers : wr[w].acct = a /\ ~wr[w].tx /\ wr[w].id = j
          \/ row[j].acct = a /\ row[j].st = "live" /\ j \notin handled
       /\ \A p \in Replicas : Storing(p, a) /\ po[p].val <= v => j > po[p].last

Owed ==
  late = {} /\ lost = {} =>
    \A a \in Accounts : \A v \in Versions : cache[a] <= v /\ v < db[a] => Owing(a, v)

Rows == Links /\ Order /\ AreListed /\ AreSettled /\ Unlisted
OutboxInd == OutboxTypeOK /\ Counting /\ OneLocker /\ Rows /\ Values /\ Owed
Kept == OneLocker' /\ Rows' /\ Values' /\ Owed'

(* The records of the state, and what the actions make of them. *)

\* The rows, writers and pollers a table starts with.
LEMMA BlankRecords ==
  /\ NoRow \in RowRec /\ NoRow.st = "none" /\ ~NoRow.keyed
  /\ IdleWriter \in WriterRec /\ IdleWriter.pc = "idle" /\ ~IdleWriter.tx
  /\ IdleWriter.id = 0 /\ IdleWriter.by = 0
  /\ IdlePoller \in PollerRec /\ IdlePoller.pc = "idle" /\ IdlePoller.last = 0
  /\ IdlePoller.batch = {} /\ IdlePoller.val = 0
<1>1. (CHOOSE a \in Accounts : TRUE) \in Accounts
  BY OutboxAssumption
<1>2. NoRow \in RowRec /\ NoRow.st = "none" /\ ~NoRow.keyed
  BY <1>1 DEF NoRow, RowRec
<1>3. NoRow.acct \in Accounts
  BY <1>2 DEF RowRec
<1>4. /\ IdleWriter \in WriterRec /\ IdleWriter.pc = "idle" /\ ~IdleWriter.tx
      /\ IdleWriter.id = 0 /\ IdleWriter.by = 0
  BY <1>3, OutboxAssumption DEF IdleWriter, WriterRec
<1> QED
  BY <1>2, <1>4, OutboxAssumption DEF IdlePoller, PollerRec, Ids, Versions

\* The type invariant, with its records named.
LEMMA TypedParts ==
  OutboxTypeOK <=>
    /\ db \in [Accounts -> Versions] /\ cache \in [Accounts -> Versions]
    /\ row \in [Ids -> RowRec] /\ nextId \in 1..(MaxId + 1) /\ watermark \in 0..MaxId
    /\ wr \in [Writers -> WriterRec] /\ po \in [Replicas -> PollerRec]
    /\ reload \in [Accounts -> Versions \cup {-1}]
    /\ aborts \in 0..MaxAborts
    /\ late \subseteq Ids /\ handled \subseteq Ids /\ lost \subseteq Causes
BY DEF OutboxTypeOK, RowRec, WriterRec, PollerRec

\* What a writer's record becomes when its insert has taken a row or been taken
\* in by one.
LEMMA WriterRecords ==
  ASSUME NEW x \in WriterRec, NEW i \in Ids
  PROVE  /\ [x EXCEPT !.pc = "commit", !.by = i] \in WriterRec
         /\ [x EXCEPT !.pc = "commit", !.by = i].pc = "commit"
         /\ [x EXCEPT !.pc = "commit", !.by = i].id = x.id
         /\ [x EXCEPT !.pc = "commit", !.by = i].by = i
         /\ [x EXCEPT !.pc = "commit", !.by = i].tx = x.tx
         /\ [x EXCEPT !.pc = "commit", !.by = i].acct = x.acct
         /\ [x EXCEPT !.pc = "commit", !.by = i].keyed = x.keyed
         /\ [x EXCEPT !.pc = "commit", !.id = i] \in WriterRec
         /\ [x EXCEPT !.pc = "commit", !.id = i].pc = "commit"
         /\ [x EXCEPT !.pc = "commit", !.id = i].id = i
         /\ [x EXCEPT !.pc = "commit", !.id = i].by = x.by
         /\ [x EXCEPT !.pc = "commit", !.id = i].tx = x.tx
         /\ [x EXCEPT !.pc = "commit", !.id = i].acct = x.acct
         /\ [x EXCEPT !.pc = "commit", !.id = i].keyed = x.keyed
<1>1. i \in 0..MaxId
  BY OutboxAssumption DEF Ids
<1> QED
  BY <1>1, Zenon DEF WriterRec

\* A writer's step leaves the others as they are.
WriterBecomes(w, pc, id, by) ==
  /\ \A u \in Writers : u # w => wr'[u] = wr[u]
  /\ wr'[w].pc = pc /\ wr'[w].id = id /\ wr'[w].by = by
  /\ wr'[w].tx = wr[w].tx /\ wr'[w].acct = wr[w].acct /\ wr'[w].keyed = wr[w].keyed
  /\ wr' \in [Writers -> WriterRec]

\* Update puts its writer before the insert and, outside a transaction, has
\* committed the change.
LEMMA UpdateEffect ==
  ASSUME OutboxTypeOK, NEW w \in Writers, NEW a \in Accounts, NEW tx \in BOOLEAN,
         NEW keyed \in BOOLEAN, Update(w, a, tx, keyed)
  PROVE  /\ wr[w].pc = "idle" /\ ~RowLocked(a) /\ RoomForRow
         /\ \A u \in Writers : u # w => wr'[u] = wr[u]
         /\ wr'[w].pc = "enqueue" /\ wr'[w].tx = tx /\ wr'[w].acct = a
         /\ wr'[w].id = 0 /\ wr'[w].by = 0
         /\ wr' \in [Writers -> WriterRec]
         /\ \A b \in Accounts : db'[b] = IF ~tx /\ b = a THEN db[b] + 1 ELSE db[b]
         /\ db' \in [Accounts -> Int]
         /\ UNCHANGED <<cache, row, nextId, watermark, po, reload, aborts, late, handled, lost>>
<1> DEFINE r == [IdleWriter EXCEPT !.pc = "enqueue", !.tx = tx, !.acct = a, !.keyed = keyed]
<1>0. /\ wr \in [Writers -> WriterRec] /\ db \in [Accounts -> Int]
      /\ wr' = [wr EXCEPT ![w] = r]
  BY OutboxAssumption, TypedParts DEF Update, Versions
<1>1. /\ r \in WriterRec /\ r.pc = "enqueue" /\ r.tx = tx /\ r.acct = a
      /\ r.id = 0 /\ r.by = 0
  BY BlankRecords, OutboxAssumption DEF WriterRec, IdleWriter
<1> HIDE DEF r
<1>2. /\ \A u \in Writers : u # w => wr'[u] = wr[u]
      /\ wr'[w] = r /\ wr' \in [Writers -> WriterRec]
  BY <1>0, <1>1
<1>3. /\ \A b \in Accounts : db'[b] = IF ~tx /\ b = a THEN db[b] + 1 ELSE db[b]
      /\ db' \in [Accounts -> Int]
  BY <1>0 DEF Update
<1> QED
  BY <1>1, <1>2, <1>3 DEF Update, history

\* EnqueueSwallowed links its writer to a committed row with the key.
LEMMA SwallowedEffect ==
  ASSUME OutboxTypeOK, NEW w \in Writers, EnqueueSwallowed(w)
  PROVE  \E k \in Ids :
           /\ wr[w].pc = "enqueue"
           /\ row[k].acct = wr[w].acct /\ row[k].keyed /\ row[k].st = "live"
           /\ WriterBecomes(w, "commit", wr[w].id, k)
           /\ nextId' = nextId + 1
           /\ UNCHANGED <<db, cache, row, watermark, po, reload, aborts, late, handled, lost>>
<1>0. wr \in [Writers -> WriterRec]
  BY TypedParts
<1>1. PICK k \in Keyed(wr[w].acct, "live") :
        wr' = [wr EXCEPT ![w].pc = "commit", ![w].by = k]
  BY DEF EnqueueSwallowed
<1>2. k \in Ids /\ row[k].acct = wr[w].acct /\ row[k].keyed /\ row[k].st = "live"
  BY <1>1 DEF Keyed
<1> DEFINE r == [wr[w] EXCEPT !.pc = "commit", !.by = k]
<1>3. wr' = [wr EXCEPT ![w] = r]
  BY <1>0, <1>1
<1>4. /\ r \in WriterRec /\ r.pc = "commit" /\ r.id = wr[w].id /\ r.by = k
      /\ r.tx = wr[w].tx /\ r.acct = wr[w].acct /\ r.keyed = wr[w].keyed
  <2>1. wr[w] \in WriterRec
    BY <1>0
  <2> QED
    BY <1>2, <2>1, WriterRecords, ZenonT(40)
<1> HIDE DEF r
<1>5. WriterBecomes(w, "commit", wr[w].id, k)
  BY <1>0, <1>3, <1>4 DEF WriterBecomes
<1> QED
  BY <1>2, <1>5 DEF EnqueueSwallowed, history

\* EnqueueInserted draws the next id for a row that is not committed.
LEMMA InsertedEffect ==
  ASSUME OutboxTypeOK, NEW w \in Writers, EnqueueInserted(w), nextId \in Ids
  PROVE  /\ wr[w].pc = "enqueue"
         /\ WriterBecomes(w, "commit", nextId, wr[w].by)
         /\ \A i \in Ids : i # nextId => row'[i] = row[i]
         /\ row'[nextId].acct = wr[w].acct /\ row'[nextId].st = "open"
         /\ row' \in [Ids -> RowRec]
         /\ nextId' = nextId + 1
         /\ UNCHANGED <<db, cache, watermark, po, reload, aborts, late, handled, lost>>
<1>0. wr \in [Writers -> WriterRec] /\ row \in [Ids -> RowRec]
  BY TypedParts
<1> DEFINE r == [wr[w] EXCEPT !.pc = "commit", !.id = nextId]
           n == [acct |-> wr[w].acct, keyed |-> wr[w].keyed, st |-> "open"]
<1>1. wr' = [wr EXCEPT ![w] = r] /\ row' = [row EXCEPT ![nextId] = n]
  BY <1>0 DEF EnqueueInserted
<1>2. /\ r \in WriterRec /\ r.pc = "commit" /\ r.id = nextId /\ r.by = wr[w].by
      /\ r.tx = wr[w].tx /\ r.acct = wr[w].acct /\ r.keyed = wr[w].keyed
  <2>1. wr[w] \in WriterRec
    BY <1>0
  <2> QED
    BY <2>1, WriterRecords, Zenon
<1>3. n \in RowRec /\ n.acct = wr[w].acct /\ n.st = "open"
  BY <1>0 DEF WriterRec, RowRec
<1> HIDE DEF r, n
<1>4. WriterBecomes(w, "commit", nextId, wr[w].by)
  BY <1>0, <1>1, <1>2 DEF WriterBecomes
<1> QED
  BY <1>0, <1>1, <1>3, <1>4 DEF EnqueueInserted, history

\* Commit shows the row, and the change of a transaction; it is noted when the
\* row that swallowed the event has been listed meanwhile.
LEMMA CommitEffect ==
  ASSUME OutboxTypeOK, NEW w \in Writers, Commit(w)
  PROVE  /\ wr[w].pc = "commit" /\ wr'[w] = IdleWriter
         /\ \A u \in Writers : u # w => wr'[u] = wr[u]
         /\ wr' \in [Writers -> WriterRec]
         /\ \A i \in Ids : i # wr[w].id => row'[i] = row[i]
         /\ \A i \in Ids : /\ row'[i].acct = row[i].acct /\ row'[i].keyed = row[i].keyed
                           /\ row'[i].st = IF i = wr[w].id THEN "live" ELSE row[i].st
         /\ row' \in [Ids -> RowRec]
         /\ \A b \in Accounts : db'[b] = IF wr[w].tx /\ b = wr[w].acct THEN db[b] + 1 ELSE db[b]
         /\ db' \in [Accounts -> Int]
         /\ lost \subseteq lost' /\ lost' \subseteq Causes
         /\ wr[w].tx /\ wr[w].by # 0 /\ lost' = {} => row[wr[w].by].keyed
         /\ UNCHANGED <<cache, nextId, watermark, po, reload, aborts, late, handled>>
<1>0. /\ wr \in [Writers -> WriterRec] /\ row \in [Ids -> RowRec]
      /\ db \in [Accounts -> Int] /\ lost \subseteq Causes
  BY OutboxAssumption, TypedParts DEF Versions
<1>1. /\ wr[w].pc = "commit" /\ wr' = [wr EXCEPT ![w] = IdleWriter]
      /\ UNCHANGED <<cache, nextId, watermark, po, reload, aborts, late, handled>>
  BY DEF Commit
<1>2. /\ \A b \in Accounts : db'[b] = IF wr[w].tx /\ b = wr[w].acct THEN db[b] + 1 ELSE db[b]
      /\ db' \in [Accounts -> Int]
  BY <1>0 DEF Commit, WriterRec
<1>3. /\ \A i \in Ids : i # wr[w].id => row'[i] = row[i]
      /\ \A i \in Ids : i = wr[w].id => row'[i] = [row[i] EXCEPT !.st = "live"]
      /\ row' = [i \in Ids |-> row'[i]]
  BY DEF Commit
<1>4. /\ \A i \in Ids : /\ row'[i].acct = row[i].acct /\ row'[i].keyed = row[i].keyed
                        /\ row'[i].st = IF i = wr[w].id THEN "live" ELSE row[i].st
                        /\ row'[i] \in RowRec
  BY <1>0, <1>3 DEF RowRec
<1>5. row' \in [Ids -> RowRec]
  BY <1>3, <1>4
<1>6. /\ lost \subseteq lost' /\ lost' \subseteq Causes
      /\ wr[w].tx /\ wr[w].by # 0 /\ lost' = {} => row[wr[w].by].keyed
  BY <1>0, Zenon DEF Commit, Causes
<1> QED
  BY <1>0, <1>1, <1>2, <1>3, <1>4, <1>5, <1>6, BlankRecords

\* EnqueueFails takes the row back, and loses the event of a change that stands.
LEMMA EnqueueFailsEffect ==
  ASSUME OutboxTypeOK, NEW w \in Writers, EnqueueFails(w)
  PROVE  /\ wr[w].pc \in {"enqueue", "commit"} /\ wr[w].by = 0 /\ wr'[w] = IdleWriter
         /\ \A u \in Writers : u # w => wr'[u] = wr[u]
         /\ wr' \in [Writers -> WriterRec]
         /\ \A i \in Ids : row'[i] = IF i = wr[w].id THEN NoRow ELSE row[i]
         /\ row' \in [Ids -> RowRec]
         /\ nextId' = IF wr[w].pc = "enqueue" THEN nextId + 1 ELSE nextId
         /\ lost \subseteq lost' /\ lost' \subseteq Causes
         /\ lost' = {} => wr[w].tx
         /\ aborts' \in 0..MaxAborts
         /\ UNCHANGED <<db, cache, watermark, po, reload, late, handled>>
<1>0. /\ wr \in [Writers -> WriterRec] /\ row \in [Ids -> RowRec]
      /\ lost \subseteq Causes /\ aborts \in 0..MaxAborts
  BY TypedParts
<1>1. /\ wr[w].pc \in {"enqueue", "commit"} /\ wr[w].by = 0
      /\ wr' = [wr EXCEPT ![w] = IdleWriter]
      /\ row' = [i \in Ids |-> IF i = wr[w].id THEN NoRow ELSE row[i]]
      /\ nextId' = IF wr[w].pc = "enqueue" THEN nextId + 1 ELSE nextId
      /\ UNCHANGED <<db, cache, watermark, po, reload, late, handled>>
  BY DEF EnqueueFails
<1>2. /\ lost \subseteq lost' /\ lost' \subseteq Causes
      /\ lost' = {} => wr[w].tx
  <2>1. CASE wr[w].tx
    BY <1>0, <2>1 DEF EnqueueFails
  <2>2. CASE ~wr[w].tx
    BY <1>0, <2>2 DEF EnqueueFails, Causes
  <2> QED
    BY <2>1, <2>2
<1>3. aborts' \in 0..MaxAborts
  BY <1>0, OutboxAssumption DEF EnqueueFails
<1>4. row' \in [Ids -> RowRec]
  BY <1>0, <1>1, BlankRecords
<1> QED
  BY <1>0, <1>1, <1>2, <1>3, <1>4, BlankRecords

\* Whatever is committed between the start of the list and its last row is on
\* it: the LIMIT cuts it off behind the last row only.
LEMMA SelectedPrefix ==
  ASSUME NEW after \in Int, NEW last \in Ids, IsLast(last, Selected(after)),
         NEW i \in Ids, after < i, i <= last, row[i].st = "live"
  PROVE  i \in Selected(after)
<1> DEFINE above == {j \in Ids : j > after /\ row[j].st = "live"}
           Before(k) == {j \in above : j < k}
<1>1. IsFiniteSet(above)
  <2>1. IsFiniteSet(Ids)
    BY FS_Interval, OutboxAssumption DEF Ids
  <2> QED
    BY <2>1, FS_Subset
<1>2. last \in above /\ Cardinality(Before(last)) < Limit
  BY DEF IsLast, Selected
<1>3. Before(i) \subseteq Before(last) /\ IsFiniteSet(Before(last))
  BY <1>1, FS_Subset, OutboxAssumption DEF Ids
<1>4. /\ Cardinality(Before(i)) <= Cardinality(Before(last))
      /\ Cardinality(Before(i)) \in Nat /\ Cardinality(Before(last)) \in Nat
  BY <1>3, FS_Subset, FS_CardinalityType
<1>5. Cardinality(Before(i)) < Limit /\ i \in above
  BY <1>2, <1>4, OutboxAssumption
<1> QED
  BY <1>5 DEF Selected

\* What a poll that neither lists, writes nor deletes does: it begins or ends,
\* with nothing in hand, or goes on with the batch it has.
Begins(p) == /\ po'[p].batch = {} /\ po'[p].last \in {0, watermark}
             /\ po'[p].pc \notin {"load", "store"} /\ watermark' = watermark
GoesOn(p) == /\ po'[p].batch = po[p].batch /\ po'[p].last = po[p].last
             /\ \/ /\ po'[p].pc = "store" /\ watermark' = watermark
                   /\ \A i \in Ids : IsFirst(i, po[p].batch) => po'[p].val = db[row[i].acct]
                \/ po'[p].pc = "clean" /\ po[p].pc = "advance" /\ watermark' = po[p].last

Quiet(p) ==
  ReadWatermark(p) \/ ListNothing(p) \/ HandleLoad(p) \/ Advance(p) \/ PollFails(p)

\* A batch has one first row.
LEMMA FirstIsOne ==
  ASSUME NEW S \in SUBSET Ids, NEW i \in Ids, NEW j \in Ids, IsFirst(i, S), IsFirst(j, S)
  PROVE  i = j
BY OutboxAssumption DEF IsFirst, Ids

\* A poller's step leaves the others as they are.
PollerMoves(p) == /\ \A q \in Replicas : q # p => po'[q] = po[q]
                  /\ po' \in [Replicas -> PollerRec]

\* The steps of a poll that change nothing but the poll and the watermark.
LEMMA QuietEffect ==
  ASSUME OutboxTypeOK, NEW p \in Replicas, Quiet(p),
         po[p].pc \notin {"load", "store"} => po[p].batch = {}
  PROVE  /\ Begins(p) \/ GoesOn(p)
         /\ PollerMoves(p)
         /\ watermark' \in 0..MaxId /\ aborts' \in 0..MaxAborts
         /\ UNCHANGED <<db, cache, row, nextId, wr, reload, late, handled, lost>>
<1>0. /\ po \in [Replicas -> PollerRec] /\ watermark \in 0..MaxId /\ aborts \in 0..MaxAborts
      /\ po[p] \in PollerRec
  BY TypedParts
<1>1. CASE ReadWatermark(p)
  <2> DEFINE r == [po[p] EXCEPT !.pc = "list", !.last = watermark]
  <2>1. po' = [po EXCEPT ![p] = r]
    BY <1>0, <1>1 DEF ReadWatermark
  <2>2. r \in PollerRec /\ r.pc = "list" /\ r.last = watermark /\ r.batch = po[p].batch
    BY <1>0, Zenon DEF PollerRec
  <2> HIDE DEF r
  <2> QED
    BY <1>0, <1>1, <2>1, <2>2 DEF ReadWatermark, Begins, PollerMoves, history
<1>2. CASE ListNothing(p) \/ PollFails(p)
  <2>1. po' = [po EXCEPT ![p] = IdlePoller] /\ watermark' = watermark
    BY <1>2 DEF ListNothing, PollFails
  <2>2. Begins(p) /\ PollerMoves(p)
    BY <1>0, <2>1, BlankRecords DEF Begins, PollerMoves
  <2>3. /\ aborts' \in 0..MaxAborts
        /\ UNCHANGED <<db, cache, row, nextId, wr, reload, late, handled, lost>>
    BY <1>0, <1>2, OutboxAssumption DEF ListNothing, PollFails, history
  <2> QED
    BY <1>0, <2>1, <2>2, <2>3
<1>3. CASE HandleLoad(p)
  <2>1. PICK i \in Ids : /\ IsFirst(i, po[p].batch)
                         /\ po' = [po EXCEPT ![p].pc = "store", ![p].val = db[row[i].acct]]
    BY <1>3 DEF HandleLoad
  <2> DEFINE v == db[row[i].acct]
             r == [po[p] EXCEPT !.pc = "store", !.val = v]
  <2>2. v \in Versions /\ po[p].batch \in SUBSET Ids
    BY <1>0, TypedParts DEF RowRec, PollerRec
  <2>3. po' = [po EXCEPT ![p] = r]
    BY <1>0, <2>1
  <2>4. /\ r \in PollerRec /\ r.pc = "store" /\ r.last = po[p].last
        /\ r.batch = po[p].batch /\ r.val = v
    <3> HIDE DEF v
    <3> QED
      BY <1>0, <2>2, Zenon DEF PollerRec
  <2>5. \A j \in Ids : IsFirst(j, po[p].batch) => v = db[row[j].acct]
    BY <2>1, <2>2, FirstIsOne, Zenon
  <2> HIDE DEF r, v
  <2> QED
    BY <1>0, <1>3, <2>3, <2>4, <2>5 DEF HandleLoad, GoesOn, PollerMoves, history
<1>4. CASE Advance(p)
  <2> DEFINE r == [po[p] EXCEPT !.pc = "clean"]
  <2>1. po' = [po EXCEPT ![p] = r]
    BY <1>0, <1>4 DEF Advance
  <2>2. r \in PollerRec /\ r.pc = "clean" /\ r.last = po[p].last /\ r.batch = po[p].batch
    BY <1>0, Zenon DEF PollerRec
  <2>3. po[p].last \in 0..MaxId
    BY <1>0 DEF PollerRec
  <2> HIDE DEF r
  <2> QED
    BY <1>0, <1>4, <2>1, <2>2, <2>3 DEF Advance, GoesOn, PollerMoves, history
<1> QED
  BY <1>1, <1>2, <1>3, <1>4 DEF Quiet

\* ListAfterAndReleaseDedup takes rows that then swallow nothing any more.
LEMMA ListEffect ==
  ASSUME OutboxTypeOK, NEW p \in Replicas, ListAfterAndReleaseDedup(p)
  PROVE  \E last \in Ids, s \in SUBSET Ids :
           /\ s = Selected(po[p].last) /\ IsLast(last, s) /\ po[p].pc = "list"
           /\ po'[p].pc = "load" /\ po'[p].batch = s /\ po'[p].last = last
           /\ PollerMoves(p)
           /\ late' = late \cup {i \in Ids : i < last /\ row[i].st = "open"}
           /\ \A i \in Ids : /\ row'[i].acct = row[i].acct /\ row'[i].st = row[i].st
                             /\ row'[i].keyed = (row[i].keyed /\ i \notin s)
           /\ row' \in [Ids -> RowRec]
           /\ UNCHANGED <<db, cache, nextId, watermark, wr, reload, aborts, handled, lost>>
<1>0. /\ po \in [Replicas -> PollerRec] /\ row \in [Ids -> RowRec] /\ po[p] \in PollerRec
  BY TypedParts
<1> DEFINE s == Selected(po[p].last)
<1>1. PICK last \in Ids :
        /\ IsLast(last, s)
        /\ po' = [po EXCEPT ![p].pc = "load", ![p].batch = s, ![p].last = last]
        /\ late' = late \cup {i \in Ids : i < last /\ row[i].st = "open"}
  BY DEF ListAfterAndReleaseDedup
<1> DEFINE r == [po[p] EXCEPT !.pc = "load", !.batch = s, !.last = last]
<1>2. po' = [po EXCEPT ![p] = r]
  BY <1>0, <1>1
<1>3. s \in SUBSET Ids /\ last \in 0..MaxId /\ 0 \in Versions
  BY OutboxAssumption DEF Selected, Ids, Versions
<1>4. /\ po[p].pc = "list"
      /\ row' = [i \in Ids |-> IF i \in s THEN [row[i] EXCEPT !.keyed = FALSE] ELSE row[i]]
      /\ UNCHANGED <<db, cache, nextId, watermark, wr, reload, aborts, handled, lost>>
  BY DEF ListAfterAndReleaseDedup
<1> HIDE DEF s
<1>5. r \in PollerRec /\ r.pc = "load" /\ r.batch = s /\ r.last = last
  BY <1>0, <1>3, Zenon DEF PollerRec
<1>6. \A i \in Ids : /\ row'[i].acct = row[i].acct /\ row'[i].st = row[i].st
                     /\ row'[i].keyed = (row[i].keyed /\ i \notin s)
                     /\ row'[i] \in RowRec
  <2> TAKE i \in Ids
  <2>1. row[i] \in RowRec
    BY <1>0
  <2>2. CASE i \in s
    <3>1. row'[i] = [row[i] EXCEPT !.keyed = FALSE]
      BY <1>4, <2>2
    <3> QED
      BY <2>1, <2>2, <3>1, Zenon DEF RowRec
  <2>3. CASE i \notin s
    <3>1. row'[i] = row[i] /\ row[i].keyed \in BOOLEAN
      BY <1>4, <2>1, <2>3 DEF RowRec
    <3> QED
      BY <2>1, <2>3, <3>1, Zenon
  <2> QED
    BY <2>2, <2>3
<1> HIDE DEF r
<1>7. po'[p] = r /\ PollerMoves(p)
  BY <1>0, <1>2, <1>5 DEF PollerMoves
<1>8. row' \in [Ids -> RowRec]
  BY <1>4, <1>6
<1> QED
  BY <1>1, <1>3, <1>4, <1>5, <1>6, <1>7, <1>8 DEF s

\* Writing an account to the cache, over what it holds.
Writes(a, v) ==
  /\ \A b \in Accounts : cache'[b] = IF b = a THEN v ELSE cache[b]
  /\ cache' \in [Accounts -> Versions]
  /\ lost \subseteq lost' /\ lost' \subseteq Causes
  /\ lost' = {} => ~(v < cache[a])

\* SetAccount writes one account, and notes an older version over a newer one.
LEMMA SetAccountEffect ==
  ASSUME cache \in [Accounts -> Versions], lost \subseteq Causes,
         NEW a \in Accounts, NEW v \in Versions, SetAccount(a, v)
  PROVE  Writes(a, v)
<1>1. /\ \A b \in Accounts : cache'[b] = IF b = a THEN v ELSE cache[b]
      /\ cache' \in [Accounts -> Versions]
  BY DEF SetAccount
<1>2. /\ lost \subseteq lost' /\ lost' \subseteq Causes
      /\ lost' = {} => ~(v < cache[a])
  BY Zenon DEF SetAccount, Causes
<1> QED
  BY <1>1, <1>2 DEF Writes

\* HandleStore writes the account of the first row and takes it off the batch.
LEMMA StoreEffect ==
  ASSUME OutboxTypeOK, NEW p \in Replicas, HandleStore(p)
  PROVE  \E i \in Ids :
           /\ IsFirst(i, po[p].batch) /\ po[p].pc = "store"
           /\ Writes(row[i].acct, po[p].val)
           /\ handled' = handled \cup {i}
           /\ po'[p].batch = po[p].batch \ {i} /\ po'[p].last = po[p].last
           /\ po'[p].pc = IF po[p].batch = {i} THEN "advance" ELSE "load"
           /\ PollerMoves(p)
           /\ UNCHANGED <<db, row, nextId, watermark, wr, reload, aborts, late>>
<1>0. /\ po \in [Replicas -> PollerRec] /\ row \in [Ids -> RowRec] /\ po[p] \in PollerRec
      /\ po[p].batch \in SUBSET Ids /\ po[p].val \in Versions /\ 0 \in 0..MaxId /\ 0 \in Versions
      /\ cache \in [Accounts -> Versions] /\ lost \subseteq Causes
  BY TypedParts, OutboxAssumption DEF PollerRec, Versions
<1>1. PICK i \in Ids :
        /\ IsFirst(i, po[p].batch)
        /\ SetAccount(row[i].acct, po[p].val)
        /\ handled' = handled \cup {i}
        /\ po' = [po EXCEPT ![p].batch = @ \ {i}, ![p].val = 0,
                            ![p].pc = IF po[p].batch = {i} THEN "advance" ELSE "load"]
  BY DEF HandleStore
<1>2. Writes(row[i].acct, po[p].val)
  <2>1. row[i].acct \in Accounts
    BY <1>0 DEF RowRec
  <2> QED
    BY <1>0, <1>1, <2>1, SetAccountEffect
<1> DEFINE S == po[p].batch \ {i}
           pc == IF po[p].batch = {i} THEN "advance" ELSE "load"
           r == [po[p] EXCEPT !.batch = S, !.val = 0, !.pc = pc]
<1>3. po' = [po EXCEPT ![p] = r]
  BY <1>0, <1>1
<1>4. S \in SUBSET Ids /\ pc \in {"idle", "list", "load", "store", "advance", "clean"}
  BY <1>0
<1>5. r \in PollerRec /\ r.pc = pc /\ r.batch = S /\ r.last = po[p].last
  <2> HIDE DEF S, pc
  <2> QED
    BY <1>0, <1>4, Zenon DEF PollerRec
<1> HIDE DEF r
<1>6. po'[p] = r /\ PollerMoves(p)
  BY <1>0, <1>3, <1>5 DEF PollerMoves
<1> QED
  BY <1>1, <1>2, <1>5, <1>6 DEF HandleStore

\* CleanupConsumed deletes committed rows up to the poll's position.
LEMMA CleanupEffect ==
  ASSUME OutboxTypeOK, NEW p \in Replicas, CleanupConsumed(p)
  PROVE  /\ po[p].pc = "clean" /\ po'[p] = IdlePoller /\ PollerMoves(p)
         /\ \A i \in Ids : \/ row'[i] = row[i]
                           \/ /\ i <= po[p].last /\ row[i].st = "live"
                              /\ row'[i].st = "gone" /\ ~row'[i].keyed
                              /\ row'[i].acct = row[i].acct
         /\ row' \in [Ids -> RowRec]
         /\ UNCHANGED <<db, cache, nextId, watermark, wr, reload, aborts, late, handled, lost>>
<1>0. po \in [Replicas -> PollerRec] /\ row \in [Ids -> RowRec]
  BY TypedParts
<1>1. PICK old \in SUBSET {i \in Ids : i <= po[p].last /\ row[i].st = "live"} :
       row' = [i \in Ids |-> IF i \in old
                              THEN [row[i] EXCEPT !.st = "gone", !.keyed = FALSE]
                              ELSE row[i]]
  BY DEF CleanupConsumed
<1>2. \A i \in Ids : /\ \/ row'[i] = row[i]
                        \/ /\ i <= po[p].last /\ row[i].st = "live"
                           /\ row'[i].st = "gone" /\ ~row'[i].keyed
                           /\ row'[i].acct = row[i].acct
                     /\ row'[i] \in RowRec
  BY <1>0, <1>1 DEF RowRec
<1>3. row' \in [Ids -> RowRec]
  BY <1>1, <1>2
<1>4. /\ po[p].pc = "clean" /\ po' = [po EXCEPT ![p] = IdlePoller]
      /\ UNCHANGED <<db, cache, nextId, watermark, wr, reload, aborts, late, handled, lost>>
  BY DEF CleanupConsumed, history
<1>5. po'[p] = IdlePoller /\ PollerMoves(p)
  BY <1>0, <1>4, BlankRecords DEF PollerMoves
<1> QED
  BY <1>2, <1>3, <1>4, <1>5

ReloadStep(a) == RebuildLoad(a) \/ SyncLoad(a) \/ ReloadStore(a) \/ ReloadFails(a)

\* The reloads hold a committed version, or write the one they hold.
LEMMA ReloadEffect ==
  ASSUME OutboxTypeOK, NEW a \in Accounts, ReloadStep(a)
  PROVE  /\ \A b \in Accounts : b # a => reload'[b] = reload[b]
         /\ reload'[a] \in {-1, db[a]}
         /\ reload' \in [Accounts -> Versions \cup {-1}]
         /\ \/ UNCHANGED <<cache, lost>>
            \/ reload[a] \in Versions /\ Writes(a, reload[a])
         /\ aborts' \in 0..MaxAborts
         /\ UNCHANGED <<db, row, nextId, watermark, wr, po, late, handled>>
<1>0. /\ reload \in [Accounts -> Versions \cup {-1}] /\ db \in [Accounts -> Versions]
      /\ cache \in [Accounts -> Versions] /\ lost \subseteq Causes /\ aborts \in 0..MaxAborts
  BY TypedParts
<1>1. CASE RebuildLoad(a) \/ SyncLoad(a)
  BY <1>0, <1>1 DEF RebuildLoad, SyncLoad, history
<1>2. CASE ReloadStore(a)
  <2>1. reload[a] \in Versions /\ SetAccount(a, reload[a])
    BY <1>0, <1>2 DEF ReloadStore
  <2>2. Writes(a, reload[a])
    BY <1>0, <2>1, SetAccountEffect
  <2>3. /\ reload' = [reload EXCEPT ![a] = -1] /\ aborts' = aborts
        /\ UNCHANGED <<db, row, nextId, watermark, wr, po, late, handled>>
    BY <1>2 DEF ReloadStore
  <2> QED
    BY <1>0, <2>1, <2>2, <2>3
<1>3. CASE ReloadFails(a)
  BY <1>0, <1>3, OutboxAssumption DEF ReloadFails, history
<1> QED
  BY <1>1, <1>2, <1>3 DEF ReloadStep

\* The steps, in the groups the proofs go by.
LEMMA OutboxSteps ==
  OutboxNext <=>
    \/ \E w \in Writers, a \in Accounts, tx, keyed \in BOOLEAN : Update(w, a, tx, keyed)
    \/ \E w \in Writers : \/ EnqueueSwallowed(w) \/ EnqueueInserted(w)
                          \/ Commit(w) \/ EnqueueFails(w)
    \/ \E p \in Replicas : \/ Quiet(p) \/ ListAfterAndReleaseDedup(p)
                           \/ HandleStore(p) \/ CleanupConsumed(p)
    \/ \E a \in Accounts : ReloadStep(a)
BY Zenon DEF OutboxNext, WriterStep, PollerStep, Quiet, ReloadStep

\* What only pollers and reloads do leaves the writers and the sequence alone.
LEMMA WritersFrame ==
  ASSUME \/ \E p \in Replicas : \/ Quiet(p) \/ ListAfterAndReleaseDedup(p)
                                \/ HandleStore(p) \/ CleanupConsumed(p)
         \/ \E a \in Accounts : ReloadStep(a)
         \/ UNCHANGED outboxVars
  PROVE  UNCHANGED <<db, nextId, wr>>
BY Zenon DEF Quiet, ReloadStep, ReadWatermark, ListNothing, HandleLoad, Advance, PollFails,
   ListAfterAndReleaseDedup, HandleStore, CleanupConsumed, RebuildLoad, SyncLoad, ReloadStore,
   ReloadFails, outboxVars

\* A writer that is to draw an id can.
LEMMA RoomToInsert ==
  ASSUME OutboxTypeOK, Counting, NEW w \in Writers, wr[w].pc = "enqueue"
  PROVE  /\ nextId \in Ids
         /\ Cardinality(Enqueuing \ {w}) = Cardinality(Enqueuing) - 1
         /\ Cardinality(Enqueuing) \in Nat /\ IsFiniteSet(Enqueuing \ {w})
<1>1. w \in Enqueuing /\ IsFiniteSet(Enqueuing)
  BY DEF Enqueuing, Counting
<1>2. /\ Cardinality(Enqueuing \ {w}) = Cardinality(Enqueuing) - 1
      /\ IsFiniteSet(Enqueuing \ {w})
  BY <1>1, FS_RemoveElement
<1>3. Cardinality(Enqueuing) \in Nat /\ Cardinality(Enqueuing \ {w}) \in Nat
  BY <1>1, <1>2, FS_CardinalityType
<1>4. nextId \in Ids
  BY <1>2, <1>3, TypedParts, OutboxAssumption DEF Counting, Ids
<1> QED
  BY <1>1, <1>2, <1>3, <1>4

\* A change is admitted while there is room for its row, and a transaction's
\* change is counted from when it locks the account (RoomForRow, RowLocked).
LEMMA CountingNext ==
  ASSUME OutboxTypeOK, Counting, OneLocker, [OutboxNext]_outboxVars
  PROVE  Counting'
<1> DEFINE n == nextId + Cardinality(Enqueuing)
<1>0. /\ nextId \in Nat /\ db \in [Accounts -> Nat] /\ wr \in [Writers -> WriterRec]
      /\ Cardinality(Enqueuing) \in Nat /\ IsFiniteSet(Enqueuing)
  BY TypedParts, FS_CardinalityType, OutboxAssumption DEF Counting, Versions
<1>1. ASSUME NEW w \in Writers, NEW a \in Accounts, NEW tx \in BOOLEAN, NEW keyed \in BOOLEAN,
             Update(w, a, tx, keyed)
      PROVE  Counting'
  <2>1. /\ wr[w].pc = "idle" /\ ~RowLocked(a) /\ n <= MaxId
        /\ \A u \in Writers : u # w => wr'[u] = wr[u]
        /\ wr'[w].pc = "enqueue" /\ wr'[w].tx = tx /\ wr'[w].acct = a
        /\ \A b \in Accounts : db'[b] = IF ~tx /\ b = a THEN db[b] + 1 ELSE db[b]
        /\ nextId' = nextId
    <3>1. RoomForRow => n <= MaxId
      BY DEF RoomForRow, Enqueuing
    <3> HIDE DEF n
    <3> QED
      BY <1>1, <3>1, UpdateEffect
  <2>2. Enqueuing' = Enqueuing \cup {w} /\ w \notin Enqueuing
    BY <2>1 DEF Enqueuing
  <2>3. IsFiniteSet(Enqueuing') /\ Cardinality(Enqueuing') = Cardinality(Enqueuing) + 1
    BY <1>0, <2>2, FS_AddElement
  <2>4. \A b \in Accounts : RowLocked(b)' => RowLocked(b) \/ (tx /\ b = a)
    BY <2>1 DEF RowLocked
  <2>5. \A b \in Accounts : /\ db[b] < n /\ db[b] \in Nat
                            /\ RowLocked(b) => db[b] + 1 < n
    BY <1>0 DEF Counting
  <2>6. \A b \in Accounts : /\ db'[b] < n + 1
                            /\ RowLocked(b)' => db'[b] + 1 < n + 1
    BY <1>0, <2>1, <2>4, <2>5
  <2> QED
    BY <1>0, <2>1, <2>3, <2>6, OutboxAssumption DEF Counting
<1>2. ASSUME NEW w \in Writers, EnqueueSwallowed(w) \/ EnqueueInserted(w)
      PROVE  Counting'
  <2>1. /\ wr[w].pc = "enqueue" /\ nextId' = nextId + 1 /\ db' = db
        /\ \A u \in Writers : u # w => wr'[u] = wr[u]
        /\ wr'[w].pc = "commit" /\ wr'[w].tx = wr[w].tx /\ wr'[w].acct = wr[w].acct
    <3>1. wr[w].pc = "enqueue"
      BY <1>2 DEF EnqueueSwallowed, EnqueueInserted
    <3> QED
      BY <1>2, <3>1, SwallowedEffect, InsertedEffect, RoomToInsert DEF WriterBecomes
  <2>2. Enqueuing' = Enqueuing \ {w}
    BY <2>1 DEF Enqueuing
  <2>3. IsFiniteSet(Enqueuing') /\ Cardinality(Enqueuing') = Cardinality(Enqueuing) - 1
    BY <2>1, <2>2, RoomToInsert
  <2>4. \A b \in Accounts : RowLocked(b)' => RowLocked(b)
    BY <2>1 DEF RowLocked
  <2> QED
    BY <1>0, <2>1, <2>3, <2>4, OutboxAssumption DEF Counting
<1>3. ASSUME NEW w \in Writers, Commit(w)
      PROVE  Counting'
  <2>1. /\ wr[w].pc = "commit" /\ nextId' = nextId /\ wr'[w].pc = "idle" /\ ~wr'[w].tx
        /\ \A u \in Writers : u # w => wr'[u] = wr[u]
        /\ \A b \in Accounts : db'[b] = IF wr[w].tx /\ b = wr[w].acct THEN db[b] + 1 ELSE db[b]
    BY <1>3, CommitEffect, BlankRecords
  <2>2. Enqueuing' = Enqueuing
    BY <2>1 DEF Enqueuing
  <2>3. \A b \in Accounts : RowLocked(b)' => RowLocked(b) /\ ~(wr[w].tx /\ b = wr[w].acct)
    BY <2>1 DEF RowLocked, OneLocker
  <2>4. \A b \in Accounts : wr[w].tx /\ b = wr[w].acct => RowLocked(b)
    BY <2>1 DEF RowLocked
  <2> QED
    BY <1>0, <2>1, <2>2, <2>3, <2>4, OutboxAssumption DEF Counting
<1>4. ASSUME NEW w \in Writers, EnqueueFails(w)
      PROVE  Counting'
  <2>1. /\ wr[w].pc \in {"enqueue", "commit"} /\ wr'[w].pc = "idle" /\ ~wr'[w].tx /\ db' = db
        /\ \A u \in Writers : u # w => wr'[u] = wr[u]
        /\ nextId' = IF wr[w].pc = "enqueue" THEN nextId + 1 ELSE nextId
    BY <1>4, EnqueueFailsEffect, BlankRecords
  <2>2. \A b \in Accounts : RowLocked(b)' => RowLocked(b)
    BY <2>1 DEF RowLocked
  <2>3. CASE wr[w].pc = "enqueue"
    <3>1. Enqueuing' = Enqueuing \ {w}
      BY <2>1 DEF Enqueuing
    <3>2. IsFiniteSet(Enqueuing') /\ Cardinality(Enqueuing') = Cardinality(Enqueuing) - 1
      BY <2>3, <3>1, RoomToInsert
    <3> QED
      BY <1>0, <2>1, <2>2, <2>3, <3>2, OutboxAssumption DEF Counting
  <2>4. CASE wr[w].pc = "commit"
    <3>1. Enqueuing' = Enqueuing
      BY <2>1, <2>4 DEF Enqueuing
    <3> QED
      BY <2>1, <2>2, <2>4, <3>1 DEF Counting
  <2> QED
    BY <2>1, <2>3, <2>4
<1>5. CASE UNCHANGED <<db, nextId, wr>>
  BY <1>5 DEF Counting, Enqueuing, RowLocked
<1> QED
  BY <1>1, <1>2, <1>3, <1>4, <1>5, OutboxSteps, WritersFrame

\* The types: what keeps the sequence and the versions within their bound is the
\* counting of the step before and after.
LEMMA OutboxTypesNext ==
  ASSUME OutboxTypeOK, Counting, Counting', AreListed, [OutboxNext]_outboxVars
  PROVE  OutboxTypeOK'
<1> DEFINE Rest == /\ cache' \in [Accounts -> Versions] /\ row' \in [Ids -> RowRec]
                   /\ watermark' \in 0..MaxId /\ wr' \in [Writers -> WriterRec]
                   /\ po' \in [Replicas -> PollerRec]
                   /\ reload' \in [Accounts -> Versions \cup {-1}]
                   /\ aborts' \in 0..MaxAborts
                   /\ late' \subseteq Ids /\ handled' \subseteq Ids /\ lost' \subseteq Causes
           Counters == db' \in [Accounts -> Int] /\ nextId' \in Int
                       /\ (\A b \in Accounts : db'[b] >= 0) /\ nextId' >= 1
<1>0. /\ db \in [Accounts -> Versions] /\ cache \in [Accounts -> Versions]
      /\ row \in [Ids -> RowRec] /\ nextId \in 1..(MaxId + 1) /\ watermark \in 0..MaxId
      /\ wr \in [Writers -> WriterRec] /\ po \in [Replicas -> PollerRec]
      /\ reload \in [Accounts -> Versions \cup {-1}]
      /\ aborts \in 0..MaxAborts
      /\ late \subseteq Ids /\ handled \subseteq Ids /\ lost \subseteq Causes
  BY TypedParts
<1>1. /\ db \in [Accounts -> Int] /\ nextId \in Int
      /\ (\A b \in Accounts : db[b] >= 0) /\ nextId >= 1
  BY <1>0, OutboxAssumption DEF Versions
<1>2. ASSUME NEW w \in Writers, NEW a \in Accounts, NEW tx \in BOOLEAN, NEW keyed \in BOOLEAN,
             Update(w, a, tx, keyed)
      PROVE  Rest /\ Counters
  <2>1. /\ wr' \in [Writers -> WriterRec] /\ db' \in [Accounts -> Int]
        /\ \A b \in Accounts : db'[b] = IF ~tx /\ b = a THEN db[b] + 1 ELSE db[b]
        /\ UNCHANGED <<cache, row, nextId, watermark, po, reload, aborts, late, handled, lost>>
    BY <1>2, UpdateEffect
  <2> QED
    BY <1>0, <1>1, <2>1
<1>3. ASSUME NEW w \in Writers, EnqueueSwallowed(w)
      PROVE  Rest /\ Counters
  BY <1>0, <1>1, <1>3, SwallowedEffect DEF WriterBecomes
<1>4. ASSUME NEW w \in Writers, EnqueueInserted(w)
      PROVE  Rest /\ Counters
  <2>1. nextId \in Ids
    BY <1>4, RoomToInsert DEF EnqueueInserted
  <2>2. /\ wr' \in [Writers -> WriterRec] /\ row' \in [Ids -> RowRec] /\ nextId' = nextId + 1
        /\ UNCHANGED <<db, cache, watermark, po, reload, aborts, late, handled, lost>>
    BY <1>4, <2>1, InsertedEffect DEF WriterBecomes
  <2> QED
    BY <1>0, <1>1, <2>2
<1>5. ASSUME NEW w \in Writers, Commit(w)
      PROVE  Rest /\ Counters
  <2>1. /\ wr' \in [Writers -> WriterRec] /\ row' \in [Ids -> RowRec]
        /\ \A b \in Accounts : db'[b] = IF wr[w].tx /\ b = wr[w].acct THEN db[b] + 1 ELSE db[b]
        /\ db' \in [Accounts -> Int] /\ lost' \subseteq Causes
        /\ UNCHANGED <<cache, nextId, watermark, po, reload, aborts, late, handled>>
    BY <1>5, CommitEffect
  <2> QED
    BY <1>0, <1>1, <2>1
<1>6. ASSUME NEW w \in Writers, EnqueueFails(w)
      PROVE  Rest /\ Counters
  <2>1. /\ wr' \in [Writers -> WriterRec] /\ row' \in [Ids -> RowRec]
        /\ nextId' = IF wr[w].pc = "enqueue" THEN nextId + 1 ELSE nextId
        /\ lost' \subseteq Causes /\ aborts' \in 0..MaxAborts
        /\ UNCHANGED <<db, cache, watermark, po, reload, late, handled>>
    BY <1>6, EnqueueFailsEffect
  <2> QED
    BY <1>0, <1>1, <2>1
<1>7. ASSUME NEW p \in Replicas, Quiet(p)
      PROVE  Rest /\ Counters
  BY <1>0, <1>1, <1>7, QuietEffect DEF AreListed, PollerMoves
<1>8. ASSUME NEW p \in Replicas, ListAfterAndReleaseDedup(p)
      PROVE  Rest /\ Counters
  BY <1>0, <1>1, <1>8, ListEffect DEF PollerMoves
<1>9. ASSUME NEW p \in Replicas, HandleStore(p)
      PROVE  Rest /\ Counters
  BY <1>0, <1>1, <1>9, StoreEffect DEF PollerMoves, Writes
<1>10. ASSUME NEW p \in Replicas, CleanupConsumed(p)
       PROVE  Rest /\ Counters
  BY <1>0, <1>1, <1>10, CleanupEffect DEF PollerMoves
<1>11. ASSUME NEW a \in Accounts, ReloadStep(a)
       PROVE  Rest /\ Counters
  BY <1>0, <1>1, <1>11, ReloadEffect DEF Writes
<1>12. ASSUME UNCHANGED outboxVars
       PROVE  Rest /\ Counters
  <2>1. /\ UNCHANGED <<db, cache, row, nextId, watermark, wr, po, reload, aborts>>
        /\ UNCHANGED <<late, handled, lost>>
    BY <1>12 DEF outboxVars, history
  <2> QED
    BY <1>0, <1>1, <2>1
<1>13. Rest /\ Counters
  <2> HIDE DEF Rest, Counters
  <2> QED
    BY <1>2, <1>3, <1>4, <1>5, <1>6, <1>7, <1>8, <1>9, <1>10, <1>11, <1>12, OutboxSteps
<1>14. db' \in [Accounts -> Versions] /\ nextId' \in 1..(MaxId + 1)
  <2>1. Cardinality(Enqueuing') \in Nat
    BY FS_CardinalityType DEF Counting
  <2> QED
    BY <1>13, <2>1, OutboxAssumption DEF Counting, Versions
<1> QED
  BY <1>13, <1>14 DEF OutboxTypeOK, RowRec, WriterRec, PollerRec

\* What the types say of each part of the state.
LEMMA OutboxTypes ==
  ASSUME OutboxTypeOK
  PROVE  /\ MaxId \in Nat /\ nextId \in Nat /\ watermark \in Nat
         /\ \A i \in Ids : i \in Nat /\ i >= 1 /\ i <= MaxId
         /\ \A i \in Ids : /\ row[i].acct \in Accounts /\ row[i].keyed \in BOOLEAN
                           /\ row[i].st \in {"none", "open", "live", "gone"}
         /\ \A w \in Writers : /\ wr[w].pc \in {"idle", "enqueue", "commit"}
                               /\ wr[w].tx \in BOOLEAN /\ wr[w].acct \in Accounts
                               /\ wr[w].id \in Nat /\ wr[w].by \in Nat
                               /\ wr[w].id # 0 => wr[w].id \in Ids
                               /\ wr[w].by # 0 => wr[w].by \in Ids
         /\ \A p \in Replicas : /\ po[p].last \in Nat /\ po[p].batch \subseteq Ids
                                /\ po[p].val \in Nat
         /\ \A a \in Accounts : db[a] \in Nat /\ cache[a] \in Nat /\ reload[a] \in Int
         /\ \A v \in Versions : v \in Nat
         /\ handled \subseteq Ids /\ late \subseteq Ids
<1>1. /\ MaxId \in Nat /\ nextId \in Nat /\ watermark \in Nat
      /\ \A i \in Ids : i \in Nat /\ i >= 1 /\ i <= MaxId
      /\ \A v \in Versions : v \in Nat
      /\ handled \subseteq Ids /\ late \subseteq Ids
  BY TypedParts, OutboxAssumption DEF Ids, Versions
<1>2. \A i \in Ids : /\ row[i].acct \in Accounts /\ row[i].keyed \in BOOLEAN
                     /\ row[i].st \in {"none", "open", "live", "gone"}
  BY TypedParts DEF RowRec
<1>3. \A w \in Writers : /\ wr[w].pc \in {"idle", "enqueue", "commit"}
                         /\ wr[w].tx \in BOOLEAN /\ wr[w].acct \in Accounts
                         /\ wr[w].id \in 0..MaxId /\ wr[w].by \in 0..MaxId
  BY TypedParts DEF WriterRec
<1>4. \A p \in Replicas : /\ po[p].last \in 0..MaxId /\ po[p].batch \subseteq Ids
                          /\ po[p].val \in Versions
  BY TypedParts DEF PollerRec
<1>5. \A a \in Accounts : db[a] \in Nat /\ cache[a] \in Nat /\ reload[a] \in Int
  BY TypedParts, OutboxAssumption DEF Versions
<1> QED
  BY <1>1, <1>2, <1>3, <1>4, <1>5, OutboxAssumption DEF Ids

\* A change outside a transaction is owed by its writer until it inserts.
LEMMA UpdateKeeps ==
  ASSUME OutboxInd, NEW w \in Writers, NEW a \in Accounts, NEW tx \in BOOLEAN,
         NEW keyed \in BOOLEAN, Update(w, a, tx, keyed)
  PROVE  Kept
<1> USE DEF OutboxInd, Rows
<1>0. /\ wr[w].pc = "idle" /\ ~RowLocked(a)
      /\ \A u \in Writers : u # w => wr'[u] = wr[u]
      /\ wr'[w].pc = "enqueue" /\ wr'[w].tx = tx /\ wr'[w].acct = a
      /\ wr'[w].id = 0 /\ wr'[w].by = 0
      /\ \A b \in Accounts : db'[b] = IF ~tx /\ b = a THEN db[b] + 1 ELSE db[b]
      /\ UNCHANGED <<cache, row, nextId, watermark, po, reload, late, handled, lost>>
  BY UpdateEffect
<1>1. OneLocker'
  BY <1>0, OutboxTypes DEF OneLocker, RowLocked
<1>2. Links'
  BY <1>0 DEF Links
<1>3. Order' /\ AreListed' /\ AreSettled' /\ Unlisted'
  BY <1>0 DEF Order, AreListed, Listed, AreSettled, Settled, Unlisted
<1>4. Values'
  BY <1>0, OutboxTypes DEF Values, Storing, IsFirst
<1>5. Owed'
  <2> SUFFICES ASSUME late = {}, lost = {}, NEW b \in Accounts, NEW v \in Versions,
                      cache[b] <= v, v < db'[b]
               PROVE  Owing(b, v)'
    BY <1>0 DEF Owed
  <2>1. CASE ~tx /\ b = a
    BY <1>0, <2>1 DEF Owing
  <2>2. CASE ~(~tx /\ b = a)
    <3>1. Owing(b, v)
      BY <1>0, <2>2 DEF Owed
    <3>2. wr[w].id = 0 /\ 0 \notin Ids
      BY <1>0, OutboxTypes DEF Links
    <3>3. \A p \in Replicas : Storing(p, b)' = Storing(p, b) /\ po'[p] = po[p]
      BY <1>0 DEF Storing, IsFirst
    <3>4. CASE \E u \in Writers : wr[u].acct = b /\ ~wr[u].tx /\ wr[u].pc = "enqueue"
      BY <1>0, <3>4 DEF Owing
    <3>5. ASSUME NEW u \in Writers, wr[u].acct = b, ~wr[u].tx, wr[u].id \in Ids
          PROVE  wr'[u] = wr[u]
      BY <1>0, <3>2, <3>5
    <3> QED
      BY <1>0, <3>1, <3>3, <3>4, <3>5 DEF Owing
  <2> QED
    BY <2>1, <2>2
<1> QED
  BY <1>1, <1>2, <1>3, <1>4, <1>5 DEF Kept

\* A swallowed event is owed by the row that swallowed it, which no poll has
\* returned.
LEMMA SwallowedKeeps ==
  ASSUME OutboxInd, NEW w \in Writers, EnqueueSwallowed(w)
  PROVE  Kept
<1> USE DEF OutboxInd, Rows
<1>0. PICK k \in Ids :
        /\ wr[w].pc = "enqueue"
        /\ row[k].acct = wr[w].acct /\ row[k].keyed /\ row[k].st = "live"
        /\ WriterBecomes(w, "commit", wr[w].id, k)
        /\ nextId' = nextId + 1
        /\ UNCHANGED <<db, cache, row, watermark, po, reload, aborts, late, handled, lost>>
  BY SwallowedEffect
<1>1. OneLocker'
  BY <1>0, OutboxTypes DEF OneLocker, WriterBecomes
<1>2. Links'
  BY <1>0, OutboxTypes DEF Links, WriterBecomes
<1>3. Order' /\ AreListed' /\ AreSettled' /\ Unlisted'
  BY <1>0, OutboxTypes DEF Order, AreListed, Listed, AreSettled, Settled, Unlisted
<1>4. Values'
  BY <1>0 DEF Values, Storing, IsFirst
<1>5. Owed'
  <2> SUFFICES ASSUME late = {}, lost = {}, NEW b \in Accounts, NEW v \in Versions,
                      Owing(b, v)
               PROVE  Owing(b, v)'
    BY <1>0 DEF Owed
  <2>1. CASE \E u \in Writers : u # w /\ wr[u].acct = b /\ ~wr[u].tx /\ wr[u].pc = "enqueue"
    BY <1>0, <2>1 DEF Owing, WriterBecomes
  <2>2. CASE wr[w].acct = b
    <3>1. k \notin handled /\ \A p \in Replicas : k > po[p].last
      BY <1>0 DEF AreListed, Listed, Unlisted
    <3> QED
      BY <1>0, <2>2, <3>1 DEF Owing
  <2>3. CASE /\ wr[w].acct # b
             /\ ~\E u \in Writers : /\ u # w /\ wr[u].acct = b
                                    /\ ~wr[u].tx /\ wr[u].pc = "enqueue"
    BY <1>0, <2>3 DEF Owing, Storing, IsFirst, WriterBecomes
  <2> QED
    BY <2>1, <2>2, <2>3
<1> QED
  BY <1>1, <1>2, <1>3, <1>4, <1>5 DEF Kept

\* An inserted event is owed by its row, in front of every poll.
LEMMA InsertedKeeps ==
  ASSUME OutboxInd, NEW w \in Writers, EnqueueInserted(w)
  PROVE  Kept
<1> USE DEF OutboxInd, Rows
<1>0. /\ wr[w].pc = "enqueue" /\ nextId \in Ids
      /\ WriterBecomes(w, "commit", nextId, wr[w].by)
      /\ \A i \in Ids : i # nextId => row'[i] = row[i]
      /\ row'[nextId].acct = wr[w].acct /\ row'[nextId].st = "open"
      /\ nextId' = nextId + 1
      /\ UNCHANGED <<db, cache, watermark, po, reload, late, handled, lost>>
  <2>1. wr[w].pc = "enqueue" /\ nextId \in Ids
    BY RoomToInsert DEF EnqueueInserted
  <2> QED
    BY <2>1, InsertedEffect
<1>1. OneLocker'
  BY <1>0, OutboxTypes DEF OneLocker, WriterBecomes
<1>2. row[nextId].st = "none" /\ ~row[nextId].keyed
  BY <1>0, OutboxTypes DEF Order, Links
<1>3. Links'
  <2>1. \A u \in Writers : wr[u].id # nextId /\ wr[u].by # nextId
    BY <1>0, <1>2, OutboxTypes DEF Links
  <2> QED
    BY <1>0, <2>1, OutboxTypes DEF Links, WriterBecomes
<1>4. Order'
  BY <1>0, OutboxTypes DEF Order
<1>5. \A i \in Ids : Listed(i) => Listed(i)' /\ i # nextId
  BY <1>0, <1>2 DEF Listed
<1>6. AreListed'
  BY <1>0, <1>5, OutboxTypes DEF AreListed
<1>7. AreSettled' /\ Unlisted'
  BY <1>0, <1>2, OutboxTypes DEF AreSettled, Settled, Unlisted, Order
<1>8. \A p \in Replicas, b \in Accounts : Storing(p, b)' => Storing(p, b)
  BY <1>0, <1>2, OutboxTypes DEF Storing, IsFirst, AreListed, Listed
<1>9. Values'
  BY <1>0, <1>8 DEF Values
<1>10. Owed'
  <2> SUFFICES ASSUME late = {}, lost = {}, NEW b \in Accounts, NEW v \in Versions,
                      Owing(b, v)
               PROVE  Owing(b, v)'
    BY <1>0 DEF Owed
  <2>1. CASE \E u \in Writers : wr[u].acct = b /\ ~wr[u].tx /\ wr[u].pc = "enqueue"
    <3>1. CASE \E u \in Writers : u # w /\ wr[u].acct = b /\ ~wr[u].tx /\ wr[u].pc = "enqueue"
      BY <1>0, <3>1 DEF Owing, WriterBecomes
    <3>2. CASE wr[w].acct = b /\ ~wr[w].tx
      <4>1. \A p \in Replicas : nextId > po[p].last
        BY OutboxTypes DEF Order
      <4>2. wr'[w].acct = b /\ ~wr'[w].tx /\ wr'[w].id = nextId
        BY <1>0, <3>2 DEF WriterBecomes
      <4> QED
        BY <1>0, <4>1, <4>2 DEF Owing
    <3> QED
      BY <2>1, <3>1, <3>2
  <2>2. CASE \E j \in Ids :
               /\ \/ \E u \in Writers : wr[u].acct = b /\ ~wr[u].tx /\ wr[u].id = j
                  \/ row[j].acct = b /\ row[j].st = "live" /\ j \notin handled
               /\ \A p \in Replicas : Storing(p, b) /\ po[p].val <= v => j > po[p].last
    <3>1. PICK j \in Ids :
               /\ \/ \E u \in Writers : wr[u].acct = b /\ ~wr[u].tx /\ wr[u].id = j
                  \/ row[j].acct = b /\ row[j].st = "live" /\ j \notin handled
               /\ \A p \in Replicas : Storing(p, b) /\ po[p].val <= v => j > po[p].last
      BY <2>2
    <3>2. \/ \E u \in Writers : wr'[u].acct = b /\ ~wr'[u].tx /\ wr'[u].id = j
          \/ row'[j].acct = b /\ row'[j].st = "live" /\ j \notin handled'
      BY <1>0, <1>2, <3>1, OutboxTypes DEF WriterBecomes, Links
    <3>3. \A p \in Replicas : Storing(p, b)' /\ po'[p].val <= v => j > po'[p].last
      BY <1>0, <1>8, <3>1
    <3> QED
      BY <3>2, <3>3 DEF Owing
  <2> QED
    BY <2>1, <2>2 DEF Owing
<1> QED
  BY <1>1, <1>3, <1>4, <1>6, <1>7, <1>9, <1>10 DEF Kept

\* A transaction's change is owed by its row, or by the row that swallowed its
\* event and swallows still.
LEMMA CommitKeeps ==
  ASSUME OutboxInd, NEW w \in Writers, Commit(w)
  PROVE  Kept
<1> USE DEF OutboxInd, Rows
<1>0. /\ wr[w].pc = "commit" /\ wr'[w] = IdleWriter
      /\ \A u \in Writers : u # w => wr'[u] = wr[u]
      /\ \A i \in Ids : i # wr[w].id => row'[i] = row[i]
      /\ \A i \in Ids : /\ row'[i].acct = row[i].acct /\ row'[i].keyed = row[i].keyed
                        /\ row'[i].st = IF i = wr[w].id THEN "live" ELSE row[i].st
      /\ \A b \in Accounts : db'[b] = IF wr[w].tx /\ b = wr[w].acct THEN db[b] + 1 ELSE db[b]
      /\ lost \subseteq lost'
      /\ wr[w].tx /\ wr[w].by # 0 /\ lost' = {} => row[wr[w].by].keyed
      /\ UNCHANGED <<cache, nextId, watermark, po, reload, late, handled>>
  BY CommitEffect
<1>1. OneLocker'
  BY <1>0, BlankRecords DEF OneLocker
<1>2. Links'
  BY <1>0, BlankRecords, OutboxTypes DEF Links
<1>3. Order'
  BY <1>0, OutboxTypes DEF Order, Links
<1>4. \A i \in Ids : /\ Listed(i) => Listed(i)'
                     /\ row'[i].st \in {"open", "live"} => row[i].st \in {"open", "live"}
                     /\ row'[i].st = "open" => row[i].st = "open"
  BY <1>0, OutboxTypes DEF Listed, Links
<1>5. AreListed'
  BY <1>0, <1>4, OutboxTypes DEF AreListed
<1>6. AreSettled' /\ Unlisted'
  BY <1>0, <1>4 DEF AreSettled, Settled, Unlisted
<1>7. \A p \in Replicas, b \in Accounts : Storing(p, b)' => Storing(p, b)
  BY <1>0 DEF Storing, IsFirst
<1>8. Values'
  BY <1>0, <1>7, OutboxTypes DEF Values
<1>9. Owed'
  <2> SUFFICES ASSUME late = {}, lost' = {}, NEW b \in Accounts, NEW v \in Versions,
                      cache[b] <= v, v < db'[b]
               PROVE  Owing(b, v)'
    BY <1>0 DEF Owed
  <2>0. lost = {}
    BY <1>0
  <2>1. CASE v < db[b]
    <3>1. Owing(b, v)
      BY <2>0, <2>1 DEF Owed
    <3>2. CASE \E u \in Writers : wr[u].acct = b /\ ~wr[u].tx /\ wr[u].pc = "enqueue"
      BY <1>0, <3>2 DEF Owing
    <3>3. CASE \E j \in Ids :
               /\ \/ \E u \in Writers : wr[u].acct = b /\ ~wr[u].tx /\ wr[u].id = j
                  \/ row[j].acct = b /\ row[j].st = "live" /\ j \notin handled
               /\ \A p \in Replicas : Storing(p, b) /\ po[p].val <= v => j > po[p].last
      <4>1. PICK j \in Ids :
               /\ \/ \E u \in Writers : wr[u].acct = b /\ ~wr[u].tx /\ wr[u].id = j
                  \/ row[j].acct = b /\ row[j].st = "live" /\ j \notin handled
               /\ \A p \in Replicas : Storing(p, b) /\ po[p].val <= v => j > po[p].last
        BY <3>3
      <4>2. \/ \E u \in Writers : wr'[u].acct = b /\ ~wr'[u].tx /\ wr'[u].id = j
            \/ row'[j].acct = b /\ row'[j].st = "live" /\ j \notin handled'
        <5>1. CASE row[j].acct = b /\ row[j].st = "live" /\ j \notin handled
          BY <1>0, <5>1
        <5>2. CASE \E u \in Writers : u # w /\ wr[u].acct = b /\ ~wr[u].tx /\ wr[u].id = j
          BY <1>0, <5>2
        <5>3. CASE wr[w].acct = b /\ wr[w].id = j
          <6>1. row[j].st = "open" /\ row[j].acct = b
            BY <5>3, OutboxTypes DEF Links
          <6>2. j \notin handled
            BY <6>1 DEF AreListed, Listed
          <6> QED
            BY <1>0, <5>3, <6>1, <6>2
        <5> QED
          BY <4>1, <5>1, <5>2, <5>3
      <4>3. \A p \in Replicas : Storing(p, b)' /\ po'[p].val <= v => j > po'[p].last
        BY <1>0, <1>7, <4>1
      <4> QED
        BY <4>2, <4>3 DEF Owing
    <3> QED
      BY <3>1, <3>2, <3>3 DEF Owing
  <2>2. CASE ~(v < db[b])
    <3>1. wr[w].tx /\ b = wr[w].acct
      BY <1>0, <2>2
    <3>2. CASE wr[w].id # 0
      <4>1. /\ wr[w].id \in Ids /\ row[wr[w].id].st = "open" /\ row[wr[w].id].acct = b
        BY <3>1, <3>2, OutboxTypes DEF Links
      <4>2. wr[w].id \notin handled /\ \A p \in Replicas : wr[w].id > po[p].last
        BY <4>1 DEF AreListed, Listed, Unlisted
      <4> QED
        BY <1>0, <4>1, <4>2 DEF Owing
    <3>3. CASE wr[w].id = 0
      <4>1. /\ wr[w].by \in Ids /\ wr[w].by # 0 /\ row[wr[w].by].acct = b
            /\ row[wr[w].by].st \in {"live", "gone"}
        BY <1>0, <3>1, <3>3, OutboxTypes DEF Links
      <4>2. row[wr[w].by].keyed /\ row[wr[w].by].st = "live"
        BY <1>0, <3>1, <4>1 DEF Links
      <4>3. wr[w].by \notin handled /\ \A p \in Replicas : wr[w].by > po[p].last
        BY <4>1, <4>2 DEF AreListed, Listed, Unlisted
      <4> QED
        BY <1>0, <3>3, <4>1, <4>2, <4>3, OutboxTypes DEF Owing
    <3> QED
      BY <3>2, <3>3
  <2> QED
    BY <2>1, <2>2
<1> QED
  BY <1>1, <1>2, <1>3, <1>5, <1>6, <1>8, <1>9 DEF Kept

\* A transaction that is undone owed nothing.
LEMMA EnqueueFailsKeeps ==
  ASSUME OutboxInd, NEW w \in Writers, EnqueueFails(w)
  PROVE  Kept
<1> USE DEF OutboxInd, Rows
<1>0. /\ wr'[w] = IdleWriter
      /\ \A u \in Writers : u # w => wr'[u] = wr[u]
      /\ \A i \in Ids : row'[i] = IF i = wr[w].id THEN NoRow ELSE row[i]
      /\ nextId' \in {nextId, nextId + 1}
      /\ lost \subseteq lost' /\ (lost' = {} => wr[w].tx)
      /\ UNCHANGED <<db, cache, watermark, po, reload, late, handled>>
  BY EnqueueFailsEffect
<1>1. OneLocker'
  BY <1>0, BlankRecords DEF OneLocker
<1>2. \A i \in Ids : i = wr[w].id => row[i].st = "open"
  BY OutboxTypes DEF Links
<1>3. Links'
  BY <1>0, <1>2, BlankRecords, OutboxTypes DEF Links
<1>4. Order'
  BY <1>0, BlankRecords, OutboxTypes DEF Order
<1>5. \A i \in Ids : /\ Listed(i) => Listed(i)' /\ row'[i] = row[i]
                     /\ row'[i].st \in {"open", "live"} => row'[i] = row[i]
                     /\ row'[i].keyed => row'[i] = row[i]
  BY <1>0, <1>2, BlankRecords DEF Listed
<1>6. AreListed'
  BY <1>0, <1>5, OutboxTypes DEF AreListed
<1>7. AreSettled' /\ Unlisted'
  BY <1>0, <1>5 DEF AreSettled, Settled, Unlisted
<1>8. \A p \in Replicas, b \in Accounts : Storing(p, b)' => Storing(p, b)
  BY <1>0, <1>5 DEF Storing, IsFirst, AreListed
<1>9. Values'
  BY <1>0, <1>8 DEF Values
<1>10. Owed'
  <2> SUFFICES ASSUME late = {}, lost = {}, wr[w].tx, NEW b \in Accounts, NEW v \in Versions,
                      Owing(b, v)
               PROVE  Owing(b, v)'
    BY <1>0 DEF Owed
  <2>1. CASE \E u \in Writers : wr[u].acct = b /\ ~wr[u].tx /\ wr[u].pc = "enqueue"
    BY <1>0, <2>1 DEF Owing
  <2>2. CASE \E j \in Ids :
               /\ \/ \E u \in Writers : wr[u].acct = b /\ ~wr[u].tx /\ wr[u].id = j
                  \/ row[j].acct = b /\ row[j].st = "live" /\ j \notin handled
               /\ \A p \in Replicas : Storing(p, b) /\ po[p].val <= v => j > po[p].last
    <3>1. PICK j \in Ids :
               /\ \/ \E u \in Writers : wr[u].acct = b /\ ~wr[u].tx /\ wr[u].id = j
                  \/ row[j].acct = b /\ row[j].st = "live" /\ j \notin handled
               /\ \A p \in Replicas : Storing(p, b) /\ po[p].val <= v => j > po[p].last
      BY <2>2
    <3>2. \/ \E u \in Writers : wr'[u].acct = b /\ ~wr'[u].tx /\ wr'[u].id = j
          \/ row'[j].acct = b /\ row'[j].st = "live" /\ j \notin handled'
      BY <1>0, <1>2, <3>1
    <3>3. \A p \in Replicas : Storing(p, b)' /\ po'[p].val <= v => j > po'[p].last
      BY <1>0, <1>8, <3>1
    <3> QED
      BY <3>2, <3>3 DEF Owing
  <2> QED
    BY <2>1, <2>2 DEF Owing
<1> QED
  BY <1>1, <1>3, <1>4, <1>6, <1>7, <1>9, <1>10 DEF Kept

\* A poll loads the account as it is committed, which is newer than any version
\* that is owed for; the watermark goes where a whole batch was handled.
LEMMA QuietKeeps ==
  ASSUME OutboxInd, NEW p \in Replicas, Quiet(p)
  PROVE  Kept
<1> USE DEF OutboxInd, Rows
<1>0. /\ Begins(p) \/ GoesOn(p)
      /\ \A q \in Replicas : q # p => po'[q] = po[q]
      /\ UNCHANGED <<db, cache, row, nextId, wr, reload, late, handled, lost>>
  BY QuietEffect DEF AreListed, PollerMoves
<1>1. OneLocker' /\ Links'
  BY <1>0 DEF OneLocker, Links
<1>2. CASE Begins(p)
  <2>0. /\ po'[p].batch = {} /\ po'[p].last \in {0, watermark}
        /\ po'[p].pc \notin {"load", "store"} /\ watermark' = watermark
    BY <1>2 DEF Begins
  <2>1. Order' /\ AreListed'
    BY <1>0, <2>0, OutboxTypes DEF Order, AreListed, Listed
  <2>2. AreSettled' /\ Unlisted'
    BY <1>0, <2>0, OutboxTypes DEF AreSettled, Settled, Unlisted
  <2>3. \A q \in Replicas, b \in Accounts :
          Storing(q, b)' => q # p /\ Storing(q, b)
    BY <1>0, <2>0 DEF Storing, IsFirst
  <2>4. Values'
    BY <1>0, <2>3 DEF Values
  <2>5. Owed'
    BY <1>0, <2>3 DEF Owed, Owing
  <2> QED
    BY <1>1, <2>1, <2>2, <2>4, <2>5 DEF Kept
<1>3. CASE GoesOn(p)
  <2>0. /\ po'[p].batch = po[p].batch /\ po'[p].last = po[p].last
        /\ \/ /\ po'[p].pc = "store" /\ watermark' = watermark
              /\ \A i \in Ids : IsFirst(i, po[p].batch) => po'[p].val = db[row[i].acct]
           \/ po'[p].pc = "clean" /\ po[p].pc = "advance" /\ watermark' = po[p].last
    BY <1>3 DEF GoesOn
  <2>1. po[p].pc = "advance" => po[p].batch = {}
    BY DEF AreListed
  <2>2. Order' /\ AreListed'
    BY <1>0, <2>0, <2>1, OutboxTypes DEF Order, AreListed, Listed
  <2>3. AreSettled' /\ Unlisted'
    BY <1>0, <2>0, <2>1, OutboxTypes DEF AreSettled, Settled, Unlisted
  <2>4. \A q \in Replicas, b \in Accounts :
          Storing(q, b)' => \/ q # p /\ Storing(q, b)
                            \/ q = p /\ po'[p].val = db[b]
    BY <1>0, <2>0 DEF Storing, IsFirst
  <2>5. Values'
    BY <1>0, <2>4, OutboxTypes DEF Values
  <2>6. Owed'
    <3> SUFFICES ASSUME late = {}, lost = {}, NEW b \in Accounts, NEW v \in Versions,
                        v < db[b], Owing(b, v)
                 PROVE  Owing(b, v)'
      BY <1>0 DEF Owed
    <3>1. \A q \in Replicas : Storing(q, b)' /\ po'[q].val <= v
                                => Storing(q, b) /\ po[q].val <= v /\ po'[q].last = po[q].last
      BY <1>0, <2>4, OutboxTypes
    <3> QED
      BY <1>0, <3>1 DEF Owing
  <2> QED
    BY <1>1, <2>2, <2>3, <2>5, <2>6 DEF Kept
<1> QED
  BY <1>0, <1>2, <1>3

\* A list leaves out no committed row before its last one.
LEMMA ListKeeps ==
  ASSUME OutboxInd, NEW p \in Replicas, ListAfterAndReleaseDedup(p)
  PROVE  Kept
<1> USE DEF OutboxInd, Rows
<1>0. PICK last \in Ids, s \in SUBSET Ids :
        /\ s = Selected(po[p].last) /\ IsLast(last, s) /\ po[p].pc = "list"
        /\ po'[p].pc = "load" /\ po'[p].batch = s /\ po'[p].last = last
        /\ \A q \in Replicas : q # p => po'[q] = po[q]
        /\ late' = late \cup {i \in Ids : i < last /\ row[i].st = "open"}
        /\ \A i \in Ids : /\ row'[i].acct = row[i].acct /\ row'[i].st = row[i].st
                          /\ row'[i].keyed = (row[i].keyed /\ i \notin s)
        /\ UNCHANGED <<db, cache, nextId, watermark, wr, reload, handled, lost>>
  BY ListEffect DEF PollerMoves
<1>1. /\ \A i \in s : i > po[p].last /\ row[i].st = "live" /\ i <= last
      /\ last \in s /\ po[p].batch = {}
  BY <1>0 DEF Selected, IsLast, AreListed
<1>2. \A i \in Ids : po[p].last < i /\ i <= last /\ row[i].st = "live" => i \in s
  BY <1>0, SelectedPrefix, OutboxTypes
<1>3. last < nextId /\ row[last].st = "live"
  BY <1>0, <1>1, OutboxTypes DEF Order
<1>4. OneLocker' /\ Links'
  BY <1>0, OutboxTypes DEF OneLocker, Links
<1>5. Order'
  BY <1>0, <1>1, <1>3 DEF Order
<1>6. \A i \in Ids : /\ Listed(i) => Listed(i)'
                     /\ i \in s => Listed(i)'
                     /\ row'[i].keyed => row[i].keyed /\ i \notin s
  BY <1>0, <1>1 DEF Listed
<1>7. AreListed'
  BY <1>0, <1>6, OutboxTypes DEF AreListed
<1>8. Settled(last, s)'
  <2> SUFFICES ASSUME NEW i \in Ids, i <= last, row[i].st \in {"open", "live"}
               PROVE  i \in handled \cup late' \cup s
    BY <1>0 DEF Settled
  <2>1. CASE i <= po[p].last
    BY <1>0, <1>1, <2>1 DEF AreSettled, Settled
  <2>2. CASE po[p].last < i /\ row[i].st = "live"
    BY <1>2, <2>2
  <2>3. CASE row[i].st = "open"
    BY <1>0, <1>3, <2>3, OutboxTypes
  <2> QED
    BY <2>1, <2>2, <2>3, OutboxTypes
<1>9. AreSettled'
  BY <1>0, <1>8 DEF AreSettled, Settled
<1>10. Unlisted'
  <2> SUFFICES ASSUME late' = {}, NEW i \in Ids, row'[i].st = "open" \/ row'[i].keyed
               PROVE  i > watermark /\ \A q \in Replicas : i > po'[q].last
    BY <1>0 DEF Unlisted
  <2>1. /\ late = {} /\ (row[i].st = "open" \/ row[i].keyed)
        /\ i > watermark /\ \A q \in Replicas : i > po[q].last
    BY <1>0, <1>6 DEF Unlisted
  <2>2. i > last
    <3>1. CASE row[i].st = "open"
      BY <1>0, <1>3, <3>1, OutboxTypes
    <3>2. CASE row'[i].keyed
      <4>1. row[i].st \in {"open", "live"} /\ i \notin s
        BY <1>6, <3>2 DEF Links
      <4> QED
        BY <1>0, <1>2, <1>3, <2>1, <4>1, OutboxTypes
    <3> QED
      BY <1>0, <3>1, <3>2
  <2> QED
    BY <1>0, <2>1, <2>2
<1>11. \A q \in Replicas, b \in Accounts : Storing(q, b)' => q # p /\ Storing(q, b)
  BY <1>0 DEF Storing, IsFirst
<1>12. Values'
  BY <1>0, <1>11 DEF Values
<1>13. Owed'
  BY <1>0, <1>11 DEF Owed, Owing
<1> QED
  BY <1>4, <1>5, <1>7, <1>9, <1>10, <1>12, <1>13 DEF Kept

\* The row whose account is written is not the one that is owed for what it
\* writes: that one is behind the batch.
LEMMA StoreKeeps ==
  ASSUME OutboxInd, NEW p \in Replicas, HandleStore(p)
  PROVE  Kept
<1> USE DEF OutboxInd, Rows
<1>0. PICK i \in Ids :
        /\ IsFirst(i, po[p].batch) /\ po[p].pc = "store"
        /\ Writes(row[i].acct, po[p].val)
        /\ handled' = handled \cup {i}
        /\ po'[p].batch = po[p].batch \ {i} /\ po'[p].last = po[p].last
        /\ po'[p].pc = IF po[p].batch = {i} THEN "advance" ELSE "load"
        /\ \A q \in Replicas : q # p => po'[q] = po[q]
        /\ UNCHANGED <<db, row, nextId, watermark, wr, reload, late>>
  BY StoreEffect DEF PollerMoves
<1>1. i \in po[p].batch /\ Listed(i) /\ i <= po[p].last
  BY <1>0 DEF IsFirst, AreListed, Order
<1>2. OneLocker' /\ Links' /\ Order'
  BY <1>0 DEF OneLocker, Links, Order
<1>3. AreListed'
  BY <1>0, <1>1 DEF AreListed, Listed
<1>4. AreSettled' /\ Unlisted'
  BY <1>0 DEF AreSettled, Settled, Unlisted
<1>5. \A q \in Replicas, b \in Accounts : Storing(q, b)' => q # p /\ Storing(q, b)
  BY <1>0 DEF Storing, IsFirst
<1>6. Storing(p, row[i].acct)
  BY <1>0 DEF Storing
<1>7. Values'
  BY <1>0, <1>5, <1>6, OutboxTypes DEF Values, Writes
<1>8. Owed'
  <2> SUFFICES ASSUME late = {}, lost' = {}, NEW b \in Accounts, NEW v \in Versions,
                      cache'[b] <= v, v < db[b]
               PROVE  Owing(b, v)'
    BY <1>0 DEF Owed
  <2>1. lost = {} /\ cache[b] <= v /\ (b = row[i].acct => po[p].val <= v)
    BY <1>0, OutboxTypes DEF Writes
  <2>2. Owing(b, v)
    BY <2>1 DEF Owed
  <2>3. CASE \E u \in Writers : wr[u].acct = b /\ ~wr[u].tx /\ wr[u].pc = "enqueue"
    BY <1>0, <2>3 DEF Owing
  <2>4. CASE \E j \in Ids :
               /\ \/ \E u \in Writers : wr[u].acct = b /\ ~wr[u].tx /\ wr[u].id = j
                  \/ row[j].acct = b /\ row[j].st = "live" /\ j \notin handled
               /\ \A q \in Replicas : Storing(q, b) /\ po[q].val <= v => j > po[q].last
    <3>1. PICK j \in Ids :
               /\ \/ \E u \in Writers : wr[u].acct = b /\ ~wr[u].tx /\ wr[u].id = j
                  \/ row[j].acct = b /\ row[j].st = "live" /\ j \notin handled
               /\ \A q \in Replicas : Storing(q, b) /\ po[q].val <= v => j > po[q].last
      BY <2>4
    <3>2. row[j].acct = b => j # i
      BY <1>1, <1>6, <2>1, <3>1, OutboxTypes
    <3>3. \/ \E u \in Writers : wr'[u].acct = b /\ ~wr'[u].tx /\ wr'[u].id = j
          \/ row'[j].acct = b /\ row'[j].st = "live" /\ j \notin handled'
      BY <1>0, <3>1, <3>2
    <3>4. \A q \in Replicas : Storing(q, b)' /\ po'[q].val <= v => j > po'[q].last
      BY <1>0, <1>5, <3>1
    <3> QED
      BY <3>3, <3>4 DEF Owing
  <2> QED
    BY <2>2, <2>3, <2>4 DEF Owing
<1> QED
  BY <1>2, <1>3, <1>4, <1>7, <1>8 DEF Kept

\* What the cleanup deletes was handled, or late.
LEMMA CleanupKeeps ==
  ASSUME OutboxInd, NEW p \in Replicas, CleanupConsumed(p)
  PROVE  Kept
<1> USE DEF OutboxInd, Rows
<1>0. /\ po[p].pc = "clean" /\ po'[p] = IdlePoller
      /\ \A q \in Replicas : q # p => po'[q] = po[q]
      /\ \A i \in Ids : \/ row'[i] = row[i]
                        \/ /\ i <= po[p].last /\ row[i].st = "live"
                           /\ row'[i].st = "gone" /\ ~row'[i].keyed
                           /\ row'[i].acct = row[i].acct
      /\ UNCHANGED <<db, cache, nextId, watermark, wr, reload, late, handled, lost>>
  BY CleanupEffect DEF PollerMoves
<1>1. OneLocker'
  BY <1>0 DEF OneLocker
<1>2. Links'
  BY <1>0, OutboxTypes DEF Links
<1>3. Order'
  BY <1>0, BlankRecords, OutboxTypes DEF Order
<1>4. \A i \in Ids : /\ Listed(i) => Listed(i)'
                     /\ row'[i].st \in {"open", "live"} => row'[i] = row[i]
                     /\ row'[i].keyed => row'[i] = row[i]
                     /\ row'[i].acct = row[i].acct
  BY <1>0 DEF Listed
<1>5. AreListed'
  BY <1>0, <1>4, BlankRecords, OutboxTypes DEF AreListed
<1>6. AreSettled' /\ Unlisted'
  BY <1>0, <1>4, BlankRecords, OutboxTypes DEF AreSettled, Settled, Unlisted
<1>7. \A q \in Replicas, b \in Accounts : Storing(q, b)' => q # p /\ Storing(q, b)
  BY <1>0, <1>4, BlankRecords DEF Storing, IsFirst
<1>8. Values'
  BY <1>0, <1>7 DEF Values
<1>9. Owed'
  <2> SUFFICES ASSUME late = {}, lost = {}, NEW b \in Accounts, NEW v \in Versions,
                      Owing(b, v)
               PROVE  Owing(b, v)'
    BY <1>0 DEF Owed
  <2>1. \A j \in Ids : row[j].st = "live" /\ j \notin handled => row'[j] = row[j]
    <3>1. Settled(po[p].last, {})
      BY <1>0 DEF AreListed, AreSettled
    <3> QED
      BY <1>0, <3>1 DEF Settled
  <2> QED
    BY <1>0, <1>7, <2>1 DEF Owing
<1> QED
  BY <1>1, <1>2, <1>3, <1>5, <1>6, <1>8, <1>9 DEF Kept

\* A reload writes a version that is not older, or the loss is noted.
LEMMA ReloadKeeps ==
  ASSUME OutboxInd, NEW a \in Accounts, ReloadStep(a)
  PROVE  Kept
<1> USE DEF OutboxInd, Rows
<1>0. /\ \A b \in Accounts : b # a => reload'[b] = reload[b]
      /\ reload'[a] \in {-1, db[a]}
      /\ \/ UNCHANGED <<cache, lost>>
         \/ reload[a] \in Versions /\ Writes(a, reload[a])
      /\ UNCHANGED <<db, row, nextId, watermark, wr, po, late, handled>>
  BY ReloadEffect
<1>1. OneLocker' /\ Links' /\ Order'
  BY <1>0 DEF OneLocker, Links, Order
<1>2. AreListed' /\ AreSettled' /\ Unlisted'
  BY <1>0 DEF AreListed, Listed, AreSettled, Settled, Unlisted
<1>3. \A b \in Accounts : /\ cache'[b] <= db[b] /\ reload'[b] <= db[b]
                          /\ lost' = {} => lost = {} /\ cache[b] <= cache'[b]
  BY <1>0, OutboxTypes DEF Writes, Values
<1>4. Values'
  BY <1>0, <1>3 DEF Values, Storing, IsFirst
<1>5. Owed'
  <2> SUFFICES ASSUME late = {}, lost' = {}, NEW b \in Accounts, NEW v \in Versions,
                      cache'[b] <= v, v < db[b]
               PROVE  Owing(b, v)'
    BY <1>0 DEF Owed
  <2>1. lost = {} /\ cache[b] <= v
    <3>1. cache'[b] \in Nat
      BY <1>0, OutboxTypes DEF Writes, Versions
    <3> QED
      BY <1>3, <3>1, OutboxTypes
  <2> QED
    BY <1>0, <2>1 DEF Owed, Owing, Storing, IsFirst
<1> QED
  BY <1>1, <1>2, <1>4, <1>5 DEF Kept

\* OutboxInd is inductive and implies what the run checks.
LEMMA OutboxIndInit == OutboxInit => OutboxInd
<1> SUFFICES ASSUME OutboxInit PROVE OutboxInd
  OBVIOUS
<1>0. /\ db = [a \in Accounts |-> 0] /\ cache = db
      /\ row = [i \in Ids |-> NoRow] /\ nextId = 1 /\ watermark = 0
      /\ wr = [w \in Writers |-> IdleWriter] /\ po = [p \in Replicas |-> IdlePoller]
      /\ reload = [a \in Accounts |-> -1] /\ aborts = 0
      /\ late = {} /\ handled = {} /\ lost = {}
  BY DEF OutboxInit
<1>1. OutboxTypeOK
  <2>1. 0 \in Versions /\ 1 \in 1..(MaxId + 1) /\ 0 \in 0..MaxId /\ 0 \in 0..MaxAborts
    BY OutboxAssumption DEF Versions
  <2> QED
    BY <1>0, <2>1, BlankRecords, TypedParts
<1>2. Enqueuing = {} /\ \A a \in Accounts : ~RowLocked(a)
  BY <1>0, BlankRecords DEF Enqueuing, RowLocked
<1>3. Counting
  BY <1>0, <1>2, FS_EmptySet, OutboxAssumption DEF Counting
<1>4. OneLocker /\ Links /\ Order /\ AreListed
  BY <1>0, BlankRecords DEF OneLocker, Links, Order, AreListed
<1>5. AreSettled /\ Unlisted
  BY <1>0, BlankRecords DEF AreSettled, Settled, Unlisted
<1>6. Values /\ Owed
  <2>1. \A a \in Accounts : db[a] = 0 /\ cache[a] = 0 /\ reload[a] = -1
    BY <1>0
  <2>2. \A p \in Replicas, a \in Accounts : ~Storing(p, a)
    BY <1>0, BlankRecords DEF Storing
  <2> QED
    BY <2>1, <2>2 DEF Values, Owed, Versions
<1> QED
  BY <1>1, <1>3, <1>4, <1>5, <1>6 DEF OutboxInd, Rows

LEMMA OutboxIndNext == OutboxInd /\ [OutboxNext]_outboxVars => OutboxInd'
<1> SUFFICES ASSUME OutboxInd, [OutboxNext]_outboxVars PROVE OutboxInd'
  OBVIOUS
<1>1. Counting'
  BY CountingNext DEF OutboxInd
<1>2. OutboxTypeOK'
  BY <1>1, OutboxTypesNext DEF OutboxInd, Rows
<1>3. CASE UNCHANGED outboxVars
  <2>1. /\ UNCHANGED <<db, cache, row, nextId, watermark, wr, po, reload, aborts>>
        /\ UNCHANGED <<late, handled, lost>>
    BY <1>3 DEF outboxVars, history
  <2>2. OneLocker' /\ Links' /\ Order' /\ AreListed' /\ AreSettled' /\ Unlisted'
    BY <2>1 DEF OutboxInd, Rows, OneLocker, Links, Order, AreListed, Listed, AreSettled,
                Settled, Unlisted
  <2>3. Values' /\ Owed'
    BY <2>1 DEF OutboxInd, Values, Owed, Owing, Storing, IsFirst
  <2> QED
    BY <1>1, <1>2, <2>2, <2>3 DEF OutboxInd, Rows
<1>4. CASE OutboxNext
  <2>1. Kept
    BY <1>4, OutboxSteps, UpdateKeeps, SwallowedKeeps, InsertedKeeps, CommitKeeps,
       EnqueueFailsKeeps, QuietKeeps, ListKeeps, StoreKeeps, CleanupKeeps, ReloadKeeps
  <2> QED
    BY <1>1, <1>2, <2>1 DEF Kept, OutboxInd
<1> QED
  BY <1>3, <1>4

LEMMA OutboxIndImplies == OutboxInd => OutboxInv
<1> SUFFICES ASSUME OutboxInd PROVE OutboxInv
  OBVIOUS
<1> USE DEF OutboxInd, Rows
<1>1. HandledBeforePassed
  BY DEF HandledBeforePassed, AreSettled, Settled
<1>2. StaleIsAnnounced
  <2> SUFFICES ASSUME late = {}, lost = {}, NEW a \in Accounts, cache[a] # db[a]
               PROVE  Announced(a)
    BY DEF StaleIsAnnounced
  <2>1. cache[a] \in Versions
    BY TypedParts
  <2>2. cache[a] <= cache[a] /\ cache[a] < db[a]
    BY OutboxTypes DEF Values
  <2>3. Owing(a, cache[a])
    BY <2>1, <2>2 DEF Owed
  <2>4. ASSUME NEW j \in Ids,
               \/ \E w \in Writers : wr[w].acct = a /\ wr[w].id = j
               \/ row[j].acct = a /\ row[j].st = "live" /\ j \notin handled
        PROVE  Announced(a)
    <3>1. row[j].acct = a /\ row[j].st \in {"open", "live"} /\ j > watermark
      <4>1. CASE \E w \in Writers : wr[w].acct = a /\ wr[w].id = j
        BY <4>1, OutboxTypes DEF Links, Unlisted
      <4>2. CASE row[j].acct = a /\ row[j].st = "live" /\ j \notin handled
        BY <4>2, OutboxTypes DEF AreSettled, Settled
      <4> QED
        BY <2>4, <4>1, <4>2
    <3> QED
      BY <3>1 DEF Announced
  <2> QED
    BY <2>3, <2>4 DEF Owing, Announced
<1> QED
  BY <1>1, <1>2 DEF OutboxInv

\* Whatever writers, pollers, reloads and the cleanup do in between, for any
\* number of them: the watermark passes only handled or late rows, and an account
\* whose cached version is old is announced by an event in front of it, unless a
\* recorded loss happened (pollOutbox, the outbox's inserts, DeleteConsumedUpTo).
THEOREM OutboxSafe == OutboxSpec => []OutboxInv
<1>1. OutboxSpec => []OutboxInd
  BY OutboxIndInit, OutboxIndNext, PTL DEF OutboxSpec
<1> QED
  BY <1>1, OutboxIndImplies, PTL

=============================================================================
