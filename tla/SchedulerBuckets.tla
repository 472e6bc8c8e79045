--------------------------- MODULE SchedulerBuckets ---------------------------
(***************************************************************************)
(* The snapshot of one scheduler bucket in Redis and the writers that      *)
(* publish it.  A bucket is retired when its group is disabled or deleted  *)
(* and reopened when the group is active again; its epoch goes up at the   *)
(* retirement.  A writer captures a token of the current epoch, loads the  *)
(* accounts, allocates a snapshot version and activates it: both of the    *)
(* last scripts check the retirement mark and the epoch again.             *)
(*                                                                         *)
(* Pollers handle group events: under the group's lease they read the      *)
(* group, reopen or retire the bucket, and after a reopening rebuild it.   *)
(* Rebuilders rebuild it for an account event or at an interval.           *)
(* Requests that find no snapshot publish the accounts they have loaded    *)
(* themselves, without the bucket's lock.  Every script has the keys of    *)
(* one bucket only, so one bucket of one group is modelled.                *)
(*                                                                         *)
(* data is the number of changes of which accounts the bucket has: a       *)
(* snapshot is the list of them.  What the cache says of each account is   *)
(* written on the way, past the fence, for all buckets at once: that is    *)
(* SchedulerOutbox's cache.  Snapshot versions are only ever compared:     *)
(* they are counted from the one that was activated last, and all older    *)
(* ones are -1.  base and loose are history.                               *)
(***************************************************************************)
EXTENDS Integers

CONSTANTS
  Pollers, Rebuilders, Requests,
  MaxData,     \* bound: changes of the bucket's accounts
  MaxChanges,  \* bound: times the group is enabled or disabled
  MaxOwed,     \* bound: such changes at once, the event still to be enqueued
  MaxFaults    \* bound: errors, crashes and locks that lapse

Workers == Pollers \cup Rebuilders \cup Requests

ASSUME KindsAssumption ==
  /\ Pollers \cap Rebuilders = {} /\ Pollers \cap Requests = {}
  /\ Rebuilders \cap Requests = {} /\ "none" \notin Workers
ASSUME BoundsAssumption ==
  MaxData \in Nat /\ MaxChanges \in Nat /\ MaxOwed \in Nat /\ MaxFaults \in Nat

VARIABLES
  data,     \* the bucket's accounts in the database
  group,    \* whether the group is active in the database
  changes,  \* changes of the group so far
  owed,     \* those whose event is still to be enqueued
  events,   \* the changes made before the last event was enqueued
  done,     \* the changes made before the last event that has been handled
  epoch,    \* sched:epoch, 0 if there is none
  retired,  \* sched:retired, the epoch of the retirement, or 0
  version,  \* sched:ver, the last version allocated
  active,   \* sched:active: whether it is set, and its snapshot's accounts
  lock,     \* sched:lock, the worker that set it, or "none"
  lease,    \* the lease of the group's lifecycle, its owner or "none"
  wk,       \* of a worker: where it is and what it has read
  faults,   \* bound: faults so far
  base,     \* history: data at the last retirement
  loose     \* history: accounts were loaded without a live bucket lock

redis == <<epoch, retired, version, active>>
outbox == <<changes, owed, events, done>>
vars == <<data, group, outbox, redis, lock, lease, wk, faults, base, loose>>

NoSnapshot == [set |-> FALSE, data |-> 0]
Idle == [pc |-> "idle", token |-> 0, val |-> 0, ver |-> -1, on |-> FALSE, seen |-> 0]

LifecyclePcs == {"group", "decide", "release"}
WritePcs == {"lock", "shared", "load", "allocate", "activate"}

TypeOK ==
  /\ data \in 0..MaxData /\ group \in BOOLEAN
  /\ changes \in 0..MaxChanges /\ owed \in 0..MaxOwed
  /\ events \in 0..MaxChanges /\ done \in 0..MaxChanges
  /\ epoch \in Nat /\ retired \in Nat /\ version \in Nat
  /\ active \in [set : BOOLEAN, data : 0..MaxData]
  /\ lock \in Workers \cup {"none"} /\ lease \in Pollers \cup {"none"}
  /\ wk \in [Workers -> [pc : {"idle", "unlock"} \cup LifecyclePcs \cup WritePcs,
                         token : Nat, val : 0..MaxData, ver : Nat \cup {-1},
                         on : BOOLEAN, seen : 0..MaxChanges]]
  /\ faults \in 0..MaxFaults
  /\ base \in 0..MaxData /\ loose \in BOOLEAN

Init ==
  /\ data = 0 /\ group = TRUE
  /\ changes = 0 /\ owed = 0 /\ events = 0 /\ done = 0
  /\ epoch = 0 /\ retired = 0 /\ version = 0 /\ active = NoSnapshot
  /\ lock = "none" /\ lease = "none"
  /\ wk = [w \in Workers |-> Idle]
  /\ faults = 0 /\ base = 0 /\ loose = FALSE

Goto(w, pc) == wk' = [wk EXCEPT ![w].pc = pc]

(***************************************************************************)
(* The database.                                                           *)
(***************************************************************************)

ChangeData ==
  /\ data < MaxData /\ data' = data + 1
  /\ UNCHANGED <<group, outbox, redis, lock, lease, wk, faults, base, loose>>

\* The group is enabled or disabled; its group_changed event is a statement of
\* its own.
ChangeGroup ==
  /\ changes < MaxChanges /\ changes' = changes + 1
  /\ owed < MaxOwed /\ owed' = owed + 1
  /\ group' = ~group
  /\ UNCHANGED <<data, events, done, redis, lock, lease, wk, faults, base, loose>>

\* Whoever handles the event reads the group later: it tells of every change
\* made so far.
EnqueueGroupEvent ==
  /\ owed > 0 /\ owed' = owed - 1
  /\ events' = changes
  /\ UNCHANGED <<data, group, changes, done, redis, lock, lease, wk, faults, base, loose>>

(***************************************************************************)
(* prepareGroupLifecycle                                                   *)
(***************************************************************************)

\* A lease that is busy is an error: the event is polled again.
TryAcquireGroupLifecycleLease(w) ==
  /\ wk[w].pc = "idle" /\ lease = "none"
  /\ lease' = w
  /\ wk' = [wk EXCEPT ![w] = [Idle EXCEPT !.pc = "group", !.seen = events]]
  /\ UNCHANGED <<data, group, outbox, redis, lock, faults, base, loose>>

GetGroup(w) ==
  /\ wk[w].pc = "group"
  /\ wk' = [wk EXCEPT ![w].pc = "decide", ![w].on = group]
  /\ UNCHANGED <<data, group, outbox, redis, lock, lease, faults, base, loose>>

\* The first retirement raises the epoch; every one takes the snapshot away.
RetireBucket(w) ==
  /\ wk[w].pc = "decide" /\ ~wk[w].on
  /\ epoch' = IF retired = 0 THEN epoch + 1 ELSE epoch
  /\ retired' = epoch'
  /\ active' = NoSnapshot
  /\ base' = data
  /\ Goto(w, "release")
  /\ UNCHANGED <<data, group, outbox, version, lock, lease, faults, loose>>

\* Reopening clears the mark and keeps the epoch of the retirement; a bucket
\* that is open keeps its snapshot.
ReopenBucket(w) ==
  /\ wk[w].pc = "decide" /\ wk[w].on
  /\ epoch' = IF epoch = 0 THEN 1 ELSE epoch
  /\ active' = IF retired # 0 THEN NoSnapshot ELSE active
  /\ retired' = 0
  /\ wk' = [wk EXCEPT ![w].pc = "release", ![w].token = epoch']
  /\ UNCHANGED <<data, group, outbox, version, lock, lease, faults, base, loose>>

\* Mutant: events that arrived while this one was handled are passed over.
Handled_Latest(w) == done' = events

\* An event counts as handled when the retirement, or the rebuild after the
\* reopening, has succeeded.
Handled(w) == done' = IF wk[w].seen > done THEN wk[w].seen ELSE done

ReleaseGroupLifecycleLease(w) ==
  /\ wk[w].pc = "release"
  /\ lease' = "none"
  /\ IF wk[w].on
     THEN Goto(w, "lock") /\ UNCHANGED done
     ELSE Handled(w) /\ wk' = [wk EXCEPT ![w] = Idle]
  /\ UNCHANGED <<data, group, changes, owed, events, redis, lock, faults, base, loose>>

(***************************************************************************)
(* rebuildBucketWithTokenPolicyAndQueryCache, and the publishing part of   *)
(* ListSchedulableAccounts.                                                *)
(***************************************************************************)

\* A retired bucket is skipped.
CaptureBucketWriteToken(w) ==
  /\ wk[w].pc = "idle" /\ retired = 0
  /\ w \in Requests => ~active.set
  /\ epoch' = IF epoch = 0 THEN 1 ELSE epoch
  /\ wk' = [wk EXCEPT ![w] = [Idle EXCEPT !.token = epoch',
              !.pc = IF w \in Requests THEN "load" ELSE "lock"]]
  /\ UNCHANGED <<data, group, outbox, retired, version, active, lock,
                 lease, faults, base, loose>>

\* The single and the forced bucket of a platform share one query: whichever
\* is rebuilt second takes what was loaded under the lock of the first.
LoadForSibling(w) ==
  /\ wk[w].pc = "lock" /\ w \notin Requests
  /\ wk' = [wk EXCEPT ![w].pc = "shared", ![w].val = data]
  /\ loose' = TRUE
  /\ UNCHANGED <<data, group, outbox, redis, lock, lease, faults, base>>

TryLockBucket(w) ==
  /\ wk[w].pc \in {"lock", "shared"} /\ lock = "none"
  /\ lock' = w
  /\ Goto(w, IF wk[w].pc = "lock" THEN "load" ELSE "allocate")
  /\ UNCHANGED <<data, group, outbox, redis, lease, faults, base, loose>>

\* Mutant: a busy lock does not keep a rebuild from going on.
LockBusy_GoesOn(w) ==
  /\ wk[w].pc = "lock" /\ lock # "none"
  /\ Goto(w, "load")
  /\ UNCHANGED <<data, group, outbox, redis, lock, lease, faults, base, loose>>

\* A busy lock fails a poller's rebuild; any other one is skipped in silence.
LockBusy(w) ==
  /\ wk[w].pc \in {"lock", "shared"} /\ lock # "none"
  /\ wk' = [wk EXCEPT ![w] = Idle]
  /\ UNCHANGED <<data, group, outbox, redis, lock, lease, faults, base, loose>>

LoadAccounts(w) ==
  /\ wk[w].pc = "load"
  /\ wk' = [wk EXCEPT ![w].pc = "allocate", ![w].val = data]
  /\ loose' = (loose \/ w \in Requests)
  /\ UNCHANGED <<data, group, outbox, redis, lock, lease, faults, base>>

\* Mutant: the scripts look at the retirement mark and not at the epoch.
Current_MarkOnly(w) == retired = 0

\* The check both scripts make.
Current(w) == retired = 0 /\ epoch = wk[w].token

AllocateSnapshotVersion(w) ==
  /\ wk[w].pc = "allocate" /\ Current(w)
  /\ version' = version + 1
  /\ wk' = [wk EXCEPT ![w].pc = "activate", ![w].ver = version']
  /\ UNCHANGED <<data, group, outbox, epoch, retired, active, lock, lease,
                 faults, base, loose>>

\* Where a write ends: a locked one with the lock still to be deleted, a
\* poller's successful one with its event handled.
EndOfWrite(w) == IF w \in Requests THEN Idle ELSE [Idle EXCEPT !.pc = "unlock"]

EndWrite(w, ok) ==
  /\ IF ok /\ w \in Pollers THEN Handled(w) ELSE UNCHANGED done
  /\ wk' = [wk EXCEPT ![w] = EndOfWrite(w)]

\* ErrSchedulerBucketRetired or ErrSchedulerBucketWriteFenced
Fenced(w) ==
  /\ wk[w].pc \in {"allocate", "activate"} /\ ~Current(w)
  /\ EndWrite(w, FALSE)
  /\ UNCHANGED <<data, group, changes, owed, events, redis, lock, lease, faults, base, loose>>

\* A version older than the active one is dropped, and that is a success.
Superseded(w) == active.set /\ wk[w].ver = -1

DropSnapshot(w) ==
  /\ wk[w].pc = "activate" /\ Current(w) /\ Superseded(w)
  /\ EndWrite(w, TRUE)
  /\ UNCHANGED <<data, group, changes, owed, events, redis, lock, lease, faults, base, loose>>

\* The versions of the others, counted from the one activated now.
Rebased(f, v) ==
  [x \in Workers |-> [f[x] EXCEPT !.ver = IF @ < v THEN -1 ELSE @ - v]]

ActivateSnapshot(w) ==
  LET v == wk[w].ver IN
  /\ wk[w].pc = "activate" /\ Current(w) /\ ~Superseded(w)
  /\ active' = [set |-> TRUE, data |-> wk[w].val]
  /\ version' = IF version < v THEN 0 ELSE version - v
  /\ IF w \in Pollers THEN Handled(w) ELSE UNCHANGED done
  /\ wk' = [Rebased(wk, v) EXCEPT ![w] = EndOfWrite(w)]
  /\ UNCHANGED <<data, group, changes, owed, events, epoch, retired, lock, lease, faults,
                 base, loose>>

\* DEL of the key, whoever holds the lock by now.
UnlockBucket(w) ==
  /\ wk[w].pc = "unlock"
  /\ lock' = "none"
  /\ wk' = [wk EXCEPT ![w] = Idle]
  /\ UNCHANGED <<data, group, outbox, redis, lease, faults, base, loose>>

(***************************************************************************)
(* Faults.                                                                 *)
(***************************************************************************)

HoldsLock(w) == w \notin Requests /\ wk[w].pc \in {"load", "allocate", "activate", "unlock"}

Fault == faults < MaxFaults /\ faults' = faults + 1

\* The failure is logged, and the change of the group stands.
GroupEventFails ==
  /\ owed > 0 /\ owed' = owed - 1 /\ Fault
  /\ UNCHANGED <<data, group, changes, events, done, redis, lock, lease, wk, base, loose>>

\* A call fails: the deferred releases are made, or fail as well; a process
\* that dies makes none.
WorkerFails(w) ==
  /\ wk[w].pc # "idle" /\ Fault
  /\ \E released \in BOOLEAN :
       /\ lease' = IF released /\ lease = w THEN "none" ELSE lease
       /\ lock' = IF released /\ HoldsLock(w) THEN "none" ELSE lock
  /\ wk' = [wk EXCEPT ![w] = Idle]
  /\ UNCHANGED <<data, group, outbox, redis, base, loose>>

\* Mutant: the lock has no expiry.
LockExpires_Never ==
  /\ FALSE
  /\ UNCHANGED vars

\* The key of a lock that nobody deletes expires.
LockExpires ==
  /\ lock # "none" /\ ~HoldsLock(lock)
  /\ lock' = "none"
  /\ UNCHANGED <<data, group, outbox, redis, lease, wk, faults, base, loose>>

\* A rebuild outlasts the 30 seconds of its lock: its own time limit is as
\* long and begins later.
LockLapses ==
  /\ lock # "none" /\ HoldsLock(lock) /\ Fault
  /\ lock' = "none" /\ loose' = TRUE
  /\ UNCHANGED <<data, group, outbox, redis, lease, wk, base>>

\* The lifecycle's calls end after 30 seconds, its lease after 60: only the
\* lease of a worker that has failed expires.
LeaseExpires ==
  /\ lease # "none" /\ wk[lease].pc \notin LifecyclePcs
  /\ lease' = "none"
  /\ UNCHANGED <<data, group, outbox, redis, lock, wk, faults, base, loose>>

Write(w) ==
  \/ LoadForSibling(w) \/ TryLockBucket(w) \/ LockBusy(w) \/ LoadAccounts(w)
  \/ AllocateSnapshotVersion(w) \/ Fenced(w)
  \/ DropSnapshot(w) \/ ActivateSnapshot(w) \/ UnlockBucket(w)

Lifecycle(w) ==
  \/ TryAcquireGroupLifecycleLease(w) \/ GetGroup(w)
  \/ RetireBucket(w) \/ ReopenBucket(w) \/ ReleaseGroupLifecycleLease(w)

Next ==
  \/ ChangeData \/ ChangeGroup \/ EnqueueGroupEvent \/ GroupEventFails
  \/ \E w \in Pollers : Lifecycle(w)
  \/ \E w \in Rebuilders \cup Requests : CaptureBucketWriteToken(w)
  \/ \E w \in Workers : Write(w) \/ WorkerFails(w)
  \/ LockExpires \/ LockLapses \/ LeaseExpires

Spec == Init /\ [][Next]_vars

\* What the interval rebuild takes through the lifecycle: the group is active
\* and the bucket retired, or it is not and the bucket has a snapshot (which
\* registers it).
Mismatch == IF group THEN retired # 0 ELSE active.set

\* Calls return, the workers' tickers keep firing, a pending event is polled
\* again, and keys expire.  The interval rebuild captures the buckets of active
\* groups; it runs while full_rebuild_interval_seconds is positive.
FairSpec ==
  /\ Spec
  /\ WF_vars(EnqueueGroupEvent)
  /\ \A w \in Pollers :
       WF_vars((wk[w].pc = "idle" => done < events \/ Mismatch) /\ (Lifecycle(w) \/ Write(w)))
  /\ \A w \in Rebuilders : WF_vars((group /\ CaptureBucketWriteToken(w)) \/ Write(w))
  /\ \A w \in Requests : WF_vars(Write(w))
  /\ WF_vars(LockExpires) /\ WF_vars(LeaseExpires)

(***************************************************************************)
(* Properties                                                              *)
(***************************************************************************)

\* A retired bucket has no snapshot, and what an open one shows was loaded
\* after its last retirement: a write that began before it is fenced, however
\* late it arrives and even if the bucket has been reopened by then
\* (allocateSnapshotVersionScript, activateSnapshotScript).
LoadedSinceRetirement ==
  active.set => retired = 0 /\ active.data >= base

\* When every group event has been handled, the bucket is retired exactly if
\* the group is not active: the lease keeps an older decision from being
\* carried out after a newer one (prepareGroupLifecycle).  A change whose event
\* could not be enqueued is unknown until the next event of the group.
LifecycleAgrees == done = changes => ((retired # 0) <=> ~group)

\* As long as accounts are loaded under a live bucket lock only, a snapshot is
\* never replaced by one that was loaded earlier.
NoOlderSnapshot ==
  [][active.set /\ active'.set /\ ~loose' => active'.data >= active.data]_vars

\* When the database stops changing, the bucket of a disabled group shows
\* nothing, and is retired if its event was enqueued, and an active group's
\* shows the accounts as they are: although rebuilds are skipped when the lock
\* is busy, requests may publish older accounts, and events may be lost
\* (rebuildFullSnapshot).
SnapshotConverges ==
  <>[](IF group THEN active.set /\ active.data = data
                ELSE ~active.set /\ (events = changes => retired # 0))

=============================================================================
