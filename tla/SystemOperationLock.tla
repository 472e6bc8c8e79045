------------------------- MODULE SystemOperationLock -------------------------
(***************************************************************************)
(* The global lock of the administrator's system operations (update,       *)
(* rollback, restart).  The lock is one row of idempotency_records: an     *)
(* operation creates it or, when its lease has lapsed or its operation has *)
(* ended, reclaims it; a goroutine renews the lease while the operation    *)
(* runs, Release marks the row, and the cleanup deletes it when its        *)
(* expires_at has passed.  Each database call is a step of its own.        *)
(*                                                                         *)
(* Time is relative: locked_until and expires_at are kept as the time left *)
(* until then, and a step of Acquire or Release that compares or writes    *)
(* them uses the `now' its call read when it began, age ago.  A lease that *)
(* lapsed MaxDelay ago or earlier, and a NULL locked_until, are the same.  *)
(***************************************************************************)
EXTENDS IdempotencyRecords

CONSTANTS
  Ops,        \* calls of Acquire, each with the operation it guards
  OpId,       \* the operation id of a call (the same for a client's retries)
  Lease,      \* s.lease
  Interval,   \* s.renewInterval
  Ttl,        \* s.ttl
  MaxDelay,   \* how long a call of Acquire, Release or a renewal takes
  MaxFails    \* bound: renewals that fail in a row

ASSUME TimeAssumption ==
  /\ Lease \in Nat /\ Interval \in Nat \ {0} /\ Ttl \in Nat
  /\ MaxDelay \in Nat /\ MaxFails \in Nat
  /\ MaxDelay <= Interval /\ Lease <= Ttl
  /\ (MaxFails + 1) * Interval + 3 * MaxDelay < Lease

VARIABLES
  row,     \* the lock's row: id (0 if there is none), status, fp, lock, ttl
  nextId,  \* the next row's id
  phase,   \* of a call: idle, create, get, reclaim, running, releasing, done
  age,     \* of a call: since it read the clock
  held,    \* of a call: existing.ID, or the id of the row it created
  from,    \* of a call: existing.Status
  renew,   \* of a call: its renewLoop: on, firing (in a database call), off
  since,   \* of a call: since its ticker last fired
  fails,   \* of a running call: renewals that failed in a row
  outlived \* history: a lease ended under a holder that could not renew it, as
           \* the row it had reclaimed bears another operation's id

callVars == <<phase, age, held, from>>
renewVars == <<renew, since, fails>>
vars == <<row, nextId, callVars, renewVars, outlived>>

Ids == {OpId[o] : o \in Ops}
NoId == ""
NoRow == [id |-> 0, status |-> "succeeded", fp |-> NoId,
          lock |-> -MaxDelay, ttl |-> 0]

Rows == [id : Nat, status : Statuses, fp : Ids \cup {NoId},
         lock : -MaxDelay..Lease, ttl : 0..Ttl]

TypeOK ==
  /\ row \in Rows
  /\ nextId \in Nat \ {0}
  /\ phase \in [Ops -> {"idle", "create", "get", "reclaim", "running",
                        "releasing", "done"}]
  /\ age \in [Ops -> 0..MaxDelay]
  /\ held \in [Ops -> Nat]
  /\ from \in [Ops -> Statuses]
  /\ renew \in [Ops -> {"on", "firing", "off"}]
  /\ since \in [Ops -> 0..Interval]
  /\ fails \in [Ops -> 0..MaxFails]
  /\ outlived \in BOOLEAN

Init ==
  /\ row = NoRow
  /\ nextId = 1
  /\ phase = [o \in Ops |-> "idle"]
  /\ age = [o \in Ops |-> 0]
  /\ held = [o \in Ops |-> 0]
  /\ from = [o \in Ops |-> "succeeded"]
  /\ renew = [o \in Ops |-> "off"]
  /\ since = [o \in Ops |-> 0]
  /\ fails = [o \in Ops |-> 0]
  /\ outlived = FALSE

Goto(o, p) == phase' = [phase EXCEPT ![o] = p]

\* The call goes on to p, where it uses neither age nor from.
Pass(o, p) ==
  /\ Goto(o, p)
  /\ age' = [age EXCEPT ![o] = 0]
  /\ from' = [from EXCEPT ![o] = "succeeded"]

Running(o) == phase[o] = "running"

\* The call has the lock, until Release has marked the row.
Holder(o) == phase[o] \in {"running", "releasing"}

-----------------------------------------------------------------------------
(* Acquire *)

\* Acquire reads the clock.
Start(o) ==
  /\ phase[o] = "idle"
  /\ Pass(o, "create")
  /\ UNCHANGED <<row, nextId, held, renewVars, outlived>>

\* Acquire returns the lock on row id and starts its renewLoop.
Enter(o, id) ==
  /\ Pass(o, "running")
  /\ held' = [held EXCEPT ![o] = id]
  /\ renew' = [renew EXCEPT ![o] = "on"]
  /\ since' = [since EXCEPT ![o] = 0]
  /\ fails' = [fails EXCEPT ![o] = 0]

\* INSERT ... ON CONFLICT DO NOTHING.
CreateProcessing(o) ==
  /\ phase[o] = "create"
  /\ \/ /\ row.id = 0
        /\ row' = Created(nextId, OpId[o], Lease - age[o], Ttl - age[o])
        /\ nextId' = nextId + 1
        /\ Enter(o, nextId)
     \/ /\ row.id # 0
        /\ Goto(o, "get")
        /\ UNCHANGED <<row, nextId, age, held, from, renewVars>>
  /\ UNCHANGED outlived

\* The row is read: Acquire fails if it is gone or its lease is live.
GetExisting(o) ==
  /\ phase[o] = "get"
  /\ IF row.id = 0 \/ (row.status = "processing" /\ row.lock > -age[o])
       THEN /\ Pass(o, "done")
            /\ UNCHANGED held
       ELSE /\ Goto(o, "reclaim")
            /\ UNCHANGED age
            /\ held' = [held EXCEPT ![o] = row.id]
            /\ from' = [from EXCEPT ![o] = row.status]
  /\ UNCHANGED <<row, nextId, renewVars, outlived>>

\* The row is taken over, under the fingerprint it has.
TryReclaim(o) ==
  /\ phase[o] = "reclaim"
  /\ IF Reclaimable(row, held[o], from[o], -age[o])
       THEN /\ row' = Reclaimed(row, Lease - age[o], Ttl - age[o])
            /\ Enter(o, held[o])
       ELSE /\ Pass(o, "done")
            /\ held' = [held EXCEPT ![o] = 0]
            /\ UNCHANGED <<row, renewVars>>
  /\ UNCHANGED <<nextId, outlived>>

\* A database call of Acquire fails: nothing was written.
StoreError(o) ==
  /\ phase[o] \in {"create", "get", "reclaim"}
  /\ Pass(o, "done")
  /\ held' = [held EXCEPT ![o] = 0]
  /\ UNCHANGED <<row, nextId, renewVars, outlived>>

-----------------------------------------------------------------------------
(* Release *)

\* The operation has ended: Release closes stopCh and reads the clock.
StopRenewal(o) ==
  /\ Running(o)
  /\ Pass(o, "releasing")
  /\ UNCHANGED <<row, nextId, held, renewVars, outlived>>

\* Release marks the row.
Mark(o, status, lock) ==
  /\ phase[o] = "releasing"
  /\ row' = Marked(row, held[o], status, lock, Ttl - age[o])
  /\ Pass(o, "done")
  /\ UNCHANGED <<nextId, held, renewVars, outlived>>

\* The operation succeeded: locked_until becomes NULL.
MarkSucceeded(o) == Mark(o, "succeeded", -MaxDelay)

\* The operation failed: locked_until is the time Release began.
MarkFailedRetryable(o) == Mark(o, "failed_retryable", -age[o])

\* The mark fails, and its error is dropped.
MarkFails(o) ==
  /\ phase[o] = "releasing"
  /\ Pass(o, "done")
  /\ UNCHANGED <<row, nextId, held, renewVars, outlived>>

-----------------------------------------------------------------------------
(* renewLoop, and the cleanup *)

\* The ticker fires; the select may take it even when stopCh is closed.
RenewFires(o) ==
  /\ renew[o] = "on"
  /\ since[o] = Interval
  /\ renew' = [renew EXCEPT ![o] = "firing"]
  /\ since' = [since EXCEPT ![o] = 0]
  /\ UNCHANGED <<row, nextId, callVars, fails, outlived>>

\* The loop returns.
LoopEnds(o) ==
  /\ renew' = [renew EXCEPT ![o] = "off"]
  /\ since' = [since EXCEPT ![o] = 0]

\* ExtendProcessingLock; the loop returns when no row was affected.
ExtendProcessingLock(o) ==
  /\ renew[o] = "firing"
  /\ IF Extendable(row, held[o], OpId[o])
       THEN /\ row' = Extended(row, Lease - since[o], Ttl - since[o])
            /\ renew' = [renew EXCEPT ![o] = "on"]
            /\ UNCHANGED since
       ELSE /\ LoopEnds(o)
            /\ UNCHANGED row
  /\ fails' = [fails EXCEPT ![o] = 0]
  /\ UNCHANGED <<nextId, callVars, outlived>>

\* Mutant: the loop ends when a renewal fails.
RenewFails_Ends(o) ==
  /\ renew[o] = "firing"
  /\ LoopEnds(o)
  /\ UNCHANGED <<row, nextId, callVars, fails, outlived>>

\* The call fails or times out: the loop tries again at the next tick.
RenewFails(o) ==
  /\ renew[o] = "firing"
  /\ Running(o) => fails[o] < MaxFails
  /\ renew' = [renew EXCEPT ![o] = "on"]
  /\ fails' = [fails EXCEPT ![o] = IF Running(o) THEN @ + 1 ELSE @]
  /\ UNCHANGED <<row, nextId, callVars, since, outlived>>

\* Mutant: Release does not close stopCh.
RenewStops_Never(o) == FALSE

\* The loop sees stopCh closed.
RenewStops(o) ==
  /\ renew[o] = "on"
  /\ phase[o] \in {"releasing", "done"}
  /\ LoopEnds(o)
  /\ UNCHANGED <<row, nextId, callVars, fails, outlived>>

\* The process of the call dies, and its renewLoop with it.
Crash(o) ==
  /\ phase[o] \notin {"idle", "done"}
  /\ Pass(o, "done")
  /\ LoopEnds(o)
  /\ held' = [held EXCEPT ![o] = 0]
  /\ fails' = [fails EXCEPT ![o] = 0]
  /\ UNCHANGED <<row, nextId, outlived>>

\* The cleanup.
DeleteExpired ==
  /\ row.id # 0
  /\ Expired(row)
  /\ row' = NoRow
  /\ UNCHANGED <<nextId, callVars, renewVars, outlived>>

-----------------------------------------------------------------------------
(* Time *)

InCall(o) == phase[o] \in {"create", "get", "reclaim", "releasing"}

\* Time passes for everyone.  A call takes no longer than MaxDelay, and a
\* ticker fires when it is due.  An operation may outlast any lease.
Tick ==
  /\ \A o \in Ops :
       /\ InCall(o) => age[o] < MaxDelay
       /\ renew[o] = "on" => since[o] < Interval
       /\ renew[o] = "firing" => since[o] < MaxDelay
  /\ row' = [row EXCEPT !.lock = IF @ > -MaxDelay THEN @ - 1 ELSE @,
                        !.ttl = IF @ > 0 THEN @ - 1 ELSE @]
  /\ age' = [o \in Ops |-> IF InCall(o) THEN age[o] + 1 ELSE age[o]]
  /\ held' = [o \in Ops |-> IF phase[o] = "done" /\ renew[o] = "off" THEN 0 ELSE held[o]]
  /\ fails' = [o \in Ops |-> IF phase[o] = "done" THEN 0 ELSE fails[o]]
  /\ since' = [o \in Ops |-> IF renew[o] = "off" THEN since[o] ELSE since[o] + 1]
  /\ outlived' = (outlived \/ \E o \in Ops :
                    Holder(o) /\ row.fp # OpId[o] /\ row.lock <= 1)
  /\ UNCHANGED <<nextId, phase, from, renew>>

-----------------------------------------------------------------------------
Acquire(o) == CreateProcessing(o) \/ GetExisting(o) \/ TryReclaim(o) \/ StoreError(o)

Release(o) == MarkSucceeded(o) \/ MarkFailedRetryable(o) \/ MarkFails(o)

renewLoop(o) == RenewFires(o) \/ ExtendProcessingLock(o) \/ RenewFails(o) \/ RenewStops(o)

Next ==
  \/ \E o \in Ops : \/ Start(o) \/ Acquire(o) \/ StopRenewal(o) \/ Release(o)
                    \/ renewLoop(o) \/ Crash(o)
  \/ DeleteExpired
  \/ Tick

Spec == Init /\ [][Next]_vars

\* Time passes, and calls and goroutines that are started go on; nobody has
\* to start an operation, and a process does not have to crash.  A finished
\* call's renewLoop sees stopCh although ticks compete with it in the select.
Fairness ==
  /\ WF_vars(Tick)
  /\ \A o \in Ops : /\ WF_vars(Acquire(o) \/ StopRenewal(o) \/ Release(o))
                    /\ WF_vars(renewLoop(o)) /\ SF_vars(RenewStops(o))

FairSpec == Spec /\ Fairness

-----------------------------------------------------------------------------
(* Properties *)

\* ErrSystemOperationBusy, "another system operation is in progress": no two
\* system operations run at the same time.
NoTwoOperations ==
  \A o, p \in Ops : Running(o) /\ Running(p) => o = p

\* Operations of any ids exclude each other, whatever renewals fail or come
\* late, until one that had reclaimed another's row outlasts the lease:
\* TryReclaim keeps the row's fingerprint, by which ExtendProcessingLock looks
\* for it.  Nothing else lets a second operation in.
OneOperationAtATime == ~outlived => NoTwoOperations

\* As long as an operation runs, and until Release has marked it, the row is
\* the one it acquired and is locked, up to the same event: nobody is let in,
\* its own mark ends its own lease, and the cleanup does not delete the row.
HeldLockIsLive ==
  ~outlived => \A o \in Ops : Holder(o) =>
    /\ row.id = held[o]
    /\ row.status = "processing"
    /\ row.lock > 0
    /\ row.ttl > 0

\* A lock that is held by no running operation, because its process died or
\* its mark failed, is free again some time later.
LockIsFreed ==
  (\A o \in Ops : ~Running(o)) ~>
    \/ row.status # "processing" \/ row.lock <= 0
    \/ \E o \in Ops : Running(o)
=============================================================================
