-------------------------- MODULE ConcurrencySlots --------------------------
(***************************************************************************)
(* The concurrency limit of one account, kept in Redis and shared by every *)
(* process of the gateway: the sorted set of its request slots, the sorted *)
(* set of its Live leases, the counter of the requests that wait for a     *)
(* slot, and the account's entry in the active index, from which the       *)
(* cleanups learn where to look.  A user's limit is kept by the same       *)
(* scripts under other keys.                                               *)
(*                                                                         *)
(* A call is one request to the account: an ordinary one, which may wait   *)
(* for a slot, or the creation of a Live session, whose slot is replaced   *)
(* by a lease that lasts as long as the session.  One action is one Redis  *)
(* script or command.  The age of a member is abstracted to whether it may *)
(* have expired: the member of a call that has ended expires in time, that *)
(* of a call in progress only when the call outlives it.                   *)
(***************************************************************************)
EXTENDS Naturals, FiniteSets

CONSTANTS
  Calls,       \* requests, each named by the member it adds
  Processes,   \* processes of the gateway
  Home,        \* of a call: the process that serves it
  Max,         \* the account's concurrency
  MaxWait,     \* the most requests that may wait
  MaxFaults    \* bound: crashes, failed Redis calls and calls that outlive a slot

ASSUME SlotLimitAssumption ==
  /\ Max \in Nat \ {0} /\ MaxWait \in Nat \ {0} /\ MaxFaults \in Nat
  /\ Home \in [Calls -> Processes]

VARIABLES
  slots,     \* concurrency:account, the calls with a slot
  live,      \* concurrency:live:account, the calls with a lease
  wait,      \* wait:account, the counter of waiting requests
  indexed,   \* the account is in concurrency:account:active_index
  pc,        \* of a call: its next step
  next,      \* of a call: the step after its index refresh
  counted,   \* of a call: it will decrement the wait counter
  empty,     \* of a call: its index refresh found neither slot nor waiter
  up,        \* of a process: "down", a step of its start, or "up"
  cleaner,   \* of the cleanup worker: "idle", or about to remove the entry
  lost,      \* history: a call in progress lost its slot or lease
  leaked,    \* history: a member was left behind
  drift,     \* history: the wait counter lost a waiter
  faults     \* faults left

redisVars == <<slots, live, wait, indexed>>
callVars == <<pc, next, counted, empty>>
histVars == <<lost, leaked, drift>>
slotsVars == <<redisVars, callVars, up, cleaner, histVars, faults>>

Steps == {"idle", "touch", "enqueue", "touch_wait", "waiting", "unwait", "refresh",
          "reindex", "running", "handoff", "create", "release", "save", "live",
          "close", "drop"}

SlotsTypeOK ==
  /\ slots \subseteq Calls /\ live \subseteq Calls
  /\ wait \in 0..MaxWait + MaxFaults
  /\ indexed \in BOOLEAN
  /\ pc \in [Calls -> Steps]
  /\ next \in [Calls -> {"idle", "running", "save", "drop"}]
  /\ counted \in [Calls -> BOOLEAN] /\ empty \in [Calls -> BOOLEAN]
  /\ up \in [Processes -> {"down", "sweep", "unwait", "unindex", "up"}]
  /\ cleaner \in {"idle", "remove"}
  /\ lost \in BOOLEAN /\ leaked \in BOOLEAN /\ drift \in BOOLEAN
  /\ faults \in 0..MaxFaults

SlotsInit ==
  /\ slots = {} /\ live = {} /\ wait = 0 /\ indexed = FALSE
  /\ pc = [c \in Calls |-> "idle"]
  /\ next = [c \in Calls |-> "idle"]
  /\ counted = [c \in Calls |-> FALSE] /\ empty = [c \in Calls |-> FALSE]
  /\ up = [p \in Processes |-> "up"]
  /\ cleaner = "idle"
  /\ lost = FALSE /\ leaked = FALSE /\ drift = FALSE
  /\ faults = MaxFaults

-----------------------------------------------------------------------------
Fault == faults > 0 /\ faults' = faults - 1

MoveTo(c, step) == pc' = [pc EXCEPT ![c] = step]

\* The index refresh is done, or given up.
MoveOn(c) ==
  /\ pc' = [pc EXCEPT ![c] = next[c]]
  /\ next' = [next EXCEPT ![c] = "idle"]

Load == Cardinality(slots) + Cardinality(live)

Idle == slots = {} /\ wait = 0

\* A request's name is new: nothing is left of it.
Fresh(c) == c \notin slots \cup live

Up(c) == up[Home[c]] = "up"

\* The account serves the call.
Serving(c) ==
  \/ pc[c] \in {"running", "create", "save", "live"}
  \/ pc[c] \in {"release", "refresh", "reindex"} /\ next[c] = "save"

-----------------------------------------------------------------------------
(* An ordinary slot *)

\* Mutant: the script counts the slots and not the leases.
Acquire_SlotsOnly(c) ==
  /\ pc[c] \in {"idle", "waiting"} /\ Up(c) /\ Fresh(c)
  /\ Cardinality(slots) < Max
  /\ slots' = slots \cup {c}
  /\ MoveTo(c, "touch")
  /\ UNCHANGED <<live, wait, indexed, next, counted, empty, up, cleaner, histVars, faults>>

Acquire(c) ==
  /\ pc[c] \in {"idle", "waiting"} /\ Up(c) /\ Fresh(c)
  /\ Load < Max
  /\ slots' = slots \cup {c}
  /\ MoveTo(c, "touch")
  /\ UNCHANGED <<live, wait, indexed, next, counted, empty, up, cleaner, histVars, faults>>

\* A request that meets a full account queues; one that waits tries again.
AcquireRefused(c) ==
  /\ pc[c] = "idle" /\ Up(c) /\ Fresh(c)
  /\ Load >= Max
  /\ MoveTo(c, "enqueue")
  /\ UNCHANGED <<redisVars, next, counted, empty, up, cleaner, histVars, faults>>

\* The script runs and its answer is lost: the caller sees an error.
AcquireLost(c) ==
  /\ pc[c] \in {"idle", "waiting"} /\ Up(c) /\ Fresh(c)
  /\ Load < Max
  /\ Fault
  /\ slots' = slots \cup {c}
  /\ leaked' = TRUE
  /\ MoveTo(c, IF counted[c] THEN "unwait" ELSE "idle")
  /\ next' = [next EXCEPT ![c] = "idle"]
  /\ UNCHANGED <<live, wait, indexed, counted, empty, up, cleaner, lost, drift>>

\* touchActiveIndexAt, which may fail.  A call that waited leaves the queue
\* next; one that did not may be the creation of a Live session.
Touch(c) ==
  /\ pc[c] = "touch"
  /\ \/ indexed' = TRUE /\ UNCHANGED faults
     \/ Fault /\ UNCHANGED indexed
  /\ IF counted[c] THEN MoveTo(c, "unwait")
     ELSE \E step \in {"running", "handoff"} : MoveTo(c, step)
  /\ next' = [next EXCEPT ![c] = IF counted[c] THEN "running" ELSE "idle"]
  /\ UNCHANGED <<slots, live, wait, counted, empty, up, cleaner, histVars>>

-----------------------------------------------------------------------------
(* The queue of one account *)

IncrementAccountWaitCount(c) ==
  /\ pc[c] = "enqueue"
  /\ wait < MaxWait
  /\ wait' = wait + 1
  /\ counted' = [counted EXCEPT ![c] = TRUE]
  /\ MoveTo(c, "touch_wait")
  /\ UNCHANGED <<slots, live, indexed, next, empty, up, cleaner, histVars, faults>>

QueueFull(c) ==
  /\ pc[c] = "enqueue"
  /\ wait >= MaxWait
  /\ MoveTo(c, "idle")
  /\ UNCHANGED <<redisVars, next, counted, empty, up, cleaner, histVars, faults>>

\* An error lets the request wait, and decrement later what it may not have
\* incremented.
IncrementFails(c) ==
  /\ pc[c] = "enqueue"
  /\ Fault
  /\ wait' \in {wait, wait + 1}
  /\ counted' = [counted EXCEPT ![c] = TRUE]
  /\ drift' = TRUE
  /\ MoveTo(c, "waiting")
  /\ UNCHANGED <<slots, live, indexed, next, empty, up, cleaner, lost, leaked>>

TouchWait(c) ==
  /\ pc[c] = "touch_wait"
  /\ \/ indexed' = TRUE /\ UNCHANGED faults
     \/ Fault /\ UNCHANGED indexed
  /\ MoveTo(c, "waiting")
  /\ UNCHANGED <<slots, live, wait, next, counted, empty, up, cleaner, histVars>>

WaitTimesOut(c) ==
  /\ pc[c] = "waiting"
  /\ MoveTo(c, "unwait")
  /\ UNCHANGED <<redisVars, next, counted, empty, up, cleaner, histVars, faults>>

DecrementAccountWaitCount(c) ==
  /\ pc[c] = "unwait"
  /\ wait' = IF wait > 0 THEN wait - 1 ELSE wait
  /\ counted' = [counted EXCEPT ![c] = FALSE]
  /\ MoveTo(c, "refresh")
  /\ UNCHANGED <<slots, live, indexed, next, empty, up, cleaner, histVars, faults>>

\* The error is logged: the waiter stays counted and the index as it is.
DecrementFails(c) ==
  /\ pc[c] = "unwait"
  /\ Fault
  /\ counted' = [counted EXCEPT ![c] = FALSE]
  /\ MoveOn(c)
  /\ UNCHANGED <<redisVars, empty, up, cleaner, histVars>>

-----------------------------------------------------------------------------
(* refreshActiveIndex reads the load and then writes the index. *)

ReadActiveLoad(c) ==
  /\ pc[c] = "refresh"
  /\ empty' = [empty EXCEPT ![c] = Idle]
  /\ MoveTo(c, "reindex")
  /\ UNCHANGED <<redisVars, next, counted, up, cleaner, histVars, faults>>

WriteActiveIndex(c) ==
  /\ pc[c] = "reindex"
  /\ indexed' = ~empty[c]
  /\ empty' = [empty EXCEPT ![c] = FALSE]
  /\ MoveOn(c)
  /\ UNCHANGED <<slots, live, wait, counted, up, cleaner, histVars, faults>>

RefreshFails(c) ==
  /\ pc[c] \in {"refresh", "reindex"}
  /\ Fault
  /\ empty' = [empty EXCEPT ![c] = FALSE]
  /\ MoveOn(c)
  /\ UNCHANGED <<redisVars, counted, up, cleaner, histVars>>

-----------------------------------------------------------------------------
ReleaseAccountSlot(c) ==
  /\ pc[c] \in {"running", "release"}
  /\ slots' = slots \ {c}
  /\ MoveTo(c, "refresh")
  /\ UNCHANGED <<live, wait, indexed, next, counted, empty, up, cleaner, histVars, faults>>

ReleaseFails(c) ==
  /\ pc[c] \in {"running", "release"}
  /\ Fault
  /\ leaked' = TRUE
  /\ MoveOn(c)
  /\ UNCHANGED <<redisVars, counted, empty, up, cleaner, lost, drift>>

-----------------------------------------------------------------------------
(* A Live session: CreateLiveCall and its observer *)

\* The caller's own slot is counted, and forgiven.
AcquireLiveLease(c) ==
  /\ pc[c] = "handoff"
  /\ Load < Max + 1
  /\ live' = live \cup {c}
  /\ MoveTo(c, "create")
  /\ UNCHANGED <<slots, wait, indexed, next, counted, empty, up, cleaner, histVars, faults>>

\* The account is full, or its user is, whose limit the same script checks, or
\* the script does not run: the slot is released and no lease is left.
LeaseRefused(c) ==
  /\ pc[c] = "handoff"
  /\ MoveTo(c, "release")
  /\ next' = [next EXCEPT ![c] = "idle"]
  /\ UNCHANGED <<redisVars, counted, empty, up, cleaner, histVars, faults>>

LeaseLost(c) ==
  /\ pc[c] = "handoff"
  /\ Load < Max + 1
  /\ Fault
  /\ live' = live \cup {c}
  /\ leaked' = TRUE
  /\ MoveTo(c, "release")
  /\ next' = [next EXCEPT ![c] = "idle"]
  /\ UNCHANGED <<slots, wait, indexed, counted, empty, up, cleaner, lost, drift>>

\* The slot is released whether the provider created the session or not.
CreateUpstreamLiveCall(c) ==
  /\ pc[c] = "create"
  /\ \E outcome \in {"save", "drop"} : next' = [next EXCEPT ![c] = outcome]
  /\ MoveTo(c, "release")
  /\ UNCHANGED <<redisVars, counted, empty, up, cleaner, histVars, faults>>

\* Mutant: a record that cannot be saved ends the call with its lease.
SaveLiveCall_KeepsLease(c) ==
  /\ pc[c] = "save"
  /\ \E step \in {"live", "idle"} : MoveTo(c, step)
  /\ UNCHANGED <<redisVars, next, counted, empty, up, cleaner, histVars, faults>>

SaveLiveCall(c) ==
  /\ pc[c] = "save"
  /\ \E step \in {"live", "drop"} : MoveTo(c, step)
  /\ UNCHANGED <<redisVars, next, counted, empty, up, cleaner, histVars, faults>>

\* The session ends, its time is up, or the refresh of the lease fails, for an
\* error or because the member is gone.
SessionEnds(c) ==
  /\ pc[c] = "live"
  /\ MoveTo(c, "close")
  /\ UNCHANGED <<redisVars, next, counted, empty, up, cleaner, histVars, faults>>

MarkLiveCallClosed(c) ==
  /\ pc[c] = "close"
  /\ MoveTo(c, "drop")
  /\ UNCHANGED <<redisVars, next, counted, empty, up, cleaner, histVars, faults>>

ReleaseLiveLease(c) ==
  /\ pc[c] = "drop"
  /\ live' = live \ {c}
  /\ MoveTo(c, "idle")
  /\ UNCHANGED <<slots, wait, indexed, next, counted, empty, up, cleaner, histVars, faults>>

\* The record cannot be marked or the lease not be removed: either is logged
\* at most.
FinalizeFails(c) ==
  /\ pc[c] \in {"close", "drop"}
  /\ Fault
  /\ leaked' = TRUE
  /\ MoveTo(c, "idle")
  /\ UNCHANGED <<redisVars, next, counted, empty, up, cleaner, lost, drift>>

-----------------------------------------------------------------------------
(* Time *)

\* Mutant: only the cleanup that follows the active index drops old members.
SlotExpires_ByIndex(c) ==
  /\ c \in slots /\ pc[c] = "idle"
  /\ indexed
  /\ slots' = slots \ {c}
  /\ UNCHANGED <<live, wait, indexed, callVars, up, cleaner, histVars, faults>>

\* The scripts drop members older than their TTL.
SlotExpires(c) ==
  /\ c \in slots /\ pc[c] = "idle"
  /\ slots' = slots \ {c}
  /\ UNCHANGED <<live, wait, indexed, callVars, up, cleaner, histVars, faults>>

LeaseExpires(c) ==
  /\ c \in live /\ pc[c] = "idle"
  /\ live' = live \ {c}
  /\ UNCHANGED <<slots, wait, indexed, callVars, up, cleaner, histVars, faults>>

\* Nothing renews the slot of a request that runs on, and nothing the lease of
\* a session whose observer cannot connect.
OutlivesMember(c) ==
  /\ Serving(c)
  /\ Fault
  /\ \/ c \in slots /\ slots' = slots \ {c} /\ UNCHANGED live
     \/ c \in live /\ live' = live \ {c} /\ UNCHANGED slots
  /\ lost' = TRUE
  /\ UNCHANGED <<wait, indexed, callVars, up, cleaner, leaked, drift>>

\* The counter lives as long after the last increment as a request may wait:
\* whoever was counted has given up, but may not have said so.
WaitCountExpires ==
  /\ wait > 0
  /\ \A c \in Calls : counted[c] => pc[c] = "unwait"
  /\ wait' = 0
  /\ drift' = (drift \/ \E c \in Calls : counted[c])
  /\ UNCHANGED <<slots, live, indexed, callVars, up, cleaner, lost, leaked, faults>>

\* reconcileExpiredIndexCandidates reads the load of an entry and removes the
\* entry of an idle account; another process can use the account in between.
CleanerReads ==
  /\ cleaner = "idle"
  /\ indexed /\ Idle
  /\ cleaner' = "remove"
  /\ UNCHANGED <<redisVars, callVars, up, histVars, faults>>

CleanerRemoves ==
  /\ cleaner = "remove"
  /\ cleaner' = "idle"
  /\ indexed' = FALSE
  /\ UNCHANGED <<slots, live, wait, callVars, up, histVars, faults>>

-----------------------------------------------------------------------------
(* A process dies with its calls, and starts again. *)

Crash(p) ==
  /\ up[p] # "down"
  /\ Fault
  /\ up' = [up EXCEPT ![p] = "down"]
  /\ pc' = [c \in Calls |-> IF Home[c] = p THEN "idle" ELSE pc[c]]
  /\ next' = [c \in Calls |-> IF Home[c] = p THEN "idle" ELSE next[c]]
  /\ counted' = [c \in Calls |-> Home[c] # p /\ counted[c]]
  /\ empty' = [c \in Calls |-> Home[c] # p /\ empty[c]]
  /\ leaked' = TRUE
  /\ UNCHANGED <<redisVars, cleaner, lost, drift>>

\* CleanupStaleProcessSlots visits the accounts of the active index.
Start(p) ==
  /\ up[p] = "down"
  /\ up' = [up EXCEPT ![p] = IF indexed THEN "sweep" ELSE "up"]
  /\ UNCHANGED <<redisVars, callVars, cleaner, histVars, faults>>

\* The members that lack the prefix of the starting process: at its start it
\* has none.
SweepSlots(p) ==
  /\ up[p] = "sweep"
  /\ slots' = {}
  /\ lost' = (lost \/ \E c \in slots : pc[c] # "idle")
  /\ up' = [up EXCEPT ![p] = "unwait"]
  /\ UNCHANGED <<live, wait, indexed, callVars, cleaner, leaked, drift, faults>>

DeleteWaitCount(p) ==
  /\ up[p] = "unwait"
  /\ wait' = 0
  /\ drift' = (drift \/ \E c \in Calls : counted[c])
  /\ up' = [up EXCEPT ![p] = "unindex"]
  /\ UNCHANGED <<slots, live, indexed, callVars, cleaner, lost, leaked, faults>>

RemoveIndexEntry(p) ==
  /\ up[p] = "unindex"
  /\ indexed' = FALSE
  /\ up' = [up EXCEPT ![p] = "up"]
  /\ UNCHANGED <<slots, live, wait, callVars, cleaner, histVars, faults>>

\* The error of a start-up cleanup is logged.  It needs no fault of its own to be
\* bounded: the start follows a crash.
StartFails(p) ==
  /\ up[p] \in {"sweep", "unwait", "unindex"}
  /\ up' = [up EXCEPT ![p] = "up"]
  /\ UNCHANGED <<redisVars, callVars, cleaner, histVars, faults>>

-----------------------------------------------------------------------------
\* What a call does once it has begun.
Proceed(c) ==
  \/ Touch(c) \/ IncrementAccountWaitCount(c) \/ QueueFull(c) \/ IncrementFails(c)
  \/ TouchWait(c) \/ WaitTimesOut(c) \/ DecrementAccountWaitCount(c)
  \/ DecrementFails(c) \/ ReadActiveLoad(c) \/ WriteActiveIndex(c) \/ RefreshFails(c)
  \/ ReleaseAccountSlot(c) \/ ReleaseFails(c)
  \/ AcquireLiveLease(c) \/ LeaseRefused(c) \/ LeaseLost(c)
  \/ CreateUpstreamLiveCall(c) \/ SaveLiveCall(c) \/ SessionEnds(c)
  \/ MarkLiveCallClosed(c) \/ ReleaseLiveLease(c) \/ FinalizeFails(c)

Expires(c) == SlotExpires(c) \/ LeaseExpires(c)

StartStep(p) ==
  Start(p) \/ SweepSlots(p) \/ DeleteWaitCount(p) \/ RemoveIndexEntry(p) \/ StartFails(p)

SlotsNext ==
  \/ \E c \in Calls : \/ Acquire(c) \/ AcquireRefused(c) \/ AcquireLost(c)
                      \/ Proceed(c) \/ Expires(c) \/ OutlivesMember(c)
  \/ \E p \in Processes : Crash(p) \/ StartStep(p)
  \/ WaitCountExpires \/ CleanerReads \/ CleanerRemoves

SlotsSpec == SlotsInit /\ [][SlotsNext]_slotsVars

(* Redis expires what nobody renews.  Nothing else is promised: nobody is
   obliged to make a call, and a process may stay down.                     *)
SlotsFairSpec ==
  /\ SlotsSpec
  /\ \A c \in Calls : WF_slotsVars(Expires(c))
  /\ WF_slotsVars(WaitCountExpires)

-----------------------------------------------------------------------------
(* The account never serves more calls than its concurrency, whatever the
   processes, ordinary requests and Live sessions compete for, unless a call
   outlived its slot or lease or a starting process removed it: the scripts
   count slots and leases together, and the one lease a session may take above
   the limit is the one whose slot it still holds.                          *)
CallsWithinLimit == ~lost => Cardinality({c \in Calls : Serving(c)}) <= Max

(* No more requests wait than may wait, unless the counter lost a waiter: the
   counter is bounded, and counts at least the requests that wait.          *)
WaitersWithinLimit == ~drift => Cardinality({c \in Calls : counted[c]}) <= MaxWait

(* The account's limits hold, of calls served and of requests that wait, while
   processes start, die and compete (the acquire scripts, the wait counter's). *)
SlotsInv == SlotsTypeOK /\ CallsWithinLimit /\ WaitersWithinLimit

(* Every path out of a call returns what it took, at once and not by expiry:
   as long as no call was cut off and no release failed, a slot belongs to a
   call in progress, and a lease to a session.                              *)
NothingLeaks ==
  ~leaked => \A c \in Calls :
    /\ c \in slots => pc[c] # "idle"
    /\ c \in live => Serving(c) \/ pc[c] \in {"release", "refresh", "reindex",
                                              "close", "drop"}

(* Capacity comes back: once calls have ended and no new ones begin, nothing
   stays counted, whatever dead processes, failed releases and lost answers
   have left behind.                                                        *)
CapacityReturns ==
  <>[](\A c \in Calls : pc[c] = "idle") => <>[](Load = 0 /\ wait = 0)

(* The start-up cleanup is to remove what "old processes left behind"
   (concurrency_service.go:54), and takes the members without its own prefix
   and the counter to belong to dead processes (concurrency_cache.go:1242). *)
StartKeepsOthers ==
  [][\A p \in Processes : up[p] = "sweep" /\ up'[p] = "unwait" =>
       \A c \in slots : pc[c] = "idle"]_slotsVars

(* CreateLiveCall says that the slot its caller holds is taken over atomically
   by the lease (openai_live.go:123): a call with one of the slots of the limit
   is not refused the lease.                                                *)
HandoffAdmitted == \A c \in Calls : pc[c] = "handoff" /\ c \in slots => Load < Max + 1
=============================================================================
