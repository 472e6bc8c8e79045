----------------------- MODULE AuthCacheInvalidation -----------------------
(***************************************************************************)
(* How a change of an API key (of its row, user or group) reaches the      *)
(* caches that authenticate requests: on every replica a local map (L1),   *)
(* and one entry in Redis (L2).  Triggers of the database insert a row     *)
(* into auth_cache_invalidation_outbox with the change.  A worker on every *)
(* replica claims rows and for each deletes the local entry and the entry  *)
(* in Redis, publishes the key to all replicas and schedules a second pass *)
(* after a safety delay; the row is deleted when that pass is over.  The   *)
(* request that made the change does the same once, at once and at best    *)
(* effort.  Meanwhile requests fill the caches with what they read before. *)
(*                                                                         *)
(* One key; a snapshot of it is the version it shows, 0 before the key     *)
(* exists.  Time is relative: what is left of a wait, a lease or a time to *)
(* live, and the age of a lookup.                                          *)
(***************************************************************************)
EXTENDS Naturals

CONSTANTS
  Replicas,     \* each with its worker
  Servers,      \* the replicas that requests with the key, and changes of
                \* it, come to
  MaxVersion,   \* bound: creation and changes of the key
  SafetyDelay,  \* authInvalidationSafetyDelay, 30 s
  Lease,        \* authInvalidationLease, 30 s
  RetryDelay,   \* authInvalidationRetryDelay, 1 s to 256 s
  LocalTTL,     \* api_key_auth_cache.l1_ttl_seconds, 15 s
  MaxLookup,    \* longest time from reading a key, in the database or in
                \* Redis, to having cached it
  MaxFaults     \* bound: failures, lost connections and crashes

ASSUME InvalidationAssumption ==
  /\ Servers \subseteq Replicas
  /\ MaxVersion \in Nat /\ MaxFaults \in Nat /\ MaxLookup \in Nat
  /\ SafetyDelay \in Nat /\ MaxLookup < SafetyDelay
  /\ Lease \in Nat \ {0} /\ RetryDelay \in Nat /\ LocalTTL \in Nat \ {0}

VARIABLES
  version,    \* of the key in the database
  outbox,     \* of a version: the row of the change that led to it
  local,      \* of a replica: authCacheL1 and authNegativeCacheL1
  shared,     \* the entry in Redis
  load,       \* of a replica: the load of authGroup in flight
  hit,        \* of a replica: the version read from Redis, not yet in local
  work,       \* of a replica and a version: processEvent
  direct,     \* of a replica: deleteAuthCache after a change made there
  mail,       \* of a replica: an invalidation published, not yet handled
  subscribed, \* of a replica: its subscription is up
  faults,     \* faults left
  gone,       \* history: time since a version's row was deleted, capped
  cut,        \* history: the last version whose row had Redis deleted
  passed,     \* history: the last version whose row was published
  deaf        \* history: replicas that missed a message since they had no entry

cacheVars == <<local, shared>>
lookupVars == <<load, hit>>
busVars == <<mail, subscribed>>
history == <<gone, cut, passed, deaf>>
vars == <<version, outbox, cacheVars, lookupVars, work, direct, busVars,
          faults, history>>

Versions == 0..MaxVersion
Changes == 1..MaxVersion
Horizon == LocalTTL + MaxLookup \* the cap of gone
NoEntry == [v |-> MaxVersion + 1, ttl |-> 0, late |-> FALSE]
NoRow == [st |-> "none", stage |-> 0, wait |-> 0, by |-> {}, lease |-> 0]
NoLoad == [pc |-> "idle", v |-> 0, age |-> 0]
NoHit == [v |-> 0, age |-> 0] \* no version 0 is stored in Redis
NoWork == [pc |-> "idle", stage |-> 0]

Entries == [v : Versions, ttl : 0..LocalTTL, late : BOOLEAN] \cup {NoEntry}

TypeOK ==
  /\ version \in Versions
  /\ outbox \in [Changes -> [st : {"none", "live", "gone"}, stage : {0, 1},
                             wait : Nat, by : SUBSET Replicas, lease : 0..Lease]]
  /\ local \in [Servers -> Entries] /\ shared \in Entries
  /\ load \in [Servers -> [pc : {"idle", "miss", "local", "shared"},
                            v : Versions, age : 0..MaxLookup]]
  /\ hit \in [Servers -> [v : Versions, age : 0..MaxLookup]]
  /\ work \in [Replicas -> [Changes ->
       [pc : {"idle", "local", "delete", "publish", "finish", "retry"}, stage : {0, 1}]]]
  /\ direct \in [Servers -> {"idle", "local", "delete", "publish"}]
  /\ mail \in [Servers -> BOOLEAN] /\ subscribed \in [Servers -> BOOLEAN]
  /\ faults \in 0..MaxFaults
  /\ gone \in [Changes -> 0..Horizon]
  /\ cut \in Versions /\ passed \in Versions /\ deaf \subseteq Servers

Init ==
  /\ version = 0
  /\ outbox = [v \in Changes |-> NoRow]
  /\ local = [r \in Servers |-> NoEntry] /\ shared = NoEntry
  /\ load = [r \in Servers |-> NoLoad] /\ hit = [r \in Servers |-> NoHit]
  /\ work = [r \in Replicas |-> [v \in Changes |-> NoWork]]
  /\ direct = [r \in Servers |-> "idle"]
  /\ mail = [r \in Servers |-> FALSE] /\ subscribed = [r \in Servers |-> TRUE]
  /\ faults = MaxFaults
  /\ gone = [v \in Changes |-> 0] /\ cut = 0 /\ passed = 0 /\ deaf = {}

Fault == faults > 0 /\ faults' = faults - 1
Later(a, b) == IF a > b THEN a ELSE b

\* f with the value at r replaced, if r is a server.
At(f, r, x) == [q \in Servers |-> IF q = r THEN x ELSE f[q]]

\* invalidateLocalAuthCache
ClearLocal(r) ==
  /\ local' = At(local, r, NoEntry)
  /\ deaf' = deaf \ {r}

\* setAuthCacheL1
SetLocal(r, v) ==
  local' = [local EXCEPT ![r] = [v |-> v, ttl |-> LocalTTL, late |-> v < passed]]

\* PublishAuthCacheInvalidation: Redis delivers to who is subscribed now.
Publish ==
  /\ mail' = [r \in Servers |-> mail[r] \/ subscribed[r]]
  /\ deaf' = deaf \cup {r \in Servers : ~subscribed[r]}

(***************************************************************************)
(* Changes                                                                 *)
(***************************************************************************)

\* A transaction changes the key, and its triggers insert the row; the
\* creation of a key has no trigger.  The call that made the change goes on to
\* invalidate (at = its replica), a change made in the database does not.
Change(at) ==
  LET v == version + 1 IN
  /\ version < MaxVersion
  /\ \A r \in at : direct[r] = "idle"
  /\ version' = v
  /\ outbox' = IF v = 1 THEN outbox ELSE [outbox EXCEPT ![v].st = "live"]
  /\ direct' = [r \in Servers |-> IF r \in at THEN "local" ELSE direct[r]]
  /\ UNCHANGED <<cacheVars, lookupVars, work, busVars, faults, history>>

DirectLocal(r) ==
  /\ direct[r] = "local"
  /\ ClearLocal(r)
  /\ direct' = [direct EXCEPT ![r] = "delete"]
  /\ UNCHANGED <<version, outbox, shared, lookupVars, work, busVars, faults,
                 gone, cut, passed>>

DirectDelete(r) ==
  /\ direct[r] = "delete"
  /\ shared' = NoEntry
  /\ direct' = [direct EXCEPT ![r] = "publish"]
  /\ UNCHANGED <<version, outbox, local, lookupVars, work, busVars, faults, history>>

DirectPublish(r) ==
  /\ direct[r] = "publish"
  /\ Publish
  /\ direct' = [direct EXCEPT ![r] = "idle"]
  /\ UNCHANGED <<version, outbox, cacheVars, lookupVars, work, subscribed,
                 faults, gone, cut, passed>>

\* The errors of Redis are dropped: deleteAuthCache goes on to its next call.
DirectFails(r) ==
  /\ direct[r] \in {"delete", "publish"}
  /\ Fault
  /\ direct' = [direct EXCEPT ![r] = IF @ = "delete" THEN "publish" ELSE "idle"]
  /\ UNCHANGED <<version, outbox, cacheVars, lookupVars, work, busVars, history>>

(***************************************************************************)
(* Requests: GetByKey                                                      *)
(***************************************************************************)

\* Not in local, found in Redis (two reads, one step).  One such request of a
\* replica is followed at a time.
LookupHit(r) ==
  /\ local[r] = NoEntry /\ shared # NoEntry /\ hit[r] = NoHit
  /\ hit' = [hit EXCEPT ![r] = [v |-> shared.v, age |-> 0]]
  /\ UNCHANGED <<version, outbox, cacheVars, load, work, direct, busVars,
                 faults, history>>

HitLocal(r) ==
  /\ hit[r] # NoHit
  /\ SetLocal(r, hit[r].v)
  /\ hit' = [hit EXCEPT ![r] = NoHit]
  /\ UNCHANGED <<version, outbox, shared, load, work, direct, busVars, faults,
                 history>>

\* Not found in Redis either: the requests of a replica share one load.
LookupMiss(r) ==
  /\ local[r] = NoEntry /\ shared = NoEntry /\ load[r] = NoLoad
  /\ load' = [load EXCEPT ![r].pc = "miss"]
  /\ UNCHANGED <<version, outbox, cacheVars, hit, work, direct, busVars, faults,
                 history>>

\* An error of Redis counts as a miss.
LookupFails(r) ==
  /\ local[r] = NoEntry /\ shared # NoEntry /\ load[r] = NoLoad
  /\ Fault
  /\ load' = [load EXCEPT ![r].pc = "miss"]
  /\ UNCHANGED <<version, outbox, cacheVars, hit, work, direct, busVars, history>>

LoadRead(r) ==
  /\ load[r].pc = "miss"
  /\ load' = [load EXCEPT ![r] = [pc |-> "local", v |-> version, age |-> 0]]
  /\ UNCHANGED <<version, outbox, cacheVars, hit, work, direct, busVars, faults,
                 history>>

\* That a key does not exist is cached in the process only.
LoadLocal(r) ==
  /\ load[r].pc = "local"
  /\ SetLocal(r, load[r].v)
  /\ load' = [load EXCEPT ![r] = IF @.v = 0 THEN NoLoad ELSE [@ EXCEPT !.pc = "shared"]]
  /\ UNCHANGED <<version, outbox, shared, hit, work, direct, busVars, faults,
                 history>>

LoadShared(r) ==
  /\ load[r].pc = "shared"
  /\ shared' = [v |-> load[r].v, ttl |-> 0, late |-> load[r].v < cut]
  /\ load' = [load EXCEPT ![r] = NoLoad]
  /\ UNCHANGED <<version, outbox, local, hit, work, direct, busVars, faults,
                 history>>

\* The database or Redis fails, or the caller has gone.
LoadFails(r) ==
  /\ load[r].pc \in {"miss", "shared"}
  /\ Fault
  /\ load' = [load EXCEPT ![r] = NoLoad]
  /\ UNCHANGED <<version, outbox, cacheVars, hit, work, direct, busVars, history>>

(***************************************************************************)
(* The worker of a replica                                                 *)
(***************************************************************************)

\* Mutant: claims do not lapse.
Claimable_Unclaimed(v) ==
  outbox[v].st = "live" /\ outbox[v].wait = 0 /\ outbox[v].by = {}

Claimable(v) ==
  /\ outbox[v].st = "live" /\ outbox[v].wait = 0
  /\ outbox[v].by # {} => outbox[v].lease = 0

\* A batch is claimed when the one before is done.
Claim(r) ==
  LET rows == {v \in Changes : Claimable(v)} IN
  /\ \A v \in Changes : work[r][v] = NoWork
  /\ rows # {}
  /\ outbox' = [v \in Changes |-> IF v \in rows
       THEN [outbox[v] EXCEPT !.by = {r}, !.lease = Lease] ELSE outbox[v]]
  /\ work' = [work EXCEPT ![r] = [v \in Changes |-> IF v \in rows
       THEN [pc |-> "local", stage |-> outbox[v].stage] ELSE NoWork]]
  /\ UNCHANGED <<version, cacheVars, lookupVars, direct, busVars, faults, history>>

WorkLocal(r, v) ==
  /\ work[r][v].pc = "local"
  /\ ClearLocal(r)
  /\ work' = [work EXCEPT ![r][v].pc = "delete"]
  /\ UNCHANGED <<version, outbox, shared, lookupVars, direct, busVars, faults,
                 gone, cut, passed>>

WorkDelete(r, v) ==
  /\ work[r][v].pc = "delete"
  /\ shared' = NoEntry /\ cut' = Later(cut, v)
  /\ work' = [work EXCEPT ![r][v].pc = "publish"]
  /\ UNCHANGED <<version, outbox, local, lookupVars, direct, busVars, faults,
                 gone, passed, deaf>>

WorkPublish(r, v) ==
  /\ work[r][v].pc = "publish"
  /\ Publish /\ passed' = Later(passed, v)
  /\ work' = [work EXCEPT ![r][v].pc = "finish"]
  /\ UNCHANGED <<version, outbox, cacheVars, lookupVars, direct, subscribed,
                 faults, gone, cut>>

\* Mutant: the key is published although it was not deleted, as in
\* deleteAuthCache.
WorkFails_GoesOn(r, v) ==
  /\ work[r][v].pc \in {"delete", "publish"}
  /\ Fault
  /\ work' = [work EXCEPT ![r][v].pc = IF @ = "delete" THEN "publish" ELSE "retry"]
  /\ UNCHANGED <<version, outbox, cacheVars, lookupVars, direct, busVars, history>>

\* A call of Redis fails or times out; it may have been carried out.
WorkFails(r, v) ==
  /\ work[r][v].pc \in {"delete", "publish"}
  /\ Fault
  /\ shared' \in IF work[r][v].pc = "delete" THEN {shared, NoEntry} ELSE {shared}
  /\ work' = [work EXCEPT ![r][v].pc = "retry"]
  /\ UNCHANGED <<version, outbox, local, lookupVars, direct, busVars, history>>

Owned(r, v) == outbox[v].st = "live" /\ outbox[v].by = {r}

EndsWork(r, v) == work' = [work EXCEPT ![r][v] = NoWork]

\* RetryClaimed
Retry(r, v) ==
  /\ work[r][v].pc = "retry"
  /\ outbox' = IF Owned(r, v)
       THEN [outbox EXCEPT ![v].wait = RetryDelay, ![v].by = {}, ![v].lease = 0]
       ELSE outbox
  /\ EndsWork(r, v)
  /\ UNCHANGED <<version, cacheVars, lookupVars, direct, busVars, faults, history>>

\* Mutant: the second pass follows at once.
ScheduleSecondPass_AtOnce(r, v) ==
  /\ work[r][v].pc = "finish" /\ work[r][v].stage = 0
  /\ outbox' = IF Owned(r, v) /\ outbox[v].stage = 0
       THEN [outbox EXCEPT ![v] = [@ EXCEPT !.stage = 1, !.by = {}, !.lease = 0]]
       ELSE outbox
  /\ EndsWork(r, v)
  /\ UNCHANGED <<version, cacheVars, lookupVars, direct, busVars, faults, history>>

ScheduleSecondPass(r, v) ==
  /\ work[r][v].pc = "finish" /\ work[r][v].stage = 0
  /\ outbox' = IF Owned(r, v) /\ outbox[v].stage = 0
       THEN [outbox EXCEPT ![v] =
              [@ EXCEPT !.stage = 1, !.wait = SafetyDelay, !.by = {}, !.lease = 0]]
       ELSE outbox
  /\ EndsWork(r, v)
  /\ UNCHANGED <<version, cacheVars, lookupVars, direct, busVars, faults, history>>

DeleteClaimed(r, v) ==
  /\ work[r][v].pc = "finish" /\ work[r][v].stage = 1
  /\ outbox' = IF Owned(r, v) THEN [outbox EXCEPT ![v] = [NoRow EXCEPT !.st = "gone"]]
                              ELSE outbox
  /\ EndsWork(r, v)
  /\ UNCHANGED <<version, cacheVars, lookupVars, direct, busVars, faults, history>>

\* The statement that ends the work fails: the claim stays until it lapses.
EndFails(r, v) ==
  /\ work[r][v].pc \in {"finish", "retry"}
  /\ Fault
  /\ EndsWork(r, v)
  /\ UNCHANGED <<version, outbox, cacheVars, lookupVars, direct, busVars, history>>

(***************************************************************************)
(* Subscription, crashes and time                                          *)
(***************************************************************************)

Deliver(r) ==
  /\ mail[r]
  /\ mail' = [mail EXCEPT ![r] = FALSE]
  /\ ClearLocal(r)
  /\ UNCHANGED <<version, outbox, shared, lookupVars, work, direct, subscribed,
                 faults, gone, cut, passed>>

\* What was on its way is lost, and nothing is cleared on reconnecting.
Disconnect(r) ==
  /\ subscribed[r]
  /\ Fault
  /\ subscribed' = [subscribed EXCEPT ![r] = FALSE]
  /\ mail' = [mail EXCEPT ![r] = FALSE]
  /\ deaf' = IF mail[r] THEN deaf \cup {r} ELSE deaf
  /\ UNCHANGED <<version, outbox, cacheVars, lookupVars, work, direct, gone,
                 cut, passed>>

Reconnect(r) ==
  /\ ~subscribed[r]
  /\ subscribed' = [subscribed EXCEPT ![r] = TRUE]
  /\ UNCHANGED <<version, outbox, cacheVars, lookupVars, work, direct, mail,
                 faults, history>>

\* A restarted worker has an id of its own: it owns no row of its predecessor.
Crash(r) ==
  /\ Fault
  /\ ClearLocal(r)
  /\ load' = At(load, r, NoLoad) /\ hit' = At(hit, r, NoHit)
  /\ work' = [work EXCEPT ![r] = [v \in Changes |-> NoWork]]
  /\ direct' = At(direct, r, "idle") /\ mail' = At(mail, r, FALSE)
  /\ subscribed' = At(subscribed, r, TRUE)
  /\ UNCHANGED <<version, outbox, shared, gone, cut, passed>>

\* The time to live of Redis (300 s) is longer than anything else here.
SharedExpires ==
  /\ shared # NoEntry
  /\ shared' = NoEntry
  /\ UNCHANGED <<version, outbox, local, lookupVars, work, direct, busVars,
                 faults, history>>

Less(n) == IF n = 0 THEN 0 ELSE n - 1

\* Mutant: an entry has no time to live.
Aged_Never(e) == e

Aged(e) == IF e = NoEntry \/ e.ttl = 1 THEN NoEntry ELSE [e EXCEPT !.ttl = @ - 1]

\* An event is worked on for longer than its claim lasts: it waits for one of
\* the authInvalidationConcurrency slots, or the process is held up.
Overrun(r, v) ==
  /\ work[r][v] # NoWork /\ Owned(r, v) /\ outbox[v].lease > 0
  /\ Fault
  /\ outbox' = [outbox EXCEPT ![v].lease = 0]
  /\ UNCHANGED <<version, cacheVars, lookupVars, work, direct, busVars, history>>

\* A lookup ends in time, as does, without Overrun, the work on an event.
Tick ==
  /\ \A r \in Servers : hit[r].age < MaxLookup
  /\ \A r \in Replicas, v \in Changes :
       work[r][v] # NoWork /\ Owned(r, v) => outbox[v].lease # 1
  /\ \A r \in Servers : load[r].pc \in {"local", "shared"} => load[r].age < MaxLookup
  /\ outbox' = [v \in Changes |->
       [outbox[v] EXCEPT !.wait = Less(@), !.lease = Less(@)]]
  /\ local' = [r \in Servers |-> Aged(local[r])]
  /\ load' = [r \in Servers |-> IF load[r].pc \in {"local", "shared"}
       THEN [load[r] EXCEPT !.age = @ + 1] ELSE load[r]]
  /\ hit' = [r \in Servers |->
       IF hit[r] # NoHit THEN [hit[r] EXCEPT !.age = @ + 1] ELSE NoHit]
  /\ deaf' = {r \in deaf : local'[r] # NoEntry}
  /\ gone' = [v \in Changes |->
       IF v <= version /\ outbox[v].st # "live" /\ gone[v] < Horizon
       THEN gone[v] + 1 ELSE gone[v]]
  /\ UNCHANGED <<version, shared, work, direct, busVars, faults, cut, passed>>

DirectStep(r) == DirectLocal(r) \/ DirectDelete(r) \/ DirectPublish(r)
LoadStep(r) == LoadRead(r) \/ LoadLocal(r) \/ LoadShared(r)
WorkStep(r, v) == WorkLocal(r, v) \/ WorkDelete(r, v) \/ WorkPublish(r, v)
                  \/ Retry(r, v) \/ ScheduleSecondPass(r, v) \/ DeleteClaimed(r, v)

Next ==
  \/ \E r \in Servers : Change({r}) \/ DirectStep(r) \/ DirectFails(r)
  \/ Change({})
  \/ \E r \in Servers : LookupHit(r) \/ LookupMiss(r) \/ LookupFails(r)
                         \/ HitLocal(r) \/ LoadStep(r) \/ LoadFails(r)
  \/ \E r \in Replicas : Claim(r)
  \/ \E r \in Replicas, v \in Changes : WorkStep(r, v) \/ WorkFails(r, v) \/ EndFails(r, v)
                                       \/ Overrun(r, v)
  \/ \E r \in Replicas : Crash(r)
  \/ \E r \in Servers : Deliver(r) \/ Disconnect(r) \/ Reconnect(r)
  \/ SharedExpires \/ Tick

Spec == Init /\ [][Next]_vars

\* Requests come as they please; one that has read goes on.  Time passes however
\* many of them follow each other (SF: each holds it up for a moment only).  The
\* workers poll, and each call they make has a time-out.
FairSpec ==
  /\ Spec
  /\ SF_vars(Tick)
  /\ \A r \in Servers : WF_vars(HitLocal(r)) /\ WF_vars(LoadStep(r))
  /\ \A r \in Replicas : WF_vars(Claim(r)) /\ WF_vars(\E v \in Changes : WorkStep(r, v))

(***************************************************************************)
(* Properties                                                              *)
(***************************************************************************)

Queued(v) == outbox[v].st = "live"

\* An entry in Redis that misses a change has the row of that change behind it:
\* whoever filled it, and whatever failed, a pass to come will delete it.  The
\* entry lives for minutes, so a row deleted too early would leave a revoked
\* key in use (processEvent, ScheduleSecondPass, loadAuthCacheEntry).
SharedStaleIsQueued ==
  shared # NoEntry /\ shared.v < version => Queued(shared.v + 1)

\* Redis serves no version that a pass to come would not remove, in every state
\* the workers, lookups and faults can bring about (processEvent).
CacheInv == TypeOK /\ SharedStaleIsQueued

\* A replica that goes on using an entry without a change does so for less
\* than the local time to live and the time of a lookup after the last pass,
\* also when messages to it are lost and nothing is cleared on reconnecting; a
\* lookup that has read the entry in Redis just before stores it just after
\* (getAuthCacheEntry).
LocalStaleIsBrief ==
  \A r \in Servers :
    local[r] # NoEntry /\ local[r].v < version =>
      LET v == local[r].v + 1 IN Queued(v) \/ gone[v] < Horizon

\* Once a change has been published, only lookups that had read the key before
\* and stored it after keep it from a cache: Redis is deleted before replicas
\* are told, so that none of them can fill its local entry from it again.
PublishedMeansFresh ==
  /\ shared # NoEntry /\ shared.v < passed => shared.late
  /\ \A r \in Servers :
       local[r] # NoEntry /\ local[r].v < passed => local[r].late \/ mail[r] \/ r \in deaf

\* Every change is passed on twice and its row deleted, whoever dies with a
\* claim on it.
ChangesAreConsumed ==
  \A v \in Changes : Queued(v) ~> ~Queued(v)

=============================================================================
