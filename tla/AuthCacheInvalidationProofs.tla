--------------------- MODULE AuthCacheInvalidationProofs ---------------------
(***************************************************************************)
(* What the caches of an API key promise, for any number of replicas,      *)
(* changes and faults, as long as a lookup takes less than the safety      *)
(* delay: Redis never serves a version that no pass to come would remove   *)
(* (CacheInv), a replica uses an old entry for a bounded time              *)
(* (LocalStaleIsBrief), and a published change keeps old entries out       *)
(* (PublishedMeansFresh).                                                  *)
(*                                                                         *)
(* An old entry gets into Redis by a lookup that read the key before the   *)
(* change.  The row of the change outlives every such lookup: it needs a   *)
(* second pass, the second pass comes a safety delay after the first was   *)
(* scheduled, and what is left of that delay and the age of the lookup     *)
(* together are never less than the delay (LookupInv).  A second pass that *)
(* is about to delete the row has deleted the entry in Redis, and no       *)
(* lookup of an older version is left to write it again (PassInv).         *)
(***************************************************************************)
EXTENDS AuthCacheInvalidation, TLAPS

\* A change that has not been made has neither a row nor work; whoever owns a
\* row and works on it is in the row's stage.
RowInv ==
  \A w \in Changes :
    /\ w > version => outbox[w] = NoRow
    /\ \A q \in Replicas :
         /\ w > version => work[q][w].pc = "idle"
         /\ work[q][w].pc # "idle" /\ outbox[w].by = {q} =>
              work[q][w].stage = outbox[w].stage

SharedInv ==
  shared # NoEntry =>
    /\ shared.v >= 1
    /\ \A w \in Changes : shared.v < w /\ w <= version => outbox[w].st = "live"

\* A lookup that misses a change has read before it: the row waits for its
\* second pass long enough, and nobody carries that pass out yet.
LookupInv ==
  \A r \in Servers : load[r].pc \in {"local", "shared"} =>
    /\ load[r].pc = "shared" => load[r].v >= 1
    /\ \A w \in Changes : load[r].v < w /\ w <= version /\ w >= 2 =>
         /\ outbox[w].st = "live"
         /\ outbox[w].stage = 0 \/ outbox[w].wait + load[r].age >= SafetyDelay
         /\ \A q \in Replicas : work[q][w].pc # "idle" => work[q][w].stage = 0

PassInv ==
  \A q \in Replicas, w \in Changes :
    work[q][w].pc \in {"publish", "finish"} /\ work[q][w].stage = 1 =>
      shared = NoEntry \/ shared.v >= w

LocalInv == \A r \in Servers : local[r] # NoEntry => local[r].ttl >= 1

InvalidationInv ==
  TypeOK /\ RowInv /\ SharedInv /\ LookupInv /\ PassInv /\ LocalInv

-----------------------------------------------------------------------------
(* Types *)

RowType == [st : {"none", "live", "gone"}, stage : {0, 1}, wait : Nat,
            by : SUBSET Replicas, lease : 0..Lease]
LoadType == [pc : {"idle", "miss", "local", "shared"}, v : Versions, age : 0..MaxLookup]
HitType == [v : Versions, age : 0..MaxLookup]
WorkType == [pc : {"idle", "local", "delete", "publish", "finish", "retry"}, stage : {0, 1}]

LEMMA ConstantTypes ==
  /\ NoRow \in RowType /\ NoLoad \in LoadType /\ NoWork \in WorkType
  /\ NoEntry \in Entries /\ NoHit \in HitType /\ NoHit.age = 0
  /\ NoEntry.ttl = 0
  /\ \A x \in Entries : x # NoEntry => x.v \in Versions /\ x.ttl \in 0..LocalTTL
  /\ \A v \in Versions, t \in 0..LocalTTL, b \in BOOLEAN :
       [v |-> v, ttl |-> t, late |-> b] \in Entries \ {NoEntry}
  /\ 0 \in Versions /\ Changes \subseteq Versions /\ 0 \in 0..Horizon
BY InvalidationAssumption
   DEF NoRow, NoLoad, NoWork, NoEntry, NoHit, Entries, RowType, LoadType, HitType, WorkType,
       Versions, Changes, Horizon

\* What an update of one event's work leaves.
LEMMA WorkUpdate ==
  ASSUME TypeOK, NEW r \in Replicas, NEW v \in Changes, NEW x \in WorkType,
         work' = [work EXCEPT ![r][v] = x]
  PROVE  /\ work' \in [Replicas -> [Changes -> WorkType]]
         /\ work'[r][v] = x
         /\ \A q \in Replicas, w \in Changes :
              q # r \/ w # v => work'[q][w] = work[q][w]
BY DEF TypeOK, WorkType

LEMMA WorkStepUpdate ==
  ASSUME TypeOK, NEW r \in Replicas, NEW v \in Changes,
         NEW pc \in {"idle", "local", "delete", "publish", "finish", "retry"},
         work' = [work EXCEPT ![r][v].pc = pc]
  PROVE  /\ work' \in [Replicas -> [Changes -> WorkType]]
         /\ work'[r][v] = [work[r][v] EXCEPT !.pc = pc]
         /\ work'[r][v].pc = pc /\ work'[r][v].stage = work[r][v].stage
         /\ \A q \in Replicas, w \in Changes :
              q # r \/ w # v => work'[q][w] = work[q][w]
<1>1. work[r][v] \in WorkType
  BY DEF TypeOK, WorkType
<1>2. [work[r][v] EXCEPT !.pc = pc] \in WorkType
  BY <1>1 DEF WorkType
<1> DEFINE x == [work[r][v] EXCEPT !.pc = pc]
           row == [work[r] EXCEPT ![v] = x]
<1>3. work' = [work EXCEPT ![r] = row] /\ row \in [Changes -> WorkType] /\ row[v] = x
      /\ \A w \in Changes : w # v => row[w] = work[r][w]
  BY <1>2 DEF TypeOK, WorkType
<1>4. /\ work' \in [Replicas -> [Changes -> WorkType]]
      /\ work'[r][v] = x
      /\ \A q \in Replicas, w \in Changes :
           q # r \/ w # v => work'[q][w] = work[q][w]
  <2>1. work \in [Replicas -> [Changes -> WorkType]]
    BY DEF TypeOK, WorkType
  <2> HIDE DEF row, x
  <2>2. work'[r] = row /\ \A q \in Replicas : q # r => work'[q] = work[q]
    BY <1>3, <2>1
  <2>3. work' \in [Replicas -> [Changes -> WorkType]]
    BY <1>3, <2>1
  <2> QED
    BY <1>3, <2>2, <2>3
<1>5. work'[r][v].pc = pc /\ work'[r][v].stage = work[r][v].stage
  BY <1>1, <1>4 DEF WorkType
<1> QED
  BY <1>4, <1>5

LEMMA RowUpdate ==
  ASSUME TypeOK, NEW v \in Changes, NEW x \in RowType, outbox' = [outbox EXCEPT ![v] = x]
  PROVE  /\ outbox' \in [Changes -> RowType]
         /\ outbox'[v] = x
         /\ \A w \in Changes : w # v => outbox'[w] = outbox[w]
BY DEF TypeOK, RowType

\* What the statements do to a row, and the steps of a lookup to it.
LEMMA LessIsLess == \A n \in Nat : Less(n) \in Nat /\ Less(n) <= n /\ n <= Less(n) + 1
BY DEF Less

LEMMA RowEdits ==
  ASSUME NEW x \in RowType
  PROVE  /\ [x EXCEPT !.st = "live"] \in RowType
         /\ \A r \in Replicas : [x EXCEPT !.by = {r}, !.lease = Lease] \in RowType
         /\ [x EXCEPT !.wait = RetryDelay, !.by = {}, !.lease = 0] \in RowType
         /\ [x EXCEPT !.stage = 1, !.wait = SafetyDelay, !.by = {}, !.lease = 0] \in RowType
         /\ [NoRow EXCEPT !.st = "gone"] \in RowType
         /\ [x EXCEPT !.lease = 0] \in RowType
         /\ [x EXCEPT !.wait = Less(@), !.lease = Less(@)] \in RowType
<1>1. Less(x.wait) \in Nat /\ Less(x.lease) \in 0..Lease
  BY LessIsLess, InvalidationAssumption DEF RowType
<1>2. [x EXCEPT !.wait = Less(x.wait), !.lease = Less(x.lease)] \in RowType
  BY <1>1 DEF RowType
<1>3. Lease \in 0..Lease /\ 0 \in 0..Lease
  BY InvalidationAssumption
<1>4. ASSUME NEW r \in Replicas PROVE [x EXCEPT !.by = {r}, !.lease = Lease] \in RowType
  <2>1. {r} \in SUBSET Replicas
    OBVIOUS
  <2> QED
    BY <1>3, <2>1 DEF RowType
<1>5. [x EXCEPT !.wait = RetryDelay, !.by = {}, !.lease = 0] \in RowType
  BY <1>3, InvalidationAssumption DEF RowType
<1>6. [x EXCEPT !.stage = 1, !.wait = SafetyDelay, !.by = {}, !.lease = 0] \in RowType
  BY <1>3, InvalidationAssumption DEF RowType
<1>7. [NoRow EXCEPT !.st = "gone"] \in RowType
  BY <1>3 DEF RowType, NoRow
<1>8. [x EXCEPT !.st = "live"] \in RowType /\ [x EXCEPT !.lease = 0] \in RowType
  BY <1>3 DEF RowType
<1> QED
  BY <1>2, <1>4, <1>5, <1>6, <1>7, <1>8

LEMMA LoadEdits ==
  ASSUME NEW x \in LoadType
  PROVE  /\ \A p \in {"miss", "shared"} : [x EXCEPT !.pc = p] \in LoadType
         /\ x.age < MaxLookup => [x EXCEPT !.age = @ + 1] \in LoadType
         /\ \A v \in Versions : [pc |-> "local", v |-> v, age |-> 0] \in LoadType
BY InvalidationAssumption DEF LoadType

LEMMA HitEdits ==
  ASSUME NEW h \in HitType, h.age < MaxLookup
  PROVE  /\ [h EXCEPT !.age = @ + 1] \in HitType
         /\ [h EXCEPT !.age = @ + 1].v = h.v /\ [h EXCEPT !.age = @ + 1].age = h.age + 1
BY InvalidationAssumption DEF HitType

LEMMA AgedEntry ==
  ASSUME NEW e \in Entries, e # NoEntry => e.ttl >= 1
  PROVE  Aged(e) \in Entries /\ (Aged(e) # NoEntry => Aged(e).ttl >= 1)
<1>1. CASE e = NoEntry \/ e.ttl = 1
  BY <1>1, ConstantTypes DEF Aged
<1>2. CASE e # NoEntry /\ e.ttl # 1
  <2>1. e \in [v : Versions, ttl : 0..LocalTTL, late : BOOLEAN]
    BY <1>2 DEF Entries
  <2>2. e.ttl - 1 \in 0..LocalTTL /\ e.ttl - 1 >= 1
    BY <1>2, <2>1, InvalidationAssumption
  <2>3. Aged(e) = [e EXCEPT !.ttl = e.ttl - 1]
    BY <1>2 DEF Aged
  <2> QED
    BY <2>1, <2>2, <2>3 DEF Entries
<1> QED
  BY <1>1, <1>2

\* TypeOK with its types by name.
Typed ==
  /\ version \in Versions
  /\ outbox \in [Changes -> RowType]
  /\ local \in [Servers -> Entries] /\ shared \in Entries
  /\ load \in [Servers -> LoadType] /\ hit \in [Servers -> HitType]
  /\ work \in [Replicas -> [Changes -> WorkType]]
  /\ direct \in [Servers -> {"idle", "local", "delete", "publish"}]
  /\ mail \in [Servers -> BOOLEAN] /\ subscribed \in [Servers -> BOOLEAN]
  /\ faults \in 0..MaxFaults
  /\ gone \in [Changes -> 0..Horizon]
  /\ cut \in Versions /\ passed \in Versions /\ deaf \subseteq Servers

LEMMA TypedIsTypeOK == (TypeOK <=> Typed) /\ (TypeOK' <=> Typed')
BY DEF TypeOK, Typed, RowType, LoadType, HitType, WorkType

LEMMA TypeNext == TypeOK /\ LocalInv /\ [Next]_vars => TypeOK'
<1> SUFFICES ASSUME Typed, LocalInv, [Next]_vars PROVE Typed'
  BY TypedIsTypeOK
<1>0. TypeOK
  BY TypedIsTypeOK
<1> USE InvalidationAssumption, ConstantTypes
<1> USE DEF cacheVars, lookupVars, busVars, history
<1>1. ASSUME NEW r \in Servers, Change({r}) PROVE Typed'
  <2>1. outbox' \in [Changes -> RowType]
    BY <1>1, RowEdits DEF Typed, Change, Changes, Versions
  <2> QED
    BY <1>1, <2>1 DEF Typed, Change, Versions
<1>2. ASSUME Change({}) PROVE Typed'
  <2>1. outbox' \in [Changes -> RowType]
    BY <1>2, RowEdits DEF Typed, Change, Changes, Versions
  <2> QED
    BY <1>2, <2>1 DEF Typed, Change, Versions
<1>3. ASSUME NEW r \in Servers, DirectLocal(r) PROVE Typed'
  BY <1>3 DEF Typed, DirectLocal, ClearLocal, At
<1>4. ASSUME NEW r \in Servers, DirectDelete(r) PROVE Typed'
  BY <1>4 DEF Typed, DirectDelete
<1>5. ASSUME NEW r \in Servers, DirectPublish(r) PROVE Typed'
  BY <1>5 DEF Typed, DirectPublish, Publish
<1>6. ASSUME NEW r \in Servers, DirectFails(r) PROVE Typed'
  BY <1>6 DEF Typed, DirectFails, Fault
<1>7. ASSUME NEW r \in Servers, LookupHit(r) PROVE Typed'
  <2>1. [v |-> shared.v, age |-> 0] \in HitType
    BY <1>7 DEF Typed, LookupHit, HitType
  <2> QED
    BY <1>7, <2>1 DEF Typed, LookupHit
<1>8. ASSUME NEW r \in Servers, LookupMiss(r) PROVE Typed'
  <2>1. load' \in [Servers -> LoadType]
    BY <1>8, LoadEdits DEF Typed, LookupMiss
  <2> QED
    BY <1>8, <2>1 DEF Typed, LookupMiss
<1>9. ASSUME NEW r \in Servers, LookupFails(r) PROVE Typed'
  <2>1. load' \in [Servers -> LoadType]
    BY <1>9, LoadEdits DEF Typed, LookupFails
  <2> QED
    BY <1>9, <2>1 DEF Typed, LookupFails, Fault
<1>10. ASSUME NEW r \in Servers, HitLocal(r) PROVE Typed'
  <2>1. local' \in [Servers -> Entries]
    <3> DEFINE late == hit[r].v < passed
    <3>1. late \in BOOLEAN
      OBVIOUS
    <3>2. local' = [local EXCEPT ![r] = [v |-> hit[r].v, ttl |-> LocalTTL, late |-> late]]
      BY <1>10 DEF HitLocal, SetLocal
    <3>3. hit[r].v \in Versions
      BY <1>10 DEF Typed, HitLocal, HitType
    <3> HIDE DEF late
    <3>4. [v |-> hit[r].v, ttl |-> LocalTTL, late |-> late] \in Entries
      BY <3>1, <3>3
    <3> QED
      BY <3>2, <3>4 DEF Typed
  <2>2. hit' \in [Servers -> HitType]
    BY <1>10 DEF Typed, HitLocal
  <2> QED
    BY <1>10, <2>1, <2>2 DEF Typed, HitLocal, SetLocal
<1>11. ASSUME NEW r \in Servers, LoadRead(r) PROVE Typed'
  <2>1. load' \in [Servers -> LoadType]
    BY <1>11, LoadEdits DEF Typed, LoadRead
  <2> QED
    BY <1>11, <2>1 DEF Typed, LoadRead
<1>12. ASSUME NEW r \in Servers, LoadLocal(r) PROVE Typed'
  <2>1. load' \in [Servers -> LoadType]
    <3> DEFINE x == IF load[r].v = 0 THEN NoLoad ELSE [load[r] EXCEPT !.pc = "shared"]
    <3>1. x \in LoadType /\ load' = [load EXCEPT ![r] = x]
      BY <1>12, LoadEdits DEF Typed, LoadLocal
    <3> HIDE DEF x
    <3> QED
      BY <3>1 DEF Typed
  <2>2. local' \in [Servers -> Entries]
    <3> DEFINE late == load[r].v < passed
    <3> DEFINE e == [v |-> load[r].v, ttl |-> LocalTTL, late |-> late]
    <3>1. late \in BOOLEAN
      OBVIOUS
    <3>2. local' = [local EXCEPT ![r] = e]
      BY <1>12 DEF LoadLocal, SetLocal
    <3>3. load[r].v \in Versions /\ LocalTTL \in 0..LocalTTL
      BY <1>12 DEF Typed, LoadLocal, LoadType
    <3> HIDE DEF late
    <3>4. e \in Entries
      BY <3>1, <3>3
    <3> HIDE DEF e
    <3> QED
      BY <3>2, <3>4 DEF Typed
  <2> QED
    BY <1>12, <2>1, <2>2 DEF Typed, LoadLocal, SetLocal
<1>13. ASSUME NEW r \in Servers, LoadShared(r) PROVE Typed'
  <2>1. load' \in [Servers -> LoadType]
    BY <1>13, LoadEdits DEF Typed, LoadShared
  <2>2. shared' \in Entries
    <3> DEFINE late == load[r].v < cut
    <3>1. late \in BOOLEAN
      OBVIOUS
    <3>2. shared' = [v |-> load[r].v, ttl |-> 0, late |-> late]
      BY <1>13 DEF LoadShared
    <3>3. load[r].v \in Versions
      BY <1>13 DEF Typed, LoadType
    <3> HIDE DEF late
    <3> QED
      BY <3>1, <3>2, <3>3
  <2> QED
    BY <1>13, <2>1, <2>2 DEF Typed, LoadShared
<1>14. ASSUME NEW r \in Servers, LoadFails(r) PROVE Typed'
  <2>1. load' \in [Servers -> LoadType]
    BY <1>14, LoadEdits DEF Typed, LoadFails
  <2> QED
    BY <1>14, <2>1 DEF Typed, LoadFails, Fault
<1>15. ASSUME NEW r \in Replicas, Claim(r) PROVE Typed'
  <2>1. outbox' \in [Changes -> RowType]
    BY <1>15, RowEdits DEF Typed, Claim
  <2>2. work' \in [Replicas -> [Changes -> WorkType]]
    BY <1>15 DEF Typed, Claim, WorkType, RowType
  <2> QED
    BY <1>15, <2>1, <2>2 DEF Typed, Claim, Claimable
<1>16. ASSUME NEW r \in Replicas, NEW v \in Changes, WorkLocal(r, v) PROVE Typed'
  <2>1. work' \in [Replicas -> [Changes -> WorkType]]
    BY <1>0, <1>16, WorkStepUpdate DEF WorkLocal
  <2> QED
    BY <1>16, <2>1 DEF Typed, WorkLocal, ClearLocal, At
<1>17. ASSUME NEW r \in Replicas, NEW v \in Changes, WorkDelete(r, v) PROVE Typed'
  <2>1. work' \in [Replicas -> [Changes -> WorkType]]
    BY <1>0, <1>17, WorkStepUpdate DEF WorkDelete
  <2> QED
    BY <1>17, <2>1 DEF Typed, WorkDelete, Later
<1>18. ASSUME NEW r \in Replicas, NEW v \in Changes, WorkPublish(r, v) PROVE Typed'
  <2>1. work' \in [Replicas -> [Changes -> WorkType]]
    BY <1>0, <1>18, WorkStepUpdate DEF WorkPublish
  <2> QED
    BY <1>18, <2>1 DEF Typed, WorkPublish, Publish, Later
<1>19. ASSUME NEW r \in Replicas, NEW v \in Changes, Retry(r, v) PROVE Typed'
  <2>1. work' \in [Replicas -> [Changes -> WorkType]]
    BY <1>0, <1>19, WorkUpdate DEF Retry, EndsWork
  <2>2. outbox' \in [Changes -> RowType]
    BY <1>19, RowEdits DEF Typed, Retry
  <2> QED
    BY <1>19, <2>1, <2>2 DEF Typed, Retry, EndsWork
<1>20. ASSUME NEW r \in Replicas, NEW v \in Changes, ScheduleSecondPass(r, v) PROVE Typed'
  <2>1. work' \in [Replicas -> [Changes -> WorkType]]
    BY <1>0, <1>20, WorkUpdate DEF ScheduleSecondPass, EndsWork
  <2>2. outbox' \in [Changes -> RowType]
    BY <1>20, RowEdits DEF Typed, ScheduleSecondPass
  <2> QED
    BY <1>20, <2>1, <2>2 DEF Typed, ScheduleSecondPass, EndsWork
<1>21. ASSUME NEW r \in Replicas, NEW v \in Changes, DeleteClaimed(r, v) PROVE Typed'
  <2>1. work' \in [Replicas -> [Changes -> WorkType]]
    BY <1>0, <1>21, WorkUpdate DEF DeleteClaimed, EndsWork
  <2>2. outbox' \in [Changes -> RowType]
    BY <1>21, RowEdits DEF Typed, DeleteClaimed
  <2> QED
    BY <1>21, <2>1, <2>2 DEF Typed, DeleteClaimed, EndsWork
<1>22. ASSUME NEW r \in Replicas, NEW v \in Changes, WorkFails(r, v) PROVE Typed'
  <2>1. work' \in [Replicas -> [Changes -> WorkType]]
    BY <1>0, <1>22, WorkStepUpdate DEF WorkFails
  <2> QED
    BY <1>22, <2>1 DEF Typed, WorkFails, Fault
<1>23. ASSUME NEW r \in Replicas, NEW v \in Changes, EndFails(r, v) PROVE Typed'
  <2>1. work' \in [Replicas -> [Changes -> WorkType]]
    BY <1>0, <1>23, WorkUpdate DEF EndFails, EndsWork
  <2> QED
    BY <1>23, <2>1 DEF Typed, EndFails, EndsWork, Fault
<1>24. ASSUME NEW r \in Replicas, NEW v \in Changes, Overrun(r, v) PROVE Typed'
  <2>1. outbox' \in [Changes -> RowType]
    BY <1>24, RowEdits DEF Typed, Overrun
  <2> QED
    BY <1>24, <2>1 DEF Typed, Overrun, Fault
<1>25. ASSUME NEW r \in Replicas, Crash(r) PROVE Typed'
  <2>1. work' \in [Replicas -> [Changes -> WorkType]]
    BY <1>25 DEF Typed, Crash
  <2>2. load' \in [Servers -> LoadType]
    BY <1>25 DEF Typed, Crash, At
  <2>3. local' \in [Servers -> Entries] /\ hit' \in [Servers -> HitType]
    BY <1>25 DEF Typed, Crash, ClearLocal, At
  <2>4. direct' \in [Servers -> {"idle", "local", "delete", "publish"}]
    BY <1>25 DEF Typed, Crash, At
  <2>5. mail' \in [Servers -> BOOLEAN] /\ subscribed' \in [Servers -> BOOLEAN]
    BY <1>25 DEF Typed, Crash, At
  <2>6. deaf' \subseteq Servers /\ faults' \in 0..MaxFaults
    BY <1>25 DEF Typed, Crash, ClearLocal, Fault
  <2> QED
    BY <1>25, <2>1, <2>2, <2>3, <2>4, <2>5, <2>6 DEF Typed, Crash
<1>26. ASSUME NEW r \in Servers, Deliver(r) PROVE Typed'
  BY <1>26 DEF Typed, Deliver, ClearLocal, At
<1>27. ASSUME NEW r \in Servers, Disconnect(r) PROVE Typed'
  BY <1>27 DEF Typed, Disconnect, Fault
<1>28. ASSUME NEW r \in Servers, Reconnect(r) PROVE Typed'
  BY <1>28 DEF Typed, Reconnect
<1>29. ASSUME SharedExpires PROVE Typed'
  BY <1>29 DEF Typed, SharedExpires
<1>30. ASSUME Tick PROVE Typed'
  <2>1. outbox' \in [Changes -> RowType]
    BY <1>30, RowEdits DEF Typed, Tick
  <2>2. load' \in [Servers -> LoadType]
    <3>1. \A r \in Servers : (IF load[r].pc \in {"local", "shared"}
            THEN [load[r] EXCEPT !.age = @ + 1] ELSE load[r]) \in LoadType
      BY <1>30, LoadEdits DEF Typed, Tick
    <3> QED
      BY <1>30, <3>1 DEF Tick
  <2>3. local' \in [Servers -> Entries]
    <3>1. \A r \in Servers : Aged(local[r]) \in Entries
      BY AgedEntry DEF Typed, LocalInv
    <3> QED
      BY <1>30, <3>1 DEF Tick
  <2>4. gone' \in [Changes -> 0..Horizon]
    <3>1. Horizon \in Nat
      BY DEF Horizon
    <3>2. ASSUME NEW v \in Changes
          PROVE (IF v <= version /\ outbox[v].st # "live" /\ gone[v] < Horizon
                 THEN gone[v] + 1 ELSE gone[v]) \in 0..Horizon
      <4>1. gone[v] \in 0..Horizon
        BY DEF Typed
      <4> QED
        BY <3>1, <4>1
    <3> QED
      BY <1>30, <3>2 DEF Tick
  <2>5. hit' \in [Servers -> HitType]
    <3>1. \A r \in Servers : (IF hit[r] # NoHit
            THEN [hit[r] EXCEPT !.age = @ + 1] ELSE NoHit) \in HitType
      BY <1>30, HitEdits DEF Typed, Tick
    <3> QED
      BY <1>30, <3>1 DEF Tick
  <2> QED
    BY <1>30, <2>1, <2>2, <2>3, <2>4, <2>5 DEF Typed, Tick, Aged, Less
<1>31. ASSUME UNCHANGED vars PROVE Typed'
  BY <1>31 DEF Typed, vars
<1> QED
  BY <1>1, <1>2, <1>3, <1>4, <1>5, <1>6, <1>7, <1>8, <1>9, <1>10, <1>11, <1>12, <1>13, <1>14, <1>15, <1>16, <1>17, <1>18, <1>19, <1>20, <1>21, <1>22, <1>23, <1>24, <1>25, <1>26, <1>27, <1>28, <1>29, <1>30, <1>31
     DEF Next, DirectStep, LoadStep, WorkStep

-----------------------------------------------------------------------------
(* What the steps do to rows and to work *)

LEMMA IdleWork == NoWork \in WorkType /\ NoWork.pc = "idle"
BY ConstantTypes DEF NoWork

LEMMA EndsWorkEffect ==
  ASSUME TypeOK, NEW r \in Replicas, NEW v \in Changes, EndsWork(r, v)
  PROVE  /\ work'[r][v].pc = "idle"
         /\ \A q \in Replicas, w \in Changes :
              q # r \/ w # v => work'[q][w] = work[q][w]
<1>1. work' = [work EXCEPT ![r][v] = NoWork]
  BY DEF EndsWork
<1>2. /\ work'[r][v] = NoWork
      /\ \A q \in Replicas, w \in Changes :
           q # r \/ w # v => work'[q][w] = work[q][w]
  BY <1>1 DEF TypeOK
<1> QED
  BY <1>2, IdleWork

LEMMA ClaimEffect ==
  ASSUME TypeOK, NEW r \in Replicas, Claim(r), NEW w \in Changes
  PROVE  /\ outbox'[w].st = outbox[w].st /\ outbox'[w].stage = outbox[w].stage
         /\ outbox'[w].wait = outbox[w].wait
         /\ \/ outbox'[w] = outbox[w] /\ work'[r][w].pc = "idle"
            \/ /\ outbox[w].st = "live" /\ outbox[w].wait = 0
               /\ outbox'[w].by = {r}
               /\ work'[r][w].pc = "local" /\ work'[r][w].stage = outbox[w].stage
         /\ \A q \in Replicas : q # r => work'[q][w] = work[q][w]
<1> DEFINE rows == {v \in Changes : Claimable(v)}
<1>1. /\ outbox' = [v \in Changes |-> IF v \in rows
           THEN [outbox[v] EXCEPT !.by = {r}, !.lease = Lease] ELSE outbox[v]]
      /\ work' = [work EXCEPT ![r] = [v \in Changes |-> IF v \in rows
           THEN [pc |-> "local", stage |-> outbox[v].stage] ELSE NoWork]]
  BY DEF Claim
<1>2. work \in [Replicas -> [Changes -> WorkType]] /\ outbox[w] \in RowType
  BY DEF TypeOK, WorkType, RowType
<1>3. work'[r][w] = (IF w \in rows THEN [pc |-> "local", stage |-> outbox[w].stage]
                     ELSE NoWork)
      /\ \A q \in Replicas : q # r => work'[q][w] = work[q][w]
  BY <1>1, <1>2
<1>4. outbox'[w] = IF w \in rows
           THEN [outbox[w] EXCEPT !.by = {r}, !.lease = Lease] ELSE outbox[w]
  BY <1>1
<1>5. CASE w \in rows
  <2>1. Claimable(w)
    BY <1>5
  <2>2. outbox'[w] = [outbox[w] EXCEPT !.by = {r}, !.lease = Lease]
    BY <1>4, <1>5
  <2>3. work'[r][w] = [pc |-> "local", stage |-> outbox[w].stage]
    BY <1>3, <1>5
  <2> QED
    BY <1>2, <1>3, <2>1, <2>2, <2>3 DEF Claimable, RowType
<1>6. CASE w \notin rows
  BY <1>3, <1>4, <1>6, IdleWork
<1> QED
  BY <1>5, <1>6

\* Of Retry and ScheduleSecondPass.
LEMMA RequeueEffect ==
  ASSUME TypeOK, NEW r \in Replicas, NEW v \in Changes,
         Retry(r, v) \/ ScheduleSecondPass(r, v)
  PROVE  /\ EndsWork(r, v) /\ UNCHANGED <<version, shared, load>>
         /\ work[r][v].pc # "idle"
         /\ \A w \in Changes :
              \/ outbox'[w] = outbox[w]
              \/ /\ w = v /\ outbox'[w].st = "live" /\ Owned(r, w) /\ outbox'[w].by = {}
                 /\ outbox'[w].stage = outbox[w].stage \/ outbox'[w].wait = SafetyDelay
<1>1. outbox \in [Changes -> RowType]
  BY DEF TypeOK, RowType
<1>2. CASE Retry(r, v)
  <2>1. CASE Owned(r, v)
    <3> DEFINE x == [outbox[v] EXCEPT !.wait = RetryDelay, !.by = {}, !.lease = 0]
    <3>1. outbox' = [outbox EXCEPT ![v] = x]
      BY <1>1, <1>2, <2>1 DEF Retry
    <3>2. x.st = "live" /\ x.by = {} /\ x.stage = outbox[v].stage
      BY <1>1, <2>1 DEF Owned, RowType
    <3> HIDE DEF x
    <3>3. outbox'[v] = x /\ \A w \in Changes : w # v => outbox'[w] = outbox[w]
      BY <1>1, <3>1
    <3> QED
      BY <1>2, <2>1, <3>2, <3>3 DEF Retry, cacheVars, lookupVars
  <2>2. CASE ~Owned(r, v)
    BY <1>2, <2>2 DEF Retry, cacheVars, lookupVars
  <2> QED
    BY <2>1, <2>2
<1>3. CASE ScheduleSecondPass(r, v)
  <2>1. CASE Owned(r, v) /\ outbox[v].stage = 0
    <3> DEFINE x == [outbox[v] EXCEPT !.stage = 1, !.wait = SafetyDelay, !.by = {}, !.lease = 0]
    <3>1. outbox' = [outbox EXCEPT ![v] = x]
      BY <1>1, <1>3, <2>1 DEF ScheduleSecondPass
    <3>2. x.st = "live" /\ x.by = {} /\ x.wait = SafetyDelay
      BY <1>1, <2>1 DEF Owned, RowType
    <3> HIDE DEF x
    <3>3. outbox'[v] = x /\ \A w \in Changes : w # v => outbox'[w] = outbox[w]
      BY <1>1, <3>1
    <3> QED
      BY <1>3, <2>1, <3>2, <3>3 DEF ScheduleSecondPass, cacheVars, lookupVars
  <2>2. CASE ~(Owned(r, v) /\ outbox[v].stage = 0)
    BY <1>3, <2>2 DEF ScheduleSecondPass, cacheVars, lookupVars
  <2> QED
    BY <2>1, <2>2
<1> QED
  BY <1>2, <1>3

LEMMA DeleteEffect ==
  ASSUME TypeOK, NEW r \in Replicas, NEW v \in Changes, DeleteClaimed(r, v)
  PROVE  /\ EndsWork(r, v) /\ UNCHANGED <<version, shared, load>>
         /\ work[r][v].pc = "finish" /\ work[r][v].stage = 1
         /\ \A w \in Changes :
              outbox'[w] = outbox[w] \/ (w = v /\ Owned(r, v) /\ outbox'[w].by = {})
<1> DEFINE x == [NoRow EXCEPT !.st = "gone"]
<1>1. outbox \in [Changes -> RowType]
  BY DEF TypeOK, RowType
<1>2. x.by = {}
  BY DEF NoRow
<1>3. outbox' = IF Owned(r, v) THEN [outbox EXCEPT ![v] = x] ELSE outbox
  BY DEF DeleteClaimed
<1>4. /\ EndsWork(r, v) /\ UNCHANGED <<version, shared, load>>
      /\ work[r][v].pc = "finish" /\ work[r][v].stage = 1
  BY DEF DeleteClaimed, cacheVars, lookupVars
<1> HIDE DEF x
<1>5. \A w \in Changes :
        outbox'[w] = outbox[w] \/ (w = v /\ Owned(r, v) /\ outbox'[w].by = {})
  BY <1>1, <1>2, <1>3
<1> QED
  BY <1>4, <1>5

LEMMA ChangeEffect ==
  ASSUME TypeOK, NEW at, Change(at)
  PROVE  /\ version' = version + 1 /\ UNCHANGED <<shared, load, work>>
         /\ \A w \in Changes :
              \/ outbox'[w] = outbox[w] /\ (w # version + 1 \/ w = 1)
              \/ /\ w = version + 1 /\ w >= 2 /\ outbox'[w].st = "live"
                 /\ outbox'[w].stage = outbox[w].stage /\ outbox'[w].by = outbox[w].by
<1> DEFINE v == version + 1
<1>1. outbox \in [Changes -> RowType] /\ version \in Nat /\ v \in Changes
  BY InvalidationAssumption DEF TypeOK, RowType, Versions, Changes, Change
<1>2. CASE v = 1
  BY <1>1, <1>2 DEF Change, cacheVars, lookupVars, Changes
<1>3. CASE v # 1
  <2> DEFINE x == [outbox[v] EXCEPT !.st = "live"]
  <2>1. outbox' = [outbox EXCEPT ![v] = x]
    BY <1>1, <1>3 DEF Change
  <2>2. x.st = "live" /\ x.stage = outbox[v].stage /\ x.by = outbox[v].by
    BY <1>1 DEF RowType
  <2>3. v >= 2
    BY <1>1, <1>3
  <2> HIDE DEF x
  <2>4. outbox'[v] = x /\ \A w \in Changes : w # v => outbox'[w] = outbox[w]
    BY <1>1, <2>1
  <2> QED
    BY <1>1, <2>2, <2>3, <2>4 DEF Change, cacheVars, lookupVars
<1> QED
  BY <1>2, <1>3

LEMMA TickEffect ==
  ASSUME TypeOK, Tick
  PROVE  /\ UNCHANGED <<version, shared, work>>
         /\ \A w \in Changes :
              /\ outbox'[w].st = outbox[w].st /\ outbox'[w].stage = outbox[w].stage
              /\ outbox'[w].by = outbox[w].by
              /\ outbox[w] = NoRow => outbox'[w] = NoRow
              /\ outbox'[w].wait \in Nat /\ outbox[w].wait <= outbox'[w].wait + 1
         /\ \A r \in Servers :
              /\ load'[r].pc = load[r].pc /\ load'[r].v = load[r].v
              /\ load[r].pc \in {"local", "shared"} => load'[r].age = load[r].age + 1
<1>1. outbox \in [Changes -> RowType] /\ load \in [Servers -> LoadType]
  BY DEF TypeOK, RowType, LoadType
<1>2. ASSUME NEW w \in Changes
      PROVE  /\ outbox'[w].st = outbox[w].st /\ outbox'[w].stage = outbox[w].stage
             /\ outbox'[w].by = outbox[w].by
             /\ outbox[w] = NoRow => outbox'[w] = NoRow
             /\ outbox'[w].wait \in Nat /\ outbox[w].wait <= outbox'[w].wait + 1
  <2>1. outbox'[w] = [outbox[w] EXCEPT !.wait = Less(outbox[w].wait),
                                       !.lease = Less(outbox[w].lease)]
    BY DEF Tick
  <2>2. outbox[w] \in RowType /\ outbox[w].wait \in Nat
    BY <1>1 DEF RowType
  <2>3. outbox'[w].wait = Less(outbox[w].wait)
    BY <2>1, <2>2 DEF RowType
  <2>4. outbox'[w].st = outbox[w].st /\ outbox'[w].stage = outbox[w].stage
        /\ outbox'[w].by = outbox[w].by
    BY <2>1, <2>2 DEF RowType
  <2>5. ASSUME outbox[w] = NoRow PROVE outbox'[w] = NoRow
    <3>1. Less(outbox[w].wait) = 0 /\ Less(outbox[w].lease) = 0
      BY <2>5 DEF NoRow, Less
    <3>2. outbox'[w] = [NoRow EXCEPT !.wait = 0, !.lease = 0]
      BY <2>1, <2>5, <3>1
    <3> QED
      BY <3>2 DEF NoRow
  <2> QED
    BY <2>2, <2>3, <2>4, <2>5, LessIsLess
<1>3. ASSUME NEW r \in Servers
      PROVE  /\ load'[r].pc = load[r].pc /\ load'[r].v = load[r].v
             /\ load[r].pc \in {"local", "shared"} => load'[r].age = load[r].age + 1
  BY <1>1 DEF Tick, LoadType
<1> QED
  BY <1>2, <1>3 DEF Tick, busVars

LEMMA CrashEffect ==
  ASSUME TypeOK, NEW r \in Replicas, Crash(r)
  PROVE  /\ UNCHANGED <<version, outbox, shared>>
         /\ \A w \in Changes :
              /\ work'[r][w].pc = "idle"
              /\ \A q \in Replicas : q # r => work'[q][w] = work[q][w]
         /\ \A q \in Servers : load'[q] = load[q] \/ load'[q].pc = "idle"
<1>1. work \in [Replicas -> [Changes -> WorkType]]
  BY DEF TypeOK, WorkType
<1>2. work' = [work EXCEPT ![r] = [v \in Changes |-> NoWork]]
  BY DEF Crash
<1>3. \A q \in Servers : load'[q] = load[q] \/ load'[q].pc = "idle"
  BY DEF Crash, At, NoLoad
<1> QED
  BY <1>1, <1>2, <1>3, IdleWork DEF Crash

\* Of the steps of a worker within a pass.
LEMMA WithinPassEffect ==
  ASSUME TypeOK, NEW r \in Replicas, NEW v \in Changes,
         WorkLocal(r, v) \/ WorkDelete(r, v) \/ WorkPublish(r, v) \/ WorkFails(r, v)
  PROVE  /\ UNCHANGED <<version, outbox, load>> /\ shared' \in {shared, NoEntry}
         /\ work[r][v].pc # "idle"
         /\ work'[r][v].stage = work[r][v].stage
         /\ work'[r][v].pc = "publish" => shared' = NoEntry
         /\ work'[r][v].pc = "finish" => work[r][v].pc = "publish"
         /\ \A q \in Replicas, w \in Changes :
              q # r \/ w # v => work'[q][w] = work[q][w]
<1> USE DEF cacheVars, lookupVars
<1>1. CASE WorkLocal(r, v)
  BY <1>1, WorkStepUpdate DEF WorkLocal
<1>2. CASE WorkDelete(r, v)
  BY <1>2, WorkStepUpdate DEF WorkDelete
<1>3. CASE WorkPublish(r, v)
  BY <1>3, WorkStepUpdate DEF WorkPublish
<1>4. CASE WorkFails(r, v)
  BY <1>4, WorkStepUpdate DEF WorkFails
<1> QED
  BY <1>1, <1>2, <1>3, <1>4

LEMMA OverrunEffect ==
  ASSUME TypeOK, NEW r \in Replicas, NEW v \in Changes, Overrun(r, v)
  PROVE  /\ UNCHANGED <<version, shared, load, work>>
         /\ work[r][v] # NoWork
         /\ \A w \in Changes :
              /\ outbox'[w].st = outbox[w].st /\ outbox'[w].stage = outbox[w].stage
              /\ outbox'[w].by = outbox[w].by /\ outbox'[w].wait = outbox[w].wait
              /\ outbox[w] = NoRow => outbox'[w] = NoRow
<1>1. outbox \in [Changes -> RowType]
  BY DEF TypeOK, RowType
<1> DEFINE x == [outbox[v] EXCEPT !.lease = 0]
<1>2. outbox' = [outbox EXCEPT ![v] = x]
  BY DEF Overrun
<1>3. x.st = outbox[v].st /\ x.stage = outbox[v].stage /\ x.by = outbox[v].by
      /\ x.wait = outbox[v].wait
  BY <1>1 DEF RowType
<1>4. outbox[v] = NoRow => x = NoRow
  BY DEF NoRow
<1> HIDE DEF x
<1>5. outbox'[v] = x /\ \A w \in Changes : w # v => outbox'[w] = outbox[w]
  BY <1>1, <1>2
<1> QED
  BY <1>3, <1>4, <1>5 DEF Overrun, cacheVars, lookupVars

\* What lookups, invalidations of the replica that made the change, messages and
\* expiry do: nothing to rows and work.
OtherStep ==
  /\ UNCHANGED <<version, outbox, work>>
  /\ \/ load' = load /\ shared' \in {shared, NoEntry}
     \/ \E r \in Servers :
          /\ \A q \in Servers : q # r => load'[q] = load[q]
          /\ \/ load'[r].pc \notin {"local", "shared"} /\ shared' = shared
             \/ load'[r].pc = "local" /\ load'[r].v = version /\ shared' = shared
             \/ /\ load[r].pc = "local" /\ load[r].v # 0 /\ shared' = shared
                /\ load'[r].v = load[r].v /\ load'[r].age = load[r].age
             \/ /\ load[r].pc = "shared" /\ load'[r].pc = "idle"
                /\ shared'.v = load[r].v

PassStep(r, v) ==
  \/ WorkLocal(r, v) \/ WorkDelete(r, v) \/ WorkPublish(r, v) \/ WorkFails(r, v)
  \/ Retry(r, v) \/ ScheduleSecondPass(r, v) \/ DeleteClaimed(r, v)
  \/ EndFails(r, v) \/ Overrun(r, v)

LEMMA Steps ==
  ASSUME TypeOK, [Next]_vars
  PROVE  \/ \E at \in SUBSET Servers : Change(at)
         \/ \E r \in Replicas : Claim(r) \/ Crash(r)
         \/ \E r \in Replicas, v \in Changes : PassStep(r, v)
         \/ Tick \/ OtherStep
<1> USE DEF cacheVars, lookupVars, busVars, history
<1>0. load \in [Servers -> LoadType]
  BY DEF TypeOK, LoadType
<1>1. ASSUME NEW r \in Servers, DirectStep(r) \/ DirectFails(r) PROVE OtherStep
  BY <1>1 DEF OtherStep, DirectStep, DirectLocal, DirectDelete, DirectPublish, DirectFails
<1>2. ASSUME NEW r \in Servers, LookupHit(r) \/ HitLocal(r) PROVE OtherStep
  BY <1>2 DEF OtherStep, LookupHit, HitLocal
<1>3. ASSUME NEW r \in Servers, LookupMiss(r) \/ LookupFails(r) PROVE OtherStep
  <2>1. load' = [load EXCEPT ![r].pc = "miss"] /\ UNCHANGED <<version, outbox, work, shared>>
    BY <1>3 DEF LookupMiss, LookupFails
  <2>2. load'[r].pc = "miss" /\ \A q \in Servers : q # r => load'[q] = load[q]
    BY <1>0, <2>1 DEF LoadType
  <2> QED
    BY <2>1, <2>2 DEF OtherStep
<1>4. ASSUME NEW r \in Servers, LoadRead(r) PROVE OtherStep
  <2>1. load'[r].pc = "local" /\ load'[r].v = version
        /\ \A q \in Servers : q # r => load'[q] = load[q]
    BY <1>0, <1>4 DEF LoadRead
  <2> QED
    BY <1>4, <2>1 DEF OtherStep, LoadRead
<1>5. ASSUME NEW r \in Servers, LoadLocal(r) PROVE OtherStep
  <2>1. UNCHANGED <<version, outbox, work, shared>> /\ load[r].pc = "local"
    BY <1>5 DEF LoadLocal
  <2>2. CASE load[r].v = 0
    <3>1. load' = [load EXCEPT ![r] = NoLoad]
      BY <1>5, <2>2 DEF LoadLocal
    <3>2. load'[r].pc = "idle" /\ \A q \in Servers : q # r => load'[q] = load[q]
      BY <1>0, <3>1 DEF NoLoad
    <3> QED
      BY <2>1, <3>2 DEF OtherStep
  <2>3. CASE load[r].v # 0
    <3> DEFINE x == [load[r] EXCEPT !.pc = "shared"]
    <3>1. load' = [load EXCEPT ![r] = x]
      BY <1>5, <2>3 DEF LoadLocal
    <3>2. x.v = load[r].v /\ x.age = load[r].age
      BY <1>0 DEF LoadType
    <3> HIDE DEF x
    <3>3. load'[r] = x /\ \A q \in Servers : q # r => load'[q] = load[q]
      BY <1>0, <3>1
    <3> QED
      BY <2>1, <2>3, <3>2, <3>3 DEF OtherStep
  <2> QED
    BY <2>2, <2>3
<1>6. ASSUME NEW r \in Servers, LoadShared(r) PROVE OtherStep
  <2>1. load' = [load EXCEPT ![r] = NoLoad] /\ UNCHANGED <<version, outbox, work>>
        /\ load[r].pc = "shared" /\ shared'.v = load[r].v
    BY <1>6 DEF LoadShared
  <2>2. load'[r].pc = "idle" /\ \A q \in Servers : q # r => load'[q] = load[q]
    BY <1>0, <2>1 DEF NoLoad
  <2> QED
    BY <2>1, <2>2 DEF OtherStep
<1>7. ASSUME NEW r \in Servers, LoadFails(r) PROVE OtherStep
  <2>1. load' = [load EXCEPT ![r] = NoLoad] /\ UNCHANGED <<version, outbox, work, shared>>
    BY <1>7 DEF LoadFails
  <2>2. load'[r].pc = "idle" /\ \A q \in Servers : q # r => load'[q] = load[q]
    BY <1>0, <2>1 DEF NoLoad
  <2> QED
    BY <2>1, <2>2 DEF OtherStep
<1>8. ASSUME NEW r \in Servers, Deliver(r) \/ Disconnect(r) \/ Reconnect(r) PROVE OtherStep
  BY <1>8 DEF OtherStep, Deliver, Disconnect, Reconnect
<1>9. ASSUME SharedExpires \/ UNCHANGED vars PROVE OtherStep
  BY <1>9 DEF OtherStep, SharedExpires, vars
<1>10. \A r \in Servers : {r} \in SUBSET Servers
  OBVIOUS
<1> QED
  BY <1>1, <1>2, <1>3, <1>4, <1>5, <1>6, <1>7, <1>8, <1>9, <1>10
     DEF Next, LoadStep, WorkStep, PassStep

-----------------------------------------------------------------------------
(* The parts of the invariant *)

\* Whatever is owned or worked on is the row of a change that has been made.
LEMMA WorkedIsMade ==
  ASSUME RowInv, NEW q \in Replicas, NEW w \in Changes
  PROVE  /\ work[q][w].pc # "idle" => ~(w > version)
         /\ Owned(q, w) => ~(w > version)
BY DEF RowInv, Owned, NoRow

LEMMA RowNext ==
  ASSUME InvalidationInv, [Next]_vars
  PROVE  RowInv'
<1> USE DEF InvalidationInv, RowInv
<1>0. version \in Nat /\ \A w \in Changes : w \in Nat
  BY InvalidationAssumption DEF TypeOK, Versions, Changes
<1>1. ASSUME NEW at, Change(at) PROVE RowInv'
  BY <1>0, <1>1, ChangeEffect
<1>2. ASSUME NEW r \in Replicas, Claim(r) PROVE RowInv'
  <2>1. ASSUME NEW w \in Changes, w > version PROVE outbox'[w] = outbox[w]
    BY <1>2, <2>1, ClaimEffect DEF NoRow
  <2>2. version' = version
    BY <1>2 DEF Claim
  <2>3. ASSUME NEW w \in Changes
        PROVE  /\ w > version => outbox'[w] = NoRow /\ work'[r][w].pc = "idle"
               /\ work'[r][w].pc # "idle" => work'[r][w].stage = outbox'[w].stage
    BY <1>2, ClaimEffect DEF NoRow
  <2>4. ASSUME NEW w \in Changes, NEW q \in Replicas, q # r
        PROVE  /\ w > version => work'[q][w].pc = "idle"
               /\ work'[q][w].pc # "idle" /\ outbox'[w].by = {q} =>
                    work'[q][w].stage = outbox'[w].stage
    BY <1>2, <2>4, ClaimEffect
  <2> QED
    BY <2>2, <2>3, <2>4
<1>3. ASSUME NEW r \in Replicas, Crash(r) PROVE RowInv'
  BY <1>3, CrashEffect
<1>4. ASSUME NEW r \in Replicas, NEW v \in Changes,
             WorkLocal(r, v) \/ WorkDelete(r, v) \/ WorkPublish(r, v) \/ WorkFails(r, v)
      PROVE  RowInv'
  BY <1>4, WithinPassEffect
<1>5. ASSUME NEW r \in Replicas, NEW v \in Changes, Retry(r, v) \/ ScheduleSecondPass(r, v)
      PROVE  RowInv'
  <2>1. version' = version /\ EndsWork(r, v)
    BY <1>5, RequeueEffect
  <2>2. ASSUME NEW w \in Changes
        PROVE  /\ w > version => outbox'[w] = NoRow
               /\ outbox'[w] = outbox[w] \/ outbox'[w].by = {}
    BY <1>5, RequeueEffect, WorkedIsMade
  <2>3. ASSUME NEW w \in Changes, NEW q \in Replicas
        PROVE  work'[q][w].pc = "idle" \/ work'[q][w] = work[q][w]
    BY <2>1, EndsWorkEffect
  <2> QED
    BY <2>1, <2>2, <2>3
<1>6. ASSUME NEW r \in Replicas, NEW v \in Changes, DeleteClaimed(r, v) PROVE RowInv'
  <2>1. version' = version /\ EndsWork(r, v)
    BY <1>6, DeleteEffect
  <2>2. ASSUME NEW w \in Changes
        PROVE  /\ w > version => outbox'[w] = NoRow
               /\ outbox'[w] = outbox[w] \/ outbox'[w].by = {}
    BY <1>6, DeleteEffect, WorkedIsMade
  <2>3. ASSUME NEW w \in Changes, NEW q \in Replicas
        PROVE  work'[q][w].pc = "idle" \/ work'[q][w] = work[q][w]
    BY <2>1, EndsWorkEffect
  <2> QED
    BY <2>1, <2>2, <2>3
<1>7. ASSUME NEW r \in Replicas, NEW v \in Changes, EndFails(r, v) PROVE RowInv'
  <2>1. UNCHANGED <<version, outbox>> /\ EndsWork(r, v)
    BY <1>7 DEF EndFails
  <2>2. ASSUME NEW w \in Changes, NEW q \in Replicas
        PROVE  work'[q][w].pc = "idle" \/ work'[q][w] = work[q][w]
    BY <2>1, EndsWorkEffect
  <2> QED
    BY <2>1, <2>2
<1>8. ASSUME NEW r \in Replicas, NEW v \in Changes, Overrun(r, v) PROVE RowInv'
  BY <1>8, OverrunEffect
<1>9. ASSUME Tick PROVE RowInv'
  BY <1>9, TickEffect
<1>10. ASSUME OtherStep PROVE RowInv'
  BY <1>10 DEF OtherStep
<1> QED
  BY Steps, <1>1, <1>2, <1>3, <1>4, <1>5, <1>6, <1>7, <1>8, <1>9, <1>10 DEF PassStep

LEMMA SharedNext ==
  ASSUME InvalidationInv, [Next]_vars
  PROVE  SharedInv'
<1> USE DEF InvalidationInv, SharedInv
<1>0. version \in Nat /\ \A w \in Changes : w \in Nat /\ w >= 1
  BY InvalidationAssumption DEF TypeOK, Versions, Changes
<1>00. shared # NoEntry => shared.v \in Nat
  BY ConstantTypes, InvalidationAssumption DEF TypeOK, Versions
<1>1. ASSUME NEW at, Change(at) PROVE SharedInv'
  <2>1. version' = version + 1 /\ shared' = shared
    BY <1>1, ChangeEffect
  <2>2. ASSUME NEW w \in Changes, w >= 2, w <= version + 1,
               w = version + 1 \/ outbox[w].st = "live"
        PROVE  outbox'[w].st = "live"
    BY <1>0, <1>1, <2>2, ChangeEffect
  <2> QED
    BY <1>0, <1>00, <2>1, <2>2
<1>2. ASSUME NEW r \in Replicas, Claim(r) PROVE SharedInv'
  <2>1. UNCHANGED <<version, shared>>
    BY <1>2 DEF Claim, cacheVars
  <2>2. \A w \in Changes : outbox'[w].st = outbox[w].st
    BY <1>2, ClaimEffect
  <2> QED
    BY <2>1, <2>2
<1>3. ASSUME NEW r \in Replicas, Crash(r) PROVE SharedInv'
  BY <1>3, CrashEffect
<1>4. ASSUME NEW r \in Replicas, NEW v \in Changes,
             WorkLocal(r, v) \/ WorkDelete(r, v) \/ WorkPublish(r, v) \/ WorkFails(r, v)
      PROVE  SharedInv'
  BY <1>4, WithinPassEffect
<1>5. ASSUME NEW r \in Replicas, NEW v \in Changes, Retry(r, v) \/ ScheduleSecondPass(r, v)
      PROVE  SharedInv'
  BY <1>5, RequeueEffect
<1>6. ASSUME NEW r \in Replicas, NEW v \in Changes, DeleteClaimed(r, v) PROVE SharedInv'
  <2>1. shared = NoEntry \/ shared.v >= v
    BY <1>6, DeleteEffect DEF PassInv
  <2>2. UNCHANGED <<version, shared>> /\ \A w \in Changes : w # v => outbox'[w] = outbox[w]
    BY <1>6, DeleteEffect
  <2> QED
    BY <1>0, <1>00, <2>1, <2>2
<1>7. ASSUME NEW r \in Replicas, NEW v \in Changes, EndFails(r, v) PROVE SharedInv'
  BY <1>7 DEF EndFails, cacheVars
<1>8. ASSUME NEW r \in Replicas, NEW v \in Changes, Overrun(r, v) PROVE SharedInv'
  BY <1>8, OverrunEffect
<1>9. ASSUME Tick PROVE SharedInv'
  BY <1>9, TickEffect
<1>10. ASSUME OtherStep PROVE SharedInv'
  <2>1. CASE shared' \in {shared, NoEntry}
    BY <1>10, <2>1 DEF OtherStep
  <2>2. CASE shared' \notin {shared, NoEntry}
    <3>1. PICK r \in Servers : load[r].pc = "shared" /\ shared'.v = load[r].v
      BY <1>10, <2>2 DEF OtherStep
    <3>2. load[r].v >= 1 /\ load[r].v \in Nat
      BY <3>1, InvalidationAssumption DEF LookupInv, TypeOK, Versions
    <3>3. \A w \in Changes : load[r].v < w /\ w <= version => outbox[w].st = "live"
      BY <1>0, <3>1, <3>2 DEF LookupInv
    <3> QED
      BY <1>10, <3>1, <3>2, <3>3 DEF OtherStep
  <2> QED
    BY <2>1, <2>2
<1> QED
  BY Steps, <1>1, <1>2, <1>3, <1>4, <1>5, <1>6, <1>7, <1>8, <1>9, <1>10 DEF PassStep

LEMMA PassNext ==
  ASSUME InvalidationInv, [Next]_vars
  PROVE  PassInv'
<1> USE DEF InvalidationInv, PassInv
<1>1. ASSUME NEW at, Change(at) PROVE PassInv'
  BY <1>1, ChangeEffect
<1>2. ASSUME NEW r \in Replicas, Claim(r) PROVE PassInv'
  <2>1. shared' = shared
    BY <1>2 DEF Claim, cacheVars
  <2>2. \A w \in Changes : work'[r][w].pc \in {"idle", "local"}
    BY <1>2, ClaimEffect
  <2>3. \A w \in Changes, q \in Replicas : q # r => work'[q][w] = work[q][w]
    BY <1>2, ClaimEffect
  <2> QED
    BY <2>1, <2>2, <2>3
<1>3. ASSUME NEW r \in Replicas, Crash(r) PROVE PassInv'
  BY <1>3, CrashEffect
<1>4. ASSUME NEW r \in Replicas, NEW v \in Changes,
             WorkLocal(r, v) \/ WorkDelete(r, v) \/ WorkPublish(r, v) \/ WorkFails(r, v)
      PROVE  PassInv'
  BY <1>4, WithinPassEffect
<1>5. ASSUME NEW r \in Replicas, NEW v \in Changes, EndsWork(r, v), shared' = shared
      PROVE  PassInv'
  BY <1>5, EndsWorkEffect
<1>6. ASSUME NEW r \in Replicas, NEW v \in Changes,
             \/ Retry(r, v) \/ ScheduleSecondPass(r, v) \/ DeleteClaimed(r, v)
             \/ EndFails(r, v)
      PROVE  PassInv'
  BY <1>5, <1>6, RequeueEffect, DeleteEffect DEF EndFails, cacheVars
<1>7. ASSUME NEW r \in Replicas, NEW v \in Changes, Overrun(r, v) PROVE PassInv'
  BY <1>7, OverrunEffect
<1>8. ASSUME Tick PROVE PassInv'
  BY <1>8, TickEffect
<1>9. ASSUME OtherStep PROVE PassInv'
  <2>1. CASE shared' \in {shared, NoEntry}
    BY <1>9, <2>1 DEF OtherStep
  <2>2. CASE shared' \notin {shared, NoEntry}
    <3>1. PICK r \in Servers : load[r].pc = "shared" /\ shared'.v = load[r].v
      BY <1>9, <2>2 DEF OtherStep
    <3>2. load[r].v >= 1 /\ load[r].v \in Nat
      BY <3>1, InvalidationAssumption DEF LookupInv, TypeOK, Versions
    <3>3. ASSUME NEW q \in Replicas, NEW w \in Changes,
                 work[q][w].pc \in {"publish", "finish"}, work[q][w].stage = 1
          PROVE  load[r].v >= w
      <4>1. w \in Nat /\ version \in Nat
        BY InvalidationAssumption DEF TypeOK, Versions, Changes
      <4>2. w <= version
        BY <3>3, <4>1, WorkedIsMade
      <4> QED
        BY <3>1, <3>2, <3>3, <4>1, <4>2 DEF LookupInv
    <3> QED
      BY <1>9, <3>1, <3>3 DEF OtherStep
  <2> QED
    BY <2>1, <2>2
<1> QED
  BY Steps, <1>1, <1>2, <1>3, <1>4, <1>6, <1>7, <1>8, <1>9 DEF PassStep

LEMMA LookupNext ==
  ASSUME InvalidationInv, [Next]_vars
  PROVE  LookupInv'
<1> USE DEF InvalidationInv, LookupInv
<1>0. /\ version \in Nat /\ \A w \in Changes : w \in Nat /\ outbox[w].wait \in Nat
      /\ \A r \in Servers : load[r].v \in Nat /\ load[r].age \in 0..MaxLookup
      /\ SafetyDelay \in Nat /\ MaxLookup \in Nat /\ MaxLookup < SafetyDelay
  BY InvalidationAssumption DEF TypeOK, Versions, Changes
<1>1. ASSUME NEW at, Change(at) PROVE LookupInv'
  <2>1. version' = version + 1 /\ load' = load /\ work' = work
    BY <1>1, ChangeEffect
  <2>2. ASSUME NEW w \in Changes, w >= 2, w = version + 1
        PROVE  /\ outbox'[w].st = "live" /\ outbox'[w].stage = 0
               /\ \A q \in Replicas : work[q][w].pc = "idle"
    <3>1. outbox[w] = NoRow /\ \A q \in Replicas : work[q][w].pc = "idle"
      BY <1>0, <2>2 DEF RowInv
    <3> QED
      BY <1>1, <2>2, <3>1, ChangeEffect DEF NoRow
  <2>3. ASSUME NEW w \in Changes, w # version + 1
        PROVE  outbox'[w] = outbox[w]
    BY <1>1, <2>3, ChangeEffect
  <2>4. \A w \in Changes : w <= version + 1 => w = version + 1 \/ w <= version
    BY <1>0
  <2> QED
    BY <2>1, <2>2, <2>3, <2>4
<1>2. ASSUME NEW r \in Replicas, Claim(r) PROVE LookupInv'
  <2>1. UNCHANGED <<version, load>>
    BY <1>2 DEF Claim, lookupVars
  <2>2. \A w \in Changes :
          /\ outbox'[w].st = outbox[w].st /\ outbox'[w].stage = outbox[w].stage
          /\ outbox'[w].wait = outbox[w].wait
    BY <1>2, ClaimEffect
  <2>3. \A w \in Changes, q \in Replicas : q # r => work'[q][w] = work[q][w]
    BY <1>2, ClaimEffect
  <2>4. \A w \in Changes : work'[r][w].pc # "idle" =>
          outbox[w].wait = 0 /\ work'[r][w].stage = outbox[w].stage
    BY <1>2, ClaimEffect
  <2> QED
    BY <1>0, <2>1, <2>2, <2>3, <2>4
<1>3. ASSUME NEW r \in Replicas, Crash(r) PROVE LookupInv'
  BY <1>3, CrashEffect
<1>4. ASSUME NEW r \in Replicas, NEW v \in Changes,
             WorkLocal(r, v) \/ WorkDelete(r, v) \/ WorkPublish(r, v) \/ WorkFails(r, v)
      PROVE  LookupInv'
  BY <1>4, WithinPassEffect
<1>5. ASSUME NEW r \in Replicas, NEW v \in Changes, Retry(r, v) \/ ScheduleSecondPass(r, v)
      PROVE  LookupInv'
  <2>1. UNCHANGED <<version, load>> /\ EndsWork(r, v) /\ work[r][v].pc # "idle"
    BY <1>5, RequeueEffect
  <2>2. ASSUME NEW w \in Changes, NEW q \in Replicas
        PROVE  work'[q][w].pc = "idle" \/ work'[q][w] = work[q][w]
    BY <2>1, EndsWorkEffect
  <2>3. ASSUME NEW s \in Servers, load[s].pc \in {"local", "shared"}, NEW w \in Changes,
               load[s].v < w, w <= version, w >= 2
        PROVE  /\ outbox'[w].st = "live"
               /\ outbox'[w].stage = 0 \/ outbox'[w].wait + load[s].age >= SafetyDelay
    <3>1. CASE outbox'[w] = outbox[w]
      BY <2>3, <3>1
    <3>2. CASE outbox'[w] # outbox[w]
      <4>1. w = v /\ outbox'[w].st = "live" /\ Owned(r, w)
            /\ (outbox'[w].stage = outbox[w].stage \/ outbox'[w].wait = SafetyDelay)
        BY <1>5, <3>2, RequeueEffect
      <4>2. work[r][w].stage = 0 /\ outbox[w].stage = work[r][w].stage
        BY <2>1, <2>3, <4>1 DEF RowInv, Owned
      <4> QED
        BY <1>0, <4>1, <4>2
    <3> QED
      BY <3>1, <3>2
  <2> QED
    BY <2>1, <2>2, <2>3
<1>6. ASSUME NEW r \in Replicas, NEW v \in Changes, DeleteClaimed(r, v) PROVE LookupInv'
  <2>1. UNCHANGED <<version, load>> /\ EndsWork(r, v)
        /\ work[r][v].pc = "finish" /\ work[r][v].stage = 1
        /\ \A w \in Changes : w # v => outbox'[w] = outbox[w]
    BY <1>6, DeleteEffect
  <2>2. ASSUME NEW w \in Changes, NEW q \in Replicas
        PROVE  work'[q][w].pc = "idle" \/ work'[q][w] = work[q][w]
    BY <2>1, EndsWorkEffect
  <2>3. \A s \in Servers : load[s].pc \in {"local", "shared"} =>
          ~(load[s].v < v /\ v <= version /\ v >= 2)
    BY <2>1
  <2> QED
    BY <2>1, <2>2, <2>3
<1>7. ASSUME NEW r \in Replicas, NEW v \in Changes, EndFails(r, v) PROVE LookupInv'
  <2>1. UNCHANGED <<version, outbox, load>> /\ EndsWork(r, v)
    BY <1>7 DEF EndFails, lookupVars
  <2>2. ASSUME NEW w \in Changes, NEW q \in Replicas
        PROVE  work'[q][w].pc = "idle" \/ work'[q][w] = work[q][w]
    BY <2>1, EndsWorkEffect
  <2> QED
    BY <2>1, <2>2
<1>8. ASSUME NEW r \in Replicas, NEW v \in Changes, Overrun(r, v) PROVE LookupInv'
  BY <1>8, OverrunEffect
<1>9. ASSUME Tick PROVE LookupInv'
  BY <1>0, <1>9, TickEffect
<1>10. ASSUME OtherStep PROVE LookupInv'
  <2>1. CASE load' = load
    BY <1>10, <2>1 DEF OtherStep
  <2>2. CASE load' # load
    <3>1. PICK r \in Servers :
            /\ \A q \in Servers : q # r => load'[q] = load[q]
            /\ \/ load'[r].pc \notin {"local", "shared"}
               \/ load'[r].pc = "local" /\ load'[r].v = version
               \/ /\ load[r].pc = "local" /\ load[r].v # 0
                  /\ load'[r].v = load[r].v /\ load'[r].age = load[r].age
      BY <1>10, <2>2 DEF OtherStep
    <3>2. UNCHANGED <<version, outbox, work>>
      BY <1>10 DEF OtherStep
    <3>3. CASE load'[r].pc \notin {"local", "shared"}
      BY <3>1, <3>2, <3>3
    <3>4. CASE load'[r].pc = "local" /\ load'[r].v = version
      BY <1>0, <3>1, <3>2, <3>4
    <3>5. CASE /\ load[r].pc = "local" /\ load[r].v # 0
               /\ load'[r].v = load[r].v /\ load'[r].age = load[r].age
      <4>1. load'[r].v >= 1
        BY <1>0, <3>5
      <4> QED
        BY <3>1, <3>2, <3>5, <4>1
    <3> QED
      BY <3>1, <3>3, <3>4, <3>5
  <2> QED
    BY <2>1, <2>2
<1> QED
  BY Steps, <1>1, <1>2, <1>3, <1>4, <1>5, <1>6, <1>7, <1>8, <1>9, <1>10 DEF PassStep

\* An entry with a time to live is written with all of it.
LEMMA SetLocalTTL ==
  ASSUME TypeOK, LocalInv, NEW r \in Servers, NEW v, SetLocal(r, v)
  PROVE  LocalInv'
<1> DEFINE late == v < passed
           e == [v |-> v, ttl |-> LocalTTL, late |-> late]
<1>1. local' = [local EXCEPT ![r] = e]
  BY DEF SetLocal
<1>2. e.ttl >= 1
  BY InvalidationAssumption
<1> HIDE DEF e
<1>3. \A q \in Servers : local'[q] = e \/ local'[q] = local[q]
  BY <1>1 DEF TypeOK
<1> QED
  BY <1>2, <1>3 DEF LocalInv

LEMMA LocalNext ==
  ASSUME TypeOK, LocalInv, [Next]_vars
  PROVE  LocalInv'
<1> USE DEF cacheVars, lookupVars, busVars, history
<1>1. ASSUME \A q \in Servers : local'[q] \in {local[q], NoEntry} PROVE LocalInv'
  BY <1>1 DEF LocalInv
<1>2. ASSUME NEW r, ClearLocal(r) PROVE LocalInv'
  BY <1>1, <1>2 DEF ClearLocal, At
<1>3. ASSUME UNCHANGED local PROVE LocalInv'
  BY <1>3 DEF LocalInv
<1>4. ASSUME NEW at, Change(at) PROVE LocalInv'
  BY <1>3, <1>4 DEF Change
<1>5. ASSUME NEW r \in Servers, DirectStep(r) \/ DirectFails(r) PROVE LocalInv'
  BY <1>2, <1>3, <1>5 DEF DirectStep, DirectLocal, DirectDelete, DirectPublish, DirectFails
<1>6. ASSUME NEW r \in Servers, HitLocal(r) PROVE LocalInv'
  BY <1>6, SetLocalTTL DEF HitLocal
<1>7. ASSUME NEW r \in Servers, LoadLocal(r) PROVE LocalInv'
  BY <1>7, SetLocalTTL DEF LoadLocal
<1>8. ASSUME NEW r \in Servers,
             \/ LookupHit(r) \/ LookupMiss(r) \/ LookupFails(r)
             \/ LoadRead(r) \/ LoadShared(r) \/ LoadFails(r)
             \/ Disconnect(r) \/ Reconnect(r)
      PROVE  LocalInv'
  BY <1>3, <1>8 DEF LookupHit, LookupMiss, LookupFails, LoadRead, LoadShared, LoadFails,
                    Disconnect, Reconnect
<1>9. ASSUME NEW r \in Replicas, Claim(r) PROVE LocalInv'
  BY <1>3, <1>9 DEF Claim
<1>10. ASSUME NEW r \in Replicas, Crash(r) PROVE LocalInv'
  BY <1>2, <1>10 DEF Crash
<1>11. ASSUME NEW r \in Replicas, NEW v \in Changes, PassStep(r, v) PROVE LocalInv'
  BY <1>2, <1>3, <1>11
     DEF PassStep, WorkLocal, WorkDelete, WorkPublish, WorkFails, Retry,
         ScheduleSecondPass, DeleteClaimed, EndFails, Overrun
<1>12. ASSUME NEW r \in Servers, Deliver(r) PROVE LocalInv'
  BY <1>2, <1>12 DEF Deliver
<1>13. ASSUME SharedExpires \/ UNCHANGED vars PROVE LocalInv'
  BY <1>3, <1>13 DEF SharedExpires, vars
<1>14. ASSUME Tick PROVE LocalInv'
  <2>1. \A r \in Servers : local'[r] = Aged(local[r])
    BY <1>14 DEF Tick
  <2> QED
    BY <2>1, AgedEntry DEF TypeOK, LocalInv
<1> QED
  BY <1>4, <1>5, <1>6, <1>7, <1>8, <1>9, <1>10, <1>11, <1>12, <1>13, <1>14
     DEF Next, LoadStep, WorkStep, PassStep

-----------------------------------------------------------------------------
(* The theorems *)

\* The invariant is inductive: it says why no pass can end with an old entry left
\* in Redis or a lookup under way that would write one.
THEOREM InvalidationInvariant == Spec => []InvalidationInv
<1>1. Init => InvalidationInv
  <2> SUFFICES ASSUME Init PROVE InvalidationInv
    OBVIOUS
  <2>1. Typed
    BY ConstantTypes, InvalidationAssumption DEF Init, Typed
  <2> QED
    BY <2>1, TypedIsTypeOK, IdleWork
       DEF Init, InvalidationInv, RowInv, SharedInv, LookupInv, PassInv, LocalInv, NoLoad
<1>2. InvalidationInv /\ [Next]_vars => InvalidationInv'
  <2> SUFFICES ASSUME InvalidationInv, [Next]_vars PROVE InvalidationInv'
    OBVIOUS
  <2>1. TypeOK'
    BY TypeNext DEF InvalidationInv
  <2>2. LocalInv'
    BY LocalNext DEF InvalidationInv
  <2> QED
    BY <2>1, <2>2, RowNext, SharedNext, LookupNext, PassNext DEF InvalidationInv
<1> QED
  BY <1>1, <1>2, PTL DEF Spec

\* An entry of Redis that misses a change has the change's row behind it, in every
\* state that workers, lookups, lost claims and crashes can bring about: the second
\* pass comes after every lookup that had read before the first (processEvent,
\* ScheduleSecondPass, loadAuthCacheEntry).
THEOREM StaleEntryIsQueued == Spec => []CacheInv
<1>1. InvalidationInv => CacheInv
  <2> SUFFICES ASSUME InvalidationInv, shared # NoEntry, shared.v < version
               PROVE  Queued(shared.v + 1)
    BY DEF InvalidationInv, CacheInv, SharedStaleIsQueued
  <2>1. shared.v \in Versions /\ version \in Versions
    BY ConstantTypes DEF InvalidationInv, TypeOK
  <2>2. shared.v + 1 \in Changes /\ shared.v < shared.v + 1 /\ shared.v + 1 <= version
    BY <2>1, InvalidationAssumption DEF Versions, Changes
  <2> QED
    BY <2>2 DEF InvalidationInv, SharedInv, Queued
<1> QED
  BY <1>1, InvalidationInvariant, PTL

-----------------------------------------------------------------------------
(* How long a replica may use an old entry *)

\* No time is counted before a row is deleted.  An entry of the replica and what is
\* left of its time to live end within the bound; one read from Redis had a row
\* behind every change it misses; that a key did not exist was read before it was
\* created.
BriefInv ==
  /\ \A w \in Changes : w > version \/ outbox[w].st = "live" => gone[w] = 0
  /\ \A r \in Servers :
       /\ hit[r] # NoHit =>
            /\ hit[r].v >= 1
            /\ \A w \in Changes : hit[r].v < w /\ w <= version =>
                 outbox[w].st = "live" \/ gone[w] <= hit[r].age
       /\ load[r].pc \in {"local", "shared"} /\ load[r].v = 0 =>
            \A w \in Changes : w = 1 => gone[w] <= load[r].age
       /\ local[r] # NoEntry =>
            \A w \in Changes : local[r].v < w /\ w <= version =>
              outbox[w].st = "live" \/ gone[w] + local[r].ttl <= Horizon

\* Steps that at most take something away.
QuietStep ==
  /\ UNCHANGED <<version, gone>>
  /\ \A w \in Changes : outbox'[w].st = outbox[w].st
  /\ \A q \in Servers :
       /\ local'[q] \in {local[q], NoEntry} /\ hit'[q] \in {hit[q], NoHit}
       /\ load'[q] = load[q] \/ load'[q].pc \in {"idle", "miss"}

LEMMA QuietSteps ==
  ASSUME TypeOK, [Next]_vars
  PROVE  \/ QuietStep
         \/ \E at \in SUBSET Servers : Change(at)
         \/ \E r \in Servers : LookupHit(r) \/ HitLocal(r) \/ LoadRead(r) \/ LoadLocal(r)
         \/ \E r \in Replicas, v \in Changes : DeleteClaimed(r, v)
         \/ Tick
<1> USE DEF cacheVars, lookupVars, busVars, history, QuietStep
<1>0. load \in [Servers -> LoadType]
  BY DEF TypeOK, LoadType
<1>1. ASSUME NEW r, ClearLocal(r) PROVE \A q \in Servers : local'[q] \in {local[q], NoEntry}
  BY <1>1 DEF ClearLocal, At
<1>2. ASSUME NEW r \in Servers, DirectStep(r) \/ DirectFails(r) PROVE QuietStep
  BY <1>1, <1>2 DEF DirectStep, DirectLocal, DirectDelete, DirectPublish, DirectFails
<1>3. ASSUME NEW r \in Servers, NEW x \in LoadType, x.pc \in {"idle", "miss"},
             load' = [load EXCEPT ![r] = x]
      PROVE  \A q \in Servers : load'[q] = load[q] \/ load'[q].pc \in {"idle", "miss"}
  BY <1>0, <1>3
<1>4. ASSUME NEW r \in Servers, LookupMiss(r) \/ LookupFails(r) PROVE QuietStep
  <2> DEFINE x == [load[r] EXCEPT !.pc = "miss"]
  <2>1. x \in LoadType /\ x.pc = "miss"
    BY <1>0, LoadEdits DEF LoadType
  <2>2. load' = [load EXCEPT ![r] = x] /\ UNCHANGED <<version, gone, outbox, local, hit>>
    BY <1>4 DEF LookupMiss, LookupFails
  <2> HIDE DEF x
  <2> QED
    BY <1>3, <2>1, <2>2
<1>5. ASSUME NEW r \in Servers, LoadShared(r) \/ LoadFails(r) PROVE QuietStep
  <2>1. NoLoad \in LoadType /\ NoLoad.pc = "idle"
    BY ConstantTypes DEF NoLoad
  <2>2. load' = [load EXCEPT ![r] = NoLoad] /\ UNCHANGED <<version, gone, outbox, local, hit>>
    BY <1>5 DEF LoadShared, LoadFails
  <2> QED
    BY <1>3, <2>1, <2>2
<1>6. ASSUME NEW r \in Servers, Deliver(r) \/ Disconnect(r) \/ Reconnect(r) PROVE QuietStep
  BY <1>1, <1>6 DEF Deliver, Disconnect, Reconnect
<1>7. ASSUME NEW r \in Replicas, Claim(r) PROVE QuietStep
  <2>1. UNCHANGED <<version, gone, local, hit, load>>
    BY <1>7 DEF Claim
  <2> QED
    BY <1>7, <2>1, ClaimEffect
<1>8. ASSUME NEW r \in Replicas, Crash(r) PROVE QuietStep
  BY <1>1, <1>8 DEF Crash, At, NoLoad
<1>9. ASSUME NEW r \in Replicas, NEW v \in Changes,
             \/ WorkLocal(r, v) \/ WorkDelete(r, v) \/ WorkPublish(r, v)
             \/ WorkFails(r, v) \/ EndFails(r, v)
      PROVE  QuietStep
  BY <1>1, <1>9 DEF WorkLocal, WorkDelete, WorkPublish, WorkFails, EndFails
<1>10. ASSUME NEW r \in Replicas, NEW v \in Changes, Retry(r, v) \/ ScheduleSecondPass(r, v)
       PROVE  QuietStep
  <2>1. UNCHANGED <<version, gone, local, hit, load>>
    BY <1>10 DEF Retry, ScheduleSecondPass
  <2> QED
    BY <1>10, <2>1, RequeueEffect DEF Owned
<1>11. ASSUME NEW r \in Replicas, NEW v \in Changes, Overrun(r, v) PROVE QuietStep
  <2>1. UNCHANGED <<version, gone, local, hit, load>>
    BY <1>11 DEF Overrun
  <2> QED
    BY <1>11, <2>1, OverrunEffect
<1>12. ASSUME SharedExpires \/ UNCHANGED vars PROVE QuietStep
  BY <1>12 DEF SharedExpires, vars
<1>13. \A r \in Servers : {r} \in SUBSET Servers
  OBVIOUS
<1> QED
  BY <1>2, <1>4, <1>5, <1>6, <1>7, <1>8, <1>9, <1>10, <1>11, <1>12, <1>13
     DEF Next, LoadStep, WorkStep

\* What SetLocal stores.
LEMMA SetLocalEffect ==
  ASSUME TypeOK, NEW r \in Servers, NEW v, SetLocal(r, v)
  PROVE  /\ local'[r].v = v /\ local'[r].ttl = LocalTTL /\ local'[r].late = (v < passed)
         /\ \A q \in Servers : q # r => local'[q] = local[q]
<1> DEFINE late == v < passed
           e == [v |-> v, ttl |-> LocalTTL, late |-> late]
<1>1. local' = [local EXCEPT ![r] = e]
  BY DEF SetLocal
<1>2. e.v = v /\ e.ttl = LocalTTL /\ e.late = late
  OBVIOUS
<1> HIDE DEF e
<1>3. local'[r] = e /\ \A q \in Servers : q # r => local'[q] = local[q]
  BY <1>1 DEF TypeOK
<1> QED
  BY <1>2, <1>3

LEMMA AgedFields ==
  ASSUME NEW e \in Entries, e # NoEntry, Aged(e) # NoEntry
  PROVE  Aged(e).v = e.v /\ Aged(e).late = e.late /\ Aged(e).ttl = e.ttl - 1
<1>1. e \in [v : Versions, ttl : 0..LocalTTL, late : BOOLEAN]
  BY DEF Entries
<1>2. Aged(e) = [e EXCEPT !.ttl = e.ttl - 1]
  BY DEF Aged
<1> QED
  BY <1>1, <1>2

LEMMA BriefNext ==
  ASSUME InvalidationInv, BriefInv, [Next]_vars
  PROVE  BriefInv'
<1> USE DEF BriefInv, cacheVars, lookupVars, busVars, history
<1>0. /\ version \in Nat /\ \A w \in Changes : w \in Nat /\ w >= 1 /\ gone[w] \in Nat
      /\ \A r \in Servers : load[r].v \in Nat /\ load[r].age \in 0..MaxLookup
      /\ \A r \in Servers : local[r] # NoEntry => local[r].v \in Nat /\ local[r].ttl \in 0..LocalTTL
      /\ \A r \in Servers : hit[r].v \in Nat /\ hit[r].age \in 0..MaxLookup
      /\ LocalTTL \in Nat /\ MaxLookup \in Nat /\ Horizon = LocalTTL + MaxLookup
  BY ConstantTypes, InvalidationAssumption
     DEF InvalidationInv, TypeOK, Versions, Changes, Horizon
<1>00. TypeOK
  BY DEF InvalidationInv
<1>1. ASSUME QuietStep PROVE BriefInv'
  BY <1>1 DEF QuietStep
<1>2. ASSUME NEW at, Change(at) PROVE BriefInv'
  <2>1. version' = version + 1 /\ UNCHANGED <<local, hit, load, gone>>
    BY <1>2 DEF Change
  <2>2. \A w \in Changes : outbox'[w] = outbox[w] \/ (w = version + 1 /\ outbox'[w].st = "live")
    BY <1>00, <1>2, ChangeEffect
  <2>3. \A w \in Changes : w > version => gone[w] = 0
    OBVIOUS
  <2>4. \A w \in Changes : w <= version + 1 => w <= version \/ w = version + 1
    BY <1>0
  <2>5. \A w \in Changes : w > version + 1 => w > version
    BY <1>0
  <2>6. \A r \in Servers, w \in Changes : local[r] # NoEntry /\ w = version + 1 =>
          gone[w] + local[r].ttl <= Horizon
    BY <1>0, <2>3
  <2>7. \A w \in Changes : w > version' \/ outbox'[w].st = "live" => gone'[w] = 0
    BY <1>0, <2>1, <2>2, <2>3, <2>5
  <2> QED
    BY <1>0, <2>1, <2>2, <2>3, <2>4, <2>6, <2>7
<1>3. ASSUME NEW r \in Servers, LookupHit(r) PROVE BriefInv'
  <2>1. /\ hit' = [hit EXCEPT ![r] = [v |-> shared.v, age |-> 0]]
        /\ shared # NoEntry /\ UNCHANGED <<version, outbox, local, load, gone>>
    BY <1>3 DEF LookupHit
  <2>2. hit'[r].v = shared.v /\ hit'[r].age = 0 /\ \A q \in Servers : q # r => hit'[q] = hit[q]
    BY <1>00, <2>1 DEF TypeOK
  <2>3. shared # NoEntry => shared.v >= 1 /\ \A w \in Changes :
          shared.v < w /\ w <= version => outbox[w].st = "live"
    BY DEF InvalidationInv, SharedInv
  <2> QED
    BY <2>1, <2>2, <2>3
<1>4. ASSUME NEW r \in Servers, HitLocal(r) PROVE BriefInv'
  <2>1. /\ local'[r].v = hit[r].v /\ local'[r].ttl = LocalTTL
        /\ \A q \in Servers : q # r => local'[q] = local[q]
    BY <1>00, <1>4, SetLocalEffect DEF HitLocal
  <2>2. hit[r] # NoHit /\ UNCHANGED <<version, outbox, load, gone>>
        /\ hit' = [hit EXCEPT ![r] = NoHit]
    BY <1>4 DEF HitLocal
  <2>3. \A q \in Servers : hit'[q] \in {hit[q], NoHit}
    BY <1>00, <2>2 DEF TypeOK
  <2>4. \A w \in Changes : hit[r].v < w /\ w <= version =>
          outbox[w].st = "live" \/ gone[w] + LocalTTL <= Horizon
    BY <1>0, <2>2
  <2> QED
    BY <2>1, <2>2, <2>3, <2>4
<1>5. ASSUME NEW r \in Servers, LoadRead(r) PROVE BriefInv'
  <2>1. load'[r] = [pc |-> "local", v |-> version, age |-> 0]
        /\ UNCHANGED <<version, outbox, local, hit, gone>>
        /\ \A q \in Servers : q # r => load'[q] = load[q]
    BY <1>00, <1>5 DEF LoadRead, TypeOK
  <2>2. version = 0 => \A w \in Changes : w = 1 => gone[w] <= 0
    BY <1>0
  <2> QED
    BY <2>1, <2>2
<1>6. ASSUME NEW r \in Servers, LoadLocal(r) PROVE BriefInv'
  <2>1. /\ local'[r].v = load[r].v /\ local'[r].ttl = LocalTTL
        /\ \A q \in Servers : q # r => local'[q] = local[q]
    BY <1>00, <1>6, SetLocalEffect DEF LoadLocal
  <2>2. load[r].pc = "local" /\ UNCHANGED <<version, outbox, hit, gone>>
    BY <1>6 DEF LoadLocal
  <2>3. \A q \in Servers : /\ load'[q].pc \in {"local", "shared"} =>
                                load[q].pc \in {"local", "shared"}
                           /\ load'[q].pc \in {"local", "shared"} =>
                                load'[q].v = load[q].v /\ load'[q].age = load[q].age
    BY <1>00, <1>6 DEF LoadLocal, TypeOK, NoLoad
  <2>4. \A w \in Changes : load[r].v < w /\ w <= version /\ w >= 2 => outbox[w].st = "live"
    BY <2>2 DEF InvalidationInv, LookupInv
  <2>5. \A w \in Changes : load[r].v < w /\ w = 1 => gone[w] + LocalTTL <= Horizon
    BY <1>0, <2>2
  <2>6. \A w \in Changes : load[r].v < w /\ w <= version =>
          outbox[w].st = "live" \/ gone[w] + LocalTTL <= Horizon
    BY <1>0, <2>4, <2>5
  <2> QED
    BY <2>1, <2>2, <2>3, <2>6
<1>7. ASSUME NEW r \in Replicas, NEW v \in Changes, DeleteClaimed(r, v) PROVE BriefInv'
  <2>1. UNCHANGED <<version, local, hit, load, gone>>
    BY <1>7 DEF DeleteClaimed
  <2>2. \A w \in Changes : outbox'[w] = outbox[w] \/ (w = v /\ outbox[w].st = "live")
    BY <1>00, <1>7, DeleteEffect DEF Owned
  <2>3. outbox'[v] = outbox[v] \/ (v <= version /\ outbox'[v].st = "gone")
    <3>1. Owned(r, v) => v <= version
      BY <1>0, WorkedIsMade DEF InvalidationInv
    <3>2. Owned(r, v) => outbox'[v].st = "gone"
      BY <1>00, <1>7 DEF DeleteClaimed, TypeOK, NoRow
    <3>3. ~Owned(r, v) => outbox' = outbox
      BY <1>7 DEF DeleteClaimed
    <3> QED
      BY <3>1, <3>2, <3>3
  <2>4. \A q \in Servers, w \in Changes : local[q] # NoEntry /\ outbox[w].st = "live" =>
          gone[w] + local[q].ttl <= Horizon
    BY <1>0
  <2>5. \A w \in Changes : w > version \/ outbox'[w].st = "live" => gone[w] = 0
    BY <2>2
  <2>6. \A q \in Servers, w \in Changes : outbox[w].st = "live" => gone[w] <= hit[q].age
    BY <1>0
  <2> QED
    BY <2>1, <2>2, <2>4, <2>5, <2>6
<1>8. ASSUME Tick PROVE BriefInv'
  <2>1. /\ version' = version
        /\ \A r \in Servers : local'[r] = Aged(local[r])
        /\ \A w \in Changes : gone'[w] =
             IF w <= version /\ outbox[w].st # "live" /\ gone[w] < Horizon
             THEN gone[w] + 1 ELSE gone[w]
    BY <1>8 DEF Tick
  <2>2. \A w \in Changes : outbox'[w].st = outbox[w].st
    BY <1>00, <1>8, TickEffect
  <2>3. ASSUME NEW w \in Changes, w > version' \/ outbox'[w].st = "live" PROVE gone'[w] = 0
    BY <1>0, <2>1, <2>2, <2>3
  <2>4. ASSUME NEW r \in Servers, load'[r].pc \in {"local", "shared"}, load'[r].v = 0,
               NEW w \in Changes, w = 1
        PROVE  gone'[w] <= load'[r].age
    <3>1. load[r].pc \in {"local", "shared"} /\ load[r].v = 0
          /\ load'[r].age = load[r].age + 1
      BY <1>00, <1>8, <2>4, TickEffect
    <3>2. gone[w] <= load[r].age
      BY <2>4, <3>1
    <3>3. gone'[w] <= gone[w] + 1
      BY <1>0, <2>1
    <3> QED
      BY <1>0, <2>1, <3>1, <3>2, <3>3
  <2>5. ASSUME NEW r \in Servers, local'[r] # NoEntry, NEW w \in Changes,
               local'[r].v < w, w <= version, outbox[w].st # "live"
        PROVE  gone'[w] + local'[r].ttl <= Horizon
    <3>1. Aged(local[r]) # NoEntry /\ local[r] # NoEntry /\ local[r] \in Entries
      BY <1>00, <2>1, <2>5 DEF Aged, TypeOK
    <3>2. local'[r].v = local[r].v /\ local'[r].ttl = local[r].ttl - 1
      BY <2>1, <3>1, AgedFields
    <3>3. gone[w] + local[r].ttl <= Horizon
      BY <2>5, <3>1, <3>2
    <3>4. gone'[w] <= gone[w] + 1 /\ gone'[w] \in Nat
      BY <1>0, <2>1
    <3> QED
      BY <1>0, <3>1, <3>2, <3>3, <3>4
  <2>6. ASSUME NEW r \in Servers, hit'[r] # NoHit
        PROVE  /\ hit'[r].v >= 1
               /\ \A w \in Changes : hit'[r].v < w /\ w <= version =>
                    outbox[w].st = "live" \/ gone'[w] <= hit'[r].age
    <3>1. hit[r] # NoHit /\ hit[r].age < MaxLookup /\ hit'[r] = [hit[r] EXCEPT !.age = @ + 1]
      BY <1>8, <2>6 DEF Tick
    <3>2. hit'[r].v = hit[r].v /\ hit'[r].age = hit[r].age + 1
      BY <1>00, <3>1, HitEdits DEF TypeOK, HitType
    <3>3. \A w \in Changes : gone'[w] <= gone[w] + 1 /\ gone'[w] \in Nat
      BY <1>0, <2>1
    <3> QED
      BY <1>0, <3>1, <3>2, <3>3
  <2> QED
    BY <2>1, <2>2, <2>3, <2>4, <2>5, <2>6
<1> QED
  BY <1>00, QuietSteps, <1>1, <1>2, <1>3, <1>4, <1>5, <1>6, <1>7, <1>8

\* A revoked key is accepted by a replica for less than the local time to live and
\* the time of a lookup after the second pass, whatever messages to it were lost
\* (setAuthCacheL1, getAuthCacheEntry, processEvent).
THEOREM LocalEntriesAreBrief == Spec => []LocalStaleIsBrief
<1>1. Init => BriefInv
  BY InvalidationAssumption DEF Init, BriefInv, NoRow, NoLoad, NoHit, Changes
<1>2. InvalidationInv /\ BriefInv /\ [Next]_vars => BriefInv'
  BY BriefNext
<1>3. InvalidationInv /\ BriefInv => LocalStaleIsBrief
  <2> SUFFICES ASSUME InvalidationInv, BriefInv, NEW r \in Servers, local[r] # NoEntry,
                      local[r].v < version, ~Queued(local[r].v + 1)
               PROVE  gone[local[r].v + 1] < Horizon
    BY DEF LocalStaleIsBrief
  <2> DEFINE w == local[r].v + 1
  <2>1. local[r].v \in Versions /\ version \in Versions /\ local[r].ttl \in 0..LocalTTL
    BY ConstantTypes DEF InvalidationInv, TypeOK
  <2>2. w \in Changes /\ local[r].v < w /\ w <= version
    BY <2>1, InvalidationAssumption DEF Versions, Changes
  <2>3. gone[w] \in 0..Horizon
    BY <2>2 DEF InvalidationInv, TypeOK
  <2>4. gone[w] + local[r].ttl <= Horizon
    BY <2>2 DEF BriefInv, Queued
  <2>5. local[r].ttl >= 1
    BY DEF InvalidationInv, LocalInv
  <2> QED
    BY <2>1, <2>2, <2>3, <2>4, <2>5, InvalidationAssumption DEF Horizon
<1> QED
  BY <1>1, <1>2, <1>3, InvalidationInvariant, PTL DEF Spec

-----------------------------------------------------------------------------
(* What a published change leaves behind *)

\* Redis is deleted before the change is published, and what is stored there later
\* is marked as late.
CutInv ==
  /\ passed <= cut
  /\ \A q \in Replicas, w \in Changes : work[q][w].pc = "publish" => w <= cut
  /\ shared # NoEntry /\ shared.v < cut => shared.late

HeardInv ==
  \A r \in Servers :
    local[r] # NoEntry /\ local[r].v < passed => local[r].late \/ mail[r] \/ r \in deaf

LEMMA CutNext ==
  ASSUME TypeOK, CutInv, [Next]_vars
  PROVE  CutInv'
<1> USE DEF CutInv, cacheVars, lookupVars, busVars, history
<1>0. /\ cut \in Nat /\ passed \in Nat /\ \A w \in Changes : w \in Nat
      /\ \A r \in Servers : load[r].v \in Nat
  BY InvalidationAssumption DEF TypeOK, Versions, Changes
<1>1. ASSUME UNCHANGED <<cut, passed>>, shared' \in {shared, NoEntry},
             \A q \in Replicas, w \in Changes :
               work'[q][w] = work[q][w] \/ work'[q][w].pc # "publish"
      PROVE  CutInv'
  BY <1>1
<1>2. ASSUME NEW at, Change(at) PROVE CutInv'
  BY <1>1, <1>2 DEF Change
<1>3. ASSUME NEW r \in Servers,
             \/ DirectStep(r) \/ DirectFails(r) \/ LookupHit(r) \/ LookupMiss(r)
             \/ LookupFails(r) \/ HitLocal(r) \/ LoadRead(r) \/ LoadLocal(r) \/ LoadFails(r)
             \/ Deliver(r) \/ Disconnect(r) \/ Reconnect(r)
      PROVE  CutInv'
  BY <1>1, <1>3
     DEF DirectStep, DirectLocal, DirectDelete, DirectPublish, DirectFails, LookupHit,
         LookupMiss, LookupFails, HitLocal, LoadRead, LoadLocal, LoadFails, Deliver,
         Disconnect, Reconnect
<1>4. ASSUME NEW r \in Servers, LoadShared(r) PROVE CutInv'
  <2> DEFINE late == load[r].v < cut
  <2>1. shared' = [v |-> load[r].v, ttl |-> 0, late |-> late]
        /\ UNCHANGED <<cut, passed, work>>
    BY <1>4 DEF LoadShared
  <2>2. shared'.v = load[r].v /\ shared'.late = late
    BY <2>1
  <2> QED
    BY <2>1, <2>2
<1>5. ASSUME NEW r \in Replicas, Claim(r) PROVE CutInv'
  <2>1. UNCHANGED <<cut, passed, shared>>
    BY <1>5 DEF Claim
  <2>2. \A w \in Changes : work'[r][w].pc # "publish"
    BY <1>5, ClaimEffect
  <2>3. \A q \in Replicas, w \in Changes : q # r => work'[q][w] = work[q][w]
    BY <1>5, ClaimEffect
  <2> QED
    BY <1>1, <2>1, <2>2, <2>3
<1>6. ASSUME NEW r \in Replicas, Crash(r) PROVE CutInv'
  <2>1. UNCHANGED <<cut, passed, shared>>
    BY <1>6 DEF Crash
  <2> QED
    BY <1>1, <1>6, <2>1, CrashEffect
<1>7. ASSUME NEW r \in Replicas, NEW v \in Changes, WorkLocal(r, v) \/ WorkFails(r, v)
      PROVE  CutInv'
  <2>1. UNCHANGED <<cut, passed>> /\ work'[r][v].pc # "publish"
        /\ \A q \in Replicas, w \in Changes : q # r \/ w # v => work'[q][w] = work[q][w]
    BY <1>7, WorkStepUpdate DEF WorkLocal, WorkFails
  <2>2. shared' \in {shared, NoEntry}
    BY <1>7, WithinPassEffect
  <2> QED
    BY <1>1, <2>1, <2>2
<1>8. ASSUME NEW r \in Replicas, NEW v \in Changes, WorkDelete(r, v) PROVE CutInv'
  <2>1. cut' = Later(cut, v) /\ passed' = passed /\ shared' = NoEntry
    BY <1>8 DEF WorkDelete
  <2>2. \A q \in Replicas, w \in Changes : q # r \/ w # v => work'[q][w] = work[q][w]
    BY <1>8, WithinPassEffect
  <2>3. cut <= cut' /\ v <= cut' /\ cut' \in Nat
    BY <1>0, <2>1 DEF Later
  <2>4. passed' <= cut'
    BY <1>0, <2>1, <2>3
  <2>5. \A q \in Replicas, w \in Changes : work'[q][w].pc = "publish" => w <= cut'
    BY <1>0, <2>2, <2>3
  <2> QED
    BY <2>1, <2>4, <2>5
<1>9. ASSUME NEW r \in Replicas, NEW v \in Changes, WorkPublish(r, v) PROVE CutInv'
  <2>1. passed' = Later(passed, v) /\ UNCHANGED <<cut, shared>> /\ work[r][v].pc = "publish"
    BY <1>9 DEF WorkPublish
  <2>2. work'[r][v].pc = "finish"
        /\ \A q \in Replicas, w \in Changes : q # r \/ w # v => work'[q][w] = work[q][w]
    BY <1>9, WorkStepUpdate DEF WorkPublish
  <2>3. v <= cut /\ passed' <= cut
    BY <2>1 DEF Later
  <2> QED
    BY <2>1, <2>2, <2>3
<1>10. ASSUME NEW r \in Replicas, NEW v \in Changes,
              \/ Retry(r, v) \/ ScheduleSecondPass(r, v) \/ DeleteClaimed(r, v)
              \/ EndFails(r, v)
       PROVE  CutInv'
  <2>1. UNCHANGED <<cut, passed, shared>> /\ EndsWork(r, v)
    BY <1>10 DEF Retry, ScheduleSecondPass, DeleteClaimed, EndFails
  <2>2. \A q \in Replicas, w \in Changes :
          work'[q][w] = work[q][w] \/ work'[q][w].pc # "publish"
    BY <2>1, EndsWorkEffect
  <2> QED
    BY <1>1, <2>1, <2>2
<1>11. ASSUME NEW r \in Replicas, NEW v \in Changes, Overrun(r, v) PROVE CutInv'
  BY <1>1, <1>11 DEF Overrun
<1>12. ASSUME SharedExpires \/ Tick \/ UNCHANGED vars PROVE CutInv'
  BY <1>1, <1>12 DEF SharedExpires, Tick, vars
<1> QED
  BY <1>2, <1>3, <1>4, <1>5, <1>6, <1>7, <1>8, <1>9, <1>10, <1>11, <1>12
     DEF Next, LoadStep, WorkStep

LEMMA HeardNext ==
  ASSUME TypeOK, HeardInv, [Next]_vars
  PROVE  HeardInv'
<1> USE DEF HeardInv, cacheVars, lookupVars, busVars, history
<1>0. /\ passed \in Nat /\ \A r \in Servers : mail[r] \in BOOLEAN /\ subscribed[r] \in BOOLEAN
  BY InvalidationAssumption DEF TypeOK, Versions
<1>1. ASSUME UNCHANGED <<local, passed>>,
             \A q \in Servers : mail[q] => mail'[q] \/ q \in deaf', deaf \subseteq deaf'
      PROVE  HeardInv'
  BY <1>1
<1>2. ASSUME UNCHANGED <<local, passed, mail, deaf>> PROVE HeardInv'
  BY <1>2
<1>3. ASSUME NEW r, ClearLocal(r), passed' = passed,
             \A q \in Servers : q # r => mail'[q] = mail[q]
      PROVE  HeardInv'
  BY <1>3 DEF ClearLocal, At
<1>4. ASSUME NEW r \in Servers, NEW v, SetLocal(r, v), UNCHANGED <<passed, mail, deaf>>
      PROVE  HeardInv'
  BY <1>4, SetLocalEffect
<1>5. ASSUME NEW at, Change(at) PROVE HeardInv'
  BY <1>2, <1>5 DEF Change
<1>6. ASSUME NEW r \in Servers,
             \/ DirectDelete(r) \/ DirectFails(r) \/ LookupHit(r) \/ LookupMiss(r)
             \/ LookupFails(r) \/ LoadRead(r) \/ LoadShared(r) \/ LoadFails(r) \/ Reconnect(r)
      PROVE  HeardInv'
  BY <1>2, <1>6 DEF DirectDelete, DirectFails, LookupHit, LookupMiss, LookupFails,
                    LoadRead, LoadShared, LoadFails, Reconnect
<1>7. ASSUME NEW r \in Servers, DirectLocal(r) PROVE HeardInv'
  BY <1>3, <1>7 DEF DirectLocal
<1>8. ASSUME NEW r \in Servers, DirectPublish(r) PROVE HeardInv'
  BY <1>0, <1>1, <1>8 DEF DirectPublish, Publish
<1>9. ASSUME NEW r \in Servers, HitLocal(r) PROVE HeardInv'
  BY <1>4, <1>9 DEF HitLocal
<1>10. ASSUME NEW r \in Servers, LoadLocal(r) PROVE HeardInv'
  BY <1>4, <1>10 DEF LoadLocal
<1>11. ASSUME NEW r \in Replicas, Claim(r) PROVE HeardInv'
  BY <1>2, <1>11 DEF Claim
<1>12. ASSUME NEW r \in Replicas, Crash(r) PROVE HeardInv'
  BY <1>3, <1>12 DEF Crash, At
<1>13. ASSUME NEW r \in Replicas, NEW v \in Changes, WorkLocal(r, v) PROVE HeardInv'
  BY <1>3, <1>13 DEF WorkLocal
<1>14. ASSUME NEW r \in Replicas, NEW v \in Changes, WorkPublish(r, v) PROVE HeardInv'
  <2>1. \A q \in Servers : mail'[q] \/ q \in deaf'
    BY <1>0, <1>14 DEF WorkPublish, Publish
  <2> QED
    BY <2>1
<1>15. ASSUME NEW r \in Replicas, NEW v \in Changes,
              \/ WorkDelete(r, v) \/ WorkFails(r, v) \/ Retry(r, v)
              \/ ScheduleSecondPass(r, v) \/ DeleteClaimed(r, v) \/ EndFails(r, v)
              \/ Overrun(r, v)
       PROVE  HeardInv'
  BY <1>2, <1>15 DEF WorkDelete, WorkFails, Retry, ScheduleSecondPass, DeleteClaimed,
                     EndFails, Overrun
<1>16. ASSUME NEW r \in Servers, Deliver(r) PROVE HeardInv'
  <2>1. \A q \in Servers : q # r => mail'[q] = mail[q]
    BY <1>16 DEF Deliver, TypeOK
  <2> QED
    BY <1>3, <1>16, <2>1 DEF Deliver
<1>17. ASSUME NEW r \in Servers, Disconnect(r) PROVE HeardInv'
  <2>1. \A q \in Servers : q # r => mail'[q] = mail[q]
    BY <1>17 DEF Disconnect, TypeOK
  <2>2. deaf \subseteq deaf' /\ (mail[r] => r \in deaf')
    BY <1>17 DEF Disconnect
  <2> QED
    BY <1>1, <1>17, <2>1, <2>2 DEF Disconnect
<1>18. ASSUME Tick PROVE HeardInv'
  <2>1. /\ UNCHANGED <<passed, mail>> /\ deaf' = {q \in deaf : local'[q] # NoEntry}
        /\ \A q \in Servers : local'[q] = Aged(local[q])
    BY <1>18 DEF Tick
  <2>2. ASSUME NEW q \in Servers, local'[q] # NoEntry
        PROVE  /\ local[q] # NoEntry /\ local'[q].v = local[q].v
               /\ local'[q].late = local[q].late
    BY <2>1, <2>2, AgedFields DEF Aged, TypeOK
  <2> QED
    BY <2>1, <2>2
<1>19. ASSUME SharedExpires \/ UNCHANGED vars PROVE HeardInv'
  BY <1>2, <1>19 DEF SharedExpires, vars
<1> QED
  BY <1>5, <1>6, <1>7, <1>8, <1>9, <1>10, <1>11, <1>12, <1>13, <1>14, <1>15, <1>16, <1>17,
     <1>18, <1>19 DEF Next, DirectStep, LoadStep, WorkStep

\* Once a change has been published, an entry without it was stored by a lookup that
\* had read before, or on a replica that has yet to get or has missed the message:
\* none was copied from Redis afterwards (processEvent, deleteAuthCache).
THEOREM PublishedEntriesAreFresh == Spec => []PublishedMeansFresh
<1>1. Init => CutInv /\ HeardInv
  BY DEF Init, CutInv, HeardInv, NoWork
<1>2. TypeOK /\ CutInv /\ HeardInv /\ [Next]_vars => CutInv' /\ HeardInv'
  BY CutNext, HeardNext
<1>3. TypeOK /\ CutInv /\ HeardInv => PublishedMeansFresh
  <2> SUFFICES ASSUME TypeOK, CutInv, HeardInv, shared # NoEntry, shared.v < passed
               PROVE  shared.late
    BY DEF PublishedMeansFresh, HeardInv
  <2>1. shared.v \in Nat /\ passed \in Nat /\ cut \in Nat
    BY ConstantTypes, InvalidationAssumption DEF TypeOK, Versions
  <2> QED
    BY <2>1 DEF CutInv
<1>4. InvalidationInv => TypeOK
  BY DEF InvalidationInv
<1> QED
  BY <1>1, <1>2, <1>3, <1>4, InvalidationInvariant, PTL DEF Spec

=============================================================================
