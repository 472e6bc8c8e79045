--------------------------- MODULE SchedulerOutbox ---------------------------
(***************************************************************************)
(* How a change of an account reaches the scheduler's cache.  A writer     *)
(* changes the account in the database and inserts a row into              *)
(* scheduler_outbox; on every replica a poller reads the rows above the    *)
(* watermark in Redis, reloads the account of each, writes it to the cache *)
(* and rebuilds its buckets, then moves the watermark and deletes what is  *)
(* behind it.  An insert takes its id when it runs and is seen when its    *)
(* transaction commits: ids are not committed in their order.  Some        *)
(* writers also write the cache themselves, and an interval rebuild        *)
(* rewrites all of it.                                                     *)
(*                                                                         *)
(* An account is its version: the number of changes committed.  late and   *)
(* lost are history: the rows that were not committed when a poll returned *)
(* a higher id, and the other ways in which an event was lost.             *)
(***************************************************************************)
EXTENDS Integers, FiniteSets

CONSTANTS
  Accounts,
  Writers,    \* concurrent changes of accounts
  Replicas,   \* replicas, each with its outbox worker
  Schedulable,\* versions in which an account can be scheduled
  Limit,      \* LIMIT of ListAfterAndReleaseDedup
  MaxId,      \* bound: rows inserted, and so changes of accounts
  MaxAborts   \* bound: polls and rebuilds that fail

ASSUME OutboxAssumption ==
  /\ Accounts # {} /\ Schedulable \subseteq Nat
  /\ Limit \in Nat \ {0} /\ MaxId \in Nat /\ MaxAborts \in Nat

VARIABLES
  db,         \* the committed version of each account
  cache,      \* the version of each account in the scheduler cache
  row,        \* scheduler_outbox: acct, keyed (dedup_key IS NOT NULL),
              \*   st (none, open, live, gone)
  nextId,     \* the sequence of scheduler_outbox.id
  watermark,  \* sched:outbox:watermark
  wr,         \* of a writer: where it is in its update
  po,         \* of a poller: where it is in pollOutbox
  reload,     \* of an account: the version another writer has loaded, or -1
  aborts,     \* bound: failures so far
  late,       \* history: rows not committed when a poll returned a higher id
  handled,    \* history: rows whose event a poller has handled
  lost        \* history: how events were lost or overwritten

history == <<late, handled, lost>>
outboxVars == <<db, cache, row, nextId, watermark, wr, po, reload, aborts, history>>

Ids == 1..MaxId
Versions == 0..MaxId
Causes == {"unsent",     \* the insert failed and the change stood
           "swallowed",  \* dropped for a row handled before the commit
           "stale"}      \* an older version written over a newer one

NoRow == [acct |-> CHOOSE a \in Accounts : TRUE, keyed |-> FALSE,
          st |-> "none"]
IdleWriter == [pc |-> "idle", tx |-> FALSE, acct |-> NoRow.acct,
               keyed |-> FALSE, id |-> 0, by |-> 0]
IdlePoller == [pc |-> "idle", last |-> 0, batch |-> {}, val |-> 0]

OutboxTypeOK ==
  /\ db \in [Accounts -> Versions] /\ cache \in [Accounts -> Versions]
  /\ row \in [Ids -> [acct : Accounts, keyed : BOOLEAN,
                      st : {"none", "open", "live", "gone"}]]
  /\ nextId \in 1..(MaxId + 1)
  /\ watermark \in 0..MaxId
  /\ wr \in [Writers -> [pc : {"idle", "enqueue", "commit"},
                         tx : BOOLEAN, acct : Accounts, keyed : BOOLEAN,
                         id : 0..MaxId, by : 0..MaxId]]
  /\ po \in [Replicas -> [pc : {"idle", "list", "load", "store",
                               "advance", "clean"},
                         last : 0..MaxId, batch : SUBSET Ids, val : Versions]]
  /\ reload \in [Accounts -> Versions \cup {-1}]
  /\ aborts \in 0..MaxAborts
  /\ late \subseteq Ids /\ handled \subseteq Ids /\ lost \subseteq Causes

OutboxInit ==
  /\ db = [a \in Accounts |-> 0] /\ cache = db
  /\ row = [i \in Ids |-> NoRow] /\ nextId = 1
  /\ watermark = 0
  /\ wr = [w \in Writers |-> IdleWriter]
  /\ po = [p \in Replicas |-> IdlePoller]
  /\ reload = [a \in Accounts |-> -1]
  /\ aborts = 0
  /\ late = {} /\ handled = {} /\ lost = {}

\* schedulerCache.SetAccount, and the accounts part of SetSnapshot: the
\* payload is written as it was read, whatever the cache holds by now.
SetAccount(a, v) ==
  /\ cache' = [cache EXCEPT ![a] = v]
  /\ lost' = lost \cup {c \in {"stale"} : v < cache[a]}

(***************************************************************************)
(* The writers: transactions that change an account and insert the event   *)
(* together, and calls that commit the change first and then insert.       *)
(***************************************************************************)

\* A transaction keeps the account's row locked until it ends.
RowLocked(a) ==
  \E w \in Writers : wr[w].tx /\ wr[w].acct = a /\ wr[w].pc \in {"enqueue", "commit"}

\* The bound on the rows, those about to be inserted included.
RoomForRow == nextId + Cardinality({w \in Writers : wr[w].pc = "enqueue"}) <= MaxId

Update(w, a, tx, keyed) ==
  /\ wr[w].pc = "idle" /\ ~RowLocked(a) /\ RoomForRow
  /\ wr' = [wr EXCEPT ![w] = [IdleWriter EXCEPT
              !.pc = "enqueue", !.tx = tx, !.acct = a, !.keyed = keyed]]
  /\ db' = IF tx THEN db ELSE [db EXCEPT ![a] = @ + 1]
  /\ UNCHANGED <<cache, row, nextId, watermark, po, reload, aborts, history>>

Keyed(a, st) == {i \in Ids : row[i].acct = a /\ row[i].keyed /\ row[i].st = st}

\* INSERT ... ON CONFLICT (dedup_key) DO NOTHING: a committed row with the key
\* takes the event in (the sequence's id is used up all the same), an
\* uncommitted one is waited for.
EnqueueSwallowed(w) ==
  LET a == wr[w].acct IN
  /\ wr[w].pc = "enqueue" /\ wr[w].keyed
  /\ \E k \in Keyed(a, "live") :
       wr' = [wr EXCEPT ![w].pc = "commit", ![w].by = k]
  /\ nextId' = nextId + 1
  /\ UNCHANGED <<db, cache, row, watermark, po, reload, aborts, history>>

EnqueueInserted(w) ==
  LET a == wr[w].acct IN
  /\ wr[w].pc = "enqueue"
  /\ wr[w].keyed => Keyed(a, "live") \cup Keyed(a, "open") = {}
  /\ row' = [row EXCEPT ![nextId] =
               [acct |-> a, keyed |-> wr[w].keyed, st |-> "open"]]
  /\ nextId' = nextId + 1
  /\ wr' = [wr EXCEPT ![w].pc = "commit", ![w].id = nextId]
  /\ UNCHANGED <<db, cache, watermark, po, reload, aborts, history>>

\* A transaction whose event was swallowed by a row that a poller has listed
\* since then commits a change that nobody was told of.
Commit(w) ==
  LET r == wr[w] IN
  /\ r.pc = "commit"
  /\ db' = IF r.tx THEN [db EXCEPT ![r.acct] = @ + 1] ELSE db
  /\ row' = [i \in Ids |-> IF i = r.id THEN [row[i] EXCEPT !.st = "live"] ELSE row[i]]
  /\ lost' = lost \cup {c \in {"swallowed"} : r.tx /\ r.by # 0 /\ ~row[r.by].keyed}
  /\ wr' = [wr EXCEPT ![w] = IdleWriter]
  /\ UNCHANGED <<cache, nextId, watermark, po, reload, aborts, late, handled>>

\* The insert or the commit fails: a transaction leaves nothing behind, a call
\* that has committed its change logs the error and goes on.
EnqueueFails(w) ==
  LET r == wr[w] IN
  /\ r.pc \in {"enqueue", "commit"} /\ r.by = 0
  /\ aborts < MaxAborts /\ aborts' = aborts + 1
  /\ row' = [i \in Ids |-> IF i = r.id THEN NoRow ELSE row[i]]
  /\ wr' = [wr EXCEPT ![w] = IdleWriter]
  /\ nextId' = IF r.pc = "enqueue" THEN nextId + 1 ELSE nextId
  /\ lost' = IF r.tx THEN lost ELSE lost \cup {"unsent"}
  /\ UNCHANGED <<db, cache, watermark, po, reload, late, handled>>

(***************************************************************************)
(* pollOutbox, on every replica at its own pace.                           *)
(***************************************************************************)

ReadWatermark(p) ==
  /\ po[p].pc = "idle"
  /\ po' = [po EXCEPT ![p].pc = "list", ![p].last = watermark]
  /\ UNCHANGED <<db, cache, row, nextId, watermark, wr, reload, aborts, history>>

\* WHERE id > afterID ORDER BY id LIMIT n, in a statement that also clears the
\* dedup keys of the rows it returns.
Selected(after) ==
  LET above == {i \in Ids : i > after /\ row[i].st = "live"}
  IN  {i \in above : Cardinality({j \in above : j < i}) < Limit}

IsFirst(i, S) == i \in S /\ \A j \in S : i <= j
IsLast(i, S) == i \in S /\ \A j \in S : j <= i

ListNothing(p) ==
  /\ po[p].pc = "list" /\ Selected(po[p].last) = {}
  /\ po' = [po EXCEPT ![p] = IdlePoller]
  /\ UNCHANGED <<db, cache, row, nextId, watermark, wr, reload, aborts, history>>

\* Mutant: the dedup keys are not released.
ListAfterAndReleaseDedup_KeepsKeys(p) ==
  LET s == Selected(po[p].last) IN
  /\ po[p].pc = "list"
  /\ \E last \in Ids :
       /\ IsLast(last, s)
       /\ po' = [po EXCEPT ![p].pc = "load", ![p].batch = s, ![p].last = last]
       /\ late' = late \cup {i \in Ids : i < last /\ row[i].st = "open"}
  /\ UNCHANGED <<db, cache, row, nextId, watermark, wr, reload, aborts, handled, lost>>

ListAfterAndReleaseDedup(p) ==
  LET s == Selected(po[p].last) IN
  /\ po[p].pc = "list"
  /\ \E last \in Ids :
       /\ IsLast(last, s)
       /\ po' = [po EXCEPT ![p].pc = "load", ![p].batch = s, ![p].last = last]
       /\ late' = late \cup {i \in Ids : i < last /\ row[i].st = "open"}
  /\ row' = [i \in Ids |-> IF i \in s THEN [row[i] EXCEPT !.keyed = FALSE] ELSE row[i]]
  /\ UNCHANGED <<db, cache, nextId, watermark, wr, reload, aborts, handled, lost>>

\* handleAccountEvent: GetByID, SetAccount and rebuildByAccount, which loads
\* the accounts of a bucket again and writes them again unless another rebuild
\* of the bucket is running: the bucket's reload, whoever runs it, is below.
HandleLoad(p) ==
  /\ po[p].pc = "load"
  /\ \E i \in Ids :
       /\ IsFirst(i, po[p].batch)
       /\ po' = [po EXCEPT ![p].pc = "store", ![p].val = db[row[i].acct]]
  /\ UNCHANGED <<db, cache, row, nextId, watermark, wr, reload, aborts, history>>

HandleStore(p) ==
  /\ po[p].pc = "store"
  /\ \E i \in Ids :
       /\ IsFirst(i, po[p].batch)
       /\ SetAccount(row[i].acct, po[p].val)
       /\ handled' = handled \cup {i}
       /\ po' = [po EXCEPT ![p].batch = @ \ {i}, ![p].val = 0,
                           ![p].pc = IF po[p].batch = {i} THEN "advance" ELSE "load"]
  /\ UNCHANGED <<db, row, nextId, watermark, wr, reload, aborts, late>>

\* SetOutboxWatermark: a plain SET, whatever another replica has set.
Advance(p) ==
  /\ po[p].pc = "advance"
  /\ watermark' = po[p].last
  /\ po' = [po EXCEPT ![p].pc = "clean"]
  /\ UNCHANGED <<db, cache, row, nextId, wr, reload, aborts, history>>

\* DeleteConsumedUpTo(lastID): the rows whose transactions began more than ten
\* seconds ago, which any of them may have.  A replica that finds the
\* cleanup's advisory lock taken deletes none.
CleanupConsumed(p) ==
  /\ po[p].pc = "clean"
  /\ \E old \in SUBSET {i \in Ids : i <= po[p].last /\ row[i].st = "live"} :
       row' = [i \in Ids |-> IF i \in old
                              THEN [row[i] EXCEPT !.st = "gone", !.keyed = FALSE]
                              ELSE row[i]]
  /\ po' = [po EXCEPT ![p] = IdlePoller]
  /\ UNCHANGED <<db, cache, nextId, watermark, wr, reload, aborts, history>>

\* Mutant: an event that cannot be handled does not stop the poll.
PollFails_GoesOn(p) ==
  /\ po[p].pc # "idle"
  /\ aborts < MaxAborts /\ aborts' = aborts + 1
  /\ po' = [po EXCEPT ![p] = IF @.pc \in {"load", "store"}
                            THEN [@ EXCEPT !.pc = "advance", !.batch = {}]
                            ELSE IdlePoller]
  /\ UNCHANGED <<db, cache, row, nextId, watermark, wr, reload, history>>

\* An error of any of these calls, or a restart: the poll ends and the next
\* one begins from the watermark.
PollFails(p) ==
  /\ po[p].pc # "idle"
  /\ aborts < MaxAborts /\ aborts' = aborts + 1
  /\ po' = [po EXCEPT ![p] = IdlePoller]
  /\ UNCHANGED <<db, cache, row, nextId, watermark, wr, reload, history>>

(***************************************************************************)
(* The other writers of an account in the cache, one at a time: the        *)
(* rebuild of its bucket, at an interval or for an event, which loads the  *)
(* schedulable accounts only, and syncSchedulerAccountSnapshot, which some *)
(* updates call when they have committed.  Each loads the account and then *)
(* writes it.                                                              *)
(***************************************************************************)

\* Mutant: buckets are rebuilt for pending events only.
RebuildLoad_OnEvent(a) ==
  /\ reload[a] = -1 /\ db[a] \in Schedulable
  /\ \E i \in Ids : row[i].st = "live" /\ i > watermark
  /\ reload' = [reload EXCEPT ![a] = db[a]]
  /\ UNCHANGED <<db, cache, row, nextId, watermark, wr, po, aborts, history>>

RebuildLoad(a) ==
  /\ reload[a] = -1 /\ db[a] \in Schedulable
  /\ reload' = [reload EXCEPT ![a] = db[a]]
  /\ UNCHANGED <<db, cache, row, nextId, watermark, wr, po, aborts, history>>

SyncLoad(a) ==
  /\ reload[a] = -1 /\ db[a] > 0
  /\ reload' = [reload EXCEPT ![a] = db[a]]
  /\ UNCHANGED <<db, cache, row, nextId, watermark, wr, po, aborts, history>>

ReloadStore(a) ==
  /\ reload[a] # -1
  /\ SetAccount(a, reload[a])
  /\ reload' = [reload EXCEPT ![a] = -1]
  /\ UNCHANGED <<db, row, nextId, watermark, wr, po, aborts, late, handled>>

ReloadFails(a) ==
  /\ reload[a] # -1
  /\ aborts < MaxAborts /\ aborts' = aborts + 1
  /\ reload' = [reload EXCEPT ![a] = -1]
  /\ UNCHANGED <<db, cache, row, nextId, watermark, wr, po, history>>

WriterStep(w) ==
  EnqueueSwallowed(w) \/ EnqueueInserted(w) \/ Commit(w)

PollerStep(p) ==
  \/ ReadWatermark(p) \/ ListNothing(p) \/ ListAfterAndReleaseDedup(p)
  \/ HandleLoad(p) \/ HandleStore(p)
  \/ Advance(p) \/ CleanupConsumed(p)

OutboxNext ==
  \/ \E w \in Writers, a \in Accounts, tx, keyed \in BOOLEAN : Update(w, a, tx, keyed)
  \/ \E w \in Writers : WriterStep(w) \/ EnqueueFails(w)
  \/ \E p \in Replicas : PollerStep(p) \/ PollFails(p)
  \/ \E a \in Accounts : RebuildLoad(a) \/ SyncLoad(a) \/ ReloadStore(a) \/ ReloadFails(a)

OutboxSpec == OutboxInit /\ [][OutboxNext]_outboxVars

\* A call once made returns, the workers' tickers keep firing, and failures
\* are transient (they are bounded).  The rebuild's ticker exists while
\* full_rebuild_interval_seconds is positive (300 unless configured); a sync is
\* one call of a writer and never owed.
OutboxFairSpec ==
  /\ OutboxSpec
  /\ \A w \in Writers : WF_outboxVars(WriterStep(w))
  /\ \A p \in Replicas : WF_outboxVars(PollerStep(p))
  /\ \A a \in Accounts : WF_outboxVars(RebuildLoad(a)) /\ WF_outboxVars(ReloadStore(a))

(***************************************************************************)
(* Properties                                                              *)
(***************************************************************************)

\* The watermark never passes an event that no poller has handled, however the
\* replicas' polls interleave and fail, except for a row that was not committed
\* when a poll returned a higher id (pollOutbox advances only after the
\* whole batch, in the order of the ids).
HandledBeforePassed ==
  \A i \in Ids : row[i].st = "live" /\ i <= watermark => i \in handled \cup late

\* Someone will still look at an account: the row of an event above the
\* watermark, or a writer that has not inserted its row yet.
Announced(a) ==
  \/ \E i \in Ids : row[i].acct = a /\ row[i].st \in {"open", "live"} /\ i > watermark
  \/ \E w \in Writers : wr[w].acct = a /\ wr[w].pc = "enqueue" /\ ~wr[w].tx

\* An account the cache has an old version of is announced by an event still to
\* be polled, unless one of the ways to lose an event has happened: these are
\* the only ones, and deduplication, several replicas, a watermark that goes
\* back, failed polls and the cleanup are not among them.
StaleIsAnnounced ==
  late = {} /\ lost = {} =>
    \A a \in Accounts : cache[a] # db[a] => Announced(a)

\* Whatever writers, pollers and the cleanup do in between, an event is not lost
\* unnoticed: it is passed over only after it was handled, and an old cached
\* account has one in front of the watermark (pollOutbox, the outbox's inserts).
OutboxInv == OutboxTypeOK /\ HandledBeforePassed /\ StaleIsAnnounced

\* Every event is handled in the end, unless it was committed late: a row that
\* swallows others, or one whose batch fails, is polled again.
EventsHandled ==
  \A i \in Ids : row[i].st = "live" ~> i \in handled \cup late

\* When the accounts stop changing, the cache ends up with the last version of
\* an account that can be scheduled, whatever was lost on the way: the interval
\* rebuild makes up for it.  No rebuild loads an account that cannot be: its
\* last version is sure to arrive only if no event was lost (loadAccountsFromDB).
CacheConverges ==
  \A a \in Accounts :
    <>[](db[a] \in Schedulable \/ (late = {} /\ lost = {}) => cache[a] = db[a])

\* What the comment of DeleteConsumedUpTo says of its grace period: a row is
\* consumed before the cleanup deletes it, a slow transaction's row too.
DeletedWasConsumed ==
  \A i \in Ids : row[i].st = "gone" => i \in handled

=============================================================================
