# A TLA+ verification of Sub2API's backend

Sub2API is a gateway that sells access to AI providers: users pay for balance or
subscriptions, send requests with API keys, and the gateway forwards them with pooled
provider accounts and bills them. This directory holds TLA+ models of the Go backend
(`src/backend`), the TLC configurations that check them and proofs checked by TLAPS.

What is modelled is what processes of the gateway decide together, through the database
and Redis: payment orders, refunds and the limits on orders; the lock of the
administrator's system operations and the idempotent execution of requests; the scheduler's
outbox and its snapshots; the jobs of image batches and the balance held for them; the
refresh of OAuth credentials; the concurrency slots of an account; and the invalidation of
the caches that authenticate requests.

## 1. Inventory

State is kept in PostgreSQL (P), Redis (R) or a process (M). *Hard* says why tests do not
settle the component. The first ten rows are modelled, fully or in part.

| component | state | operations | interacts with | hard |
|---|---|---|---|---|
| Payment orders and fulfilment | P: `payment_orders`, `redeem_codes`, `payment_audit_logs` | create, webhook, verify, sweep, cancel, fulfil, retry | providers (calls and notifications), redeem codes, subscriptions, affiliates | calls on one order overlap; a lease is taken over after five minutes; crashes between grant, rebate and completion; late notifications |
| Payment refunds | P: status, audit rows, balance | request, prepare, execute, roll back, query, finalize | providers, balances, subscriptions | the status is the only lock; the provider decides late; rollbacks fail |
| Payment admission limits | P: counts over orders | check pending, check daily, insert; delete a provider instance | creation of orders, administration | checks and inserts are not serialised |
| System operation lock | P: one row of `idempotency_records`; M: renewal goroutine | acquire, renew, release | updates, rollback, restart | lease against slow or failed renewals; reclaiming |
| Idempotent execution | P: `idempotency_records` | claim, execute, renew, mark, replay, clean up | every handler with an Idempotency-Key | races for one record, crashes, failed marks, expiry |
| Scheduler outbox and snapshots | P: `scheduler_outbox`; R: watermark, accounts, buckets, epochs, locks | enqueue, poll, clean up; retire, reopen, rebuild, publish | account selection, every writer of accounts and groups | ids committed out of order; several pollers and writers of one snapshot; writes that arrive late |
| Batch image jobs | P: jobs, claims, balances; R: queue, locks | submit, cancel, process, heartbeat, settle, recover | billing, providers | three transactions and a provider call in one submission; stale recovery against live workers; crash between capture and mark |
| OAuth token refresh | P: credentials; R: lock, token cache; M: mutex | refresh, persist, recover, reauthorize | provider token endpoints, requests | the token rotates upstream before it is stored; a lock without owner; tokens cached late |
| Concurrency slots | R: sorted sets, counters, active index | acquire, wait, release, refresh, lease, clean up at start and at intervals | every gateway request, Live sessions | expiry under long requests; other processes' slots removed at start; lost answers |
| API-key auth cache invalidation | P: outbox; R and M: caches | change, claim, invalidate, second pass, retry; look up | every request with an API key | lookups that refill a cache with what they read before; redelivery; lost messages |
| Usage billing | P: `usage_billing_dedup` and its archive, balances, quotas; R: caches | apply, archive | gateway, batch images | deduplication across tables; caches beside the database |
| Leader lock, quota flusher, user message queue, session limits | R, P | acquire and release; pop, read, write | background jobs, gateway | locks that expire during the work; lost updates |
| Account selection, failover, rate limits; WebSocket pool; forwarding | M, R | select, cool down, pool, convert | gateway | large and heuristic |
| Subscriptions, redeem codes, affiliates, providers | P | assign, redeem, accrue, pay | payments | covered where payments use them |
| Operations monitoring, channels, moderation, settings and login, backup | P | CRUD and reports | administration | little that other components decide on |
| Generated `ent` code, `next/`, frontend, deployment | | | | not the core of the released backend |

What makes each correct: an order's value reaches the user once, only if it was paid, and
sooner or later; a refund takes back once what it returns; limits hold up to a known
overshoot; one system operation runs at a time, and a dead one does not block the next; a
key's operation takes effect once; every committed event reaches the scheduler's cache, and
a retired bucket stays empty; a hold is captured or released, once, and a batch is completed
exactly if it was paid; a rotated token is not lost and a live account not barred; an account
serves no more calls than it may, and capacity comes back; a changed key is not used for
longer than a known time.

`PROJECT.json` lists the components with their sources, and the hazards at their lines.

## 2. Modules

| module | models |
|---|---|
| `PaymentOrders` | `payment_order.go`, `payment_order_lifecycle.go`, `payment_fulfillment.go` |
| `PaymentPromise` | abstract: what the service promises about an order |
| `PaymentRefunds` | `payment_refund.go` |
| `PaymentAdmission` | the checks of `createOrderInTx`, and `DeleteProviderInstance` |
| `IdempotencyRecords` | the statements of `idempotency_repo.go`, as operators on a row |
| `SystemOperationLock` | `system_operation_lock_service.go`, over `IdempotencyRecords` |
| `IdempotentExecution` | `idempotency.go`, over `IdempotencyRecords` |
| `SchedulerOutbox` | `scheduler_outbox_repo.go`, the writers in `account_repo.go`, `pollOutbox` |
| `SchedulerBuckets` | the scripts of `scheduler_cache.go`, `scheduler_snapshot_service.go` |
| `BatchImageJobs` | the `batch_image_*.go` services, the queue, and the balance calls of `usage_billing_repo.go` |
| `BalanceHold` | abstract: what becomes of a batch's hold |
| `OAuthRefresh` | `oauth_refresh_api.go`, `token_refresh_service.go`, `claude_token_provider.go`, the administrator's reauthorization |
| `ConcurrencySlots` | the scripts of `concurrency_cache.go`, `concurrency_service.go`, `openai_live.go` |
| `AuthCacheInvalidation` | `auth_cache_invalidation_outbox.go` and its repository, `api_key_auth_cache_impl.go` |
| `MC...` | instances for TLC: sets, symmetry, fingerprints, steps that may not pause; mutants |
| `LimitProofs` | theorems about `PaymentAdmission` and `ConcurrencySlots` |
| `SchedulerProofs` | theorems about `SchedulerOutbox` and `SchedulerBuckets` |
| `LeasedLockProofs` | theorems about `SystemOperationLock` and `OAuthRefresh` |
| other `...Proofs` | theorems about the module they are named after |

`IdempotencyRecords` is the part two components share: the lock and the coordinator use
the same table and the same statements, each with its own protocol. `SchedulerOutbox` and
`SchedulerBuckets` meet in the event of a group or an account: the first delivers events to
handlers, at least once and perhaps twice, and the second starts from handlers that are
called at least once (`done`, and rebuilds at any time). `SystemOperationLock`,
`BatchImageJobs` (claims of request ids) and `PaymentOrders` (redeem codes, audit rows) rest
on the uniqueness of rows, which is part of each model and not a lemma between them.

**Steps.** In every model one action is one database statement or transaction, one Redis
script or command, or one call of a provider, as everything between two of them can be
interleaved with other processes. Conditional updates (`UPDATE ... WHERE status IN ...`)
are a guard and an assignment in one action; an unconditional write has no guard on the
status, although its caller checked it earlier. Audit rows are state where code reads them
and left out where it does not. A call that fails is a disjunct of the action that makes the
call, and is counted as a fault.

**PaymentOrders.** A *worker* is one call in progress (`pc`, `ord`, `job`), an *order* is a
row with what belongs to it. `updated_at`, which is both the lease's version and the measure
of two five-minute periods, is abstracted to `stale` (five minutes old) and `held` (the
calls whose copy of the version is current): `Touch` models every write of the row, since
each one renews it. `grant` stands for the redeem code or the `SUBSCRIPTION_ASSIGNED` row,
`upstream` for the provider's side, `notice` counts the deliveries of a notification that
the provider still owes; a delivery counts as one of them when the row has not changed for
five minutes. Opening a payment and saving the answer are two steps, and the second may fail
and leave a `FAILED` order whose payment is open. `Pay`, `Age`, `PassDeadline` and
`SwitchGroup` are the payer, the clock and the administrator of the group a subscription
belongs to. `PromptSteps` names the steps at which a call is not paused for five minutes, so
that a run can say which pauses matter; `{}` allows all.

**PaymentRefunds.** One order, workers are administrators' requests. What is refunded is one
unit; `taken` counts how often it was taken back. `marker`, `pending`, `success` are the
three audit rows that later decisions read; the table is unique in order and action, so a
second `REFUND_PENDING` row is refused. The marker of a failed rollback is written as the
code does, with an error that nobody sees: `unreturned` (a deduction stayed with the
service) is history, the row `marker` may be missing. An answer to a query that the code
does not know counts as a refusal, as in the code. `Crash` also stands for a write of the
status that fails; `cut` marks an order whose attempt was cut off.

**PaymentAdmission.** One user and one instance, orders as counts, each of price 1.

**SystemOperationLock, IdempotentExecution.** Time is relative: `lock` and `ttl` are the
time left until `locked_until` and `expires_at`, `age` the time since a call read its
`now`, so that the state space is finite without a bound on the clock. `Tick` cannot pass
a deadline the code or its time-outs enforce (a call takes `MaxDelay`, a ticker fires when
due). Reclaiming keeps the fingerprint of the first owner, as the statement does, and
`outlived` records that a lease ended under a holder that could not renew it for that
reason, the one event after which the lock's properties claim nothing.

**SchedulerOutbox.** An account is the number of its committed changes. An insert takes its
id when it runs and shows when its transaction commits, so a poll may return a higher id
first. A poller is between its read of the rows and its write of the watermark; the cleanup
deletes behind the watermark. Writers without a transaction change the account first and
insert the event in a second call. An account's reload (`reload`) stands for the interval
rebuild (`RebuildLoad`), which lists only the accounts that can be scheduled, and for
`syncSchedulerAccountSnapshot` (`SyncLoad`), which takes any account and which nothing calls
periodically. `late` and `lost` record the ways an event can be lost: a row committed behind
a poll that passed it, an event swallowed by a row that a poll had already listed, an insert
that failed, an older version written over a newer one.

**SchedulerBuckets.** One bucket of one group. A writer goes through capturing its token,
loading, allocating a version and activating; the last two check the epoch and the
retirement mark inside their script. The group and its event are written by two statements
(`owed` is the number of events still to be enqueued), and the second may fail and be logged
only: the interval rebuild then finds the bucket and the group apart (`Mismatch`) and takes
the bucket through its lifecycle. A snapshot is the list of the bucket's accounts; the
payloads of accounts that `writeAccountIDs` writes on the way are shared by all buckets and
not fenced by any epoch, and are the cache of `SchedulerOutbox`. `retired`, `epoch`,
`active`, the bucket's lock and the group's lease are the Redis keys. Versions are only
compared, so they are kept relative to the active one.

**BatchImageJobs.** One batch with one submission, cancels, the recovery scan, workers and
the queue (ready, delayed, active, the job's lock). `claims` are the request ids of the
batch in `usage_billing_dedup`, `frozen` the user's frozen balance of which `others` belongs
to other batches. `HoldState` is computed from the claims and refines `BalanceHold`. The
history variables name the exceptions of the properties: `early` (a release was claimed
before the hold), `dropped` (a process stopped where nothing repeats what it had to do),
`void` (two workers had the job at once, or a repeated capture was answered with an error).

**OAuthRefresh.** A credential is the number of its issue; `live` are those the provider
accepts, `cred` the stored one, `cache` the one whose access token is cached. A worker has a
mutex of its replica (`local`) and the Redis key (`lock`), which is deleted by key and so by
anyone who holds it or has held it. A Grok account's updates are conditional on the
credential read, the other platforms' are not: both are modelled, the platform is chosen in
`OAuthInit`. The requests are those of Claude's token
provider, which go on with whatever account the second read returns; Grok's, the only ones
that carry the request-path mark (`grok_token_provider.go:100`) and are refused an account
that is not active, are not modelled. The provider may also deny a token
that is not used up (`access_denied` and the like, the fault `denied`): both lead to `Bar`.
The versions are times of a clock that a merge may carry over.

**ConcurrencySlots.** The two sorted sets count together against the limit; a Live session
acquires a slot, trades it for a lease (which may stand one above the limit for that moment)
and refreshes the lease until it ends. A lease is refused when the account is full, and,
whatever the account's load, for the limit of the user or an error. The wait counter is
separate from the requests that wait. The active index is updated by a read and a later
write. A starting process removes the members without its prefix, then the counter.

**AuthCacheInvalidation.** One key, whose snapshot is the version it shows; version 1 is its
creation, which has no trigger and is passed on by the request only. Every later change has
a row of the outbox. Time is relative as above; `age` is that of a lookup between its read
and its writes, of the database and of Redis alike, and a worker's call may outlast the
claim of its row (`Overrun`). `mail` are messages on their way to a replica and `deaf` the
replicas whose subscription is down.

## 3. Runs

| run | module, configuration | what it shows |
|---|---|---|
| `orders` | `PaymentOrders_all` | Two overlapping calls on a balance order, three faults: `PaymentPromise` is implemented (credited and rebated at most once, only if paid, completed only when settled and for good); a credited order is never closed; with no pause of five minutes between winning the lease and reading its version, only the last winner ends a fulfilment. |
| `orders_live` | `PaymentOrders_livesub` | A subscription order of a provider that is queried by the order's own number implements `PaymentPromise`, and every paid one whose group stays active is completed or written to the audit log as `PAYMENT_AFTER_EXPIRY`, also after a crash and when saving the trade number takes its lease away. |
| `refund_all` | `PaymentRefunds_all` | Two overlapping refunds and queries, failed deductions, failed rollbacks, late verdicts, crashes: taken back at most once, by whoever holds the lock; every attempt that is not cut off leaves `REFUNDING`. |
| `admission_bounds` | `PaymentAdmission_bounds` | The limits are exceeded by no more than the requests that check at once, the pending orders and the lapsed ones. |
| `lock_retry` | `SystemOperationLock_retry` | A retry and a different operation exclude each other, and the row stays live while held, with renewals that fail or come late, until an operation that reclaimed another's row outlasts its lease; after a crash the lock is free again. |
| `idem` | `IdempotentExecution_all` | With renewal, expiry, cleanup, crashes and failed marks, three requests with the same or another payload execute one at a time and have one effect while the record lives; one that overlapped with an effect repeats it only by taking over a record that it read as an expired success; a record nobody works on expires. |
| `outbox` | `SchedulerOutbox_all` | Only a row committed behind a poll is passed over; an old cached account is announced by an event to come unless an event was lost in one of the named ways; every event is handled; the cache converges, for an account that cannot be scheduled unless an event was lost. |
| `buckets` | `SchedulerBuckets_all` | What a bucket shows was loaded after its last retirement, retirement follows the group once every change of it has been handled, a snapshot is replaced by a newer one as long as locks last, and the bucket converges, also when an event is lost. |
| `batch` | `BatchImageJobs_holds` | Two faults of any kind: the hold implements `BalanceHold`, completed means paid and failed or cancelled means not, and the hold ends. |
| `oauth` | `OAuthRefresh_all` | Two background workers, a request and an administrator, one fault of any kind: no rotated token is lost, no live account is barred and no old access token kept but for the faults each property names; a credential that is due is refreshed or its account barred. |
| `slots` | `ConcurrencySlots_all` | Ordinary, waiting and Live calls of two processes that may die and start: limits hold, every path returns what it took, capacity comes back. |
| `auth_cache` | `AuthCacheInvalidation_all` | An old entry in Redis has the row of its change behind it; an old local entry outlives the last pass by less than its time to live and the time of a lookup; after a message only a late lookup can bring an old version back; every row is consumed. |

Every property of a run has a mutant in `PROJECT.json`: a plausible bug in a mapped
definition that makes TLC report the property as violated. The conjunctions `OutboxInv`,
`CredentialInv`, `SlotsInv` and `CacheInv` have the module's type invariant as a part; in
the other modules `TypeOK` is a theorem.

The runs have from 100,000 to 1.7 million states and take up to three minutes each.
`SchedulerBuckets_two` (two pollers) and `BatchImageJobs_two` (two workers) are larger
instances of two runs. They pass, in two to four minutes.

**Properties with exceptions.** Several properties hold only while something has not
happened (`late`, `lost`, `early`, `dropped`, `void`, `drift`, `leaked`, `cut`,
`seen`, `outlived`, `Reliable`, the group of `PaidIsSettledOrFlagged`, the unscheduled
account of `CacheConverges`). Each of these names one event, listed where it is set, and
the point of the property is that there are no others. Section 5 and the hazards say what
happens after them.

**Bounds.**
- *Payments.* Orders do not share state but the user's counts, which `PaymentAdmission` has
  to itself, so one order is enough; two calls suffice for a lost lease or a double grant.
  `MaxFaults` bounds faults, not calls: a worker starts calls without end, and more than one
  fault lets a retry fail too. In `orders_live` four late deliveries are owed: with one
  fault three may be spent on attempts that come to nothing (one cut off, one whose lease a
  sweep takes by saving the trade number, one that finds the order held), so that with three
  the order may stay `RECHARGING`; an order the provider gave up on earlier waits for an
  administrator's retry. `MaxLapses = 1` and seven orders reach both limits and pass them.
- *Records.* Times are the smallest that satisfy the assumptions with a renewal that may
  fail (the lock's `Lease = 6`, `Interval = 1`, `MaxDelay = 1`, for 30 s, 10 s and at most 2
  s). A call of the lock or of the coordinator is one of `Ops` or `Requests`, three in each
  run: one leaves a row behind, and two meet over it. Two calls of the lock have one
  operation id and the third another, which is the first, the second or the last to come.
- *Outbox.* Two rows are enough for one to be committed behind the other and for one to
  swallow the other; two pollers for a watermark that goes back; one account, since events
  of different accounts meet only in the watermark. Its second version is one in which it
  cannot be scheduled, the third one can be again. `Limit = 2` puts both rows in a batch.
- *Buckets.* Two changes of the group disable and enable it again; one change of the
  accounts tells an old snapshot from a new one. One event at a time is still to be
  enqueued. A poller, a rebuilder and a request are the three kinds of writers.
- *Batches.* A hold of 2, with costs below, at and above it and output that cannot be read;
  balances with and without enough for it; another batch's hold of the same user. Two
  retries of the settlement where the code has five.
- *OAuth.* One credential comes due and one reauthorization; the two background workers are
  on two replicas, which only the Redis lock separates; the request shares a replica with
  one of them.
- *Slots.* Three calls for two slots and one place to wait; two processes, since the start
  of one concerns the other's members.
- *Auth cache.* Two versions (a creation and a change), two replicas that work on the
  outbox, of which one serves requests. Times of 1 and 2 keep the order of the real ones (a
  lookup under 30 s, which is the safety delay; retry and claim less than it).

Deadlock is checked in `outbox`, `buckets`, `auth_cache` and the runs of orders. It is not
checked where the system may stop: a refunded order, or one that a crash left in
`REFUNDING`, accepts no further request; the calls of a lock, a key or a batch end; an
account that is barred is not refreshed; the bound on created orders is reached.

**Fairness.** A call in progress takes its next step (WF): goroutines are scheduled and
calls have time-outs. Nobody is obliged to start anything, except for what the code's
tickers start.
- `orders_live`: the provider makes the deliveries it owes (`Redeliver`) and the sweep runs
  every minute (SF, because a worker of the model may be busy while the code starts another
  goroutine). Nobody is obliged to verify or to retry, and a group need not come back.
  Swallowed read errors (`ReadErrors`) are excluded: after one the notification is gone, and
  only the payer's verification helps.
- `lock_retry`, `idem`: time passes (WF of `Tick`), and a stopped `renewLoop` ends (SF of
  `RenewStops`: `select` chooses at random among ready cases, so a tick cannot win for
  ever). The cleanup is not fair.
- `outbox`: pollers poll, and the interval rebuild reloads the accounts that can be
  scheduled (it runs while `full_rebuild_interval_seconds` is positive, which is the
  default; nothing reloads the others). `buckets`: the poller works while an event is
  pending or the interval rebuild finds bucket and group apart, events are enqueued,
  rebuilders start at their interval, locks and leases expire. A request is not obliged to
  come.
- `batch`: the queue's movers and the recovery scan run at intervals, the job's lock
  expires, the provider ends its batches. Nobody has to cancel or replay.
- `oauth`: the background's cycles go on and the lock's lease ends.
- `slots`: members and counters expire in Redis. Nothing else: a process may stay down.
- `auth_cache`: time passes however many requests follow each other (SF of `Tick`: each
  holds it up for a moment only), each replica's worker goes on with some row it has
  claimed, messages need not arrive.

## 4. Proofs

The theorems hold for every value of the constants that satisfies the named assumptions:
any number of orders, workers, requests and operations, any limits, faults and durations.
They state every invariant and every action property of the runs; liveness is left to TLC.

**PaymentOrdersProofs.** `IInv` is the conjunction of the types, `OrderInv`, `CallInv` and
`CreationInv`. None of the properties is inductive by itself. That the value is granted once
rests on the code (or the assignment row) being used exactly when the value was credited,
and likewise for the rebate and its claim row (`OrderInv`); that completion settles the
order rests on what a call knows at its step (`CallInv`: at `rebate` the grant is applied,
at `complete` the rebate is claimed), which survives other calls because no step undoes them
(`Progress`); that only a paid order is granted rests on the lease being won for paid orders
only, and on nobody having paid or accepted an order while the call that creates it runs
(`CreationInv`), whose failure is written over any status. From `IInv`: `TypeCorrect`,
`GrantOnce`, `CompletionSettles`, `CreditNeedsPayment`, `RebateNeedsCredit`, `CreditIsKept`,
`CompletionIsFinal`, and `Implementation`, the refinement of `PaymentPromise`, by simulating
each action. Nothing is assumed about pauses: the lease is not what makes the grant unique.
`OwnerEndsFulfilment` does assume that no call is paused for five minutes between winning
the lease and reading its version back (`"leased" \in PromptSteps`, as in the run;
`PaymentOrders_text.cfg` shows that it is needed). `LeaseInv` adds to `IInv` that meanwhile
the row is not old enough to be won again and nobody has read its version, and that a
version which is still current is its last winner's.

**PaymentRefundsProofs.** `RefundTypeCorrect` is unconditional. The others assume
`Reliable`: what a rollback returns is returned (`unreturned` is false) and an accepted
refund does not fail later.
`PaymentRefunds_text.cfg` and `PaymentRefunds_verdict.cfg` show that each half is needed.
`RefundInv` adds to the properties that an attempt holding the lock knows what was taken
(`LedgerOf`) and that nobody is about to write a status without the lock (`NoVerdict`).

**LimitProofs, of PaymentAdmission.** `PendingBound` and `DailyBound`: `AdmissionInv` counts
the requests between a check and the insert with the orders they are about to add.

**LimitProofs, of ConcurrencySlots.** `SlotLimits` and `SlotsReturned`. `LimitsInv` says at
which steps a call has a slot or a lease (`Holding`, while none expired or was removed under
its call) and that nobody has one at other steps (`Returned`, until something leaked). The
calls that hold one of the two are at most `Max` (`Room`): a session has both while it
trades one for the other, so what is counted is the union. The counter is at least the
number of requests that wait (`Queued`). That the counter has a type at all rests on
`wait + faults`: past the script's check only an increment whose answer is lost adds to it.

**LeasedLockProofs, of SystemOperationLock.** `LockTypeCorrect`, `HeldLockStaysLive` and
`SystemOperationsExclude`, for any calls and operation ids, the same or different. The
assumption on durations is `(MaxFails + 1) * Interval + 3 * MaxDelay < Lease`, which 30 s,
10 s, 2 s and one failure satisfy. Until a lease has ended under a holder whose row bears
another's id (`outlived`; `SystemOperationLock_reclaim.cfg` shows that it does in this
code), `LockInv` keeps an account of the lease of a holder that can renew it: at least
`Lease - MaxDelay` after a success, one `Interval` less for each failed renewal, so that it
outlasts the mark of `Release`. Of a holder that cannot, the account says no more than that
its lease has not ended. With the holder's row locked, nobody reclaims it.

**IdempotentExecutionProofs.** `IdempotencyTypeCorrect`, `OneAtATime`,
`OneEffectWhileRecorded` and `RepeatsOnlyByTakeover`, for executions of any length, also
faster than a claim. `ExecutionInv` says that whoever works owns the row, that the row's
lease and expiry outlast what the code measures against them, and that a request about to
take the row over has seen it as it is or will be refused. For the last theorem `Barred`
adds that the row of an effect outlasts the requests that overlapped with it, and that its
lease and its backoff refuse them: what is left is `TryReclaim` of a row that is succeeded
when it is read and, anew, when it is taken over. `IdempotentExecution_text.cfg` shows that
this does happen.

**LeasedLockProofs, of OAuthRefresh.** `CredentialSafe`, `BarredCredentialDead`,
`StaleTokenFollowed` and `CheckedTokenStored`, for any number of background workers,
requests, replicas, due credentials and reauthorizations. The books come first: whatever
anybody has read was issued (`Numbers`), a successor that is not stored yet is known to one
worker only (`Issued`), and a credential is used up once and only when due, which bounds
how many credentials and versions there can be (`Drawn`). On them rests the safety. While
the lease lasts and Redis answers, one worker is between the lock and its release
(`Exclusive`), so the token it presents is the stored one; whoever is about to bar the
account has seen a credential rejected of which nobody holds the successor (`Rejected`), and
without a fault nobody is (`Sound`); and a request's version tells whether its credential is
the stored one (`Roles`). None of this is left when the lease lapses, and the properties do
not claim it: what remains then is that a rejected token is read again before the account
is barred.

**SchedulerProofs, of SchedulerOutbox.** `OutboxSafe`, for any number of accounts, writers,
replicas and rows and any batch size. The heart of `OutboxInd` is `Owed`: as long as nothing
was late or lost, for each version between the cached and the committed one somebody owes
the cache a newer one, either a writer that has yet to insert its event, or an unhandled row
in front of every poller that is about to store that version or an older one. Quantifying
over the versions is what makes it inductive: a poller that stores a version settles the
debts below it and no others. Around it, `Links` ties a writer's event to its row or to the
row that swallowed it, `AreSettled` says that the watermark and every poller have passed
only rows that are handled, late or in the poller's batch, `Unlisted` that a row which is
not committed or still swallows events is in front of everybody unless one was late, and
`Counting` that ids do not run out under a transaction.

**SchedulerProofs, of SchedulerBuckets.** `RetirementFences`, `LifecycleFollowsGroup` and
`SnapshotsAdvance`, for any number of pollers, rebuilders, requests, changes and faults.
`BucketInv` is the types, `FenceInv` (a token of the current epoch and what was loaded with
it are not older than the last retirement), `LockInv` (as long as nothing was loaded outside
the lock, whoever believes to hold it does, and has loaded nothing older than the snapshot)
and `LifecycleInv` (only the holder of the lease is about to carry a decision out, no other
poller has begun with a later event, and a decision for the last one agrees with the group;
changes whose event is not enqueued yet, or was lost, are not handled).

**BatchImageJobsProofs.** `Payment` and `Refinement`, that the job implements `BalanceHold`.
`BatchInv` says which claims each status and each caller's step rests on (`HeldInv`), and,
until a worker has lost its lock or a repeated capture failed, that a captured hold belongs
to a job that settles or is completed, a returned one does not, and a worker past its lock
sees the job as it is (`SettleInv`). What each shared operator does (a transition, a claim)
is a lemma, so that the steps of the actions are short.

**AuthCacheInvalidationProofs.** All three safety properties of the run, from the module's
assumption that a lookup takes less than the safety delay. `InvalidationInv` is the account
behind `CacheInv`: a lookup that misses a change finds its row still waiting, with the row's
wait and the lookup's age together at least the delay, and nobody in its second pass
(`LookupInv`); a second pass past its deletion leaves no older entry in Redis (`PassInv`);
an entry in Redis has every later change queued (`SharedInv`). `BriefInv` adds that what a
request has read there loses the rows of later changes no earlier than the request grows
old, and that the time since a row's deletion and what is left of an old local entry stay
within the time to live and the time of a lookup, `CutInv` and `HeardInv` what a published
change leaves behind.

**Only model-checked.** Liveness (`PaidIsSettledOrFlagged`, `LockIsReleased`,
`LockIsFreed`, `StuckKeyExpires`, `EventsHandled`, `CacheConverges`, `SnapshotConverges`,
`HoldEnds`, `DueIsRefreshed`, `CapacityReturns`, `ChangesAreConsumed`) rests on
fairness and `ENABLED`, which are out of the prover's reach.

## 5. Where code and text disagree

What a comment, a test, a message or a document says and the code does not do. TLC reports
each property as violated; the configurations are kept beside the runs. A `..._text.cfg`
checks the first property named for it; the others are in its comment.

| configuration | property | what happens |
|---|---|---|
| `PaymentOrders_promise` | `PaidIsReconciled` | A payment notified after the grace period is acknowledged and flagged (`payment_fulfillment.go:199`), not reconciled as `docs/PAYMENT.md:260` says. |
| `PaymentOrders_text` | `OnlyOwnerEndsFulfilment` | A worker paused between winning the lease and reading its version back adopts the next owner's version, against the comment at `payment_fulfillment.go:852`. |
| | `RevivedOnlyWithinGrace` | Saving the trade number renews `updated_at`, by which the grace of an expired order is measured (`payment_order_lifecycle.go:185`), so that verifying revives an order that is not "recently expired" (`:292`). |
| `PaymentRefunds_text` | `NeverTakenTwice` | After a rollback that failed, a retry is accepted as pending with nothing to roll back, and its finalization, which reads the `REFUND_PENDING` row only (`payment_refund.go:456`), deducts again, against the comment at `:307`. |
| | `TakenOnlyIfAsked` | The finalization deducts although the administrator chose not to (`payment_refund.go:524`) and was told "Will NOT deduct user balance". |
| `PaymentRefunds_verdict` | `NeverTakenTwice` | `finalizeRefundFailed` overwrites the lock of a retry (`payment_refund.go:559`); `payment_refund_test.go:505` requires one deduction of its sibling. |
| `PaymentAdmission_text` | `PendingWithinLimit`, `DailyWithinLimit` | The limits of `docs/PAYMENT.md:63-65` are exceeded; `admission_bounds` says by how much. |
| | `DeletedIsIdle` | An order is inserted between the count and the deletion of an instance that "cannot be deleted" with orders in progress (`payment_config_providers.go:531`). |
| `SystemOperationLock_reclaim` | `NoTwoOperations` | `TryReclaim` leaves `request_fingerprint` at the id of the operation that created the row, and `ExtendProcessingLock` finds the row by the caller's id. The second operation within an hour cannot renew: after 30 s its lock is free (`idempotency_repo.go:113`; `system_operation_lock_service_test.go:65`). |
| `IdempotentExecution_text` | `ConcurrentRequestsOneEffect` | An operation faster than a claim: `TryReclaim` does not compare `expires_at` (`idempotency_repo.go:119`), and takes over what another request has just executed; `idempotency_test.go:394` says once. |
| | `InProgressIsTrue` | After a crash a key is refused as "still processing" until its TTL, although its lease has lapsed (`idempotency.go:354`). |
| `SchedulerOutbox_grace` | `DeletedWasConsumed` | The grace period of the cleanup keeps rows by the age of their insert; one committed later than that is deleted unread, against the comment at `scheduler_outbox_repo.go:129-132`. |
| `BatchImageJobs_text` | `ReleasedMeansReturned` | A cancel between the creation and the reservation claims the release's id without a hold (`usage_billing_repo.go:344`); the hold taken afterwards is never released, as every later release finds the id claimed and answers that the money is back (`batch_image_billing_hold.go:104`). |
| | `EndsOnce` | A settlement whose capture committed and whose marks failed is given up, and the hold released as well, from the frozen balance of other batches (`failExhaustedSettlement`). |
| `OAuthRefresh_text` | `ReauthorizedNotBarred` | An account that was authorized again is barred for the old token's `invalid_grant` by `SetError` (`token_refresh_service.go:1015`), which `oauth_refresh_api.go:283-285` says to avoid; Grok's conditional update does avoid it. |
| | `OldNotCached` | A request writes its old token to the cache after the refresh has deleted it, against `token_cache_invalidator.go:75-77`: the comparison of versions and the write are two steps. |
| `ConcurrencySlots_text` | `StartKeepsOthers` | A starting process removes the slots of processes that are alive, which the comments take for dead (`concurrency_service.go:54`, `concurrency_cache.go:1242`). |
| | `HandoffAdmitted` | The slot a Live session holds is taken over "atomically" (`openai_live.go:123`), and yet the lease may be refused when two sessions are created at once on a full account. |

## 6. What is left out

- *In the modelled components.* Amounts and currencies (a price is paid, mispaid or not),
  the choice of a provider, signatures, resume tokens, requests without an Idempotency-Key,
  the limit on cancellations (off by default); the outbox's bulk and last-used events, its
  lag check and the fallback's rate limit; what a snapshot contains; the items and files of
  a batch; rate limits and circuit breakers of a refresh cycle; sideband connections of Live
  sessions, WebSocket leases and a user's slots, which the same scripts keep; metrics and
  logs. What a provider does with a second refund of one order is not in this code.
- *Hazards not covered.* A webhook acknowledges an order it could not read
  (`payment_fulfillment.go:79`). A response longer than `MaxStoredResponseLen` is stored cut
  off and its replays fail (`idempotency.go:521`). The quota flusher writes a snapshot read
  before an administrator's reset (`user_platform_quota_flusher.go:192`), which its comments
  accept. A refund whose answer is lost is rolled back although the provider may have paid
  (`payment_refund.go:374`).
- *Not modelled.* Gateway forwarding is data conversion and network I/O; account selection
  is scoring, for which no text states a guarantee; usage billing is one transaction behind
  a claim that `BatchImageJobs` models, and arithmetic over columns; the leader lock guards
  sweeps that may run twice; channels, moderation, monitoring, settings and backups are CRUD
  and I/O. Some 270,000 of the backend's lines are generated (`ent`), and `next/` and the
  frontend are other programs. `PROJECT.json` gives the reason for each.

## 7. Plan

1. The takeover of Live sessions by a sideband connection and the WebSocket leases in
   `ConcurrencySlots`; the bulk events and the lag check in `SchedulerOutbox`.
2. `UsageBilling`: claims in two tables with an archive, caches beside the balance.
3. The pool of OpenAI WebSocket connections, as goroutines of one process.
