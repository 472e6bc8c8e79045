------------------------- MODULE IdempotencyRecords -------------------------
(***************************************************************************)
(* The statements of idempotency_repo.go on the row of one scope and key:  *)
(* what each finds and what it writes.  A row holds its id (0 if there is  *)
(* no row), its status, its fingerprint fp, and, as the time left until    *)
(* then, its locked_until in lock and its expires_at in ttl.               *)
(***************************************************************************)
EXTENDS Integers

Statuses == {"processing", "succeeded", "failed_retryable"}

\* CreateProcessing inserts a row.
Created(id, fp, lock, ttl) ==
  [id |-> id, status |-> "processing", fp |-> fp, lock |-> lock, ttl |-> ttl]

\* The WHERE clause of TryReclaim.
Reclaimable(r, id, from, now) == r.id = id /\ r.status = from /\ r.lock <= now

\* Its SET clause: the fingerprint stays what it was.
Reclaimed(r, lock, ttl) ==
  [r EXCEPT !.status = "processing", !.lock = lock, !.ttl = ttl]

\* The WHERE clause of ExtendProcessingLock.
Extendable(r, id, fp) == r.id = id /\ r.status = "processing" /\ r.fp = fp

\* Mutant: expires_at is left alone.
Extended_LeaseOnly(r, lock, ttl) == [r EXCEPT !.lock = lock]

\* Its SET clause.
Extended(r, lock, ttl) == [r EXCEPT !.lock = lock, !.ttl = ttl]

\* MarkSucceeded and MarkFailedRetryable: by id alone, and nothing if the row
\* was deleted.
Marked(r, id, status, lock, ttl) ==
  IF r.id = id THEN [r EXCEPT !.status = status, !.lock = lock, !.ttl = ttl] ELSE r

\* The WHERE clause of DeleteExpired.
Expired(r) == r.ttl <= 0
=============================================================================
