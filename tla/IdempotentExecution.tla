------------------------- MODULE IdempotentExecution -------------------------
(***************************************************************************)
(* IdempotencyCoordinator.Execute for the requests of one scope and key:   *)
(* the request that creates or reclaims the row of idempotency_records     *)
(* executes the operation and marks the row; the others are answered with  *)
(* the stored response or a conflict.  Each database call is a step.       *)
(*                                                                         *)
(* Time is relative, as in IdempotencyRecords.  Until a request executes,  *)
(* it compares with the `now' it read at its start, age ago.               *)
(***************************************************************************)
EXTENDS IdempotencyRecords

CONSTANTS
  Requests,  \* requests with the same key
  Fps,       \* the fingerprints of payloads
  Lease,     \* cfg.ProcessingTimeout
  Ttl,       \* the record's TTL
  Backoff,   \* cfg.FailedRetryBackoff
  Renews,    \* whether opts.ExecutionTimeout > 0
  MaxRun,    \* a request has ended this long after its start
  MaxDelay   \* and is answered or executes within this time

ASSUME ExecutionAssumption ==
  /\ Lease \in Nat /\ Ttl \in Nat /\ Backoff \in Nat \ {0}
  /\ MaxRun \in Nat /\ MaxDelay \in Nat
  /\ MaxDelay <= MaxRun
  /\ 2 * MaxDelay < Lease
  /\ MaxRun + MaxDelay < Ttl
ASSUME ModeAssumption == Renews \in BOOLEAN

VARIABLES
  fp,        \* of a request: the fingerprint of its payload
  row,       \* the record
  nextId,    \* the next record's id
  phase,     \* of a request: its next step, or its answer: in_progress, or any other
  age,       \* of a request: since it read the clock
  held,      \* of a request: existing.ID, or the id of the row it created
  from,      \* of a request: existing.Status, none if it has not read the row
  renewing,  \* the requests whose renewal goroutine runs
  effects,   \* history: the requests whose execution succeeded
  met,       \* history: the pairs of requests that were in progress together
  lapsed     \* history: whether a record has expired

callVars == <<fp, phase, age, held, from>>
history == <<effects, met, lapsed>>
vars == <<row, nextId, callVars, renewing, history>>

NoFp == ""
NoRow == [id |-> 0, status |-> "succeeded", fp |-> NoFp,
          lock |-> -MaxDelay, ttl |-> -MaxDelay]

Claiming == {"create", "get", "reclaim", "takeover", "reget"}
Working == {"executing", "succeeded", "failed"}
Answers == {"answered", "in_progress"}

TypeOK ==
  /\ row \in [id : Nat, status : Statuses, fp : Fps \cup {NoFp},
              lock : (-MaxDelay..Lease) \cup (0..Backoff), ttl : -MaxDelay..Ttl]
  /\ nextId \in Nat \ {0}
  /\ fp \in [Requests -> Fps]
  /\ phase \in [Requests -> {"idle"} \cup Claiming \cup Working \cup Answers]
  /\ age \in [Requests -> 0..MaxRun]
  /\ held \in [Requests -> Nat]
  /\ from \in [Requests -> Statuses \cup {"none"}]
  /\ renewing \subseteq {r \in Requests : phase[r] \in Working}
  /\ effects \subseteq Requests
  /\ met \subseteq Requests \X Requests
  /\ lapsed \in BOOLEAN

Init ==
  /\ fp \in [Requests -> Fps]
  /\ row = NoRow
  /\ nextId = 1
  /\ phase = [r \in Requests |-> "idle"]
  /\ age = [r \in Requests |-> 0]
  /\ held = [r \in Requests |-> 0]
  /\ from = [r \in Requests |-> "none"]
  /\ renewing = {}
  /\ effects = {}
  /\ met = {}
  /\ lapsed = FALSE

InProgress == {r \in Requests : phase[r] \in Claiming \cup Working}

Goto(r, p) == phase' = [phase EXCEPT ![r] = p]

\* Execute returns answer a, and its locals are gone.
Answer(r, a) ==
  /\ Goto(r, a)
  /\ age' = [age EXCEPT ![r] = 0]
  /\ held' = [held EXCEPT ![r] = 0]
  /\ from' = [from EXCEPT ![r] = "none"]

\* Execute has read the row, and goes on to p.
Use(r, p) ==
  /\ Goto(r, p)
  /\ held' = [held EXCEPT ![r] = row.id]
  /\ from' = [from EXCEPT ![r] = row.status]
  /\ UNCHANGED age

-----------------------------------------------------------------------------
(* The claim *)

\* Execute reads the clock.
Start(r) ==
  /\ phase[r] = "idle"
  /\ Goto(r, "create")
  /\ met' = met \cup ({r} \X InProgress) \cup (InProgress \X {r})
  /\ UNCHANGED <<row, nextId, fp, age, held, from, renewing, effects, lapsed>>

\* The request owns the row: the renewal starts, and the operation.
Claim(r, id) ==
  /\ Goto(r, "executing")
  /\ held' = [held EXCEPT ![r] = id]
  /\ renewing' = IF Renews THEN renewing \cup {r} ELSE renewing

\* INSERT ... ON CONFLICT DO NOTHING.
CreateProcessing(r) ==
  /\ phase[r] = "create"
  /\ \/ /\ row.id = 0
        /\ row' = Created(nextId, fp[r], Lease - age[r], Ttl - age[r])
        /\ nextId' = nextId + 1
        /\ Claim(r, nextId)
     \/ /\ row.id # 0
        /\ Goto(r, "get")
        /\ UNCHANGED <<row, nextId, held, renewing>>
  /\ UNCHANGED <<fp, age, from, history>>

\* Mutant: a record in processing is reclaimed when its lease has lapsed.
Decide_LapsedLease(r) ==
  IF row.status = "succeeded" \/ row.lock > -age[r] THEN Answer(r, "answered") ELSE Use(r, "reclaim")

\* The answer to a request whose record belongs to another (a stored response,
\* which may have been cut and then cannot be decoded, a conflict, the backoff
\* that is left), or the reclaim of a record whose operation failed.
Decide(r) ==
  \/ row.status = "succeeded" /\ Answer(r, "answered")
  \/ row.status = "processing" /\ Answer(r, "in_progress")
  \/ row.status = "failed_retryable" /\ row.lock > -age[r] /\ Answer(r, "answered")
  \/ row.status = "failed_retryable" /\ row.lock <= -age[r] /\ Use(r, "reclaim")

\* existing is read.  A record that has expired is taken over.
GetExisting(r) ==
  /\ phase[r] = "get"
  /\ \/ (row.id = 0 \/ row.fp # fp[r]) /\ Answer(r, "answered")
     \/ row.id # 0 /\ row.fp = fp[r] /\ row.ttl <= -age[r] /\ Use(r, "takeover")
     \/ row.id # 0 /\ row.fp = fp[r] /\ row.ttl > -age[r] /\ Decide(r)
  /\ UNCHANGED <<row, nextId, fp, renewing, history>>

\* latest is read after the record could not be taken over.
GetLatest(r) ==
  /\ phase[r] = "reget"
  /\ \/ (row.id = 0 \/ row.fp # fp[r]) /\ Answer(r, "answered")
     \/ row.id # 0 /\ row.fp = fp[r] /\ Decide(r)
  /\ UNCHANGED <<row, nextId, fp, renewing, history>>

\* TryReclaim of an expired record, and of a failed operation's.
TryReclaim(r) ==
  /\ phase[r] \in {"takeover", "reclaim"}
  /\ IF Reclaimable(row, held[r], from[r], -age[r])
       THEN /\ row' = Reclaimed(row, Lease - age[r], Ttl - age[r])
            /\ Claim(r, held[r])
            /\ UNCHANGED <<age, from>>
       ELSE /\ \/ phase[r] = "takeover" /\ Goto(r, "reget") /\ UNCHANGED <<age, held, from>>
               \/ phase[r] = "reclaim" /\ Answer(r, "in_progress")
            /\ UNCHANGED <<row, renewing>>
  /\ UNCHANGED <<nextId, fp, history>>

\* A database call fails: nothing was written.
StoreError(r) ==
  /\ phase[r] \in Claiming
  /\ Answer(r, "answered")
  /\ UNCHANGED <<row, nextId, fp, renewing, history>>

-----------------------------------------------------------------------------
(* The execution and its mark *)

Succeed(r) ==
  /\ phase[r] = "executing"
  /\ Goto(r, "succeeded")
  /\ effects' = effects \cup {r}
  /\ UNCHANGED <<row, nextId, fp, age, held, from, renewing, met, lapsed>>

Fail(r) ==
  /\ phase[r] = "executing"
  /\ Goto(r, "failed")
  /\ UNCHANGED <<row, nextId, fp, age, held, from, renewing, history>>

\* Mutant: the renewal goroutine goes on.
Return_StillRenewing(r) == Goto(r, "answered") /\ UNCHANGED <<age, held, from, renewing>>

\* Execute returns, after its renewal goroutine.
Return(r) ==
  /\ Answer(r, "answered")
  /\ renewing' = renewing \ {r}

\* What is left of expiresAt: it was set at the start of the request, or,
\* with an ExecutionTimeout, again after the execution.
TtlLeft(r) == IF Renews THEN Ttl ELSE Ttl - age[r]

\* Mutant: a successful execution is marked as one to retry.
MarkSucceeded_Retryable(r) ==
  /\ phase[r] = "succeeded"
  /\ row' = Marked(row, held[r], "failed_retryable", -MaxDelay, TtlLeft(r))
  /\ Return(r)
  /\ UNCHANGED <<nextId, fp, history>>

MarkSucceeded(r) ==
  /\ phase[r] = "succeeded"
  /\ row' = Marked(row, held[r], "succeeded", -MaxDelay, TtlLeft(r))
  /\ Return(r)
  /\ UNCHANGED <<nextId, fp, history>>

MarkFailedRetryable(r) ==
  /\ phase[r] = "failed"
  /\ row' = Marked(row, held[r], "failed_retryable", Backoff, TtlLeft(r))
  /\ Return(r)
  /\ UNCHANGED <<nextId, fp, history>>

\* Mutant: the claim is given up when its result cannot be stored.
MarkFails_Unlocks(r) ==
  /\ phase[r] \in {"succeeded", "failed"}
  /\ row' = Marked(row, held[r], "failed_retryable", 0, row.ttl)
  /\ Return(r)
  /\ UNCHANGED <<nextId, fp, history>>

\* The mark fails: the database is down or, without an ExecutionTimeout, the
\* client has gone.  The record stays as it is.
MarkFails(r) ==
  /\ phase[r] \in {"succeeded", "failed"}
  /\ Return(r)
  /\ UNCHANGED <<row, nextId, fp, history>>

\* A tick of renewProcessingLease.
ExtendProcessingLock(r) ==
  /\ r \in renewing
  /\ IF Extendable(row, held[r], fp[r])
       THEN row' = Extended(row, Lease, Ttl) /\ UNCHANGED renewing
       ELSE row' = row /\ renewing' = renewing \ {r}
  /\ UNCHANGED <<nextId, callVars, history>>

\* The process of the request dies.
Crash(r) ==
  /\ r \in InProgress
  /\ Return(r)
  /\ UNCHANGED <<row, nextId, fp, history>>

\* The cleanup.
DeleteExpired ==
  /\ row.id # 0
  /\ Expired(row)
  /\ row' = NoRow
  /\ UNCHANGED <<nextId, callVars, renewing, history>>

-----------------------------------------------------------------------------
\* Time passes for everyone, within the bounds on a request.
Tick ==
  /\ \A r \in Requests : /\ phase[r] \in Claiming => age[r] < MaxDelay
                         /\ phase[r] \in Working => age[r] < MaxRun
  /\ lapsed' = (lapsed \/ (row.id # 0 /\ row.ttl <= 1))
  /\ row' = [row EXCEPT !.lock = IF @ > -MaxDelay THEN @ - 1 ELSE @,
                        !.ttl = IF @ > -MaxDelay THEN @ - 1 ELSE @]
  /\ age' = [r \in Requests |-> IF r \in InProgress THEN age[r] + 1 ELSE age[r]]
  /\ UNCHANGED <<fp, nextId, phase, held, from, renewing, effects, met>>

Execute(r) ==
  \/ CreateProcessing(r) \/ GetExisting(r) \/ GetLatest(r) \/ TryReclaim(r)
  \/ StoreError(r) \/ Succeed(r) \/ Fail(r)
  \/ MarkSucceeded(r) \/ MarkFailedRetryable(r) \/ MarkFails(r)

Next ==
  \/ \E r \in Requests : Start(r) \/ Execute(r) \/ ExtendProcessingLock(r) \/ Crash(r)
  \/ DeleteExpired
  \/ Tick

Spec == Init /\ [][Next]_vars

\* Time passes, requests go on and renewals are tried again and again; the
\* cleanup need not run and nobody has to send a request.
FairSpec ==
  /\ Spec
  /\ WF_vars(Tick)
  /\ \A r \in Requests : WF_vars(Execute(r)) /\ WF_vars(ExtendProcessingLock(r))

-----------------------------------------------------------------------------
(* Properties *)

\* At no time do two requests with the same key execute, or mark what they
\* executed.
OneExecutionAtATime ==
  \A r, q \in Requests : phase[r] \in Working /\ phase[q] \in Working => r = q

\* As long as its record lives, a key's operation takes effect once, whatever
\* fails: retries are answered with the stored response or refused.
OneEffect == ~lapsed => \A r, q \in effects : r = q

\* Execute does again what a request that it overlapped with has already done
\* in one case only: it took over the record, having read it as succeeded and
\* expired, after the other had made it succeed anew.  Neither a backoff, a
\* lapsed lease, a mark that failed nor the cleanup lets it in.
OnlyTakeoverRepeats ==
  \A r \in effects, q \in Requests :
    <<r, q>> \in met /\ r # q /\ phase[q] \in Working => from[q] = "succeeded"

\* "concurrent same-key requests should execute business side-effect once":
\* of requests that were in progress together one has an effect.
ConcurrentRequestsOneEffect ==
  \A r, q \in effects : r # q => <<r, q>> \notin met

\* A record that nobody works on, because its process died or its mark failed,
\* can be taken over some time later, although renewals moved its expiry.
StuckKeyExpires ==
  (\A r \in Requests : phase[r] \notin Working) ~>
    \/ row.status # "processing" \/ Expired(row)
    \/ \E r \in Requests : phase[r] \in Working

\* ErrIdempotencyInProgress, "idempotent request is still processing": a
\* request is refused so only while another works or its lease is live.
InProgressIsTrue ==
  [][\A r \in Requests : phase[r] # "in_progress" /\ phase'[r] = "in_progress" =>
       row.lock > -age[r] \/ \E q \in Requests : phase[q] \in Working]_vars
=============================================================================
