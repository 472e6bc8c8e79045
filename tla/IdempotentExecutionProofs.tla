---------------------- MODULE IdempotentExecutionProofs ----------------------
(***************************************************************************)
(* One execution at a time and one effect, for any number of requests, any *)
(* payloads and all durations that satisfy ExecutionAssumption.            *)
(*                                                                         *)
(* The owner of the row is the request that executes: the row says so, and *)
(* expires later than the request may end.  A request that read the row    *)
(* before the owner claimed it, and found it expired, is too late: the     *)
(* owner's lease is longer than the request may take to claim (Late).      *)
(***************************************************************************)
EXTENDS IdempotentExecution, TLAPS

\* What the clocks of a request say of its step.
Timed ==
  \A r \in Requests :
    /\ phase[r] = "idle" => age[r] = 0
    /\ phase[r] \in Claiming => age[r] <= MaxDelay
    /\ phase[r] = "reclaim" => from[r] = "failed_retryable"
    /\ phase[r] \in {"takeover", "reclaim"} => held[r] # 0

\* The request that executes owns the row until it ends.
Owner ==
  \A r \in Requests : phase[r] \in Working =>
    /\ row.id = held[r] /\ row.id # 0
    /\ row.status = "processing"
    /\ row.ttl + age[r] >= Ttl

\* A request that found the row expired before it was claimed cannot claim it
\* any more.
Late ==
  \A r, q \in Requests : phase[r] \in Working /\ phase[q] = "takeover" =>
    row.lock + age[q] > 0

Done == \A r \in effects :
  phase[r] \notin {"idle", "executing", "failed"} \cup Claiming

\* Requests that were in progress together have started.
MetIsMutual ==
  \A r, q \in Requests : <<r, q>> \in met => <<q, r>> \in met /\ phase[r] # "idle"

\* Until a record expires nobody takes one over, and that of an effect stays.
Unlapsed ==
  ~lapsed =>
    /\ row.id # 0 => row.ttl >= 1
    /\ \A q \in Requests : phase[q] # "takeover"
    /\ \A r \in effects :
         /\ row.id # 0 /\ row.status # "failed_retryable"
         /\ \A q \in Requests : phase[q] \in Working => q = r
    /\ OneEffect

ExecutionInv ==
  /\ TypeOK /\ Timed /\ Owner /\ OneExecutionAtATime /\ Late /\ Done
  /\ MetIsMutual /\ Unlapsed

\* A request cannot take the row over as one in processing, nor as a failed
\* one: it began before the lease, or the backoff, that the row has.
Refused(q) ==
  \/ row.status = "failed_retryable"
  \/ row.status = "processing" /\ phase[q] = "takeover"
  => row.lock + age[q] > 0

\* While a request that was in progress together with an effect tries to claim
\* the row, the row stays, and is open to a takeover of a success only.
Barred ==
  \A r \in effects, q \in Requests : <<r, q>> \in met /\ phase[q] \in Claiming =>
    /\ row.id # 0
    /\ row.ttl + age[q] > MaxDelay
    /\ Refused(q)

ConcurrencyInv == ExecutionInv /\ Barred /\ OnlyTakeoverRepeats

LEMMA ExecutionNext == ExecutionInv /\ [Next]_vars => ExecutionInv'
<1> SUFFICES ASSUME ExecutionInv, [Next]_vars PROVE ExecutionInv'
  OBVIOUS
<1>0. TypeOK /\ Timed /\ Owner /\ OneExecutionAtATime /\ Late /\ Done /\ MetIsMutual /\ Unlapsed
  BY DEF ExecutionInv
<1> USE <1>0, ExecutionAssumption, ModeAssumption
<1> USE DEF Claiming, Working, Answers, Statuses, Answer, Use
<1>1. ASSUME NEW r \in Requests, Start(r) PROVE ExecutionInv'
  <2>1. TypeOK'
    BY <1>1 DEF Start, Goto, InProgress, history, callVars, TypeOK
  <2>2. Timed'
    BY <1>1 DEF Start, Goto, InProgress, history, callVars, TypeOK, Timed
  <2>3. Owner'
    BY <1>1 DEF Start, Goto, InProgress, history, callVars, TypeOK, Timed, Owner,
       OneExecutionAtATime, Late
  <2>4. OneExecutionAtATime'
    BY <1>1 DEF Start, Goto, InProgress, history, callVars, TypeOK, Timed, Owner,
       OneExecutionAtATime, Late
  <2>5. Late'
    BY <1>1 DEF Start, Goto, InProgress, history, callVars, TypeOK, Timed, Owner,
       OneExecutionAtATime, Late
  <2>6. Done'
    BY <1>1 DEF Start, Goto, InProgress, history, callVars, TypeOK, Done
  <2>7. MetIsMutual'
    BY <1>1 DEF Start, Goto, InProgress, history, callVars, TypeOK, MetIsMutual
  <2>8. Unlapsed'
    BY <1>1 DEF Start, Goto, InProgress, history, callVars, TypeOK, Timed, Owner,
       OneExecutionAtATime, Done, Unlapsed, OneEffect
  <2> QED
    BY <2>1, <2>2, <2>3, <2>4, <2>5, <2>6, <2>7, <2>8 DEF ExecutionInv
<1>2. ASSUME NEW r \in Requests, CreateProcessing(r) PROVE ExecutionInv'
  <2>1. TypeOK'
    <3>1. CASE row.id = 0
      <4>1. row' = [id |-> nextId, status |-> "processing", fp |-> fp[r],
                    lock |-> Lease - age[r], ttl |-> Ttl - age[r]]
        BY <1>2, <3>1 DEF CreateProcessing, Created
      <4>2. age[r] \in 0..MaxDelay
        BY <1>2 DEF CreateProcessing, TypeOK, Timed
      <4>3. Lease - age[r] \in -MaxDelay..Lease /\ Ttl - age[r] \in -MaxDelay..Ttl
        BY <4>2
      <4>4. row' \in [id : Nat, status : Statuses, fp : Fps \cup {NoFp},
                      lock : (-MaxDelay..Lease) \cup (0..Backoff), ttl : -MaxDelay..Ttl]
        BY <4>1, <4>3 DEF TypeOK
      <4> QED
        BY <1>2, <3>1, <4>4 DEF CreateProcessing, Claim, Goto, history, TypeOK
    <3>2. CASE row.id # 0
      BY <1>2, <3>2 DEF CreateProcessing, Goto, history, TypeOK
    <3> QED
      BY <3>1, <3>2
  <2>2. Timed'
    BY <1>2 DEF CreateProcessing, Claim, Goto, Created, history, TypeOK, Timed
  <2>3. Owner'
    BY <1>2 DEF CreateProcessing, Claim, Goto, Created, history, TypeOK, Timed, Owner,
       OneExecutionAtATime, Late
  <2>4. OneExecutionAtATime'
    BY <1>2 DEF CreateProcessing, Claim, Goto, Created, history, TypeOK, Timed, Owner,
       OneExecutionAtATime, Late
  <2>5. Late'
    BY <1>2 DEF CreateProcessing, Claim, Goto, Created, history, TypeOK, Timed, Owner,
       OneExecutionAtATime, Late
  <2>6. Done'
    BY <1>2 DEF CreateProcessing, Claim, Goto, Created, history, TypeOK, Done
  <2>7. MetIsMutual'
    BY <1>2 DEF CreateProcessing, Claim, Goto, Created, history, TypeOK, MetIsMutual
  <2>8. Unlapsed'
    BY <1>2 DEF CreateProcessing, Claim, Goto, Created, history, TypeOK, Timed, Owner,
       OneExecutionAtATime, Done, Unlapsed, OneEffect
  <2> QED
    BY <2>1, <2>2, <2>3, <2>4, <2>5, <2>6, <2>7, <2>8 DEF ExecutionInv
<1>3. ASSUME NEW r \in Requests, GetExisting(r) PROVE ExecutionInv'
  <2>1. TypeOK'
    BY <1>3 DEF GetExisting, Decide, Goto, history, TypeOK
  <2>2. Timed'
    BY <1>3 DEF GetExisting, Decide, Goto, history, TypeOK, Timed
  <2>3. Owner'
    BY <1>3 DEF GetExisting, Decide, Goto, history, TypeOK, Timed, Owner,
       OneExecutionAtATime, Late
  <2>4. OneExecutionAtATime'
    BY <1>3 DEF GetExisting, Decide, Goto, history, TypeOK, Timed, Owner,
       OneExecutionAtATime, Late
  <2>5. Late'
    BY <1>3 DEF GetExisting, Decide, Goto, history, TypeOK, Timed, Owner,
       OneExecutionAtATime, Late
  <2>6. Done'
    BY <1>3 DEF GetExisting, Decide, Goto, history, TypeOK, Done
  <2>7. MetIsMutual'
    BY <1>3 DEF GetExisting, Decide, Goto, history, TypeOK, MetIsMutual
  <2>8. Unlapsed'
    BY <1>3 DEF GetExisting, Decide, Goto, history, TypeOK, Timed, Owner,
       OneExecutionAtATime, Done, Unlapsed, OneEffect
  <2> QED
    BY <2>1, <2>2, <2>3, <2>4, <2>5, <2>6, <2>7, <2>8 DEF ExecutionInv
<1>4. ASSUME NEW r \in Requests, GetLatest(r) PROVE ExecutionInv'
  <2>1. TypeOK'
    BY <1>4 DEF GetLatest, Decide, Goto, history, TypeOK
  <2>2. Timed'
    BY <1>4 DEF GetLatest, Decide, Goto, history, TypeOK, Timed
  <2>3. Owner'
    BY <1>4 DEF GetLatest, Decide, Goto, history, TypeOK, Timed, Owner,
       OneExecutionAtATime, Late
  <2>4. OneExecutionAtATime'
    BY <1>4 DEF GetLatest, Decide, Goto, history, TypeOK, Timed, Owner,
       OneExecutionAtATime, Late
  <2>5. Late'
    BY <1>4 DEF GetLatest, Decide, Goto, history, TypeOK, Timed, Owner,
       OneExecutionAtATime, Late
  <2>6. Done'
    BY <1>4 DEF GetLatest, Decide, Goto, history, TypeOK, Done
  <2>7. MetIsMutual'
    BY <1>4 DEF GetLatest, Decide, Goto, history, TypeOK, MetIsMutual
  <2>8. Unlapsed'
    BY <1>4 DEF GetLatest, Decide, Goto, history, TypeOK, Timed, Owner,
       OneExecutionAtATime, Done, Unlapsed, OneEffect
  <2> QED
    BY <2>1, <2>2, <2>3, <2>4, <2>5, <2>6, <2>7, <2>8 DEF ExecutionInv
<1>5. ASSUME NEW r \in Requests, TryReclaim(r) PROVE ExecutionInv'
  <2>a. CASE Reclaimable(row, held[r], from[r], -age[r])
    <3>1. /\ row' = [row EXCEPT !.status = "processing", !.lock = Lease - age[r],
                                !.ttl = Ttl - age[r]]
          /\ phase' = [phase EXCEPT ![r] = "executing"]
          /\ held' = [held EXCEPT ![r] = held[r]]
          /\ renewing' = IF Renews THEN renewing \cup {r} ELSE renewing
          /\ UNCHANGED <<nextId, fp, age, from, effects, met, lapsed>>
          /\ phase[r] \in {"takeover", "reclaim"}
      BY <1>5, <2>a DEF TryReclaim, Reclaimed, Claim, Goto, history
    <3>2. age[r] \in 0..MaxDelay
      BY <3>1 DEF TypeOK, Timed
    <3>3. row.id = held[r] /\ row.status = from[r] /\ row.lock <= -age[r]
      BY <2>a DEF Reclaimable
    <3>4. /\ row'.id = row.id /\ row'.status = "processing"
          /\ row'.lock = Lease - age[r] /\ row'.ttl = Ttl - age[r]
      BY <3>1 DEF TypeOK
    <3>5. row' \in [id : Nat, status : Statuses, fp : Fps \cup {NoFp},
                    lock : (-MaxDelay..Lease) \cup (0..Backoff), ttl : -MaxDelay..Ttl]
      <4>1. Lease - age[r] \in -MaxDelay..Lease /\ Ttl - age[r] \in -MaxDelay..Ttl
        BY <3>2
      <4> QED
        BY <3>1, <4>1 DEF TypeOK
    <3>6. TypeOK'
      BY <3>1, <3>5 DEF TypeOK
    <3>7. Timed'
      BY <3>1 DEF TypeOK, Timed
    <3>8. \A q \in Requests : phase[q] \notin Working
      <4> SUFFICES ASSUME NEW q \in Requests, phase[q] \in Working PROVE FALSE
        OBVIOUS
      <4>1. row.status = "processing"
        BY DEF Owner
      <4>2. phase[r] = "takeover"
        BY <3>1, <3>3, <4>1 DEF Timed
      <4>3. row.lock + age[r] > 0
        BY <4>2 DEF Late
      <4> QED
        BY <3>2, <3>3, <4>3 DEF TypeOK
    <3>9. OneExecutionAtATime'
      BY <3>1, <3>8 DEF OneExecutionAtATime, TypeOK
    <3>10. row.id # 0
      BY <3>1, <3>3 DEF Timed
    <3>11. Owner'
      BY <3>1, <3>2, <3>3, <3>4, <3>8, <3>10 DEF Owner, TypeOK
    <3>12. Late'
      BY <3>1, <3>2, <3>4, <3>8 DEF Late, TypeOK, Timed
    <3>13. Done' /\ MetIsMutual'
      BY <3>1 DEF Done, MetIsMutual, TypeOK
    <3>14. Unlapsed'
      <4> SUFFICES ASSUME ~lapsed' PROVE Unlapsed'
        BY DEF Unlapsed
      <4>1. ~lapsed
        BY <3>1
      <4>2. effects = {}
        <5>1. phase[r] = "reclaim"
          BY <3>1, <4>1 DEF Unlapsed
        <5>2. row.status = "failed_retryable"
          BY <3>3, <5>1 DEF Timed
        <5> QED
          BY <4>1, <5>2 DEF Unlapsed
      <4>3. row'.ttl >= 1
        BY <3>2, <3>4
      <4> QED
        BY <3>1, <3>4, <4>1, <4>2, <4>3 DEF Unlapsed, OneEffect, TypeOK
    <3> QED
      BY <3>6, <3>7, <3>9, <3>11, <3>12, <3>13, <3>14 DEF ExecutionInv
  <2>b. CASE ~Reclaimable(row, held[r], from[r], -age[r])
    <3>1. /\ \/ /\ phase' = [phase EXCEPT ![r] = "reget"]
                /\ UNCHANGED <<age, held, from>>
             \/ /\ phase' = [phase EXCEPT ![r] = "in_progress"]
                /\ age' = [age EXCEPT ![r] = 0]
                /\ held' = [held EXCEPT ![r] = 0]
                /\ from' = [from EXCEPT ![r] = "none"]
          /\ phase[r] \in {"takeover", "reclaim"}
          /\ UNCHANGED <<row, nextId, fp, renewing, effects, met, lapsed>>
      BY <1>5, <2>b DEF TryReclaim, Goto, history
    <3>2. TypeOK' /\ Timed'
      BY <3>1 DEF TypeOK, Timed
    <3>3. Owner' /\ OneExecutionAtATime'
      BY <3>1 DEF Owner, OneExecutionAtATime, TypeOK
    <3>4. Late'
      BY <3>1 DEF Late, TypeOK
    <3>5. Done' /\ MetIsMutual'
      BY <3>1 DEF Done, MetIsMutual, TypeOK
    <3>6. Unlapsed'
      BY <3>1 DEF Unlapsed, OneEffect, TypeOK
    <3> QED
      BY <3>2, <3>3, <3>4, <3>5, <3>6 DEF ExecutionInv
  <2> QED
    BY <2>a, <2>b
<1>6. ASSUME NEW r \in Requests, StoreError(r) PROVE ExecutionInv'
  <2>1. TypeOK'
    BY <1>6 DEF StoreError, Goto, history, TypeOK
  <2>2. Timed'
    BY <1>6 DEF StoreError, Goto, history, TypeOK, Timed
  <2>3. Owner'
    BY <1>6 DEF StoreError, Goto, history, TypeOK, Timed, Owner, OneExecutionAtATime,
       Late
  <2>4. OneExecutionAtATime'
    BY <1>6 DEF StoreError, Goto, history, TypeOK, Timed, Owner, OneExecutionAtATime,
       Late
  <2>5. Late'
    BY <1>6 DEF StoreError, Goto, history, TypeOK, Timed, Owner, OneExecutionAtATime,
       Late
  <2>6. Done'
    BY <1>6 DEF StoreError, Goto, history, TypeOK, Done
  <2>7. MetIsMutual'
    BY <1>6 DEF StoreError, Goto, history, TypeOK, MetIsMutual
  <2>8. Unlapsed'
    BY <1>6 DEF StoreError, Goto, history, TypeOK, Timed, Owner, OneExecutionAtATime,
       Done, Unlapsed, OneEffect
  <2> QED
    BY <2>1, <2>2, <2>3, <2>4, <2>5, <2>6, <2>7, <2>8 DEF ExecutionInv
<1>7. ASSUME NEW r \in Requests, Succeed(r) PROVE ExecutionInv'
  <2>1. TypeOK'
    BY <1>7 DEF Succeed, Goto, TypeOK
  <2>2. Timed'
    BY <1>7 DEF Succeed, Goto, TypeOK, Timed
  <2>3. Owner'
    BY <1>7 DEF Succeed, Goto, TypeOK, Timed, Owner, OneExecutionAtATime, Late
  <2>4. OneExecutionAtATime'
    BY <1>7 DEF Succeed, Goto, TypeOK, Timed, Owner, OneExecutionAtATime, Late
  <2>5. Late'
    BY <1>7 DEF Succeed, Goto, TypeOK, Timed, Owner, OneExecutionAtATime, Late
  <2>6. Done'
    BY <1>7 DEF Succeed, Goto, TypeOK, Done
  <2>7. MetIsMutual'
    BY <1>7 DEF Succeed, Goto, TypeOK, MetIsMutual
  <2>8. Unlapsed'
    BY <1>7 DEF Succeed, Goto, TypeOK, Timed, Owner, OneExecutionAtATime, Done,
       Unlapsed, OneEffect
  <2> QED
    BY <2>1, <2>2, <2>3, <2>4, <2>5, <2>6, <2>7, <2>8 DEF ExecutionInv
<1>8. ASSUME NEW r \in Requests, Fail(r) PROVE ExecutionInv'
  <2>1. TypeOK'
    BY <1>8 DEF Fail, Goto, history, TypeOK
  <2>2. Timed'
    BY <1>8 DEF Fail, Goto, history, TypeOK, Timed
  <2>3. Owner'
    BY <1>8 DEF Fail, Goto, history, TypeOK, Timed, Owner, OneExecutionAtATime, Late
  <2>4. OneExecutionAtATime'
    BY <1>8 DEF Fail, Goto, history, TypeOK, Timed, Owner, OneExecutionAtATime, Late
  <2>5. Late'
    BY <1>8 DEF Fail, Goto, history, TypeOK, Timed, Owner, OneExecutionAtATime, Late
  <2>6. Done'
    BY <1>8 DEF Fail, Goto, history, TypeOK, Done
  <2>7. MetIsMutual'
    BY <1>8 DEF Fail, Goto, history, TypeOK, MetIsMutual
  <2>8. Unlapsed'
    BY <1>8 DEF Fail, Goto, history, TypeOK, Timed, Owner, OneExecutionAtATime, Done,
       Unlapsed, OneEffect
  <2> QED
    BY <2>1, <2>2, <2>3, <2>4, <2>5, <2>6, <2>7, <2>8 DEF ExecutionInv
<1>9. ASSUME NEW r \in Requests, MarkSucceeded(r) PROVE ExecutionInv'
  <2>1. TypeOK'
    <3>1. TtlLeft(r) \in -MaxDelay..Ttl
      BY DEF TtlLeft, TypeOK
    <3>2. -MaxDelay \in (-MaxDelay..Lease) \cup (0..Backoff)
      OBVIOUS
    <3>3. row' \in [id : Nat, status : Statuses, fp : Fps \cup {NoFp},
                    lock : (-MaxDelay..Lease) \cup (0..Backoff), ttl : -MaxDelay..Ttl]
      <4>1. row' = row \/ row' = [row EXCEPT !.status = "succeeded", !.lock = -MaxDelay,
                                            !.ttl = TtlLeft(r)]
        BY <1>9 DEF MarkSucceeded, Marked
      <4> QED
        BY <3>1, <3>2, <4>1 DEF TypeOK
    <3> QED
      BY <1>9, <3>3 DEF MarkSucceeded, Return, Goto, history, TypeOK
  <2>2. Timed'
    BY <1>9 DEF MarkSucceeded, Marked, TtlLeft, Return, Goto, history, TypeOK, Timed
  <2>3. Owner'
    BY <1>9 DEF MarkSucceeded, Marked, TtlLeft, Return, Goto, history, TypeOK, Timed,
       Owner, OneExecutionAtATime, Late
  <2>4. OneExecutionAtATime'
    BY <1>9 DEF MarkSucceeded, Marked, TtlLeft, Return, Goto, history, TypeOK, Timed,
       Owner, OneExecutionAtATime, Late
  <2>5. Late'
    BY <1>9 DEF MarkSucceeded, Marked, TtlLeft, Return, Goto, history, TypeOK, Timed,
       Owner, OneExecutionAtATime, Late
  <2>6. Done'
    BY <1>9 DEF MarkSucceeded, Marked, TtlLeft, Return, Goto, history, TypeOK, Done
  <2>7. MetIsMutual'
    BY <1>9 DEF MarkSucceeded, Marked, TtlLeft, Return, Goto, history, TypeOK,
       MetIsMutual
  <2>8. Unlapsed'
    BY <1>9 DEF MarkSucceeded, Marked, TtlLeft, Return, Goto, history, TypeOK, Timed,
       Owner, OneExecutionAtATime, Done, Unlapsed, OneEffect
  <2> QED
    BY <2>1, <2>2, <2>3, <2>4, <2>5, <2>6, <2>7, <2>8 DEF ExecutionInv
<1>10. ASSUME NEW r \in Requests, MarkFailedRetryable(r) PROVE ExecutionInv'
  <2>1. TypeOK'
    <3>1. TtlLeft(r) \in -MaxDelay..Ttl
      BY DEF TtlLeft, TypeOK
    <3>2. Backoff \in (-MaxDelay..Lease) \cup (0..Backoff)
      OBVIOUS
    <3>3. row' \in [id : Nat, status : Statuses, fp : Fps \cup {NoFp},
                    lock : (-MaxDelay..Lease) \cup (0..Backoff), ttl : -MaxDelay..Ttl]
      <4>1. row' = row \/ row' = [row EXCEPT !.status = "failed_retryable", !.lock = Backoff,
                                            !.ttl = TtlLeft(r)]
        BY <1>10 DEF MarkFailedRetryable, Marked
      <4> QED
        BY <3>1, <3>2, <4>1 DEF TypeOK
    <3> QED
      BY <1>10, <3>3 DEF MarkFailedRetryable, Return, Goto, history, TypeOK
  <2>2. Timed'
    BY <1>10 DEF MarkFailedRetryable, Marked, TtlLeft, Return, Goto, history, TypeOK,
       Timed
  <2>3. Owner'
    BY <1>10 DEF MarkFailedRetryable, Marked, TtlLeft, Return, Goto, history, TypeOK,
       Timed, Owner, OneExecutionAtATime, Late
  <2>4. OneExecutionAtATime'
    BY <1>10 DEF MarkFailedRetryable, Marked, TtlLeft, Return, Goto, history, TypeOK,
       Timed, Owner, OneExecutionAtATime, Late
  <2>5. Late'
    BY <1>10 DEF MarkFailedRetryable, Marked, TtlLeft, Return, Goto, history, TypeOK,
       Timed, Owner, OneExecutionAtATime, Late
  <2>6. Done'
    BY <1>10 DEF MarkFailedRetryable, Marked, TtlLeft, Return, Goto, history, TypeOK,
       Done
  <2>7. MetIsMutual'
    BY <1>10 DEF MarkFailedRetryable, Marked, TtlLeft, Return, Goto, history, TypeOK,
       MetIsMutual
  <2>8. Unlapsed'
    BY <1>10 DEF MarkFailedRetryable, Marked, TtlLeft, Return, Goto, history, TypeOK,
       Timed, Owner, OneExecutionAtATime, Done, Unlapsed, OneEffect
  <2> QED
    BY <2>1, <2>2, <2>3, <2>4, <2>5, <2>6, <2>7, <2>8 DEF ExecutionInv
<1>11. ASSUME NEW r \in Requests, MarkFails(r) PROVE ExecutionInv'
  <2>1. TypeOK'
    BY <1>11 DEF MarkFails, Return, Goto, history, TypeOK
  <2>2. Timed'
    BY <1>11 DEF MarkFails, Return, Goto, history, TypeOK, Timed
  <2>3. Owner'
    BY <1>11 DEF MarkFails, Return, Goto, history, TypeOK, Timed, Owner,
       OneExecutionAtATime, Late
  <2>4. OneExecutionAtATime'
    BY <1>11 DEF MarkFails, Return, Goto, history, TypeOK, Timed, Owner,
       OneExecutionAtATime, Late
  <2>5. Late'
    BY <1>11 DEF MarkFails, Return, Goto, history, TypeOK, Timed, Owner,
       OneExecutionAtATime, Late
  <2>6. Done'
    BY <1>11 DEF MarkFails, Return, Goto, history, TypeOK, Done
  <2>7. MetIsMutual'
    BY <1>11 DEF MarkFails, Return, Goto, history, TypeOK, MetIsMutual
  <2>8. Unlapsed'
    BY <1>11 DEF MarkFails, Return, Goto, history, TypeOK, Timed, Owner,
       OneExecutionAtATime, Done, Unlapsed, OneEffect
  <2> QED
    BY <2>1, <2>2, <2>3, <2>4, <2>5, <2>6, <2>7, <2>8 DEF ExecutionInv
<1>12. ASSUME NEW r \in Requests, ExtendProcessingLock(r) PROVE ExecutionInv'
  <2>a. phase[r] \in Working /\ UNCHANGED <<nextId, callVars, history>>
    BY <1>12 DEF ExtendProcessingLock, TypeOK
  <2>b. CASE Extendable(row, held[r], fp[r])
    <3>1. row' = [row EXCEPT !.lock = Lease, !.ttl = Ttl] /\ renewing' = renewing
      BY <1>12, <2>b DEF ExtendProcessingLock, Extended
    <3>2. /\ row'.id = row.id /\ row'.status = row.status
          /\ row'.lock = Lease /\ row'.ttl = Ttl
      BY <3>1 DEF TypeOK
    <3>3. row' \in [id : Nat, status : Statuses, fp : Fps \cup {NoFp},
                    lock : (-MaxDelay..Lease) \cup (0..Backoff), ttl : -MaxDelay..Ttl]
      <4>1. Lease \in -MaxDelay..Lease /\ Ttl \in -MaxDelay..Ttl
        OBVIOUS
      <4> QED
        BY <3>1, <4>1 DEF TypeOK
    <3>4. TypeOK' /\ Timed'
      BY <2>a, <3>1, <3>3 DEF TypeOK, Timed, callVars, history
    <3>5. Owner' /\ OneExecutionAtATime' /\ Late'
      BY <2>a, <3>2 DEF Owner, OneExecutionAtATime, Late, TypeOK, callVars, history
    <3>6. Done' /\ MetIsMutual'
      BY <2>a DEF Done, MetIsMutual, callVars, history
    <3>7. Unlapsed'
      BY <2>a, <3>2 DEF Unlapsed, OneEffect, callVars, history
    <3> QED
      BY <3>4, <3>5, <3>6, <3>7 DEF ExecutionInv
  <2>c. CASE ~Extendable(row, held[r], fp[r])
    <3>1. row' = row /\ renewing' = renewing \ {r}
      BY <1>12, <2>c DEF ExtendProcessingLock
    <3>2. TypeOK' /\ Timed'
      BY <2>a, <3>1 DEF TypeOK, Timed, callVars, history
    <3>3. Owner' /\ OneExecutionAtATime' /\ Late' /\ Done' /\ MetIsMutual'
      BY <2>a, <3>1 DEF Owner, OneExecutionAtATime, Late, Done, MetIsMutual, callVars,
         history
    <3>4. Unlapsed'
      BY <2>a, <3>1 DEF Unlapsed, OneEffect, callVars, history
    <3> QED
      BY <3>2, <3>3, <3>4 DEF ExecutionInv
  <2> QED
    BY <2>b, <2>c
<1>13. ASSUME NEW r \in Requests, Crash(r) PROVE ExecutionInv'
  <2>1. TypeOK'
    BY <1>13 DEF Crash, InProgress, Return, Goto, history, TypeOK
  <2>2. Timed'
    BY <1>13 DEF Crash, InProgress, Return, Goto, history, TypeOK, Timed
  <2>3. Owner'
    BY <1>13 DEF Crash, InProgress, Return, Goto, history, TypeOK, Timed, Owner,
       OneExecutionAtATime, Late
  <2>4. OneExecutionAtATime'
    BY <1>13 DEF Crash, InProgress, Return, Goto, history, TypeOK, Timed, Owner,
       OneExecutionAtATime, Late
  <2>5. Late'
    BY <1>13 DEF Crash, InProgress, Return, Goto, history, TypeOK, Timed, Owner,
       OneExecutionAtATime, Late
  <2>6. Done'
    BY <1>13 DEF Crash, InProgress, Return, Goto, history, TypeOK, Done
  <2>7. MetIsMutual'
    BY <1>13 DEF Crash, InProgress, Return, Goto, history, TypeOK, MetIsMutual
  <2>8. Unlapsed'
    BY <1>13 DEF Crash, InProgress, Return, Goto, history, TypeOK, Timed, Owner,
       OneExecutionAtATime, Done, Unlapsed, OneEffect
  <2> QED
    BY <2>1, <2>2, <2>3, <2>4, <2>5, <2>6, <2>7, <2>8 DEF ExecutionInv
<1>14. CASE DeleteExpired
  <2>1. TypeOK'
    BY <1>14 DEF DeleteExpired, Expired, NoRow, callVars, history, TypeOK
  <2>2. Timed'
    BY <1>14 DEF DeleteExpired, Expired, NoRow, callVars, history, TypeOK, Timed
  <2>3. Owner'
    BY <1>14 DEF DeleteExpired, Expired, NoRow, callVars, history, TypeOK, Timed, Owner,
       OneExecutionAtATime, Late
  <2>4. OneExecutionAtATime'
    BY <1>14 DEF DeleteExpired, Expired, NoRow, callVars, history, TypeOK, Timed, Owner,
       OneExecutionAtATime, Late
  <2>5. Late'
    BY <1>14 DEF DeleteExpired, Expired, NoRow, callVars, history, TypeOK, Timed, Owner,
       OneExecutionAtATime, Late
  <2>6. Done'
    BY <1>14 DEF DeleteExpired, Expired, NoRow, callVars, history, TypeOK, Done
  <2>7. MetIsMutual'
    BY <1>14 DEF DeleteExpired, Expired, NoRow, callVars, history, TypeOK, MetIsMutual
  <2>8. Unlapsed'
    BY <1>14 DEF DeleteExpired, Expired, NoRow, callVars, history, TypeOK, Timed, Owner,
       OneExecutionAtATime, Done, Unlapsed, OneEffect
  <2> QED
    BY <2>1, <2>2, <2>3, <2>4, <2>5, <2>6, <2>7, <2>8 DEF ExecutionInv
<1>15. CASE Tick
  <2>1. TypeOK'
    <3>1. row' \in [id : Nat, status : Statuses, fp : Fps \cup {NoFp},
                    lock : (-MaxDelay..Lease) \cup (0..Backoff), ttl : -MaxDelay..Ttl]
      <4>1. row' = [row EXCEPT !.lock = IF row.lock > -MaxDelay THEN row.lock - 1 ELSE row.lock,
                               !.ttl = IF row.ttl > -MaxDelay THEN row.ttl - 1 ELSE row.ttl]
        BY <1>15 DEF Tick, TypeOK
      <4>2. (IF row.lock > -MaxDelay THEN row.lock - 1 ELSE row.lock)
              \in (-MaxDelay..Lease) \cup (0..Backoff)
        BY DEF TypeOK
      <4>3. (IF row.ttl > -MaxDelay THEN row.ttl - 1 ELSE row.ttl) \in -MaxDelay..Ttl
        BY DEF TypeOK
      <4> HIDE DEF Statuses
      <4> QED
        BY <4>1, <4>2, <4>3 DEF TypeOK
    <3>2. age' \in [Requests -> 0..MaxRun]
      BY <1>15 DEF Tick, InProgress, TypeOK, Timed
    <3>3. lapsed' \in BOOLEAN
      BY <1>15, Zenon DEF Tick
    <3> QED
      BY <1>15, <3>1, <3>2, <3>3 DEF Tick, TypeOK
  <2>2. Timed'
    BY <1>15 DEF Tick, InProgress, TypeOK, Timed
  <2>3. Owner'
    BY <1>15 DEF Tick, InProgress, TypeOK, Timed, Owner, OneExecutionAtATime, Late
  <2>4. OneExecutionAtATime'
    BY <1>15 DEF Tick, InProgress, TypeOK, Timed, Owner, OneExecutionAtATime, Late
  <2>5. Late'
    BY <1>15 DEF Tick, InProgress, TypeOK, Timed, Owner, OneExecutionAtATime, Late
  <2>6. Done'
    BY <1>15 DEF Tick, InProgress, TypeOK, Done
  <2>7. MetIsMutual'
    BY <1>15 DEF Tick, InProgress, TypeOK, MetIsMutual
  <2>8. Unlapsed'
    <3> SUFFICES ASSUME ~lapsed' PROVE Unlapsed'
      BY DEF Unlapsed
    <3>1. ~lapsed /\ ~(row.id # 0 /\ row.ttl <= 1)
      BY <1>15, Zenon DEF Tick
    <3>2. row'.id = row.id /\ row'.status = row.status
      BY <1>15 DEF Tick, TypeOK
    <3>3. row.id # 0 => row'.ttl >= 1
      BY <1>15, <3>1 DEF Tick, TypeOK
    <3>4. phase' = phase /\ effects' = effects
      BY <1>15 DEF Tick
    <3> QED
      BY <3>1, <3>2, <3>3, <3>4 DEF Unlapsed, OneEffect
  <2> QED
    BY <2>1, <2>2, <2>3, <2>4, <2>5, <2>6, <2>7, <2>8 DEF ExecutionInv
<1>16. CASE UNCHANGED vars
  <2>1. TypeOK'
    BY <1>16 DEF vars, callVars, history, TypeOK
  <2>2. Timed'
    BY <1>16 DEF vars, callVars, history, TypeOK, Timed
  <2>3. Owner'
    BY <1>16 DEF vars, callVars, history, TypeOK, Timed, Owner, OneExecutionAtATime,
       Late
  <2>4. OneExecutionAtATime'
    BY <1>16 DEF vars, callVars, history, TypeOK, Timed, Owner, OneExecutionAtATime,
       Late
  <2>5. Late'
    BY <1>16 DEF vars, callVars, history, TypeOK, Timed, Owner, OneExecutionAtATime,
       Late
  <2>6. Done'
    BY <1>16 DEF vars, callVars, history, TypeOK, Done
  <2>7. MetIsMutual'
    BY <1>16 DEF vars, callVars, history, TypeOK, MetIsMutual
  <2>8. Unlapsed'
    BY <1>16 DEF vars, callVars, history, TypeOK, Timed, Owner, OneExecutionAtATime,
       Done, Unlapsed, OneEffect
  <2> QED
    BY <2>1, <2>2, <2>3, <2>4, <2>5, <2>6, <2>7, <2>8 DEF ExecutionInv
<1> QED
  BY <1>1, <1>2, <1>3, <1>4, <1>5, <1>6, <1>7, <1>8, <1>9, <1>10, <1>11, <1>12, <1>13,
     <1>14, <1>15, <1>16 DEF Next, Execute

LEMMA ExecutionInit == Init => ExecutionInv
<1> SUFFICES ASSUME Init PROVE ExecutionInv
  OBVIOUS
<1> USE ExecutionAssumption DEF Claiming, Working, Answers, Statuses
<1>1. TypeOK
  <2>1. -MaxDelay \in -MaxDelay..Lease /\ -MaxDelay \in -MaxDelay..Ttl
    OBVIOUS
  <2>2. row \in [id : Nat, status : Statuses, fp : Fps \cup {NoFp},
                 lock : (-MaxDelay..Lease) \cup (0..Backoff), ttl : -MaxDelay..Ttl]
    BY <2>1 DEF Init, NoRow
  <2>3. /\ nextId \in Nat \ {0} /\ fp \in [Requests -> Fps]
        /\ phase \in [Requests -> {"idle"} \cup Claiming \cup Working \cup Answers]
        /\ age \in [Requests -> 0..MaxRun] /\ held \in [Requests -> Nat]
        /\ from \in [Requests -> Statuses \cup {"none"}]
    BY DEF Init
  <2>4. /\ renewing \subseteq {r \in Requests : phase[r] \in Working}
        /\ effects \subseteq Requests /\ met \subseteq Requests \X Requests
        /\ lapsed \in BOOLEAN
    BY DEF Init
  <2> QED
    BY <2>2, <2>3, <2>4 DEF TypeOK
<1>2. Timed /\ Owner /\ OneExecutionAtATime /\ Late
  BY DEF Init, Timed, Owner, OneExecutionAtATime, Late
<1>3. Done /\ MetIsMutual /\ Unlapsed
  BY DEF Init, NoRow, Done, MetIsMutual, Unlapsed, OneEffect
<1> QED
  BY <1>1, <1>2, <1>3 DEF ExecutionInv

\* The invariant that the theorems about IdempotencyCoordinator.Execute follow
\* from.
THEOREM Execution == Spec => []ExecutionInv
<1>1. Init => ExecutionInv
  BY ExecutionInit
<1>2. ExecutionInv /\ [Next]_vars => ExecutionInv'
  BY ExecutionNext
<1> QED
  BY <1>1, <1>2, PTL DEF Spec

\* The state of Execute and of the record has its type.
THEOREM IdempotencyTypeCorrect == Spec => []TypeOK
<1>1. ExecutionInv => TypeOK
  BY DEF ExecutionInv
<1> QED
  BY <1>1, Execution, PTL

\* No two requests with the same key execute the operation at the same time:
\* the claim is exclusive until its request has marked the record.
THEOREM OneAtATime == Spec => []OneExecutionAtATime
<1>1. ExecutionInv => OneExecutionAtATime
  BY DEF ExecutionInv
<1> QED
  BY <1>1, Execution, PTL

\* While the record of a key lives its operation takes effect once, whatever
\* fails in between.
THEOREM OneEffectWhileRecorded == Spec => []OneEffect
<1>1. ExecutionInv => OneEffect
  BY DEF ExecutionInv, Unlapsed, OneEffect
<1> QED
  BY <1>1, Execution, PTL

-----------------------------------------------------------------------------
(* Requests in progress together. *)

LEMMA ConcurrencyNext ==
  ASSUME ConcurrencyInv, [Next]_vars
  PROVE  (Barred /\ OnlyTakeoverRepeats)'
<1>0. /\ TypeOK /\ Timed /\ Owner /\ OneExecutionAtATime /\ Late /\ Done /\ MetIsMutual
      /\ Barred /\ OnlyTakeoverRepeats
  BY DEF ConcurrencyInv, ExecutionInv
<1> USE <1>0, ExecutionAssumption, ModeAssumption
<1> USE DEF Claiming, Working, Answers, Statuses, Answer, Use
<1>a. ASSUME NEW e \in effects, NEW q \in Requests, <<e, q>> \in met, phase[q] \in Claiming
      PROVE  row.id # 0 /\ row.ttl >= 1 /\ age[q] <= MaxDelay /\ Refused(q)
  BY <1>a DEF Barred, TypeOK, Timed
\* The row of a request that works.
<1>b. ASSUME NEW e \in Requests, phase[e] \in Working
      PROVE  /\ row.id # 0 /\ row.status = "processing" /\ row.ttl > MaxDelay
             /\ \A q \in Requests : phase[q] \in Claiming => Refused(q)
  BY <1>b DEF Owner, Late, Refused, TypeOK
<1>1. ASSUME NEW r \in Requests, Start(r) PROVE (Barred /\ OnlyTakeoverRepeats)'
  <2>a. /\ phase' = [phase EXCEPT ![r] = "create"] /\ phase[r] = "idle" /\ age[r] = 0
        /\ met' = met \cup ({r} \X InProgress) \cup (InProgress \X {r})
        /\ UNCHANGED <<row, age, from, effects>>
    BY <1>1 DEF Start, Goto, TypeOK, Timed
  <2>b. r \notin effects
    BY <2>a DEF Done
  <2>1. ASSUME NEW e \in effects, NEW q \in Requests, <<e, q>> \in met'
        PROVE  (<<e, q>> \in met /\ q # r) \/ (q = r /\ phase[e] \in Working)
    <3>1. <<e, q>> \in met => q # r
      BY <2>a DEF MetIsMutual, TypeOK
    <3>2. phase[e] \notin Claiming
      BY DEF Done
    <3> QED
      BY <2>1, <2>a, <2>b, <3>1, <3>2 DEF InProgress
  <2>2. OnlyTakeoverRepeats'
    BY <2>a, <2>1 DEF OnlyTakeoverRepeats, TypeOK
  <2>3. Barred'
    <3> SUFFICES ASSUME NEW e \in effects, NEW q \in Requests, <<e, q>> \in met',
                        phase'[q] \in Claiming
                 PROVE  row.id # 0 /\ row.ttl + age[q] > MaxDelay /\ Refused(q)'
      BY <2>a DEF Barred
    <3>1. CASE <<e, q>> \in met /\ q # r
      BY <2>a, <3>1 DEF Barred, Refused, TypeOK
    <3>2. CASE q = r /\ phase[e] \in Working
      <4>1. row.id # 0 /\ row.status = "processing" /\ row.ttl > MaxDelay
        BY <1>b, <3>2 DEF TypeOK
      <4> QED
        BY <2>a, <3>2, <4>1 DEF Refused, TypeOK
    <3> QED
      BY <2>1, <3>1, <3>2
  <2> QED
    BY <2>2, <2>3
<1>2. ASSUME NEW r \in Requests, CreateProcessing(r) PROVE (Barred /\ OnlyTakeoverRepeats)'
  <2>1. CASE row.id = 0
    <3>1. \A e \in effects, q \in Requests : <<e, q>> \in met => phase[q] \notin Claiming
      BY <1>a, <2>1
    <3>2. /\ phase' = [phase EXCEPT ![r] = "executing"] /\ phase[r] = "create"
          /\ UNCHANGED <<from, effects, met>>
      BY <1>2, <2>1 DEF CreateProcessing, Claim, Goto, history
    <3> QED
      BY <3>1, <3>2 DEF Barred, OnlyTakeoverRepeats, TypeOK
  <2>2. CASE row.id # 0
    BY <1>2, <2>2 DEF CreateProcessing, Goto, history, TypeOK, Barred, Refused,
       OnlyTakeoverRepeats
  <2> QED
    BY <2>1, <2>2
\* A request that reads the row, or gives up, comes no nearer to it.
<1>c. ASSUME NEW r \in Requests, phase[r] \in Claiming,
             UNCHANGED <<row, effects, met>>,
             \A q \in Requests \ {r} : phase'[q] = phase[q] /\ age'[q] = age[q] /\ from'[q] = from[q],
             \/ phase'[r] \in Answers
             \/ phase'[r] \in {"get", "reget", "reclaim"} /\ age'[r] = age[r]
             \/ phase'[r] = "takeover" /\ age'[r] = age[r] /\ row.ttl <= -age[r]
      PROVE  (Barred /\ OnlyTakeoverRepeats)'
  <2>1. OnlyTakeoverRepeats'
    BY <1>c DEF OnlyTakeoverRepeats
  <2>2. ASSUME NEW e \in effects, NEW q \in Requests, <<e, q>> \in met, phase'[q] \in Claiming
        PROVE  row.id # 0 /\ row.ttl + age'[q] > MaxDelay /\ Refused(q)'
    <3>1. CASE q # r
      BY <1>c, <2>2, <3>1 DEF Barred, Refused
    <3>2. CASE q = r
      <4>1. row.id # 0 /\ row.ttl + age[r] > MaxDelay /\ Refused(r) /\ age'[r] = age[r]
        BY <1>c, <2>2, <3>2 DEF Barred
      <4>2. phase'[r] # "takeover"
        BY <1>c, <4>1 DEF TypeOK
      <4> QED
        BY <1>c, <3>2, <4>1, <4>2 DEF Refused
    <3> QED
      BY <3>1, <3>2
  <2>3. Barred'
    BY <1>c, <2>2 DEF Barred
  <2> QED
    BY <2>1, <2>3
<1>3. ASSUME NEW r \in Requests, GetExisting(r) PROVE (Barred /\ OnlyTakeoverRepeats)'
  BY <1>3, <1>c DEF GetExisting, Decide, Goto, history, TypeOK
<1>4. ASSUME NEW r \in Requests, GetLatest(r) PROVE (Barred /\ OnlyTakeoverRepeats)'
  BY <1>4, <1>c DEF GetLatest, Decide, Goto, history, TypeOK
<1>5. ASSUME NEW r \in Requests, TryReclaim(r) PROVE (Barred /\ OnlyTakeoverRepeats)'
  <2>1. CASE Reclaimable(row, held[r], from[r], -age[r])
    <3>1. /\ phase' = [phase EXCEPT ![r] = "executing"] /\ phase[r] \in {"takeover", "reclaim"}
          /\ UNCHANGED <<age, from, effects, met>>
          /\ row.status = from[r] /\ row.lock <= -age[r]
      BY <1>5, <2>1 DEF TryReclaim, Reclaimable, Claim, Goto, history
    <3>2. /\ row'.id = row.id /\ row'.status = "processing"
          /\ row'.lock = Lease - age[r] /\ row'.ttl = Ttl - age[r]
      BY <1>5, <2>1 DEF TryReclaim, Reclaimed, TypeOK
    <3>3. age[r] \in 0..MaxDelay /\ row.lock + age[r] <= 0
      BY <3>1 DEF TypeOK, Timed
    <3>4. ASSUME NEW e \in effects, <<e, r>> \in met PROVE from[r] = "succeeded"
      <4>1. Refused(r)
        BY <1>a, <3>1, <3>4
      <4>2. row.status \in Statuses /\ row.lock \in Int
        BY DEF TypeOK
      <4>3. phase[r] = "reclaim" => from[r] = "failed_retryable"
        BY DEF Timed
      <4>4. row.status \notin {"processing", "failed_retryable"}
        BY <3>1, <3>3, <4>1, <4>2, <4>3 DEF Refused
      <4> QED
        BY <3>1, <4>2, <4>4
    <3>5. OnlyTakeoverRepeats'
      BY <3>1, <3>4 DEF OnlyTakeoverRepeats, TypeOK
    <3>6. ASSUME NEW e \in effects, NEW q \in Requests, <<e, q>> \in met, phase'[q] \in Claiming
          PROVE  row'.id # 0 /\ row'.ttl + age'[q] > MaxDelay /\ Refused(q)'
      <4>1. phase[q] \in Claiming /\ age'[q] = age[q] /\ age[q] \in 0..MaxDelay
        BY <3>1, <3>6 DEF TypeOK, Timed
      <4> QED
        BY <1>a, <3>2, <3>3, <3>6, <4>1 DEF Refused
    <3> QED
      BY <3>1, <3>5, <3>6 DEF Barred
  <2>2. CASE ~Reclaimable(row, held[r], from[r], -age[r])
    BY <1>5, <1>c, <2>2 DEF TryReclaim, Goto, history, TypeOK
  <2> QED
    BY <2>1, <2>2
<1>6. ASSUME NEW r \in Requests, StoreError(r) PROVE (Barred /\ OnlyTakeoverRepeats)'
  BY <1>6, <1>c DEF StoreError, Goto, history, TypeOK
<1>7. ASSUME NEW r \in Requests, Succeed(r) PROVE (Barred /\ OnlyTakeoverRepeats)'
  <2>a. /\ phase' = [phase EXCEPT ![r] = "succeeded"] /\ phase[r] = "executing"
        /\ effects' = effects \cup {r}
        /\ UNCHANGED <<row, age, from, met>>
    BY <1>7 DEF Succeed, Goto
  <2>1. /\ row.id # 0 /\ row.ttl > MaxDelay
        /\ \A q \in Requests : phase[q] \in Claiming => Refused(q)
    BY <1>b, <2>a
  <2>2. OnlyTakeoverRepeats'
    BY <2>a DEF OnlyTakeoverRepeats, OneExecutionAtATime, TypeOK
  <2>3. Barred'
    BY <2>a, <2>1 DEF Barred, Refused, TypeOK
  <2> QED
    BY <2>2, <2>3
<1>8. ASSUME NEW r \in Requests, Fail(r) PROVE (Barred /\ OnlyTakeoverRepeats)'
  BY <1>8 DEF Fail, Goto, history, TypeOK, Barred, Refused, OnlyTakeoverRepeats
\* A request that ends lets nobody in.
<1>d. ASSUME NEW r \in Requests, phase[r] \in Working \cup Claiming, phase'[r] = "answered",
             \A q \in Requests \ {r} : phase'[q] = phase[q] /\ age'[q] = age[q] /\ from'[q] = from[q],
             UNCHANGED <<effects, met>>,
             \/ row' = row
             \/ /\ row'.id = row.id /\ row'.ttl > MaxDelay
                /\ \/ row'.status = "succeeded"
                   \/ row'.status = "failed_retryable" /\ row'.lock > 0
      PROVE  (Barred /\ OnlyTakeoverRepeats)'
  <2>1. OnlyTakeoverRepeats'
    BY <1>d DEF OnlyTakeoverRepeats
  <2>2. ASSUME NEW e \in effects, NEW q \in Requests, <<e, q>> \in met, phase'[q] \in Claiming
        PROVE  row'.id # 0 /\ row'.ttl + age'[q] > MaxDelay /\ Refused(q)'
    <3>1. q # r /\ phase[q] \in Claiming /\ age'[q] = age[q] /\ phase'[q] = phase[q]
      BY <1>d, <2>2
    <3>2. age[q] \in Nat /\ row.id # 0 /\ row.ttl + age[q] > MaxDelay /\ Refused(q)
      BY <2>2, <3>1 DEF Barred, TypeOK
    <3>3. CASE row' = row
      BY <3>1, <3>2, <3>3 DEF Refused
    <3>4. CASE row' # row
      <4>1. /\ row'.id = row.id /\ row'.ttl > MaxDelay /\ row'.status # "processing"
            /\ row'.status = "failed_retryable" => row'.lock > 0
        BY <1>d, <3>4
      <4>2. row'.ttl \in Int /\ row'.lock \in Int
        <5>1. TypeOK'
          BY ExecutionNext DEF ConcurrencyInv, ExecutionInv
        <5> QED
          BY <5>1 DEF TypeOK
      <4> QED
        BY <3>1, <3>2, <4>1, <4>2 DEF Refused
    <3> QED
      BY <3>3, <3>4
  <2>3. Barred'
    BY <1>d, <2>2 DEF Barred
  <2> QED
    BY <2>1, <2>3
<1>e. ASSUME NEW r \in Requests, phase[r] \in Working
      PROVE  row.id = held[r] /\ TtlLeft(r) > MaxDelay /\ Backoff > 0
  BY <1>e DEF Owner, TtlLeft, TypeOK
<1>9. ASSUME NEW r \in Requests, MarkSucceeded(r) PROVE (Barred /\ OnlyTakeoverRepeats)'
  <2>1. phase[r] \in Working
    BY <1>9 DEF MarkSucceeded
  <2>2. row' = [row EXCEPT !.status = "succeeded", !.lock = -MaxDelay, !.ttl = TtlLeft(r)]
    BY <1>9, <1>e, <2>1 DEF MarkSucceeded, Marked
  <2>3. row'.id = row.id /\ row'.ttl = TtlLeft(r) /\ row'.status = "succeeded"
    BY <2>2 DEF TypeOK
  <2> QED
    BY <1>9, <1>d, <1>e, <2>1, <2>3 DEF MarkSucceeded, Return, Goto, history, TypeOK
<1>10. ASSUME NEW r \in Requests, MarkFailedRetryable(r) PROVE (Barred /\ OnlyTakeoverRepeats)'
  <2>1. phase[r] \in Working
    BY <1>10 DEF MarkFailedRetryable
  <2>2. row' = [row EXCEPT !.status = "failed_retryable", !.lock = Backoff, !.ttl = TtlLeft(r)]
    BY <1>10, <1>e, <2>1 DEF MarkFailedRetryable, Marked
  <2>3. /\ row'.id = row.id /\ row'.ttl = TtlLeft(r) /\ row'.status = "failed_retryable"
        /\ row'.lock = Backoff
    BY <2>2 DEF TypeOK
  <2> QED
    BY <1>10, <1>d, <1>e, <2>1, <2>3 DEF MarkFailedRetryable, Return, Goto, history, TypeOK
<1>11. ASSUME NEW r \in Requests, MarkFails(r) PROVE (Barred /\ OnlyTakeoverRepeats)'
  BY <1>11, <1>d DEF MarkFails, Return, Goto, history, TypeOK
<1>12. ASSUME NEW r \in Requests, ExtendProcessingLock(r) PROVE (Barred /\ OnlyTakeoverRepeats)'
  <2>a. UNCHANGED <<phase, age, from, effects, met>>
    BY <1>12 DEF ExtendProcessingLock, callVars, history
  <2>b. /\ row'.id = row.id /\ row'.status = row.status
        /\ row' = row \/ (row'.ttl = Ttl /\ row'.lock = Lease)
    BY <1>12 DEF ExtendProcessingLock, Extended, TypeOK
  <2>1. OnlyTakeoverRepeats'
    BY <2>a DEF OnlyTakeoverRepeats
  <2>2. Barred'
    BY <2>a, <2>b DEF Barred, Refused, TypeOK
  <2> QED
    BY <2>1, <2>2
<1>13. ASSUME NEW r \in Requests, Crash(r) PROVE (Barred /\ OnlyTakeoverRepeats)'
  BY <1>13, <1>d DEF Crash, InProgress, Return, Goto, history, TypeOK
<1>14. CASE DeleteExpired
  BY <1>14, <1>a DEF DeleteExpired, Expired, callVars, history, TypeOK, Barred,
     OnlyTakeoverRepeats
<1>15. CASE Tick
  <2>a. /\ UNCHANGED <<phase, from, effects, met>>
        /\ row'.id = row.id /\ row'.status = row.status
        /\ row.lock > -MaxDelay => row'.lock = row.lock - 1
        /\ row'.lock >= row.lock - 1 /\ row'.ttl >= row.ttl - 1
    BY <1>15 DEF Tick, TypeOK
  <2>1. OnlyTakeoverRepeats'
    BY <2>a DEF OnlyTakeoverRepeats
  <2>2. ASSUME NEW q \in Requests, phase[q] \in Claiming PROVE age'[q] = age[q] + 1
    BY <1>15, <2>2 DEF Tick, InProgress, TypeOK
  <2>3. row'.lock \in Int /\ row'.ttl \in Int
    BY <1>15 DEF Tick, TypeOK
  <2>4. Barred'
    BY <2>a, <2>2, <2>3 DEF Barred, Refused, TypeOK
  <2> QED
    BY <2>1, <2>4
<1>16. CASE UNCHANGED vars
  BY <1>16 DEF vars, callVars, history, Barred, Refused, OnlyTakeoverRepeats
<1> QED
  BY <1>1, <1>2, <1>3, <1>4, <1>5, <1>6, <1>7, <1>8, <1>9, <1>10, <1>11, <1>12, <1>13,
     <1>14, <1>15, <1>16 DEF Next, Execute

\* A request repeats what one that it overlapped with has done only if it took
\* over a record that it had read as succeeded and expired.
THEOREM RepeatsOnlyByTakeover == Spec => []OnlyTakeoverRepeats
<1>1. Init => ConcurrencyInv
  <2> SUFFICES ASSUME Init PROVE ConcurrencyInv
    OBVIOUS
  <2>1. effects = {}
    BY DEF Init
  <2> QED
    BY <2>1, ExecutionInit DEF ConcurrencyInv, Barred, OnlyTakeoverRepeats
<1>2. ConcurrencyInv /\ [Next]_vars => ConcurrencyInv'
  BY ConcurrencyNext, ExecutionNext DEF ConcurrencyInv
<1>3. ConcurrencyInv => OnlyTakeoverRepeats
  BY DEF ConcurrencyInv
<1> QED
  BY <1>1, <1>2, <1>3, PTL DEF Spec
=============================================================================
