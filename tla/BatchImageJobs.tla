---------------------------- MODULE BatchImageJobs ----------------------------
(***************************************************************************)
(* The life of one batch of images and of the balance held for it.  Submit *)
(* creates the job, holds the balance, hands the batch to the provider and *)
(* queues the job; workers poll the provider, index its output and settle  *)
(* the cost; the owner may cancel at any time, and a recovery scan fails   *)
(* submissions that stopped half way.  Each of them ends the hold when it  *)
(* ends the job.                                                           *)
(*                                                                         *)
(* A billing call is one transaction: it claims a request id of its own    *)
(* (hold, capture or release) and moves the money, and a claimed id makes  *)
(* a call do nothing.  The frozen balance is shared by all the holds of    *)
(* the user; others is the part of it that belongs to other batches.       *)
(* Money is counted in units, the hold is Hold of them, and cost is what   *)
(* the batch's output will cost, or Unreadable.  early, dropped and        *)
(* void are history.                                                       *)
(***************************************************************************)
EXTENDS Integers

CONSTANTS
  Workers,
  Hold,                           \* job.HoldAmount, above 0
  Costs,                          \* what the indexed output may cost
  Balances, Pools,                \* balance and frozen balance at the start
  batchImageSettlementMaxRetries, \* 5 in the code
  FaultKinds,                     \* the faults of an instance
  MaxFaults                       \* bound: faults of a behaviour

Unreadable == -1

ASSUME HoldAssumption == Hold \in Nat \ {0}
ASSUME AmountsAssumption ==
  Costs \subseteq Nat \cup {Unreadable} /\ Balances \subseteq Nat /\ Pools \subseteq Nat
ASSUME WorkersAssumption == Workers \cap {"none", "dead"} = {}
ASSUME BoundsAssumption == batchImageSettlementMaxRetries \in Nat \ {0} /\ MaxFaults \in Nat

VARIABLES
  status, named, hidden, retry,  \* the job's row: status, whether
                                 \* provider_job_name is set, user_deleted_at,
                                 \* retry_count (counted up to its limit)
  balance, frozen, spent,        \* the user's row, and what batches have cost
  claims,                        \* usage_billing_dedup: the batch's request ids
  ready, delayed, active, inflight, \* the job in the queue's structures
  lock,                          \* the job lock: a worker, "dead" or "none"
  sub, can, rec, wk,             \* where submit, cancel, the scan and workers are
  prov,                          \* the provider's state of the batch
  cost, others,                  \* fixed at the start
  faults,                        \* bound: faults so far
  early,    \* history: the release was claimed before the hold
  dropped,  \* history: a process that had still to end or queue the job died,
            \* or its call failed and nothing repeats it
  void      \* history: a worker at work lost its lock or its place in the queue,
            \* or a capture that has been made was answered with an error

job == <<status, named, hidden, retry>>
money == <<balance, frozen, spent, claims, early>>
queue == <<ready, delayed, active, inflight>>
procs == <<sub, can, rec, wk, lock>>
fixed == <<cost, others>>
vars == <<job, money, queue, procs, prov, fixed, faults, dropped, void>>

Terminal == {"completed", "failed", "cancelled"}
Done == Terminal \cup {"settling"}
Live == {"created", "uploading", "submitted", "running", "indexing", "settling"}
WorkerPcs ==
  {"idle", "lock", "pipeline", "settle", "capture", "record", "exhaust", "fail",
   "complete", "provider", "poll", "index", "unreadable", "indexed", "release",
   "ack", "requeue", "unlock"}

TypeOK ==
  /\ status \in Live \cup Terminal \cup {"none"}
  /\ named \in BOOLEAN /\ hidden \in BOOLEAN
  /\ retry \in 0..batchImageSettlementMaxRetries
  /\ balance \in Nat /\ frozen \in Nat /\ spent \in Int
  /\ claims \subseteq {"hold", "capture", "release"}
  /\ ready \in Nat
  /\ delayed \in BOOLEAN /\ active \in BOOLEAN /\ inflight \in BOOLEAN
  /\ lock \in Workers \cup {"none", "dead"}
  /\ sub \in {"create", "reserve", "mark", "upload", "submit", "record", "enqueue",
              "release", "releaseOnly", "fail", "retry", "end"}
  /\ can \in {"idle", "transition", "enqueue", "release", "retry"}
  /\ rec \in {"idle", "release", "retry"}
  /\ wk \in [Workers -> WorkerPcs]
  /\ prov \in {"none", "working", "succeeded", "failed", "cancelled"}
  /\ cost \in Costs /\ others \in Pools
  /\ faults \in 0..MaxFaults
  /\ early \in BOOLEAN /\ dropped \in BOOLEAN /\ void \in BOOLEAN

Init ==
  /\ status = "none" /\ named = FALSE /\ hidden = FALSE /\ retry = 0
  /\ balance \in Balances /\ others \in Pools /\ frozen = others /\ spent = 0
  /\ claims = {} /\ early = FALSE
  /\ ready = 0 /\ delayed = FALSE /\ active = FALSE /\ inflight = FALSE
  /\ lock = "none" /\ prov = "none" /\ cost \in Costs
  /\ sub = "create" /\ can = "idle" /\ rec = "idle"
  /\ wk = [w \in Workers |-> "idle"]
  /\ faults = 0 /\ dropped = FALSE /\ void = FALSE

-----------------------------------------------------------------------------
(* Faults: a call that fails ("error"), a commit whose answer is lost        *)
(* ("lost", "unsure" for a capture), a process that dies ("crash"), a live   *)
(* submission that looks stale ("slow"), a live worker whose lock or queue   *)
(* entry expires ("lapse").                                                  *)

Fault(kind) == kind \in FaultKinds /\ faults < MaxFaults /\ faults' = faults + 1

(* The transitions of a job; no status follows a terminal one here: the      *)
(* deletion of a completed job's output moves no money and is left out.      *)
CanTransition(from, to) ==
  \/ from \in Live /\ to = "failed"
  \/ from \in {"created", "uploading", "submitted", "running"} /\ to = "cancelled"
  \/ <<from, to>> \in {<<"created", "uploading">>, <<"created", "submitted">>,
                       <<"uploading", "submitted">>, <<"submitted", "running">>,
                       <<"submitted", "indexing">>, <<"running", "running">>,
                       <<"running", "indexing">>, <<"indexing", "settling">>,
                       <<"settling", "completed">>}

(* A transaction that locks the row, checks the transition and writes it.    *)
Transition(to, ok) ==
  /\ \/ ok /\ CanTransition(status, to) /\ status' = to /\ UNCHANGED faults
     \/ ~ok /\ ~CanTransition(status, to) /\ UNCHANGED <<status, faults>>
     \/ ~ok /\ Fault("error") /\ UNCHANGED status
     \/ ~ok /\ CanTransition(status, to) /\ Fault("lost") /\ status' = to
  /\ UNCHANGED <<named, hidden, retry>>

reserveBalance ==
  /\ balance >= Hold
  /\ balance' = balance - Hold /\ frozen' = frozen + Hold
  /\ UNCHANGED <<spent, early>>

captureBalance ==
  /\ cost <= Hold /\ frozen >= Hold
  /\ balance' = balance + (Hold - cost) /\ frozen' = frozen - Hold
  /\ spent' = spent + cost
  /\ UNCHANGED early

\* Mutant: a release does not look for the hold.
releaseBalance_Phantom ==
  /\ frozen >= Hold
  /\ balance' = balance + Hold /\ frozen' = frozen - Hold
  /\ UNCHANGED <<spent, early>>

(* A release without a hold is skipped, and its claim commits.               *)
releaseBalance ==
  IF "hold" \in claims
  THEN /\ frozen >= Hold
       /\ balance' = balance + Hold /\ frozen' = frozen - Hold
       /\ UNCHANGED <<spent, early>>
  ELSE early' = TRUE /\ UNCHANGED <<balance, frozen, spent>>

(* What a billing call needs to succeed.                                     *)
Sufficient(id) ==
  \/ id \in claims
  \/ id = "hold" /\ balance >= Hold
  \/ id = "capture" /\ cost <= Hold /\ frozen >= Hold
  \/ id = "release" /\ ("hold" \in claims => frozen >= Hold)

applyBatchImageBalanceHold(id) ==
  \/ id \in claims /\ UNCHANGED money
  \/ /\ id \notin claims
     /\ claims' = claims \cup {id}
     /\ \/ id = "hold" /\ reserveBalance
        \/ id = "capture" /\ captureBalance
        \/ id = "release" /\ releaseBalance

Billing(id, ok) ==
  \/ ok /\ applyBatchImageBalanceHold(id) /\ UNCHANGED faults
  \/ ~ok /\ ~Sufficient(id) /\ UNCHANGED <<money, faults>>
  \/ ~ok /\ Fault("error") /\ UNCHANGED money
  \/ ~ok /\ Fault(IF id = "capture" THEN "unsure" ELSE "lost") /\ applyBatchImageBalanceHold(id)

-----------------------------------------------------------------------------
(* The queue.                                                                *)

(* The inflight key is set and the job pushed by one script.                 *)
Enqueue(ok) ==
  /\ \/ ok /\ ~inflight /\ inflight' = TRUE /\ ready' = ready + 1 /\ UNCHANGED faults
     \/ ok /\ inflight /\ UNCHANGED <<inflight, ready, faults>>
     \/ ~ok /\ Fault("error") /\ UNCHANGED <<inflight, ready>>
  /\ UNCHANGED <<delayed, active>>

MoveDueDelayedToReady ==
  /\ delayed
  /\ delayed' = FALSE /\ ready' = ready + 1
  /\ UNCHANGED <<job, money, active, inflight, procs, prov, fixed, faults, dropped, void>>

(* A worker's heartbeat keeps the job from looking stale.                    *)
Working == \E w \in Workers : wk[w] \notin {"idle", "unlock"}

RecoverStaleActive ==
  /\ active
  /\ IF Working THEN Fault("lapse") /\ void' = TRUE ELSE UNCHANGED <<faults, void>>
  /\ active' = FALSE /\ ready' = ready + 1
  /\ UNCHANGED <<job, money, delayed, inflight, procs, prov, fixed, dropped>>

-----------------------------------------------------------------------------
(* Submit.                                                                   *)

Submitting(from, to) == sub = from /\ sub' = to /\ UNCHANGED <<can, rec, wk, lock>>

CreateBatchImageJob ==
  /\ Submitting("create", "reserve")
  /\ status' = "created"
  /\ UNCHANGED <<named, hidden, retry, money, queue, prov, fixed, faults, dropped, void>>

(* An error of the reservation marks the job failed and releases nothing.    *)
ReserveHold ==
  /\ \E ok \in BOOLEAN :
       /\ Submitting("reserve", IF ok THEN "upload" ELSE "mark")
       /\ Billing("hold", ok)
       /\ dropped' = (dropped \/ (~ok /\ "hold" \in claims'))
  /\ UNCHANGED <<job, queue, prov, fixed, void>>

(* The items are written and the job moves to uploading.                     *)
StartUpload ==
  /\ \/ Submitting("upload", "submit") /\ Transition("uploading", TRUE)
     \/ /\ Submitting("upload", "releaseOnly")
        /\ ~CanTransition(status, "uploading") /\ UNCHANGED <<job, faults>>
     \/ /\ Submitting("upload", "release")
        /\ CanTransition(status, "uploading") /\ Transition("uploading", FALSE)
  /\ UNCHANGED <<money, queue, prov, fixed, dropped, void>>

ProviderSubmit ==
  /\ \/ Submitting("submit", "record") /\ prov' = "working" /\ UNCHANGED faults
     \/ Submitting("submit", "release") /\ Fault("error") /\ UNCHANGED prov
  /\ UNCHANGED <<job, money, queue, fixed, dropped, void>>

(* On an error the provider's batch is aborted; the job and its hold are     *)
(* left to whoever ended the job, or to the scan.                            *)
UpdateProviderSubmit ==
  /\ \E ok \in BOOLEAN :
       /\ Submitting("record", IF ok THEN "enqueue" ELSE "end")
       /\ \/ ok /\ CanTransition(status, "submitted") /\ status' = "submitted" /\ UNCHANGED faults
          \/ ~ok /\ ~CanTransition(status, "submitted") /\ UNCHANGED <<status, faults>>
          \/ ~ok /\ Fault("error") /\ UNCHANGED status
          \/ ~ok /\ CanTransition(status, "submitted") /\ Fault("lost") /\ status' = "submitted"
       /\ named' = (status' = "submitted")
       /\ prov' = IF ok THEN prov ELSE "cancelled"
       /\ dropped' = (dropped \/ (~ok /\ named'))
  /\ UNCHANGED <<hidden, retry, money, queue, fixed, void>>

EnqueueSubmitted ==
  /\ Submitting("enqueue", "end")
  /\ \E ok \in BOOLEAN : Enqueue(ok) /\ dropped' = (dropped \/ ~ok)
  /\ UNCHANGED <<job, money, prov, fixed, void>>

releaseFailedSubmitHold ==
  /\ \/ Submitting("release", "mark") /\ Billing("release", TRUE)
     \/ Submitting("releaseOnly", "end") /\ Billing("release", TRUE)
     \/ sub \in {"release", "releaseOnly"} /\ Submitting(sub, "fail") /\ Billing("release", FALSE)
  /\ UNCHANGED <<job, queue, prov, fixed, dropped, void>>

(* The status is written whatever it was, and the job hidden from its owner; *)
(* an error of the update is ignored.                                        *)
RecordSubmitFailure ==
  /\ \/ status' = "failed" /\ UNCHANGED faults
     \/ UNCHANGED status /\ Fault("error")
  /\ \/ Submitting("mark", "end") /\ hidden' = (hidden \/ status' = "failed")
     \/ Submitting("fail", "retry") /\ UNCHANGED hidden
  /\ UNCHANGED <<named, retry, money, queue, prov, fixed, dropped, void>>

enqueueBillingRetry ==
  /\ Submitting("retry", "end")
  /\ \E ok \in BOOLEAN : Enqueue(ok) /\ dropped' = (dropped \/ ~ok)
  /\ UNCHANGED <<job, money, prov, fixed, void>>

(* Submit again with the same idempotency key.                               *)
ReplaySubmit ==
  /\ status = "submitted"
  /\ Enqueue(TRUE)
  /\ UNCHANGED <<job, money, procs, prov, fixed, dropped, void>>

SubmitCrashes ==
  /\ sub # "end" /\ sub # "create"
  /\ Fault("crash")
  /\ Submitting(sub, "end")
  /\ dropped' = (dropped \/ sub \in {"enqueue", "retry"})
  /\ UNCHANGED <<job, money, queue, prov, fixed, void>>

-----------------------------------------------------------------------------
(* Cancel, and the record's deletion by its owner.                           *)

Cancelling(from, to) == can = from /\ can' = to /\ UNCHANGED <<sub, rec, wk, lock>>

Cancel ==
  /\ status # "none" /\ ~hidden
  /\ \/ status \in {"failed", "cancelled"} /\ Cancelling("idle", "release")
     \/ status \notin Done /\ named /\ Cancelling("idle", "enqueue")
     \/ status \notin Done /\ ~named /\ Cancelling("idle", "transition")
  /\ UNCHANGED <<job, money, queue, prov, fixed, faults, dropped, void>>

(* The provider is asked to cancel, which it may or may not still do.        *)
CancelAtProvider ==
  /\ Cancelling("enqueue", "idle")
  /\ \E ok \in BOOLEAN : Enqueue(ok)
  /\ UNCHANGED <<job, money, prov, fixed, dropped, void>>

CancelTransition ==
  /\ \E ok \in BOOLEAN :
       /\ Cancelling("transition", IF ok THEN "release" ELSE "idle")
       /\ Transition("cancelled", ok)
       /\ dropped' = (dropped \/ (~ok /\ status' # status))
  /\ UNCHANGED <<money, queue, prov, fixed, void>>

CancelRelease ==
  /\ \E ok \in BOOLEAN :
       Cancelling("release", IF ok THEN "idle" ELSE "retry") /\ Billing("release", ok)
  /\ UNCHANGED <<job, queue, prov, fixed, dropped, void>>

CancelRetry ==
  /\ Cancelling("retry", "idle")
  /\ \E ok \in BOOLEAN : Enqueue(ok) /\ dropped' = (dropped \/ ~ok)
  /\ UNCHANGED <<job, money, prov, fixed, void>>

CancelCrashes ==
  /\ can \in {"release", "retry"}
  /\ Fault("crash")
  /\ Cancelling(can, "idle")
  /\ dropped' = TRUE
  /\ UNCHANGED <<job, money, queue, prov, fixed, void>>

DeleteRecord ==
  /\ status \in Terminal /\ ~hidden
  /\ hidden' = TRUE
  /\ UNCHANGED <<status, named, retry, money, queue, procs, prov, fixed, faults, dropped, void>>

-----------------------------------------------------------------------------
(* The scan for submissions that did not reach the provider.  The update     *)
(* checks again that the job is stale: its submission has ended, or has been *)
(* too slow to renew updated_at.                                             *)

Recovering(from, to) == rec = from /\ rec' = to /\ UNCHANGED <<sub, can, wk, lock>>

FailStaleUnsubmitted ==
  /\ Recovering("idle", "release")
  /\ status \in {"created", "uploading"} /\ ~named
  /\ IF sub = "end" THEN UNCHANGED faults ELSE Fault("slow")
  /\ status' = "failed"
  /\ UNCHANGED <<named, hidden, retry, money, queue, prov, fixed, dropped, void>>

RecoveryRelease ==
  /\ \E ok \in BOOLEAN :
       Recovering("release", IF ok THEN "idle" ELSE "retry") /\ Billing("release", ok)
  /\ UNCHANGED <<job, queue, prov, fixed, dropped, void>>

enqueueReleaseRetry ==
  /\ Recovering("retry", "idle")
  /\ \E ok \in BOOLEAN : Enqueue(ok) /\ dropped' = (dropped \/ ~ok)
  /\ UNCHANGED <<job, money, prov, fixed, void>>

RecoveryCrashes ==
  /\ rec # "idle"
  /\ Fault("crash")
  /\ Recovering(rec, "idle")
  /\ dropped' = TRUE
  /\ UNCHANGED <<job, money, queue, prov, fixed, void>>

-----------------------------------------------------------------------------
(* The worker.                                                               *)

Goto(w, from, to) ==
  /\ wk[w] = from
  /\ wk' = [wk EXCEPT ![w] = to]
  /\ UNCHANGED <<sub, can, rec>>

Reserve(w) ==
  /\ Goto(w, "idle", "lock")
  /\ ready > 0
  /\ ready' = ready - 1 /\ active' = TRUE
  /\ UNCHANGED <<job, money, delayed, inflight, lock, prov, fixed, faults, dropped, void>>

TryAcquireJobLock(w) ==
  /\ \/ Goto(w, "lock", "pipeline") /\ lock = "none" /\ lock' = w /\ UNCHANGED faults
     \/ Goto(w, "lock", "requeue") /\ lock # "none" /\ UNCHANGED <<lock, faults>>
     \/ Goto(w, "lock", "requeue") /\ Fault("error") /\ UNCHANGED lock
  /\ UNCHANGED <<job, money, queue, prov, fixed, dropped, void>>

(* The first of two reads of the job: settle it, or process it.              *)
PipelineRead(w) ==
  /\ Goto(w, "pipeline", IF status = "settling" THEN "settle" ELSE "provider")
  /\ UNCHANGED <<job, money, queue, lock, prov, fixed, faults, dropped, void>>

(* The second: a job that is done, or being settled, is acknowledged.        *)
ProcessRead(w) ==
  /\ Goto(w, "provider",
       IF status \in {"failed", "cancelled"} THEN "release"
       ELSE IF status \in Done THEN "ack"
       ELSE IF ~named THEN "requeue"
       ELSE IF status = "indexing" THEN "index" ELSE "poll")
  /\ UNCHANGED <<job, money, queue, lock, prov, fixed, faults, dropped, void>>

(* The provider's answer and the transition it asks for.                     *)
PollProvider(w) ==
  /\ \/ Goto(w, "poll", "requeue") /\ Fault("error") /\ UNCHANGED job
     \/ /\ prov = "working" /\ Goto(w, "poll", "requeue")
        /\ (UNCHANGED <<job, faults>> \/ \E ok \in BOOLEAN : Transition("running", ok))
     \/ /\ prov = "succeeded"
        /\ \E ok \in BOOLEAN :
             /\ Goto(w, "poll", IF ok THEN "index" ELSE "requeue")
             /\ Transition("indexing", ok)
     \/ /\ prov \in {"failed", "cancelled"}
        /\ \E ok \in BOOLEAN :
             /\ Goto(w, "poll", IF ok THEN "release" ELSE "requeue")
             /\ Transition(prov, ok)
  /\ UNCHANGED <<money, queue, lock, prov, fixed, dropped, void>>

(* The items are replaced only while the job is indexing.  Output that       *)
(* cannot be read, and an error of the database, fail the job.               *)
Index(w) ==
  /\ \/ cost # Unreadable /\ status = "indexing" /\ Goto(w, "index", "indexed") /\ UNCHANGED faults
     \/ cost # Unreadable /\ status # "indexing" /\ Goto(w, "index", "requeue") /\ UNCHANGED faults
     \/ cost = Unreadable /\ Goto(w, "index", "unreadable") /\ UNCHANGED faults
     \/ Fault("error") /\ \E to \in {"requeue", "unreadable"} : Goto(w, "index", to)
  /\ UNCHANGED <<job, money, queue, lock, prov, fixed, dropped, void>>

IndexingFailed(w) ==
  /\ \E ok \in BOOLEAN :
       Goto(w, "unreadable", IF ok THEN "release" ELSE "requeue") /\ Transition("failed", ok)
  /\ UNCHANGED <<money, queue, lock, prov, fixed, dropped, void>>

IndexingCompleted(w) ==
  /\ Goto(w, "indexed", "requeue")
  /\ \E ok \in BOOLEAN : Transition("settling", ok)
  /\ UNCHANGED <<money, queue, lock, prov, fixed, dropped, void>>

\* Mutant: the job is acknowledged though its release failed.
releaseTerminalHold_Acks(w) ==
  /\ Goto(w, "release", "ack")
  /\ \E ok \in BOOLEAN : Billing("release", ok)
  /\ UNCHANGED <<job, queue, lock, prov, fixed, dropped, void>>

releaseTerminalHold(w) ==
  /\ \E ok \in BOOLEAN :
       Goto(w, "release", IF ok THEN "ack" ELSE "requeue") /\ Billing("release", ok)
  /\ UNCHANGED <<job, queue, lock, prov, fixed, dropped, void>>

Settle(w) ==
  /\ Goto(w, "settle",
       IF status = "completed" THEN "ack"
       ELSE IF status # "settling" THEN "requeue"
       ELSE IF retry >= batchImageSettlementMaxRetries THEN "exhaust"
       ELSE IF cost > Hold THEN "record" ELSE "capture")
  /\ UNCHANGED <<job, money, queue, lock, prov, fixed, faults, dropped, void>>

\* Mutant: the job is completed though the capture failed.
CaptureHold_Ignores(w) ==
  /\ Goto(w, "capture", "complete")
  /\ \E ok \in BOOLEAN : Billing("capture", ok)
  /\ UNCHANGED <<job, queue, lock, prov, fixed, dropped, void>>

CaptureHold(w) ==
  /\ \E ok \in BOOLEAN :
       /\ Goto(w, "capture", IF ok THEN "complete" ELSE "record")
       /\ Billing("capture", ok)
       /\ void' = (void \/ (~ok /\ "capture" \in claims'))
  /\ UNCHANGED <<job, queue, lock, prov, fixed, dropped>>

MarkBatchImageJobSettled(w) ==
  /\ \E ok \in BOOLEAN :
       /\ Goto(w, "complete", IF ok THEN "ack" ELSE "requeue")
       /\ \/ ok /\ status = "settling" /\ status' = "completed" /\ UNCHANGED faults
          \/ ~ok /\ status # "settling" /\ UNCHANGED <<status, faults>>
          \/ ~ok /\ Fault("error") /\ UNCHANGED status
          \/ ~ok /\ status = "settling" /\ Fault("lost") /\ status' = "completed"
  /\ UNCHANGED <<named, hidden, retry, money, queue, lock, prov, fixed, dropped, void>>

(* An error of the update is ignored, though the count may be written.       *)
recordSettlementFailure(w) ==
  LET counted == IF retry < batchImageSettlementMaxRetries THEN retry + 1 ELSE retry
  IN /\ \/ /\ retry' = counted /\ UNCHANGED faults
           /\ Goto(w, "record", IF counted = batchImageSettlementMaxRetries THEN "exhaust" ELSE "requeue")
        \/ retry' = retry /\ Fault("error") /\ Goto(w, "record", "requeue")
        \/ retry' = counted /\ Fault("lost") /\ Goto(w, "record", "requeue")
     /\ UNCHANGED <<status, named, hidden, money, queue, lock, prov, fixed, dropped, void>>

(* The hold is released before the job fails; retry is at its limit already. *)
failExhaustedSettlement(w) ==
  /\ \E ok \in BOOLEAN :
       Goto(w, "exhaust", IF ok THEN "fail" ELSE "requeue") /\ Billing("release", ok)
  /\ UNCHANGED <<job, queue, lock, prov, fixed, dropped, void>>

FailSettlement(w) ==
  /\ \E ok \in BOOLEAN :
       Goto(w, "fail", IF ok THEN "ack" ELSE "requeue") /\ Transition("failed", ok)
  /\ UNCHANGED <<money, queue, lock, prov, fixed, dropped, void>>

(* Ready is left as it is.  A worker without the lock has none to release.   *)
AckOrRequeue(w) ==
  /\ \/ /\ Goto(w, "ack", "unlock")
        /\ active' = FALSE /\ delayed' = FALSE /\ inflight' = FALSE /\ UNCHANGED faults
     \/ /\ Goto(w, "requeue", "unlock")
        /\ active' = FALSE /\ delayed' = TRUE /\ UNCHANGED <<inflight, faults>>
     \/ /\ wk[w] \in {"ack", "requeue"} /\ Goto(w, wk[w], "unlock") /\ Fault("error")
        /\ UNCHANGED <<active, delayed, inflight>>
  /\ UNCHANGED <<job, money, ready, lock, prov, fixed, dropped, void>>

ReleaseJobLock(w) ==
  /\ Goto(w, "unlock", "idle")
  /\ lock' = IF lock = w THEN "none" ELSE lock
  /\ UNCHANGED <<job, money, queue, prov, fixed, faults, dropped, void>>

WorkerCrashes(w) ==
  /\ wk[w] # "idle"
  /\ Fault("crash")
  /\ Goto(w, wk[w], "idle")
  /\ lock' = IF lock = w THEN "dead" ELSE lock
  /\ UNCHANGED <<job, money, queue, prov, fixed, dropped, void>>

JobLockExpires ==
  /\ \/ lock = "dead" /\ UNCHANGED <<faults, void>>
     \/ lock \in Workers /\ Fault("lapse") /\ void' = TRUE
  /\ lock' = "none"
  /\ UNCHANGED <<job, money, queue, sub, can, rec, wk, prov, fixed, dropped>>

(* External: the provider ends the batch, cancelled if it was asked to or    *)
(* not.                                                                      *)
ProviderFinishes ==
  /\ prov = "working"
  /\ prov' \in {"succeeded", "failed", "cancelled"}
  /\ UNCHANGED <<job, money, queue, procs, fixed, faults, dropped, void>>

-----------------------------------------------------------------------------
SubmitStep ==
  \/ CreateBatchImageJob \/ ReserveHold \/ StartUpload \/ ProviderSubmit
  \/ UpdateProviderSubmit \/ EnqueueSubmitted \/ releaseFailedSubmitHold
  \/ RecordSubmitFailure \/ enqueueBillingRetry
CancelStep == CancelAtProvider \/ CancelTransition \/ CancelRelease \/ CancelRetry
RecoveryStep == FailStaleUnsubmitted \/ RecoveryRelease \/ enqueueReleaseRetry
WorkerStep(w) ==
  \/ Reserve(w) \/ TryAcquireJobLock(w) \/ PipelineRead(w) \/ ProcessRead(w)
  \/ PollProvider(w) \/ Index(w) \/ IndexingFailed(w) \/ IndexingCompleted(w)
  \/ releaseTerminalHold(w) \/ Settle(w) \/ CaptureHold(w)
  \/ MarkBatchImageJobSettled(w) \/ recordSettlementFailure(w)
  \/ failExhaustedSettlement(w) \/ FailSettlement(w) \/ AckOrRequeue(w)
  \/ ReleaseJobLock(w)
QueueStep == MoveDueDelayedToReady \/ RecoverStaleActive

Next ==
  \/ SubmitStep \/ SubmitCrashes \/ ReplaySubmit
  \/ Cancel \/ CancelStep \/ CancelCrashes \/ DeleteRecord
  \/ RecoveryStep \/ RecoveryCrashes
  \/ QueueStep \/ JobLockExpires \/ ProviderFinishes
  \/ \E w \in Workers : WorkerStep(w) \/ WorkerCrashes(w)

Spec == Init /\ [][Next]_vars

(* Every process runs its calls to their end unless it crashes, the queue's  *)
(* movers and the scan run at intervals, locks expire, and the provider ends *)
(* its batches.  Nobody has to cancel or replay.                             *)
Fairness ==
  /\ WF_vars(SubmitStep) /\ WF_vars(CancelStep) /\ WF_vars(RecoveryStep)
  /\ WF_vars(MoveDueDelayedToReady) /\ WF_vars(RecoverStaleActive)
  /\ WF_vars(JobLockExpires) /\ WF_vars(ProviderFinishes)
  /\ \A w \in Workers : WF_vars(WorkerStep(w))

FairSpec == Spec /\ Fairness

-----------------------------------------------------------------------------
(* The batch's part of the frozen balance, from the claims.                  *)
Returned == "release" \in claims /\ "hold" \in claims /\ ~early
HoldState ==
  IF "hold" \notin claims THEN "none"
  ELSE IF "capture" \in claims THEN "captured"
  ELSE IF Returned THEN "released" ELSE "reserved"

Promise == INSTANCE BalanceHold WITH hold <- HoldState

(* Whatever fails, repeats or overtakes, the batch's hold is taken once and  *)
(* leaves the frozen balance once, captured or released, and the holds of    *)
(* the user's other batches are never touched, as long as workers keep their *)
(* locks and a capture that was made is not answered with an error: the job  *)
(* implements BalanceHold                                                    *)
(* (usage_billing_repo.go, the three balance calls).                         *)
HoldPromise == Promise!Spec

(* A completed job was paid for, whatever happened; a job that failed or was *)
(* cancelled never was, unless two workers had it or a repeated capture      *)
(* failed (Settle captures before it marks the job; everything that ends a job *)
(* otherwise ends it before, or instead of, its settlement).                 *)
PaidIffCompleted ==
  /\ status = "completed" => "capture" \in claims
  /\ status \in {"failed", "cancelled"} /\ ~void => "capture" \notin claims

(* A hold that was taken leaves the frozen balance in the end, unless the    *)
(* release was claimed before the hold, a process stopped with the job in    *)
(* its hands and nothing repeats what it had to do, or two workers had the   *)
(* job (recovery scan, release retries by the queue, stale active entries).  *)
HoldEnds ==
  (HoldState = "reserved")
    ~> (HoldState \in {"captured", "released"} \/ early \/ dropped \/ void)

(* The hold is not both captured and released (the release looks for the     *)
(* hold's claim, not for the capture's: failExhaustedSettlement).            *)
EndsOnce == ~("capture" \in claims /\ Returned)

(* A claimed release means that the money has been given back: "说明此前已有  *)
(* 一次携带不同 payloadHash 的释放成功提交（资金已归还）"                      *)
(* (batch_image_billing_hold.go, releaseBatchImageBalanceHold).              *)
ReleasedMeansReturned == "release" \in claims /\ "hold" \in claims => HoldState # "reserved"
=============================================================================
