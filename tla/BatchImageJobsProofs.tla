------------------------- MODULE BatchImageJobsProofs -------------------------
(***************************************************************************)
(* The batch's hold keeps the promise of BalanceHold and a completed job   *)
(* was paid for, for any hold, any costs and balances, any number of       *)
(* workers and of faults.                                                  *)
(*                                                                         *)
(* The invariant says which processes may still capture or release the     *)
(* hold.  HeldInv is about the submission: everything past the reservation *)
(* has its hold, and what the submission writes without a condition it     *)
(* writes before the job reaches a worker.  SettleInv is about the workers *)
(* and holds while the promise is not void: one worker is inside the job   *)
(* lock, a hold that was returned cannot be captured any more (the job has *)
(* ended, or its retries are exhausted), and a hold that was captured      *)
(* cannot be released (the job is being settled with retries left).        *)
(***************************************************************************)
EXTENDS BatchImageJobs, TLAPS

Max == batchImageSettlementMaxRetries

PastSubmit == {"submitted", "running", "indexing", "settling", "completed"}

Critical == WorkerPcs \ {"idle", "lock", "requeue", "unlock"}

HeldInv ==
  /\ status \in PastSubmit \cup {"uploading"} => "hold" \in claims
  /\ sub \in {"upload", "submit", "record", "enqueue", "release", "releaseOnly"} => "hold" \in claims
  /\ sub = "create" <=> status = "none"
  /\ status \in PastSubmit => sub \in {"enqueue", "end"}
  /\ "capture" \in claims => "hold" \in claims /\ cost <= Hold
  /\ "release" \in claims /\ "hold" \notin claims => early
  /\ early => "release" \in claims
  /\ can = "release" => status \in {"failed", "cancelled"}
  /\ rec = "release" => status = "failed"
  /\ status = "completed" => "capture" \in claims
  /\ \A w \in Workers : wk[w] = "capture" => "hold" \in claims
  /\ \A w \in Workers : wk[w] = "complete" => "capture" \in claims

WorkerInv(w) ==
  /\ wk[w] \in Critical => lock = w
  /\ wk[w] = "poll" => status \notin {"settling", "completed"}
  /\ wk[w] \in {"index", "unreadable", "indexed"} => status = "indexing"
  /\ wk[w] = "release" => status \in {"failed", "cancelled"}
  /\ wk[w] = "capture" => status = "settling" /\ retry < Max
  /\ wk[w] = "record" => status = "settling" /\ "capture" \notin claims
  /\ wk[w] \in {"exhaust", "fail"} => status = "settling" /\ "capture" \notin claims /\ retry = Max

MoneyInv ==
  /\ "capture" \in claims => status \in {"settling", "completed"} /\ retry < Max /\ ~Returned
  /\ Returned => status \in {"created", "uploading", "settling", "failed", "cancelled"}
  /\ Returned /\ status \in {"created", "uploading"} => sub \in {"mark", "fail", "retry", "end"}
  /\ Returned /\ status = "settling" => retry = Max

SettleInv == ~void => MoneyInv /\ \A w \in Workers : WorkerInv(w)

BatchInv == TypeOK /\ HeldInv /\ SettleInv
-----------------------------------------------------------------------------
(* What the calls do, as facts about the variables they change.              *)

LEMMA TransitionFacts ==
  ASSUME TypeOK, NEW to \in Live \cup Terminal, NEW ok \in BOOLEAN, Transition(to, ok)
  PROVE  /\ faults' \in 0..MaxFaults
         /\ UNCHANGED <<named, hidden, retry>>
         /\ UNCHANGED status \/ (status' = to /\ CanTransition(status, to))
         /\ ok => status' = to
<1>1. faults' \in 0..MaxFaults
  BY BoundsAssumption DEF TypeOK, Fault, Transition
<1>2. UNCHANGED <<named, hidden, retry>>
  BY DEF Transition
<1>3. UNCHANGED status \/ (status' = to /\ CanTransition(status, to))
  BY Zenon DEF Transition
<1>4. ok => status' = to
  BY Zenon DEF Transition
<1> QED
  BY <1>1, <1>2, <1>3, <1>4

LEMMA EnqueueFacts ==
  ASSUME TypeOK, NEW ok \in BOOLEAN, Enqueue(ok)
  PROVE  /\ faults' \in 0..MaxFaults
         /\ ready' \in Nat /\ inflight' \in BOOLEAN
         /\ UNCHANGED <<delayed, active>>
<1>1. faults' \in 0..MaxFaults /\ ready' \in Nat /\ UNCHANGED <<delayed, active>>
  BY BoundsAssumption DEF TypeOK, Fault, Enqueue
<1>2. inflight' \in BOOLEAN
  BY Zenon DEF TypeOK, Enqueue
<1> QED
  BY <1>1, <1>2

LEMMA HoldFacts ==
  ASSUME TypeOK, NEW ok \in BOOLEAN, Billing("hold", ok)
  PROVE  /\ faults' \in 0..MaxFaults
         /\ balance' \in Nat /\ frozen' \in Nat
         /\ UNCHANGED <<spent, early>>
         /\ claims' = claims \/ claims' = claims \cup {"hold"}
         /\ ok => "hold" \in claims'
         /\ \/ UNCHANGED <<balance, frozen, claims>>
            \/ /\ "hold" \notin claims /\ claims' = claims \cup {"hold"} /\ balance >= Hold
               /\ balance' = balance - Hold /\ frozen' = frozen + Hold
<1>1. /\ faults' \in 0..MaxFaults
      /\ UNCHANGED money \/ applyBatchImageBalanceHold("hold")
      /\ ok => applyBatchImageBalanceHold("hold")
  BY BoundsAssumption DEF TypeOK, Fault, Billing
<1> QED
  BY <1>1, HoldAssumption DEF TypeOK, money, applyBatchImageBalanceHold, reserveBalance

LEMMA CaptureFacts ==
  ASSUME TypeOK, NEW ok \in BOOLEAN, Billing("capture", ok)
  PROVE  /\ faults' \in 0..MaxFaults
         /\ UNCHANGED early
         /\ claims' = claims \/ claims' = claims \cup {"capture"}
         /\ ok => "capture" \in claims'
         /\ \/ UNCHANGED <<balance, frozen, spent, claims>>
            \/ /\ "capture" \notin claims /\ claims' = claims \cup {"capture"}
               /\ cost <= Hold /\ frozen >= Hold
               /\ balance' = balance + (Hold - cost) /\ frozen' = frozen - Hold
               /\ spent' = spent + cost
<1>1. /\ faults' \in 0..MaxFaults
      /\ UNCHANGED money \/ applyBatchImageBalanceHold("capture")
      /\ ok => applyBatchImageBalanceHold("capture")
  BY BoundsAssumption DEF TypeOK, Fault, Billing
<1> QED
  BY <1>1 DEF TypeOK, money, applyBatchImageBalanceHold, captureBalance

LEMMA ReleaseFacts ==
  ASSUME TypeOK, NEW ok \in BOOLEAN, Billing("release", ok)
  PROVE  /\ faults' \in 0..MaxFaults
         /\ balance' \in Nat /\ frozen' \in Nat /\ early' \in BOOLEAN
         /\ UNCHANGED spent
         /\ claims' = claims \/ claims' = claims \cup {"release"}
         /\ \/ UNCHANGED <<balance, frozen, claims, early>>
            \/ /\ "hold" \in claims
               /\ "release" \notin claims /\ claims' = claims \cup {"release"}
               /\ balance' = balance + Hold /\ frozen' = frozen - Hold
               /\ UNCHANGED early
            \/ /\ "hold" \notin claims
               /\ "release" \notin claims /\ claims' = claims \cup {"release"}
               /\ early' = TRUE /\ UNCHANGED <<balance, frozen>>
<1>1. /\ faults' \in 0..MaxFaults
      /\ UNCHANGED money \/ applyBatchImageBalanceHold("release")
  BY BoundsAssumption DEF TypeOK, Fault, Billing
<1>2. CASE UNCHANGED money
  BY <1>1, <1>2 DEF TypeOK, money
<1>3. CASE applyBatchImageBalanceHold("release") /\ "release" \in claims
  BY <1>1, <1>3 DEF TypeOK, money, applyBatchImageBalanceHold
<1>4. CASE applyBatchImageBalanceHold("release") /\ "release" \notin claims
  <2>1. claims' = claims \cup {"release"} /\ releaseBalance
    BY <1>4 DEF applyBatchImageBalanceHold
  <2>2. CASE "hold" \in claims
    <3>1. /\ frozen >= Hold /\ balance' = balance + Hold /\ frozen' = frozen - Hold
          /\ UNCHANGED <<spent, early>>
      BY <2>1, <2>2 DEF releaseBalance
    <3> QED
      BY <1>1, <1>4, <2>1, <2>2, <3>1, HoldAssumption DEF TypeOK
  <2>3. CASE "hold" \notin claims
    <3>1. early' = TRUE /\ UNCHANGED <<balance, frozen, spent>>
      BY <2>1, <2>3, Zenon DEF releaseBalance
    <3> QED
      BY <1>1, <1>4, <2>1, <2>3, <3>1 DEF TypeOK
  <2> QED
    BY <2>2, <2>3
<1> QED
  BY <1>1, <1>2, <1>3, <1>4
LEMMA ReleaseClaims ==
  ASSUME TypeOK, HeldInv, NEW ok \in BOOLEAN, Billing("release", ok)
  PROVE  /\ claims' = claims \/ claims' = claims \cup {"release"}
         /\ "release" \in claims' /\ "hold" \notin claims' => early'
         /\ early' => "release" \in claims'
<1>1. CASE UNCHANGED <<balance, frozen, claims, early>>
  BY <1>1 DEF HeldInv
<1>2. CASE "hold" \in claims /\ claims' = claims \cup {"release"} /\ UNCHANGED early
  BY <1>2 DEF HeldInv
<1>3. CASE claims' = claims \cup {"release"} /\ early' = TRUE
  BY <1>3
<1> QED
  BY <1>1, <1>2, <1>3, ReleaseFacts

LEMMA BillingTypes ==
  ASSUME TypeOK, NEW id \in {"hold", "capture", "release"}, NEW ok \in BOOLEAN, Billing(id, ok)
  PROVE  /\ faults' \in 0..MaxFaults
         /\ balance' \in Nat /\ frozen' \in Nat /\ spent' \in Int /\ early' \in BOOLEAN
         /\ claims' \subseteq {"hold", "capture", "release"}
<1>1. CASE id = "hold"
  BY <1>1, HoldFacts DEF TypeOK
<1>2. CASE id = "capture"
  <2>1. cost \in Int
    BY AmountsAssumption DEF TypeOK, Unreadable
  <2>2. /\ faults' \in 0..MaxFaults /\ claims' \subseteq {"hold", "capture", "release"}
        /\ early' = early
        /\ \/ UNCHANGED <<balance, frozen, spent>>
           \/ /\ cost <= Hold /\ frozen >= Hold
              /\ balance' = balance + (Hold - cost) /\ frozen' = frozen - Hold
              /\ spent' = spent + cost
    BY <1>2, CaptureFacts DEF TypeOK
  <2>3. balance' \in Nat /\ frozen' \in Nat /\ spent' \in Int
    BY <2>1, <2>2, HoldAssumption DEF TypeOK
  <2> QED
    BY <2>2, <2>3 DEF TypeOK
<1>3. CASE id = "release"
  BY <1>3, ReleaseFacts DEF TypeOK
<1> QED
  BY <1>1, <1>2, <1>3

-----------------------------------------------------------------------------
LEMMA TypeStep == TypeOK /\ [Next]_vars => TypeOK'
<1> SUFFICES ASSUME TypeOK, [Next]_vars PROVE TypeOK'
  OBVIOUS
<1> USE DEF job, money, queue, procs, fixed
<1>1. CASE CreateBatchImageJob
  BY <1>1, BoundsAssumption DEF TypeOK, CreateBatchImageJob, Submitting, Fault, Live,
     Terminal
<1>2. CASE ReserveHold
  <2>1. \E ok \in BOOLEAN : Billing("hold", ok)
    BY <1>2 DEF ReserveHold
  <2>2. /\ faults' \in 0..MaxFaults
        /\ balance' \in Nat /\ frozen' \in Nat /\ spent' \in Int /\ early' \in BOOLEAN
        /\ claims' \subseteq {"hold", "capture", "release"}
    BY <2>1, BillingTypes
  <2>3. dropped' \in BOOLEAN
    BY <1>2, Zenon DEF ReserveHold
  <2> QED
    BY <1>2, <2>2, <2>3 DEF TypeOK, ReserveHold, Submitting
<1>3. CASE StartUpload
  <2>1. status' \in Live \cup Terminal \cup {"none"} /\ faults' \in 0..MaxFaults
    <3>1. (\E ok \in BOOLEAN : Transition("uploading", ok)) \/ UNCHANGED <<job, faults>>
      BY <1>3 DEF StartUpload
    <3> QED
      BY <3>1, TransitionFacts DEF TypeOK, Live
  <2>2. UNCHANGED <<named, hidden, retry>>
    BY <1>3 DEF StartUpload, Transition
  <2>3. sub' \in {"submit", "releaseOnly", "release"} /\ UNCHANGED <<can, rec, wk, lock>>
    BY <1>3 DEF StartUpload, Submitting
  <2> QED
    BY <1>3, <2>1, <2>2, <2>3 DEF TypeOK, StartUpload
<1>4. CASE ProviderSubmit
  BY <1>4, BoundsAssumption DEF TypeOK, ProviderSubmit, Submitting, Fault
<1>5. CASE UpdateProviderSubmit
  BY <1>5, BoundsAssumption DEF TypeOK, UpdateProviderSubmit, Submitting, Fault, Live,
     Terminal
<1>6. CASE EnqueueSubmitted
  BY <1>6, EnqueueFacts DEF TypeOK, EnqueueSubmitted, Submitting
<1>7. CASE releaseFailedSubmitHold
  <2>1. \E ok \in BOOLEAN : Billing("release", ok)
    BY <1>7 DEF releaseFailedSubmitHold
  <2>2. /\ faults' \in 0..MaxFaults
        /\ balance' \in Nat /\ frozen' \in Nat /\ spent' \in Int /\ early' \in BOOLEAN
        /\ claims' \subseteq {"hold", "capture", "release"}
    BY <2>1, BillingTypes
  <2>3. sub' \in {"mark", "end", "fail"} /\ UNCHANGED <<can, rec, wk, lock>>
    BY <1>7 DEF releaseFailedSubmitHold, Submitting
  <2> QED
    BY <1>7, <2>2, <2>3 DEF TypeOK, releaseFailedSubmitHold
<1>8. CASE RecordSubmitFailure
  <2>1. hidden' \in BOOLEAN
    BY <1>8, Zenon DEF TypeOK, RecordSubmitFailure
  <2> QED
    BY <1>8, <2>1, BoundsAssumption DEF TypeOK, RecordSubmitFailure, Fault, Submitting,
       Live, Terminal
<1>9. CASE enqueueBillingRetry
  BY <1>9, EnqueueFacts DEF TypeOK, enqueueBillingRetry, Submitting
<1>10. CASE SubmitCrashes
  BY <1>10, BoundsAssumption DEF TypeOK, SubmitCrashes, Submitting, Fault
<1>11. CASE ReplaySubmit
  <2>1. Enqueue(TRUE)
    BY <1>11 DEF ReplaySubmit
  <2>2. /\ faults' \in 0..MaxFaults
        /\ ready' \in Nat /\ inflight' \in BOOLEAN
        /\ UNCHANGED <<delayed, active>>
    BY <2>1, EnqueueFacts
  <2> QED
    BY <1>11, <2>2 DEF TypeOK, ReplaySubmit
<1>12. CASE Cancel
  BY <1>12, BoundsAssumption DEF TypeOK, Cancel, Cancelling, Fault
<1>13. CASE CancelAtProvider
  BY <1>13, EnqueueFacts DEF TypeOK, CancelAtProvider, Cancelling
<1>14. CASE CancelTransition
  BY <1>14, TransitionFacts DEF TypeOK, CancelTransition, Cancelling, Live, Terminal
<1>15. CASE CancelRelease
  <2>1. \E ok \in BOOLEAN : Billing("release", ok)
    BY <1>15 DEF CancelRelease
  <2>2. /\ faults' \in 0..MaxFaults
        /\ balance' \in Nat /\ frozen' \in Nat /\ spent' \in Int /\ early' \in BOOLEAN
        /\ claims' \subseteq {"hold", "capture", "release"}
    BY <2>1, BillingTypes
  <2> QED
    BY <1>15, <2>2 DEF TypeOK, CancelRelease, Cancelling
<1>16. CASE CancelRetry
  BY <1>16, EnqueueFacts DEF TypeOK, CancelRetry, Cancelling
<1>17. CASE CancelCrashes
  BY <1>17, BoundsAssumption DEF TypeOK, CancelCrashes, Cancelling, Fault
<1>18. CASE DeleteRecord
  BY <1>18, BoundsAssumption DEF TypeOK, DeleteRecord, Fault
<1>19. CASE FailStaleUnsubmitted
  BY <1>19, BoundsAssumption DEF TypeOK, FailStaleUnsubmitted, Recovering, Fault, Live,
     Terminal
<1>20. CASE RecoveryRelease
  <2>1. \E ok \in BOOLEAN : Billing("release", ok)
    BY <1>20 DEF RecoveryRelease
  <2>2. /\ faults' \in 0..MaxFaults
        /\ balance' \in Nat /\ frozen' \in Nat /\ spent' \in Int /\ early' \in BOOLEAN
        /\ claims' \subseteq {"hold", "capture", "release"}
    BY <2>1, BillingTypes
  <2> QED
    BY <1>20, <2>2 DEF TypeOK, RecoveryRelease, Recovering
<1>21. CASE enqueueReleaseRetry
  BY <1>21, EnqueueFacts DEF TypeOK, enqueueReleaseRetry, Recovering
<1>22. CASE RecoveryCrashes
  BY <1>22, BoundsAssumption DEF TypeOK, RecoveryCrashes, Recovering, Fault
<1>23. CASE MoveDueDelayedToReady
  <2>1. delayed' \in BOOLEAN /\ active' \in BOOLEAN /\ inflight' \in BOOLEAN
    BY <1>23, Zenon DEF TypeOK, MoveDueDelayedToReady
  <2> QED
    BY <1>23, <2>1, BoundsAssumption DEF TypeOK, MoveDueDelayedToReady, Fault
<1>24. CASE RecoverStaleActive
  <2>1. active' \in BOOLEAN /\ void' \in BOOLEAN
    BY <1>24, Zenon DEF TypeOK, RecoverStaleActive
  <2> QED
    BY <1>24, <2>1, BoundsAssumption DEF TypeOK, RecoverStaleActive, Fault
<1>25. CASE JobLockExpires
  <2>1. void' \in BOOLEAN
    BY <1>25, Zenon DEF TypeOK, JobLockExpires
  <2> QED
    BY <1>25, <2>1, BoundsAssumption DEF TypeOK, JobLockExpires, Fault
<1>26. CASE ProviderFinishes
  BY <1>26, BoundsAssumption DEF TypeOK, ProviderFinishes, Fault
<1>27. ASSUME NEW w \in Workers, Reserve(w) PROVE TypeOK'
  BY <1>27, BoundsAssumption DEF TypeOK, Reserve, Goto, Fault, WorkerPcs
<1>28. ASSUME NEW w \in Workers, TryAcquireJobLock(w) PROVE TypeOK'
  BY <1>28, BoundsAssumption DEF TypeOK, TryAcquireJobLock, Goto, Fault, WorkerPcs
<1>29. ASSUME NEW w \in Workers, PipelineRead(w) PROVE TypeOK'
  BY <1>29, BoundsAssumption DEF TypeOK, PipelineRead, Goto, Fault, WorkerPcs
<1>30. ASSUME NEW w \in Workers, ProcessRead(w) PROVE TypeOK'
  BY <1>30, BoundsAssumption DEF TypeOK, ProcessRead, Goto, Fault, WorkerPcs
<1>31. ASSUME NEW w \in Workers, PollProvider(w) PROVE TypeOK'
  <2>1. (\E to \in Live \cup Terminal, ok \in BOOLEAN : Transition(to, ok)) \/ (UNCHANGED job /\ (UNCHANGED faults \/ Fault("error")))
    BY <1>31, Zenon DEF PollProvider, Live, Terminal
  <2>2. status' \in Live \cup Terminal \cup {"none"} /\ faults' \in 0..MaxFaults /\ UNCHANGED <<named, hidden, retry>>
    BY <2>1, TransitionFacts, BoundsAssumption DEF TypeOK, Fault
  <2>3. wk' \in [Workers -> WorkerPcs] /\ UNCHANGED <<sub, can, rec>>
    BY <1>31 DEF TypeOK, PollProvider, Goto, WorkerPcs
  <2> QED
    BY <1>31, <2>2, <2>3 DEF TypeOK, PollProvider
<1>32. ASSUME NEW w \in Workers, Index(w) PROVE TypeOK'
  BY <1>32, BoundsAssumption DEF TypeOK, Index, Goto, Fault, WorkerPcs
<1>33. ASSUME NEW w \in Workers, IndexingFailed(w) PROVE TypeOK'
  BY <1>33, TransitionFacts DEF TypeOK, IndexingFailed, Goto, Live, Terminal, WorkerPcs
<1>34. ASSUME NEW w \in Workers, IndexingCompleted(w) PROVE TypeOK'
  BY <1>34, TransitionFacts DEF TypeOK, IndexingCompleted, Goto, Live, Terminal,
     WorkerPcs
<1>35. ASSUME NEW w \in Workers, releaseTerminalHold(w) PROVE TypeOK'
  <2>1. \E ok \in BOOLEAN : Billing("release", ok)
    BY <1>35 DEF releaseTerminalHold
  <2>2. /\ faults' \in 0..MaxFaults
        /\ balance' \in Nat /\ frozen' \in Nat /\ spent' \in Int /\ early' \in BOOLEAN
        /\ claims' \subseteq {"hold", "capture", "release"}
    BY <2>1, BillingTypes
  <2> QED
    BY <1>35, <2>2 DEF TypeOK, releaseTerminalHold, Goto, WorkerPcs
<1>36. ASSUME NEW w \in Workers, Settle(w) PROVE TypeOK'
  BY <1>36, BoundsAssumption DEF TypeOK, Settle, Goto, Fault, WorkerPcs
<1>37. ASSUME NEW w \in Workers, CaptureHold(w) PROVE TypeOK'
  <2>1. \E ok \in BOOLEAN : Billing("capture", ok)
    BY <1>37 DEF CaptureHold
  <2>2. /\ faults' \in 0..MaxFaults
        /\ balance' \in Nat /\ frozen' \in Nat /\ spent' \in Int /\ early' \in BOOLEAN
        /\ claims' \subseteq {"hold", "capture", "release"}
    BY <2>1, BillingTypes
  <2>3. void' \in BOOLEAN
    BY <1>37, Zenon DEF CaptureHold
  <2> QED
    BY <1>37, <2>2, <2>3 DEF TypeOK, CaptureHold, Goto, WorkerPcs
<1>38. ASSUME NEW w \in Workers, MarkBatchImageJobSettled(w) PROVE TypeOK'
  BY <1>38, BoundsAssumption DEF TypeOK, MarkBatchImageJobSettled, Goto, Fault, Live,
     Terminal, WorkerPcs
<1>39. ASSUME NEW w \in Workers, recordSettlementFailure(w) PROVE TypeOK'
  BY <1>39, BoundsAssumption DEF TypeOK, recordSettlementFailure, Goto, Fault, WorkerPcs
<1>40. ASSUME NEW w \in Workers, failExhaustedSettlement(w) PROVE TypeOK'
  <2>1. \E ok \in BOOLEAN : Billing("release", ok)
    BY <1>40 DEF failExhaustedSettlement
  <2>2. /\ faults' \in 0..MaxFaults
        /\ balance' \in Nat /\ frozen' \in Nat /\ spent' \in Int /\ early' \in BOOLEAN
        /\ claims' \subseteq {"hold", "capture", "release"}
    BY <2>1, BillingTypes
  <2> QED
    BY <1>40, <2>2 DEF TypeOK, failExhaustedSettlement, Goto, WorkerPcs
<1>41. ASSUME NEW w \in Workers, FailSettlement(w) PROVE TypeOK'
  BY <1>41, TransitionFacts DEF TypeOK, FailSettlement, Goto, Live, Terminal, WorkerPcs
<1>42. ASSUME NEW w \in Workers, AckOrRequeue(w) PROVE TypeOK'
  <2>1. active' \in BOOLEAN /\ delayed' \in BOOLEAN /\ inflight' \in BOOLEAN
    BY <1>42, Zenon DEF TypeOK, AckOrRequeue
  <2> QED
    BY <1>42, <2>1, BoundsAssumption DEF TypeOK, AckOrRequeue, Fault, Goto, WorkerPcs
<1>43. ASSUME NEW w \in Workers, ReleaseJobLock(w) PROVE TypeOK'
  BY <1>43, BoundsAssumption DEF TypeOK, ReleaseJobLock, Goto, Fault, WorkerPcs
<1>44. ASSUME NEW w \in Workers, WorkerCrashes(w) PROVE TypeOK'
  BY <1>44, BoundsAssumption DEF TypeOK, WorkerCrashes, Goto, Fault, WorkerPcs
<1>45. CASE UNCHANGED vars
  BY <1>45 DEF TypeOK, vars
<1> QED
  BY <1>1, <1>2, <1>3, <1>4, <1>5, <1>6, <1>7, <1>8, <1>9, <1>10, <1>11, <1>12, <1>13,
     <1>14, <1>15, <1>16, <1>17, <1>18, <1>19, <1>20, <1>21, <1>22, <1>23, <1>24, <1>25,
     <1>26, <1>27, <1>28, <1>29, <1>30, <1>31, <1>32, <1>33, <1>34, <1>35, <1>36, <1>37,
     <1>38, <1>39, <1>40, <1>41, <1>42, <1>43, <1>44, <1>45
  DEF Next, SubmitStep, CancelStep, RecoveryStep, QueueStep, WorkerStep
-----------------------------------------------------------------------------
LEMMA HeldStep == BatchInv /\ [Next]_vars => HeldInv'
<1> SUFFICES ASSUME TypeOK, HeldInv, SettleInv, [Next]_vars PROVE HeldInv'
  BY DEF BatchInv
<1> USE DEF job, money, queue, procs, fixed
<1>0. wk \in [Workers -> WorkerPcs]
  BY DEF TypeOK
<1>1. CASE CreateBatchImageJob
  BY <1>1, <1>0 DEF HeldInv, PastSubmit, CreateBatchImageJob, Submitting
<1>2. CASE ReserveHold
  BY <1>2, <1>0, HoldFacts DEF HeldInv, PastSubmit, ReserveHold, Submitting
<1>3. CASE StartUpload
  <2>1. /\ sub = "upload" /\ sub' \in {"submit", "releaseOnly", "release"}
        /\ UNCHANGED <<can, rec, wk, claims, early, cost>>
    BY <1>3 DEF StartUpload, Submitting
  <2>2. UNCHANGED status \/ (status = "created" /\ status' = "uploading")
    <3>1. (\E ok \in BOOLEAN : Transition("uploading", ok)) \/ UNCHANGED <<job, faults>>
      BY <1>3 DEF StartUpload
    <3> QED
      BY <3>1, TransitionFacts DEF Live, Terminal, CanTransition
  <2> QED
    BY <2>1, <2>2 DEF HeldInv, PastSubmit
<1>4. CASE ProviderSubmit
  BY <1>4, <1>0 DEF HeldInv, PastSubmit, ProviderSubmit, Submitting
<1>5. CASE UpdateProviderSubmit
  BY <1>5, <1>0 DEF HeldInv, PastSubmit, UpdateProviderSubmit, Submitting,
     CanTransition, Live
<1>6. CASE EnqueueSubmitted
  BY <1>6, <1>0 DEF HeldInv, PastSubmit, EnqueueSubmitted, Submitting
<1>7. CASE releaseFailedSubmitHold
  <2>1. /\ sub \in {"release", "releaseOnly"} /\ sub' \in {"mark", "end", "fail"}
        /\ UNCHANGED <<can, rec, wk, status, cost>>
        /\ \E ok \in BOOLEAN : Billing("release", ok)
    BY <1>7 DEF releaseFailedSubmitHold, Submitting
  <2> QED
    BY <2>1, ReleaseClaims DEF HeldInv, PastSubmit
<1>8. CASE RecordSubmitFailure
  BY <1>8, <1>0 DEF HeldInv, PastSubmit, RecordSubmitFailure, Submitting
<1>9. CASE enqueueBillingRetry
  BY <1>9, <1>0 DEF HeldInv, PastSubmit, enqueueBillingRetry, Submitting
<1>10. CASE SubmitCrashes
  BY <1>10, <1>0 DEF HeldInv, PastSubmit, SubmitCrashes, Submitting
<1>11. CASE ReplaySubmit
  BY <1>11, <1>0 DEF HeldInv, PastSubmit, ReplaySubmit
<1>12. CASE Cancel
  BY <1>12, <1>0 DEF HeldInv, PastSubmit, Cancel, Cancelling, Done, Terminal
<1>13. CASE CancelAtProvider
  BY <1>13, <1>0 DEF HeldInv, PastSubmit, CancelAtProvider, Cancelling
<1>14. CASE CancelTransition
  BY <1>14, <1>0, TransitionFacts DEF HeldInv, PastSubmit, CancelTransition, Cancelling,
     Live, Terminal, CanTransition
<1>15. CASE CancelRelease
  BY <1>15, <1>0, ReleaseClaims DEF HeldInv, PastSubmit, CancelRelease, Cancelling
<1>16. CASE CancelRetry
  BY <1>16, <1>0 DEF HeldInv, PastSubmit, CancelRetry, Cancelling
<1>17. CASE CancelCrashes
  BY <1>17, <1>0 DEF HeldInv, PastSubmit, CancelCrashes, Cancelling
<1>18. CASE DeleteRecord
  BY <1>18, <1>0 DEF HeldInv, PastSubmit, DeleteRecord
<1>19. CASE FailStaleUnsubmitted
  BY <1>19, <1>0 DEF HeldInv, PastSubmit, FailStaleUnsubmitted, Recovering
<1>20. CASE RecoveryRelease
  BY <1>20, <1>0, ReleaseClaims DEF HeldInv, PastSubmit, RecoveryRelease, Recovering
<1>21. CASE enqueueReleaseRetry
  BY <1>21, <1>0 DEF HeldInv, PastSubmit, enqueueReleaseRetry, Recovering
<1>22. CASE RecoveryCrashes
  BY <1>22, <1>0 DEF HeldInv, PastSubmit, RecoveryCrashes, Recovering
<1>23. CASE MoveDueDelayedToReady
  BY <1>23, <1>0 DEF HeldInv, PastSubmit, MoveDueDelayedToReady
<1>24. CASE RecoverStaleActive
  BY <1>24, <1>0 DEF HeldInv, PastSubmit, RecoverStaleActive
<1>25. CASE JobLockExpires
  BY <1>25, <1>0 DEF HeldInv, PastSubmit, JobLockExpires
<1>26. CASE ProviderFinishes
  BY <1>26, <1>0 DEF HeldInv, PastSubmit, ProviderFinishes
<1>27. ASSUME NEW w \in Workers, Reserve(w) PROVE HeldInv'
  BY <1>27, <1>0 DEF HeldInv, PastSubmit, Reserve, Goto
<1>28. ASSUME NEW w \in Workers, TryAcquireJobLock(w) PROVE HeldInv'
  BY <1>28, <1>0 DEF HeldInv, PastSubmit, TryAcquireJobLock, Goto
<1>29. ASSUME NEW w \in Workers, PipelineRead(w) PROVE HeldInv'
  BY <1>29, <1>0 DEF HeldInv, PastSubmit, PipelineRead, Goto
<1>30. ASSUME NEW w \in Workers, ProcessRead(w) PROVE HeldInv'
  BY <1>30, <1>0 DEF HeldInv, PastSubmit, ProcessRead, Goto, Done, Terminal
<1>31. ASSUME NEW w \in Workers, PollProvider(w) PROVE HeldInv'
  BY <1>31, <1>0, TransitionFacts DEF HeldInv, PastSubmit, PollProvider, Goto, Live,
     Terminal, CanTransition
<1>32. ASSUME NEW w \in Workers, Index(w) PROVE HeldInv'
  BY <1>32, <1>0 DEF HeldInv, PastSubmit, Index, Goto
<1>33. ASSUME NEW w \in Workers, IndexingFailed(w) PROVE HeldInv'
  BY <1>33, <1>0, TransitionFacts DEF HeldInv, PastSubmit, IndexingFailed, Goto, Live,
     Terminal, CanTransition
<1>34. ASSUME NEW w \in Workers, IndexingCompleted(w) PROVE HeldInv'
  BY <1>34, <1>0, TransitionFacts DEF HeldInv, PastSubmit, IndexingCompleted, Goto,
     Live, Terminal, CanTransition
<1>35. ASSUME NEW w \in Workers, releaseTerminalHold(w) PROVE HeldInv'
  BY <1>35, <1>0, ReleaseClaims DEF HeldInv, PastSubmit, releaseTerminalHold, Goto
<1>36. ASSUME NEW w \in Workers, Settle(w) PROVE HeldInv'
  BY <1>36, <1>0 DEF HeldInv, PastSubmit, Settle, Goto
<1>37. ASSUME NEW w \in Workers, CaptureHold(w) PROVE HeldInv'
  BY <1>37, <1>0, CaptureFacts DEF HeldInv, PastSubmit, CaptureHold, Goto
<1>38. ASSUME NEW w \in Workers, MarkBatchImageJobSettled(w) PROVE HeldInv'
  BY <1>38, <1>0 DEF HeldInv, PastSubmit, MarkBatchImageJobSettled, Goto
<1>39. ASSUME NEW w \in Workers, recordSettlementFailure(w) PROVE HeldInv'
  BY <1>39, <1>0 DEF HeldInv, PastSubmit, recordSettlementFailure, Goto
<1>40. ASSUME NEW w \in Workers, failExhaustedSettlement(w) PROVE HeldInv'
  BY <1>40, <1>0, ReleaseClaims DEF HeldInv, PastSubmit, failExhaustedSettlement, Goto
<1>41. ASSUME NEW w \in Workers, FailSettlement(w) PROVE HeldInv'
  BY <1>41, <1>0, TransitionFacts DEF HeldInv, PastSubmit, FailSettlement, Goto, Live,
     Terminal, CanTransition
<1>42. ASSUME NEW w \in Workers, AckOrRequeue(w) PROVE HeldInv'
  BY <1>42, <1>0 DEF HeldInv, PastSubmit, AckOrRequeue, Goto
<1>43. ASSUME NEW w \in Workers, ReleaseJobLock(w) PROVE HeldInv'
  BY <1>43, <1>0 DEF HeldInv, PastSubmit, ReleaseJobLock, Goto
<1>44. ASSUME NEW w \in Workers, WorkerCrashes(w) PROVE HeldInv'
  BY <1>44, <1>0 DEF HeldInv, PastSubmit, WorkerCrashes, Goto
<1>45. CASE UNCHANGED vars
  BY <1>45 DEF HeldInv, PastSubmit, vars
<1> QED
  BY <1>1, <1>2, <1>3, <1>4, <1>5, <1>6, <1>7, <1>8, <1>9, <1>10, <1>11, <1>12, <1>13,
     <1>14, <1>15, <1>16, <1>17, <1>18, <1>19, <1>20, <1>21, <1>22, <1>23, <1>24, <1>25,
     <1>26, <1>27, <1>28, <1>29, <1>30, <1>31, <1>32, <1>33, <1>34, <1>35, <1>36, <1>37,
     <1>38, <1>39, <1>40, <1>41, <1>42, <1>43, <1>44, <1>45
  DEF Next, SubmitStep, CancelStep, RecoveryStep, QueueStep, WorkerStep

LEMMA VoidStays == void /\ [Next]_vars => void'
<1> SUFFICES ASSUME void, [Next]_vars PROVE void'
  OBVIOUS
<1>1. CASE CreateBatchImageJob \/ ReserveHold \/ StartUpload \/ ProviderSubmit
           \/ UpdateProviderSubmit \/ EnqueueSubmitted \/ releaseFailedSubmitHold
           \/ RecordSubmitFailure \/ enqueueBillingRetry \/ SubmitCrashes
           \/ ReplaySubmit
  BY <1>1 DEF CreateBatchImageJob, ReserveHold, StartUpload, ProviderSubmit,
     UpdateProviderSubmit, EnqueueSubmitted, releaseFailedSubmitHold,
     RecordSubmitFailure, enqueueBillingRetry, SubmitCrashes, ReplaySubmit
<1>2. CASE Cancel \/ CancelAtProvider \/ CancelTransition \/ CancelRelease
           \/ CancelRetry \/ CancelCrashes \/ DeleteRecord
  BY <1>2 DEF Cancel, CancelAtProvider, CancelTransition, CancelRelease, CancelRetry,
     CancelCrashes, DeleteRecord
<1>3. CASE FailStaleUnsubmitted \/ RecoveryRelease \/ enqueueReleaseRetry
           \/ RecoveryCrashes
  BY <1>3 DEF FailStaleUnsubmitted, RecoveryRelease, enqueueReleaseRetry,
     RecoveryCrashes
<1>4. CASE MoveDueDelayedToReady \/ RecoverStaleActive \/ JobLockExpires
           \/ ProviderFinishes
  BY <1>4 DEF MoveDueDelayedToReady, RecoverStaleActive, JobLockExpires,
     ProviderFinishes
<1>5. ASSUME NEW w \in Workers, Reserve(w) \/ TryAcquireJobLock(w) \/ PipelineRead(w)
            \/ ProcessRead(w) \/ PollProvider(w) \/ Index(w) \/ IndexingFailed(w)
            \/ IndexingCompleted(w) \/ releaseTerminalHold(w) \/ Settle(w)
            \/ CaptureHold(w) \/ MarkBatchImageJobSettled(w)
            \/ recordSettlementFailure(w) \/ failExhaustedSettlement(w)
            \/ FailSettlement(w) \/ AckOrRequeue(w) \/ ReleaseJobLock(w)
            \/ WorkerCrashes(w) PROVE void'
  BY <1>5 DEF Reserve, TryAcquireJobLock, PipelineRead, ProcessRead, PollProvider,
     Index, IndexingFailed, IndexingCompleted, releaseTerminalHold, Settle, CaptureHold,
     MarkBatchImageJobSettled, recordSettlementFailure, failExhaustedSettlement,
     FailSettlement, AckOrRequeue, ReleaseJobLock, WorkerCrashes
<1>6. CASE UNCHANGED vars
  BY <1>6 DEF vars
<1> QED
  BY <1>1, <1>2, <1>3, <1>4, <1>5, <1>6
  DEF Next, SubmitStep, CancelStep, RecoveryStep, QueueStep, WorkerStep

LEMMA SettleStep == BatchInv /\ [Next]_vars => SettleInv'
<1> SUFFICES ASSUME TypeOK, HeldInv, SettleInv, [Next]_vars, ~void'
             PROVE  MoneyInv' /\ \A v \in Workers : WorkerInv(v)'
  BY DEF BatchInv, SettleInv
<1> USE DEF job, money, queue, procs, fixed
<1>0. /\ wk \in [Workers -> WorkerPcs] /\ retry \in 0..Max /\ Max \in Nat \ {0}
      /\ MoneyInv /\ \A v \in Workers : WorkerInv(v)
      /\ \A v \in Workers : v # "none" /\ v # "dead"
  <2>1. wk \in [Workers -> WorkerPcs] /\ retry \in 0..Max /\ Max \in Nat \ {0}
    BY BoundsAssumption DEF TypeOK, Max
  <2>2. MoneyInv /\ \A v \in Workers : WorkerInv(v)
    BY VoidStays DEF SettleInv
  <2> QED
    BY <2>1, <2>2, WorkersAssumption
<1>1. CASE CreateBatchImageJob
  BY <1>1, <1>0 DEF HeldInv, PastSubmit, MoneyInv, WorkerInv, Critical, Returned,
     CreateBatchImageJob, Submitting
<1>2. CASE ReserveHold
  BY <1>2, <1>0, HoldFacts DEF HeldInv, PastSubmit, MoneyInv, WorkerInv, Critical,
     Returned, ReserveHold, Submitting
<1>3. CASE StartUpload
  BY <1>3, <1>0, TransitionFacts DEF HeldInv, PastSubmit, MoneyInv, WorkerInv, Critical,
     Returned, StartUpload, Submitting, Live, Terminal, CanTransition
<1>4. CASE ProviderSubmit
  BY <1>4, <1>0 DEF HeldInv, PastSubmit, MoneyInv, WorkerInv, Critical, Returned,
     ProviderSubmit, Submitting
<1>5. CASE UpdateProviderSubmit
  BY <1>5, <1>0 DEF HeldInv, PastSubmit, MoneyInv, WorkerInv, Critical, Returned,
     UpdateProviderSubmit, Submitting, CanTransition, Live
<1>6. CASE EnqueueSubmitted
  BY <1>6, <1>0 DEF HeldInv, PastSubmit, MoneyInv, WorkerInv, Critical, Returned,
     EnqueueSubmitted, Submitting
<1>7. CASE releaseFailedSubmitHold
  <2>1. /\ sub \in {"release", "releaseOnly"} /\ sub' \in {"mark", "end", "fail"}
        /\ UNCHANGED <<wk, lock, status, retry>>
        /\ \E ok \in BOOLEAN : Billing("release", ok)
    BY <1>7 DEF releaseFailedSubmitHold, Submitting
  <2>2. claims' = claims \/ claims' = claims \cup {"release"}
    BY <2>1, ReleaseClaims
  <2>3. status \notin PastSubmit /\ "capture" \notin claims'
    BY <1>0, <2>1, <2>2 DEF HeldInv, PastSubmit, MoneyInv
  <2>4. MoneyInv'
    BY <1>0, <2>1, <2>2, <2>3 DEF MoneyInv, Returned, PastSubmit, TypeOK, Live,
       Terminal, HeldInv
  <2> QED
    BY <1>0, <2>1, <2>3, <2>4 DEF WorkerInv
<1>8. CASE RecordSubmitFailure
  BY <1>8, <1>0 DEF HeldInv, PastSubmit, MoneyInv, WorkerInv, Critical, Returned,
     RecordSubmitFailure, Submitting
<1>9. CASE enqueueBillingRetry
  BY <1>9, <1>0 DEF HeldInv, PastSubmit, MoneyInv, WorkerInv, Critical, Returned,
     enqueueBillingRetry, Submitting
<1>10. CASE SubmitCrashes
  BY <1>10, <1>0 DEF HeldInv, PastSubmit, MoneyInv, WorkerInv, Critical, Returned,
     SubmitCrashes, Submitting
<1>11. CASE ReplaySubmit
  BY <1>11, <1>0 DEF HeldInv, PastSubmit, MoneyInv, WorkerInv, Critical, Returned,
     ReplaySubmit
<1>12. CASE Cancel
  BY <1>12, <1>0 DEF HeldInv, PastSubmit, MoneyInv, WorkerInv, Critical, Returned,
     Cancel, Cancelling, Done, Terminal
<1>13. CASE CancelAtProvider
  BY <1>13, <1>0 DEF HeldInv, PastSubmit, MoneyInv, WorkerInv, Critical, Returned,
     CancelAtProvider, Cancelling
<1>14. CASE CancelTransition
  BY <1>14, <1>0, TransitionFacts DEF HeldInv, PastSubmit, MoneyInv, WorkerInv,
     Critical, Returned, CancelTransition, Cancelling, Live, Terminal, CanTransition
<1>15. CASE CancelRelease
  BY <1>15, <1>0, ReleaseClaims DEF HeldInv, PastSubmit, MoneyInv, WorkerInv, Critical,
     Returned, CancelRelease, Cancelling
<1>16. CASE CancelRetry
  BY <1>16, <1>0 DEF HeldInv, PastSubmit, MoneyInv, WorkerInv, Critical, Returned,
     CancelRetry, Cancelling
<1>17. CASE CancelCrashes
  BY <1>17, <1>0 DEF HeldInv, PastSubmit, MoneyInv, WorkerInv, Critical, Returned,
     CancelCrashes, Cancelling
<1>18. CASE DeleteRecord
  BY <1>18, <1>0 DEF HeldInv, PastSubmit, MoneyInv, WorkerInv, Critical, Returned,
     DeleteRecord
<1>19. CASE FailStaleUnsubmitted
  BY <1>19, <1>0 DEF HeldInv, PastSubmit, MoneyInv, WorkerInv, Critical, Returned,
     FailStaleUnsubmitted, Recovering
<1>20. CASE RecoveryRelease
  BY <1>20, <1>0, ReleaseClaims DEF HeldInv, PastSubmit, MoneyInv, WorkerInv, Critical,
     Returned, RecoveryRelease, Recovering
<1>21. CASE enqueueReleaseRetry
  BY <1>21, <1>0 DEF HeldInv, PastSubmit, MoneyInv, WorkerInv, Critical, Returned,
     enqueueReleaseRetry, Recovering
<1>22. CASE RecoveryCrashes
  BY <1>22, <1>0 DEF HeldInv, PastSubmit, MoneyInv, WorkerInv, Critical, Returned,
     RecoveryCrashes, Recovering
<1>23. CASE MoveDueDelayedToReady
  BY <1>23, <1>0 DEF HeldInv, PastSubmit, MoneyInv, WorkerInv, Critical, Returned,
     MoveDueDelayedToReady
<1>24. CASE RecoverStaleActive
  BY <1>24, <1>0 DEF HeldInv, PastSubmit, MoneyInv, WorkerInv, Critical, Returned,
     RecoverStaleActive
<1>25. CASE JobLockExpires
  BY <1>25, <1>0 DEF HeldInv, PastSubmit, MoneyInv, WorkerInv, Critical, Returned,
     JobLockExpires
<1>26. CASE ProviderFinishes
  BY <1>26, <1>0 DEF HeldInv, PastSubmit, MoneyInv, WorkerInv, Critical, Returned,
     ProviderFinishes
<1>27. ASSUME NEW w \in Workers, Reserve(w)
       PROVE  MoneyInv' /\ \A v \in Workers : WorkerInv(v)'
  BY <1>27, <1>0 DEF HeldInv, PastSubmit, MoneyInv, WorkerInv, Critical, Returned,
     Reserve, Goto
<1>28. ASSUME NEW w \in Workers, TryAcquireJobLock(w)
       PROVE  MoneyInv' /\ \A v \in Workers : WorkerInv(v)'
  BY <1>28, <1>0 DEF HeldInv, PastSubmit, MoneyInv, WorkerInv, Critical, Returned,
     TryAcquireJobLock, Goto
<1>29. ASSUME NEW w \in Workers, PipelineRead(w)
       PROVE  MoneyInv' /\ \A v \in Workers : WorkerInv(v)'
  BY <1>29, <1>0 DEF HeldInv, PastSubmit, MoneyInv, WorkerInv, Critical, Returned,
     PipelineRead, Goto
<1>30. ASSUME NEW w \in Workers, ProcessRead(w)
       PROVE  MoneyInv' /\ \A v \in Workers : WorkerInv(v)'
  BY <1>30, <1>0 DEF HeldInv, PastSubmit, MoneyInv, WorkerInv, Critical, Returned,
     ProcessRead, Goto, Done, Terminal
<1>31. ASSUME NEW w \in Workers, PollProvider(w)
       PROVE  MoneyInv' /\ \A v \in Workers : WorkerInv(v)'
  BY <1>31, <1>0, TransitionFacts DEF HeldInv, PastSubmit, MoneyInv, WorkerInv,
     Critical, Returned, PollProvider, Goto, Live, Terminal, CanTransition
<1>32. ASSUME NEW w \in Workers, Index(w)
       PROVE  MoneyInv' /\ \A v \in Workers : WorkerInv(v)'
  BY <1>32, <1>0 DEF HeldInv, PastSubmit, MoneyInv, WorkerInv, Critical, Returned,
     Index, Goto
<1>33. ASSUME NEW w \in Workers, IndexingFailed(w)
       PROVE  MoneyInv' /\ \A v \in Workers : WorkerInv(v)'
  BY <1>33, <1>0, TransitionFacts DEF HeldInv, PastSubmit, MoneyInv, WorkerInv,
     Critical, Returned, IndexingFailed, Goto, Live, Terminal, CanTransition
<1>34. ASSUME NEW w \in Workers, IndexingCompleted(w)
       PROVE  MoneyInv' /\ \A v \in Workers : WorkerInv(v)'
  BY <1>34, <1>0, TransitionFacts DEF HeldInv, PastSubmit, MoneyInv, WorkerInv,
     Critical, Returned, IndexingCompleted, Goto, Live, Terminal, CanTransition
<1>35. ASSUME NEW w \in Workers, releaseTerminalHold(w)
       PROVE  MoneyInv' /\ \A v \in Workers : WorkerInv(v)'
  BY <1>35, <1>0, ReleaseClaims DEF HeldInv, PastSubmit, MoneyInv, WorkerInv, Critical,
     Returned, releaseTerminalHold, Goto
<1>36. ASSUME NEW w \in Workers, Settle(w)
       PROVE  MoneyInv' /\ \A v \in Workers : WorkerInv(v)'
  <2>1. /\ UNCHANGED <<status, retry, claims, early, sub, lock>>
        /\ wk[w] = "settle" /\ wk' = [wk EXCEPT ![w] = wk'[w]]
        /\ wk'[w] \in {"ack", "requeue"} \/ (status = "settling" /\ wk'[w] \in {"exhaust", "record", "capture"})
        /\ wk'[w] = "exhaust" => retry = Max
        /\ wk'[w] = "record" => cost > Hold
        /\ wk'[w] = "capture" => retry < Max
    BY <1>36, <1>0 DEF Settle, Goto, Max
  <2>2. lock = w
    BY <1>0, <2>1 DEF WorkerInv, Critical, WorkerPcs
  <2>3. MoneyInv'
    BY <1>0, <2>1 DEF MoneyInv, Returned
  <2>4. cost > Hold => "capture" \notin claims
    BY AmountsAssumption, HoldAssumption DEF HeldInv, TypeOK, Unreadable
  <2>5. retry = Max => "capture" \notin claims
    BY <1>0 DEF MoneyInv
  <2>6. WorkerInv(w)'
    BY <1>0, <2>1, <2>2, <2>4, <2>5 DEF WorkerInv
  <2>7. ASSUME NEW v \in Workers, v # w PROVE WorkerInv(v)'
    BY <1>0, <2>1, <2>7 DEF WorkerInv
  <2> QED
    BY <2>3, <2>6, <2>7
<1>37. ASSUME NEW w \in Workers, CaptureHold(w)
       PROVE  MoneyInv' /\ \A v \in Workers : WorkerInv(v)'
  <2>1. PICK ok \in BOOLEAN :
          /\ Goto(w, "capture", IF ok THEN "complete" ELSE "record")
          /\ Billing("capture", ok)
          /\ void' = (void \/ (~ok /\ "capture" \in claims'))
    BY <1>37 DEF CaptureHold
  <2>2. UNCHANGED <<status, retry, sub, lock, early>>
    BY <1>37, <2>1, CaptureFacts DEF CaptureHold, Goto
  <2>3. /\ claims' = claims \/ claims' = claims \cup {"capture"}
        /\ ~ok => "capture" \notin claims'
    BY <2>1, CaptureFacts
  <2>4. status = "settling" /\ retry < Max /\ ~Returned /\ lock = w
    BY <1>0, <2>1 DEF WorkerInv, MoneyInv, Goto, Critical, WorkerPcs
  <2>5. MoneyInv'
    BY <2>2, <2>3, <2>4 DEF MoneyInv, Returned
  <2>6. \A v \in Workers : v # w => wk'[v] = wk[v] /\ wk[v] \notin Critical
    BY <1>0, <2>1, <2>4 DEF WorkerInv, Goto
  <2>7. wk'[w] = IF ok THEN "complete" ELSE "record"
    BY <1>0, <2>1 DEF Goto
  <2>8. WorkerInv(w)'
    BY <2>2, <2>3, <2>4, <2>7 DEF WorkerInv
  <2>9. ASSUME NEW v \in Workers, v # w PROVE WorkerInv(v)'
    BY <1>0, <2>6, <2>9 DEF WorkerInv, Critical, WorkerPcs
  <2> QED
    BY <2>5, <2>8, <2>9
<1>38. ASSUME NEW w \in Workers, MarkBatchImageJobSettled(w)
       PROVE  MoneyInv' /\ \A v \in Workers : WorkerInv(v)'
  BY <1>38, <1>0 DEF HeldInv, PastSubmit, MoneyInv, WorkerInv, Critical, Returned,
     MarkBatchImageJobSettled, Goto
<1>39. ASSUME NEW w \in Workers, recordSettlementFailure(w)
       PROVE  MoneyInv' /\ \A v \in Workers : WorkerInv(v)'
  <2>1. /\ wk[w] = "record" /\ UNCHANGED <<status, claims, early, sub, lock>>
        /\ retry' \in 0..Max
        /\ wk' = [wk EXCEPT ![w] = "requeue"] \/ (wk' = [wk EXCEPT ![w] = "exhaust"] /\ retry' = Max)
    BY <1>39, <1>0 DEF recordSettlementFailure, Goto, Max
  <2>2. status = "settling" /\ "capture" \notin claims /\ lock = w
    BY <1>0, <2>1 DEF WorkerInv, Critical, WorkerPcs
  <2>3. Returned => retry = Max /\ retry' = Max
    BY <1>39, <1>0, <2>2 DEF MoneyInv, recordSettlementFailure, Max
  <2>4. MoneyInv'
    BY <2>1, <2>2, <2>3 DEF MoneyInv, Returned
  <2>5. \A v \in Workers : v # w => wk'[v] = wk[v] /\ wk[v] \notin Critical
    BY <1>0, <2>1, <2>2 DEF WorkerInv
  <2>6. WorkerInv(w)'
    BY <1>0, <2>1, <2>2 DEF WorkerInv, Critical
  <2>7. ASSUME NEW v \in Workers, v # w PROVE WorkerInv(v)'
    BY <1>0, <2>5, <2>7 DEF WorkerInv, Critical, WorkerPcs
  <2> QED
    BY <2>4, <2>6, <2>7
<1>40. ASSUME NEW w \in Workers, failExhaustedSettlement(w)
       PROVE  MoneyInv' /\ \A v \in Workers : WorkerInv(v)'
  BY <1>40, <1>0, ReleaseClaims DEF HeldInv, PastSubmit, MoneyInv, WorkerInv, Critical,
     Returned, failExhaustedSettlement, Goto
<1>41. ASSUME NEW w \in Workers, FailSettlement(w)
       PROVE  MoneyInv' /\ \A v \in Workers : WorkerInv(v)'
  BY <1>41, <1>0, TransitionFacts DEF HeldInv, PastSubmit, MoneyInv, WorkerInv,
     Critical, Returned, FailSettlement, Goto, Live, Terminal, CanTransition
<1>42. ASSUME NEW w \in Workers, AckOrRequeue(w)
       PROVE  MoneyInv' /\ \A v \in Workers : WorkerInv(v)'
  BY <1>42, <1>0 DEF HeldInv, PastSubmit, MoneyInv, WorkerInv, Critical, Returned,
     AckOrRequeue, Goto
<1>43. ASSUME NEW w \in Workers, ReleaseJobLock(w)
       PROVE  MoneyInv' /\ \A v \in Workers : WorkerInv(v)'
  BY <1>43, <1>0 DEF HeldInv, PastSubmit, MoneyInv, WorkerInv, Critical, Returned,
     ReleaseJobLock, Goto
<1>44. ASSUME NEW w \in Workers, WorkerCrashes(w)
       PROVE  MoneyInv' /\ \A v \in Workers : WorkerInv(v)'
  BY <1>44, <1>0 DEF HeldInv, PastSubmit, MoneyInv, WorkerInv, Critical, Returned,
     WorkerCrashes, Goto
<1>45. CASE UNCHANGED vars
  BY <1>45, <1>0 DEF MoneyInv, WorkerInv, Returned, vars
<1> QED
  BY <1>1, <1>2, <1>3, <1>4, <1>5, <1>6, <1>7, <1>8, <1>9, <1>10, <1>11, <1>12, <1>13,
     <1>14, <1>15, <1>16, <1>17, <1>18, <1>19, <1>20, <1>21, <1>22, <1>23, <1>24, <1>25,
     <1>26, <1>27, <1>28, <1>29, <1>30, <1>31, <1>32, <1>33, <1>34, <1>35, <1>36, <1>37,
     <1>38, <1>39, <1>40, <1>41, <1>42, <1>43, <1>44, <1>45
  DEF Next, SubmitStep, CancelStep, RecoveryStep, QueueStep, WorkerStep

-----------------------------------------------------------------------------
LEMMA InitInv == Init => BatchInv
<1> SUFFICES ASSUME Init PROVE BatchInv
  OBVIOUS
<1>1. TypeOK
  <2>1. /\ balance \in Nat /\ frozen \in Nat /\ spent \in Int
        /\ retry \in 0..batchImageSettlementMaxRetries /\ faults \in 0..MaxFaults
    BY AmountsAssumption, BoundsAssumption DEF Init
  <2>2. wk \in [Workers -> WorkerPcs]
    BY DEF Init, WorkerPcs
  <2> QED
    BY <2>1, <2>2 DEF Init, TypeOK
<1>2. HeldInv
  BY DEF Init, HeldInv, PastSubmit
<1>3. SettleInv
  BY DEF Init, SettleInv, MoneyInv, WorkerInv, Returned, Critical
<1> QED
  BY <1>1, <1>2, <1>3 DEF BatchInv

(* The invariant holds in every behaviour.                                   *)
THEOREM Invariance == Spec => []BatchInv
<1>1. BatchInv /\ [Next]_vars => BatchInv'
  BY TypeStep, HeldStep, SettleStep DEF BatchInv
<1> QED
  BY <1>1, InitInv, PTL DEF Spec

(* Types, the queue, the job's row and the user's balance among them, for    *)
(* every instance.                                                           *)
THEOREM TypeCorrect == Spec => []TypeOK
<1>1. BatchInv => TypeOK
  BY DEF BatchInv
<1> QED
  BY <1>1, Invariance, PTL

(* A completed job was paid for, and one that failed or was cancelled was    *)
(* not while the promise is not void (Settle, failExhaustedSettlement,       *)
(* releaseTerminalHold).                                                     *)
THEOREM Payment == Spec => []PaidIffCompleted
<1>1. BatchInv => PaidIffCompleted
  BY DEF BatchInv, HeldInv, SettleInv, MoneyInv, PaidIffCompleted
<1> QED
  BY <1>1, Invariance, PTL
-----------------------------------------------------------------------------
(* Steps of the job and steps of the promise.                                *)

LEMMA QuietStep ==
  ASSUME UNCHANGED money, UNCHANGED void \/ void'
  PROVE  [Promise!Next]_(Promise!holdVars)
BY DEF money, HoldState, Returned, Promise!Next, Promise!holdVars

LEMMA ReserveStep ==
  ASSUME BatchInv, NEW ok \in BOOLEAN, Billing("hold", ok), UNCHANGED void
  PROVE  [Promise!Next]_(Promise!holdVars)
<1>1. CASE void
  BY <1>1 DEF Promise!Next
<1>2. CASE ~void /\ UNCHANGED <<balance, frozen, claims>>
  <2>1. UNCHANGED money
    BY <1>2, HoldFacts DEF BatchInv, money
  <2> QED
    BY <2>1, QuietStep
<1>3. CASE ~void /\ ~UNCHANGED <<balance, frozen, claims>>
  <2>1. /\ "hold" \notin claims /\ claims' = claims \cup {"hold"} /\ balance >= Hold
        /\ balance' = balance - Hold /\ frozen' = frozen + Hold
        /\ UNCHANGED <<spent, early>>
    BY <1>3, HoldFacts DEF BatchInv
  <2>2. HoldState = "none" /\ HoldState' = "reserved"
    BY <2>1 DEF HoldState, Returned, BatchInv, HeldInv
  <2>3. Promise!Reserve
    BY <2>1, <2>2 DEF Promise!Reserve
  <2> QED
    BY <1>3, <2>3 DEF Promise!Next
<1> QED
  BY <1>1, <1>2, <1>3

LEMMA ReleaseStep ==
  ASSUME BatchInv, NEW ok \in BOOLEAN, Billing("release", ok), UNCHANGED void,
         ~void => "capture" \notin claims
  PROVE  [Promise!Next]_(Promise!holdVars)
<1>1. CASE void
  BY <1>1 DEF Promise!Next
<1>2. CASE ~void /\ UNCHANGED <<balance, frozen, claims, early>>
  <2>1. UNCHANGED money
    BY <1>2, ReleaseFacts DEF BatchInv, money
  <2> QED
    BY <2>1, QuietStep
<1>3. CASE ~void /\ "hold" \in claims /\ ~UNCHANGED <<balance, frozen, claims, early>>
  <2>1. /\ "release" \notin claims /\ claims' = claims \cup {"release"}
        /\ balance' = balance + Hold /\ frozen' = frozen - Hold
        /\ UNCHANGED <<spent, early>>
    BY <1>3, ReleaseFacts DEF BatchInv
  <2>2. HoldState = "reserved" /\ HoldState' = "released"
    BY <1>3, <2>1 DEF HoldState, Returned, BatchInv, HeldInv
  <2>3. Promise!Release
    BY <2>1, <2>2 DEF Promise!Release
  <2> QED
    BY <1>3, <2>3 DEF Promise!Next
<1>4. CASE ~void /\ "hold" \notin claims /\ ~UNCHANGED <<balance, frozen, claims, early>>
  <2>1. claims' = claims \cup {"release"} /\ UNCHANGED <<balance, frozen, spent>>
    BY <1>4, ReleaseFacts DEF BatchInv
  <2>2. HoldState = "none" /\ HoldState' = "none"
    BY <1>4, <2>1 DEF HoldState
  <2> QED
    BY <2>1, <2>2 DEF Promise!holdVars
<1> QED
  BY <1>1, <1>2, <1>3, <1>4

LEMMA CaptureStep ==
  ASSUME BatchInv, NEW w \in Workers, CaptureHold(w)
  PROVE  [Promise!Next]_(Promise!holdVars)
<1>1. PICK ok \in BOOLEAN :
        /\ wk[w] = "capture" /\ Billing("capture", ok)
        /\ void' = (void \/ (~ok /\ "capture" \in claims'))
  BY DEF CaptureHold, Goto
<1>2. CASE void'
  BY <1>2 DEF Promise!Next
<1>3. CASE ~void' /\ UNCHANGED <<balance, frozen, spent, claims>>
  <2>1. UNCHANGED money
    BY <1>1, <1>3, CaptureFacts DEF BatchInv, money
  <2>2. UNCHANGED void
    BY <1>1, <1>3, Zenon DEF BatchInv, TypeOK
  <2> QED
    BY <2>1, <2>2, QuietStep
<1>4. CASE ~void' /\ ~UNCHANGED <<balance, frozen, spent, claims>>
  <2>1. /\ "capture" \notin claims /\ claims' = claims \cup {"capture"}
        /\ cost <= Hold
        /\ balance' = balance + (Hold - cost) /\ frozen' = frozen - Hold
        /\ spent' = spent + cost /\ UNCHANGED early
    BY <1>1, <1>4, CaptureFacts DEF BatchInv
  <2>2. "hold" \in claims /\ ~Returned
    <3>1. ~void
      BY <1>1, <1>4, Zenon
    <3>2. status = "settling" /\ retry < Max /\ "hold" \in claims
      BY <1>1, <3>1 DEF BatchInv, HeldInv, SettleInv, WorkerInv
    <3>3. retry \in 0..Max /\ Max \in Nat
      BY BoundsAssumption DEF BatchInv, TypeOK, Max
    <3> QED
      BY <3>1, <3>2, <3>3 DEF BatchInv, SettleInv, MoneyInv
  <2>3. HoldState = "reserved" /\ HoldState' = "captured"
    BY <2>1, <2>2 DEF HoldState
  <2>4. Promise!Capture(cost)
    BY <2>1, <2>3 DEF Promise!Capture
  <2> QED
    BY <1>4, <2>4 DEF Promise!Next, BatchInv, TypeOK
<1> QED
  BY <1>2, <1>3, <1>4

LEMMA RefinementStep == BatchInv /\ [Next]_vars => [Promise!Next]_(Promise!holdVars)
<1> SUFFICES ASSUME BatchInv, [Next]_vars PROVE [Promise!Next]_(Promise!holdVars)
  OBVIOUS
<1>1. CASE ReserveHold
  BY <1>1, ReserveStep DEF ReserveHold
<1>2. CASE releaseFailedSubmitHold
  <2>1. sub \in {"release", "releaseOnly"} /\ UNCHANGED void /\ \E ok \in BOOLEAN : Billing("release", ok)
    BY <1>2 DEF releaseFailedSubmitHold, Submitting
  <2>2. ~void => "capture" \notin claims
    BY <2>1 DEF BatchInv, HeldInv, SettleInv, MoneyInv, PastSubmit
  <2> QED
    BY <2>1, <2>2, ReleaseStep
<1>3. CASE CancelRelease \/ RecoveryRelease
  <2>1. /\ can = "release" \/ rec = "release"
        /\ UNCHANGED void /\ \E ok \in BOOLEAN : Billing("release", ok)
    BY <1>3 DEF CancelRelease, RecoveryRelease, Cancelling, Recovering
  <2>2. ~void => "capture" \notin claims
    BY <2>1 DEF BatchInv, HeldInv, SettleInv, MoneyInv
  <2> QED
    BY <2>1, <2>2, ReleaseStep
<1>4. ASSUME NEW w \in Workers, releaseTerminalHold(w) \/ failExhaustedSettlement(w)
      PROVE  [Promise!Next]_(Promise!holdVars)
  <2>1. /\ wk[w] \in {"release", "exhaust"}
        /\ UNCHANGED void /\ \E ok \in BOOLEAN : Billing("release", ok)
    BY <1>4 DEF releaseTerminalHold, failExhaustedSettlement, Goto
  <2>2. ~void => "capture" \notin claims
    BY <2>1 DEF BatchInv, SettleInv, MoneyInv, WorkerInv
  <2> QED
    BY <2>1, <2>2, ReleaseStep
<1>5. ASSUME NEW w \in Workers, CaptureHold(w) PROVE [Promise!Next]_(Promise!holdVars)
  BY <1>5, CaptureStep
<1>6. CASE CreateBatchImageJob \/ StartUpload \/ ProviderSubmit \/ UpdateProviderSubmit
           \/ EnqueueSubmitted \/ RecordSubmitFailure \/ enqueueBillingRetry
           \/ SubmitCrashes \/ ReplaySubmit
  <2>1. UNCHANGED money /\ (UNCHANGED void \/ void')
    BY <1>6 DEF CreateBatchImageJob, StartUpload, ProviderSubmit, UpdateProviderSubmit,
       EnqueueSubmitted, RecordSubmitFailure, enqueueBillingRetry, SubmitCrashes,
       ReplaySubmit
  <2> QED
    BY <2>1, QuietStep
<1>7. CASE Cancel \/ CancelAtProvider \/ CancelTransition \/ CancelRetry
           \/ CancelCrashes \/ DeleteRecord
  <2>1. UNCHANGED money /\ (UNCHANGED void \/ void')
    BY <1>7 DEF Cancel, CancelAtProvider, CancelTransition, CancelRetry, CancelCrashes,
       DeleteRecord
  <2> QED
    BY <2>1, QuietStep
<1>8. CASE FailStaleUnsubmitted \/ enqueueReleaseRetry \/ RecoveryCrashes
  <2>1. UNCHANGED money /\ (UNCHANGED void \/ void')
    BY <1>8 DEF FailStaleUnsubmitted, enqueueReleaseRetry, RecoveryCrashes
  <2> QED
    BY <2>1, QuietStep
<1>9. CASE MoveDueDelayedToReady \/ RecoverStaleActive \/ JobLockExpires
           \/ ProviderFinishes
  <2>1. UNCHANGED money /\ (UNCHANGED void \/ void')
    BY <1>9 DEF MoveDueDelayedToReady, RecoverStaleActive, JobLockExpires,
       ProviderFinishes
  <2> QED
    BY <2>1, QuietStep
<1>10. ASSUME NEW w \in Workers, Reserve(w) \/ TryAcquireJobLock(w) \/ PipelineRead(w)
            \/ ProcessRead(w) \/ PollProvider(w) \/ Index(w) \/ IndexingFailed(w)
            \/ IndexingCompleted(w) \/ Settle(w) \/ MarkBatchImageJobSettled(w)
            \/ recordSettlementFailure(w) \/ FailSettlement(w) \/ AckOrRequeue(w)
            \/ ReleaseJobLock(w) \/ WorkerCrashes(w)
      PROVE  [Promise!Next]_(Promise!holdVars)
  <2>1. UNCHANGED money /\ UNCHANGED void
    BY <1>10 DEF Reserve, TryAcquireJobLock, PipelineRead, ProcessRead, PollProvider,
       Index, IndexingFailed, IndexingCompleted, Settle, MarkBatchImageJobSettled,
       recordSettlementFailure, FailSettlement, AckOrRequeue, ReleaseJobLock,
       WorkerCrashes
  <2> QED
    BY <2>1, QuietStep
<1>11. CASE UNCHANGED vars
  BY <1>11, QuietStep DEF vars
<1> QED
  BY <1>1, <1>2, <1>3, <1>4, <1>5, <1>6, <1>7, <1>8, <1>9, <1>10, <1>11
  DEF Next, SubmitStep, CancelStep, RecoveryStep, QueueStep, WorkerStep

(* The job implements the promise: whatever fails or overtakes, the hold is  *)
(* taken once and leaves the frozen balance once, until the promise is void. *)
THEOREM Refinement == Spec => HoldPromise
<1>1. Init => Promise!Init
  BY AmountsAssumption DEF Init, Promise!Init, HoldState
<1> QED
  BY <1>1, RefinementStep, Invariance, PTL DEF Spec, HoldPromise, Promise!Spec
=============================================================================
