--------------------------- MODULE MCBatchImageJobs ---------------------------
(* One or two workers; the user can pay for the hold or not, and has another *)
(* batch's hold or none; the output costs nothing, less than the hold, more  *)
(* than it, or cannot be read.                                               *)
EXTENDS BatchImageJobs
CONSTANTS w1, w2
OneWorker == {w1}
TwoWorkers == {w1, w2}
SomeCosts == {Unreadable, 1, 3}
OneCost == {1}
SomeBalances == {1, 2}
Enough == {2}
SomePools == {0, 2}
OtherBatch == {2}
Handled == {"error", "lost", "crash", "slow"}
AllFaults == Handled \cup {"unsure", "lapse"}
=============================================================================
