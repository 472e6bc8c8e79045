\* What the repository says and the code does not do (README, section 5).  Swap the
\* property for one of those in the comment to see the others.
SPECIFICATION Spec
CONSTANTS
  w1 = w1
  w2 = w2
  Workers <- OneWorker
  Hold = 2
  Costs <- OneCost
  Balances <- Enough
  Pools <- OtherBatch
  batchImageSettlementMaxRetries = 2
  FaultKinds = {"error"}
  MaxFaults = 3
INVARIANT
  ReleasedMeansReturned
\* INVARIANT
\*   EndsOnce
CHECK_DEADLOCK FALSE
