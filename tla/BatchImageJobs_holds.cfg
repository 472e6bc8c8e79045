SPECIFICATION FairSpec
CONSTANTS
  w1 = w1
  w2 = w2
  Workers <- OneWorker
  Hold = 2
  Costs <- SomeCosts
  Balances <- SomeBalances
  Pools <- OtherBatch
  batchImageSettlementMaxRetries = 2
  FaultKinds <- AllFaults
  MaxFaults = 2
INVARIANTS
  PaidIffCompleted
PROPERTIES
  HoldPromise
  HoldEnds
CHECK_DEADLOCK FALSE
