SPECIFICATION FairSpec
CONSTANTS
  w1 = w1
  w2 = w2
  Workers <- TwoWorkers
  Hold = 2
  Costs <- SomeCosts
  Balances <- SomeBalances
  Pools <- SomePools
  batchImageSettlementMaxRetries = 2
  FaultKinds <- AllFaults
  MaxFaults = 1
INVARIANTS
  TypeOK
  PaidIffCompleted
PROPERTIES
  HoldPromise
  HoldEnds
CHECK_DEADLOCK FALSE
