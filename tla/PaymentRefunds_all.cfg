SPECIFICATION FairSpec
CONSTANTS
  w1 = w1
  w2 = w2
  Workers = {w1, w2}
  MaxFaults = 2
  Crashes = TRUE
  RollbacksFail = TRUE
  FailedVerdicts = TRUE
INVARIANTS
  TakenAtMostOnce
  UnrefundedIsWhole
  LockIsExclusive
PROPERTIES
  LockIsReleased
CHECK_DEADLOCK FALSE
