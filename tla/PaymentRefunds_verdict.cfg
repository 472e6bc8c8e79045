SPECIFICATION Spec
CONSTANTS
  w1 = w1
  w2 = w2
  Workers = {w1, w2}
  MaxFaults = 0
  Crashes = FALSE
  RollbacksFail = FALSE
  FailedVerdicts = TRUE
INVARIANTS
  NeverTakenTwice
CHECK_DEADLOCK FALSE
