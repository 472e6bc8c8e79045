\* What the repository says and the code does not do (README, section 5).  Swap the
\* property for one of those in the comment to see the others.
SPECIFICATION Spec
CONSTANTS
  w1 = w1
  Workers = {w1}
  MaxFaults = 0
  Crashes = FALSE
  RollbacksFail = TRUE
  FailedVerdicts = FALSE
INVARIANT
  NeverTakenTwice
\* INVARIANT
\*   TakenOnlyIfAsked
CHECK_DEADLOCK FALSE
