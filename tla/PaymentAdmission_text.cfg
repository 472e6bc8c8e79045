\* What the repository says and the code does not do (README, section 5).  Swap the
\* property for one of those in the comment to see the others.
SPECIFICATION Spec
CONSTANTS
  r1 = r1
  r2 = r2
  Requests = {r1, r2}
  MaxPending = 2
  DailyLimit = 1
  MaxOrders = 3
  MaxLapses = 0
INVARIANT
  PendingWithinLimit
\* INVARIANT
\*   DailyWithinLimit
\* PROPERTY
\*   DeletedIsIdle
CHECK_DEADLOCK FALSE
