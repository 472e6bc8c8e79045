\* What the repository says and the code does not do (README, section 5).  Swap the
\* property for one of those in the comment to see the others.
SPECIFICATION Spec
CONSTANTS
  r1 = r1
  r2 = r2
  r3 = r3
  Requests = {r1, r2, r3}
  Fps = {"a"}
  Lease = 3
  Ttl = 5
  Backoff = 1
  Renews = FALSE
  MaxRun = 3
  MaxDelay = 1
INVARIANT
  ConcurrentRequestsOneEffect
\* PROPERTY
\*   InProgressIsTrue
CHECK_DEADLOCK FALSE
