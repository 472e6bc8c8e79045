SPECIFICATION FairSpec
CONSTANTS
  r1 = r1
  r2 = r2
  r3 = r3
  Requests = {r1, r2, r3}
  Fps = {"a", "b"}
  Lease = 3
  Ttl = 6
  Backoff = 1
  Renews = TRUE
  MaxRun = 4
  MaxDelay = 1
INVARIANTS
  OneExecutionAtATime
  OneEffect
  OnlyTakeoverRepeats
PROPERTIES
  StuckKeyExpires
CHECK_DEADLOCK FALSE
