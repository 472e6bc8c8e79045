SPECIFICATION FairSpec
CONSTANTS
  o1 = o1
  o2 = o2
  o3 = o3
  Ops = {o1, o2, o3}
  OpId <- RetryAndOther
  Lease = 6
  Interval = 1
  Ttl = 6
  MaxDelay = 1
  MaxFails = 1
INVARIANTS
  OneOperationAtATime
  HeldLockIsLive
PROPERTIES
  LockIsFreed
CHECK_DEADLOCK FALSE
