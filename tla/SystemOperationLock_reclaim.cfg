SPECIFICATION Spec
CONSTANTS
  o1 = o1
  o2 = o2
  o3 = o3
  Ops = {o1, o2, o3}
  OpId <- DistinctIds
  Lease = 6
  Interval = 2
  Ttl = 6
  MaxDelay = 1
  MaxFails = 0
SYMMETRY Symmetry
INVARIANT
  NoTwoOperations
CHECK_DEADLOCK FALSE
