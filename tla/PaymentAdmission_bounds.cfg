SPECIFICATION Spec
CONSTANTS
  r1 = r1
  r2 = r2
  r3 = r3
  Requests = {r1, r2, r3}
  MaxPending = 2
  DailyLimit = 2
  MaxOrders = 7
  MaxLapses = 1
SYMMETRY Symmetry
INVARIANTS
  PendingOvershoot
  DailyOvershoot
CHECK_DEADLOCK FALSE
