SPECIFICATION OutboxFairSpec
CONSTANTS
  a1 = a1
  a2 = a2
  w1 = w1
  w2 = w2
  p1 = p1
  p2 = p2
  Accounts <- OneAccount
  Writers <- MCWriters
  Replicas <- MCReplicas
  Schedulable <- BackAgain
  Limit = 2
  MaxId = 2
  MaxAborts = 1
INVARIANTS
  OutboxInv
PROPERTIES
  EventsHandled
  CacheConverges
