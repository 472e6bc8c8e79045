SPECIFICATION SlotsFairSpec
CONSTANTS
  Calls = {"c1", "c2", "c3"}
  Processes = {"p1", "p2"}
  Home <- TwoReplicas
  Max = 2
  MaxWait = 1
  MaxFaults = 1
INVARIANTS
  SlotsInv
  NothingLeaks
PROPERTIES
  CapacityReturns
CHECK_DEADLOCK FALSE
