SPECIFICATION FairSpec
CONSTANTS
  p1 = p1
  p2 = p2
  b1 = b1
  r1 = r1
  Pollers <- OnePoller
  Rebuilders <- OneRebuilder
  Requests <- OneRequest
  MaxData = 1
  MaxChanges = 2
  MaxOwed = 1
  MaxFaults = 1
INVARIANTS
  LoadedSinceRetirement
  LifecycleAgrees
PROPERTIES
  NoOlderSnapshot
  SnapshotConverges
