SPECIFICATION FairSpec
CONSTANTS
  r1 = r1
  r2 = r2
  Replicas <- MCReplicas
  Servers <- MCServers
  MaxVersion = 2
  SafetyDelay = 2
  Lease = 1
  RetryDelay = 1
  LocalTTL = 1
  MaxLookup = 1
  MaxFaults = 1
INVARIANTS
  CacheInv
  LocalStaleIsBrief
  PublishedMeansFresh
PROPERTIES
  ChangesAreConsumed
