SPECIFICATION OAuthFairSpec
CONSTANTS
  b1 = b1
  b2 = b2
  q1 = q1
  q2 = q2
  r1 = r1
  r2 = r2
  Background <- TwoCycles
  Requests <- OneRequest
  Replicas <- TwoReplicas
  home <- MCHome
  Platforms <- BothPlatforms
  FaultKinds <- Kinds
  MaxDue = 1
  MaxReauths = 1
  MaxFaults = 1
INVARIANTS
  CredentialInv
  BarredIsDead
  StaleTokenGoes
PROPERTIES
  CheckedIsStored
  DueIsRefreshed
CHECK_DEADLOCK FALSE
