\* What the repository says and the code does not do (README, section 5).  Swap the
\* property for one of those in the comment to see the others.
SPECIFICATION OAuthSpec
CONSTANTS
  b1 = b1
  b2 = b2
  q1 = q1
  q2 = q2
  r1 = r1
  r2 = r2
  Background <- TwoCycles
  Requests <- OneRequest
  Replicas <- TwoReplicas
  home <- MCHome
  Platforms <- ClaudeOnly
  FaultKinds <- OnlyDropped
  MaxDue = 1
  MaxReauths = 1
  MaxFaults = 1
INVARIANT
  ReauthorizedNotBarred
\* INVARIANT
\*   OldNotCached
CHECK_DEADLOCK FALSE
