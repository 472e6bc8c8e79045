\* What the repository says and the code does not do (README, section 5).  Swap the
\* property for one of those in the comment to see the others.
SPECIFICATION SlotsSpec
CONSTANTS
  Calls = {"c1", "c2", "c3"}
  Processes = {"p1", "p2"}
  Home <- TwoReplicas
  Max = 2
  MaxWait = 1
  MaxFaults = 1
PROPERTY
  StartKeepsOthers
\* INVARIANT
\*   HandoffAdmitted
CHECK_DEADLOCK FALSE
