\* What the repository says and the code does not do (README, section 5).  Swap the
\* property for one of those in the comment to see the others.
SPECIFICATION Spec
CONSTANTS
  o1 = o1
  w1 = w1
  w2 = w2
  Orders = {o1}
  Workers = {w1, w2}
  BalanceOrders = {o1}
  QueriedByOutTradeNo = {o1}
  ReconciledOrders = {o1}
  Redeliveries = 1
  MaxFaults = 1
  NoWorker = NoWorker
  PromptSteps <- NoStep
  ReadErrors = TRUE
SYMMETRY Symmetry
PROPERTY
  OnlyOwnerEndsFulfilment
\* PROPERTY
\*   RevivedOnlyWithinGrace
