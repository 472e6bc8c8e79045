SPECIFICATION Spec
CONSTANTS
  o1 = o1
  w1 = w1
  w2 = w2
  Orders = {o1}
  Workers = {w1, w2}
  BalanceOrders = {o1}
  QueriedByOutTradeNo = {}
  ReconciledOrders = {}
  Redeliveries = 1
  MaxFaults = 3
  NoWorker = NoWorker
  PromptSteps <- CreationAndLease
  ReadErrors = TRUE
SYMMETRY Symmetry
INVARIANTS
  CreditedStaysFulfilled
PROPERTIES
  ImplementsPromise
  OnlyOwnerEndsFulfilment
