SPECIFICATION FairSpec
CONSTANTS
  o1 = o1
  w1 = w1
  w2 = w2
  Orders = {o1}
  Workers = {w1, w2}
  BalanceOrders = {o1}
  QueriedByOutTradeNo = {o1}
  ReconciledOrders = {o1}
  Redeliveries = 1
  MaxFaults = 0
  NoWorker = NoWorker
  PromptSteps <- CallSteps
  ReadErrors = FALSE
PROPERTIES
  PaidIsReconciled
