SPECIFICATION FairSpec
CONSTANTS
  o1 = o1
  w1 = w1
  w2 = w2
  Orders = {o1}
  Workers = {w1, w2}
  BalanceOrders = {}
  QueriedByOutTradeNo = {o1}
  ReconciledOrders = {o1}
  Redeliveries = 4
  MaxFaults = 1
  NoWorker = NoWorker
  PromptSteps <- FulfilmentSteps
  ReadErrors = FALSE
PROPERTIES
  ImplementsPromise
  PaidIsSettledOrFlagged
