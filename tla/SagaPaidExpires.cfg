SPECIFICATION FairSagaSpec
CONSTANTS
  o1 = o1
  Orders = {o1}
  Products = {1}
  MaxCopies = 1
  Demand <- SmallOrder
  InitialStock <- SmallStock
  Inbox <- PaysInbox
  Instances = {i1}
  Jobs = {j1}
  Workers <- Single
  MaxPublished <- Pays
  MaxAttempts = 2
  LeaseMayLapse = FALSE
  MaxErrors = 0
  MaxCrashes = 0
  MaxWorkerErrors = 0
  MaxRestarts = 0
PROPERTY PaidStockIsKept
