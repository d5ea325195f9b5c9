SPECIFICATION SagaSpec
CONSTANTS
  o1 = o1
  Orders = {o1}
  Products = {1}
  MaxCopies = 2
  Demand <- SmallOrder
  InitialStock <- SmallStock
  Inbox <- DuplicatesInbox
  Instances = {i1}
  Jobs = {j1}
  Workers <- Single
  MaxPublished <- Duplicates
  MaxAttempts = 2
  LeaseMayLapse = FALSE
  MaxErrors = 1
  MaxCrashes = 0
  MaxWorkerErrors = 0
  MaxRestarts = 0
INVARIANT PaidIsHeld
PROPERTY SagaImplementsLifecycle
