SPECIFICATION FairSpec
CONSTANTS
  o1 = o1
  Orders = {o1}
  Workers <- TwoOrderWorkers
  MaxPublished <- Declined
  MaxAttempts = 2
  MaxErrors = 2
  MaxRestarts = 1
INVARIANTS
  OneOutcome
  ConfirmedIsShipped
PROPERTIES
  ImplementsLifecycle
  OrdersAreDecided
CHECK_DEADLOCK FALSE
