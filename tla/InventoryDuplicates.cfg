SPECIFICATION Spec
CONSTANTS
  o1 = o1
  o2 = o2
  Orders = {o1}
  Products = {1, 2}
  MaxCopies = 2
  Demand <- OneOrder
  InitialStock <- Plenty
  Inbox <- TwicePublished
  Instances = {i1, i2}
  Jobs = {j1}
  MaxAttempts = 2
  LeaseMayLapse = FALSE
  MaxErrors = 1
  MaxCrashes = 1
INVARIANTS
  Conservation
  ReservedIsBacked
  ReserveMutex
  ReservedOnce
  FailedPaymentReturnsStock
  HandledIsAnswered
PROPERTY ImplementsLedger
SYMMETRY Symmetry
