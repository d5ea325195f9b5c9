SPECIFICATION Spec
CONSTANTS
  o1 = o1
  o2 = o2
  Orders = {o1, o2}
  Products = {1, 2}
  MaxCopies = 2
  Demand <- TwoOrders
  InitialStock <- Scarce
  Inbox <- Contended
  Instances = {i1, i2}
  Jobs = {j1, j2}
  MaxAttempts = 1
  LeaseMayLapse = TRUE
  MaxErrors = 0
  MaxCrashes = 0
INVARIANTS
  LocksHaveHolders
  NoLockCycle
  RefusalIsFinal
PROPERTY ImplementsLedger
SYMMETRY Symmetry
