SPECIFICATION FairSpec
CONSTANTS
  o1 = o1
  o2 = o2
  Orders = {o1}
  Products = {1, 2}
  MaxCopies = 1
  Demand <- OneOrder
  InitialStock <- Plenty
  Inbox <- OncePublished
  Instances = {i1}
  Jobs = {j1, j2}
  MaxAttempts = 2
  LeaseMayLapse = FALSE
  MaxErrors = 3
  MaxCrashes = 1
INVARIANTS
  TypeOK
  HandledIsAnswered
  JobExclusive
PROPERTIES
  ReservationsEnd
  LocksGetFreed
