SPECIFICATION Spec
CONSTANTS
  o1 = o1
  Orders = {o1}
  Workers <- WithMessageria
  MaxPublished <- Duplicated
  MaxAttempts = 2
  MaxErrors = 3
  MaxRestarts = 1
INVARIANTS
  TypeOK
  AnsweredOrDlq
  DuplicatesAreSkipped
CHECK_DEADLOCK FALSE
