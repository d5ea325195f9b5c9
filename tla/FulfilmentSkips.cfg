SPECIFICATION Spec
CONSTANTS
  o1 = o1
  Orders = {o1}
  Workers <- Single
  MaxPublished <- Once
  MaxAttempts = 4
  MaxErrors = 0
  MaxRestarts = 1
INVARIANT NothingIsLost
CHECK_DEADLOCK FALSE
