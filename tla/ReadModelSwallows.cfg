SPECIFICATION Spec
CONSTANTS
  Workers = {w1}
  Topics <- EventTopics
  Arrivals <- Confirmed
  MaxErrors = 1
  MaxRestarts = 0
INVARIANT HandledOrInDlq
CHECK_DEADLOCK FALSE
