SPECIFICATION Spec
CONSTANTS
  Workers = {w1, w2}
  Topics <- EventTopics
  Arrivals <- Confirmed
  MaxErrors = 1
  MaxRestarts = 1
INVARIANTS
  TopicOrderIsKept
  StatusMatchesTimeline
CHECK_DEADLOCK FALSE
