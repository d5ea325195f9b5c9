SPECIFICATION FairSpec
CONSTANTS
  e1 = e1
  e2 = e2
  e3 = e3
  r1 = r1
  r2 = r2
  Events <- ThreeEvents
  Replicas <- TwoReplicas
  BatchSize = 2
  MaxCopies = 2
  Slots = {s1, s2}
  MaxErrors = 1
  MaxStops = 1
INVARIANTS
  TypeOK
  BatchesAreBounded
  SomeReplicaStarts
PROPERTIES
  LossIsBounded
  ReceivedIsIndexed
CHECK_DEADLOCK FALSE
