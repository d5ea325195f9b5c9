SPECIFICATION FairIntakeSpec
CONSTANTS
  Orders <- ThreeIds
  Posts = {p1, p2}
  Ticks = {t1, t2}
  Take = 1
  MaxErrors = 2
  MaxCrashes = 1
INVARIANTS
  IntakeTypeOK
  PublishedIsEmitted
  CopiesAreBounded
  OneOrderPerPost
  CreatedIsCommitted
PROPERTY EveryOrderIsPublished
CHECK_DEADLOCK FALSE
