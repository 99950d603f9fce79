SPECIFICATION FairSpec
CONSTANTS
  MaxMessages = 4
  MaxBuffered = 2
INVARIANTS NoLostWakeup PendingIsTrue NothingSkipped
PROPERTIES DestructorReturns AlwaysListensAgain
CHECK_DEADLOCK FALSE
