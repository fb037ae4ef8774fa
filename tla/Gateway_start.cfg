CONSTANTS
  MaxStarts = 2
  MaxBoots = 2
  StackFails = TRUE
SPECIFICATION FairSpec
INVARIANTS TypeOK OneLoopOnAStartedStack FormedIsTrue
PROPERTIES FormingSucceeds StartReturns NobodyWaitsOnDeletedSemaphore
