CONSTANTS
  QueueSize = 2
  SchedDepth = 2
  MaxSent = 3
  OtherJobs = TRUE
  HandlerRaises = FALSE
  EarlyEvents = FALSE
SPECIFICATION Spec
INVARIANTS AllAvailableAreProcessed
CHECK_DEADLOCK FALSE
