CONSTANTS
  QueueSize = 3
  SchedDepth = 2
  MaxSent = 6
  OtherJobs = TRUE
  HandlerRaises = TRUE
  EarlyEvents = TRUE
SPECIFICATION FairSpec
INVARIANTS TypeOK InOrder ResendFits NewestSurvives NoStrandedEvent
PROPERTIES RefinesLossyFifo EventsLeaveTheQueue
