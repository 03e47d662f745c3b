SPECIFICATION FairSpec
CONSTANTS
  world_size = 2
  max_chunks = 1
  MaxCalls = 2
  MaxDeaths = 1
  Request = {r1}
  Utility = {u1}
  fork = FALSE
CHECK_DEADLOCK FALSE
INVARIANTS AnswersMatch FrontEndStopsWithEngine
PROPERTIES CallsEnd RequestsEnd UtilitiesEnd WorkerDeathEndsEngine NoOrphans StartUpEnds ShutdownEnds
