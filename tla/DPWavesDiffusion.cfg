SPECIFICATION FairSpec
CONSTANTS
  dp_size = 2
  Client = {c1}
  MaxRequests = 1
  steps = 3
  SyncPeriod = 2
  DiffusionModes = {TRUE}
CHECK_DEADLOCK FALSE
PROPERTIES GlobalUnfinished
