SPECIFICATION FairSpec
CONSTANTS
  dp_size = 2
  Client = {c1}
  MaxRequests = 2
  steps = 2
  SyncPeriod = 2
  DiffusionModes = {TRUE, FALSE}
CHECK_DEADLOCK FALSE
INVARIANTS SameWave Behind
PROPERTIES WavesAdvance RequestsFinish
