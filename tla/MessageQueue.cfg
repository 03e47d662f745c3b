CONSTANTS
  n_reader = 2
  max_chunks = 2
  Remote = {remote}
  Timed = {2}
  SendHWM = 4
  MaxMsgs = 4
SPECIFICATION FairSpec
INVARIANTS BlockIntact NothingLost SocketBounded RemoteInOrder
PROPERTIES IsBroadcastQueue
