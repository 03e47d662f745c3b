SPECIFICATION MCSpec
CONSTANTS
  MaskId = mask
  Vocab = {a, b}
  PromptToken = {p}
  ReqId = {r1, r2, r3}
  MaxBatchSize = 2
  PoolChoice = {TRUE}
  Client = {c0}
  Client0 = c0
  ForwardMayFail = TRUE
  RequestChoice <- OrderOrTextChoice
SYMMETRY Symmetry
INVARIANTS TypeOK Conservation BlocksInOrder BlocksComplete DeliveredIsComplete
PROPERTIES ServesInOrder RevealedIsFinal
