SPECIFICATION Spec
CONSTANTS
  MaskId = mask
  Vocab = {a}
  PromptToken = {p}
  ReqId = {r1, r2}
  MaxBatchSize = 2
  PoolChoice = {TRUE}
  Client = {c0}
  Client0 = c0
  ForwardMayFail = FALSE
  RequestChoice <- OrderChoice
INVARIANT AbortedLeave
