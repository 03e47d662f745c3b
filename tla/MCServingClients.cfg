SPECIFICATION Spec
CONSTANTS
  MaskId = mask
  Vocab = {a}
  PromptToken = {p}
  ReqId = {r1}
  MaxBatchSize = 2
  PoolChoice = {TRUE}
  Client = {c0, c1}
  Client0 = c0
  ForwardMayFail = FALSE
  RequestChoice <- ClientChoice
INVARIANT OutputsReturnToSender
