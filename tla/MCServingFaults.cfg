SPECIFICATION FairSpec
CONSTANTS
  MaskId = mask
  Vocab = {a, mask}
  PromptToken = {p}
  ReqId = {r1, r2}
  MaxBatchSize = 2
  PoolChoice = {TRUE, FALSE}
  Client = {c0}
  Client0 = c0
  ForwardMayFail = FALSE
  RequestChoice <- FaultChoice
INVARIANTS WithinBudget OnlyBadRequestsKill
PROPERTIES EveryRequestAnswered
