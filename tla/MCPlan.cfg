CONSTANTS
  Graphs <- PlannedGraphs
  NumLayers = 2
  SafetyMargin = 943718400
  MoeMargin = 734003200
  Searches <- LongCalls
SPECIFICATION MCSpec
INVARIANTS PlanTypeOK LiveDisjoint SharesOnlyInPlace ViewsAligned PeakFits ForwardRight RaiseIsJustified
PROPERTY SearchEnds
