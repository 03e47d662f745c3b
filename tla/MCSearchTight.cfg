CONSTANTS
  SafetyMargin = 943718400
  MoeMargin = 734003200
  Searches <- TightCalls
  Graphs <- NoGraphs
SPECIFICATION SearchSpec
INVARIANT RaiseIsJustified
