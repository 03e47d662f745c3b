CONSTANTS
  SafetyMargin = 943718400
  MoeMargin = 734003200
  Searches <- ShortCalls
  Graphs <- NoGraphs
SPECIFICATION SearchSpec
PROPERTY SearchEnds
