CONSTANTS
  Granularity = 2
  DevicePages = 9
  UseVMM = TRUE
  ChunkSize = 5
  ConfiguredSizes = {7, 12}
  MeasuredSizes = {4, 13}
  Demands = {1, 3, 4, 5, 6, 7, 11, 12, 13, 14}
  Sizes = {0, 1, 2, 3, 5, 8}
SPECIFICATION MCSpec
INVARIANTS BufferBacked NeverRejected HeldIsMapped AccessibleIsPrefix
CHECK_DEADLOCK FALSE
