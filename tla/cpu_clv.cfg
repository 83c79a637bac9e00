CONSTANTS
  EXPANSION_ROM_SIZE <- DefaultBuild
  Past     <- PastBytes
  Programs <- ClearV
  Requests <- SumRequests
SPECIFICATION Spec
PROPERTY ClearOverflow
