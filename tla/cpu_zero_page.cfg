CONSTANTS
  EXPANSION_ROM_SIZE <- DefaultBuild
  Past     <- PastBytes
  Programs <- WrapAround
  Requests <- SumRequests
SPECIFICATION Spec
PROPERTY ZeroPagePointers
