CONSTANTS
  EXPANSION_ROM_SIZE <- DefaultBuild
  Past     <- PastBytes
  Programs <- Monitor
  Requests <- OneCycle
  Ranges   <- NoRanges
  Inputs   <- Typed
  POINTER_SIZE <- PointerSize
SPECIFICATION WozSpec
PROPERTY KeyReadyIsSeen
