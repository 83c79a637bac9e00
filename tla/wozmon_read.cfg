CONSTANTS
  EXPANSION_ROM_SIZE <- DefaultBuild
  Past     <- PastBytes
  Programs <- Guests
  Requests <- OneCycle
  Ranges   <- NoRanges
  Inputs   <- Typed
  POINTER_SIZE <- PointerSize
SPECIFICATION WozSpec
INVARIANT HostSeesEveryChange
PROPERTIES LineIsPrinted LinesFit OnlyLastLineIsLost LineEndsRead
\* A store outside buf ends the behaviour.
CHECK_DEADLOCK FALSE
