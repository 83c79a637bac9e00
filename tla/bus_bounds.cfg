CONSTANTS
  EXPANSION_ROM_SIZE <- DefaultBuild
  Past      <- PastBytes
  Images    <- NoProgram
  Values    <- TwoValues
  ByteAddrs <- WindowEnds
  WordAddrs <- WindowWords
SPECIFICATION Spec
PROPERTY OnlyRomStoresEscape
\* A store outside data[] ends the behaviour.
CHECK_DEADLOCK FALSE
