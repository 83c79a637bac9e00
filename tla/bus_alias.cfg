CONSTANTS
  EXPANSION_ROM_SIZE <- DefaultBuild
  Past      <- PastBytes
  Images    <- NoProgram
  Values    <- TwoValues
  ByteAddrs <- AliasBytes
  WordAddrs <- None
SPECIFICATION Spec
PROPERTY ImplementsMemoryMap
