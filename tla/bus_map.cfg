CONSTANTS
  EXPANSION_ROM_SIZE <- ExpansionBuild
  Past      <- OnePast
  Images    <- NoProgram
  Values    <- TwoValues
  ByteAddrs <- MapBytes
  WordAddrs <- MapWords
SPECIFICATION Spec
INVARIANTS TypeOK StaysInArray
PROPERTY ImplementsMemoryMap
