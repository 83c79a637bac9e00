CONSTANTS
  EXPANSION_ROM_SIZE <- DefaultBuild
  Past      <- PastBytes
  Images    <- NoProgram
  Values    <- TwoValues
  ByteAddrs <- RomBytes
  WordAddrs <- None
SPECIFICATION Spec
PROPERTY WrittenByteReadsBack
