CONSTANTS
  EXPANSION_ROM_SIZE <- DefaultBuild
  Past     <- PastBytes
  Programs <- WrongResult
  Requests <- FewCycles
  Ranges   <- FewRanges
SPECIFICATION ShellSpec
PROPERTY BreakFlagOfLastFrame
