CONSTANTS
  EXPANSION_ROM_SIZE <- DefaultBuild
  Past     <- PastBytes
  Programs <- Shipped
  Requests <- FewCycles
  Ranges   <- FewRanges
SPECIFICATION ShellSpec
PROPERTIES CommandsReturn FibonacciAnswer
