CONSTANTS
  EXPANSION_ROM_SIZE <- DefaultBuild
  Past     <- PastBytes
  Programs <- ProbesAndSums
  Requests <- ProbeRequests
SPECIFICATION Spec
INVARIANTS TypeOK ClockContract BreakFlagOnlyPushed OneBodyPerOpcode
PROPERTIES DelayedInterruptFlag ClockTerminates StackIsStack OnlyNamedCells AddIsExact SubtractIsExact
\* A store outside data[] ends the behaviour.
CHECK_DEADLOCK FALSE
