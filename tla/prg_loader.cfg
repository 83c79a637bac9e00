CONSTANTS
  EXPANSION_ROM_SIZE <- DefaultBuild
  Past         <- PastBytes
  Images       <- NoProgram
  SegmentLists <- Lists
  Rooms        <- Roomy
SPECIFICATION Spec
INVARIANTS SegmentsLoaded OnlySegmentsTouched
\* A store outside data[] ends the behaviour.
CHECK_DEADLOCK FALSE
