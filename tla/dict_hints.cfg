CONSTANTS
  SEGMENT_BASE_DEFAULT = 30
  SEGMENT_SIZE = 10
  ArenaPtr = 1
  InfosPtrs <- MCInfosPtrs
  PtrWidth = 64
  Keys <- MCKeys
  Values <- MCValues
  MaxSegments = 2
  MaxAccesses = 3
  StayInSegment = TRUE
  None = None
SPECIFICATION SquashSpec
INVARIANTS
  SegmentsAreOwned
  MemoryBus
  ArenaMirrorsHandles
  LogComplete
  KeysVisitedInOrder
  FirstKeySquashedCompletely
PROPERTIES
  ImplementsDictSpec
  SquashTerminates
\* The program ends when its segments and accesses are used up.
CHECK_DEADLOCK FALSE
