CONSTANTS
  SEGMENT_BASE_DEFAULT = 30
  SEGMENT_SIZE = 10
  ArenaPtr = 1
  InfosPtrs <- MCInfosPtr
  PtrWidth = 64
  Keys <- MCKeys
  Values <- MCValues
  MaxSegments = 2
  MaxAccesses = 3
  StayInSegment = TRUE
  TRACE_ROWS = 9
  MAX_CALL_DEPTH = 2
  MAX_CALLEE_STEPS = 4
  P = 3
  None = None
SPECIFICATION ProofSpec
INVARIANTS
  SideStateIsLastWrite
  ChainPerDict
  FramesOwnTheirDicts
  ProverDoesNotPanic
  HonestProofAccepted
  OneDictNeverRefused
  SortedTraceEndsInSideState
\* The program ends when its segments and accesses are used up.
CHECK_DEADLOCK FALSE
