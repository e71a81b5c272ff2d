CONSTANTS
  SPARSE_MEM_THRESHOLD = 6
  BITWISE_MEM_BASE = 10
  BITWISE_MAX_INV = 2
  SEGMENT_BASE_DEFAULT = 2
  SEGMENT_SIZE = 2
  SegmentsEnd = 6
  Addrs <- MCAddrs
  U32 = 2
  Programs <- MCPrograms
  Words <- MCWords
  Felts <- MCFelts
SPECIFICATION Spec
INVARIANTS
  ViewsAgree
  DenseStaysSmall
PROPERTY IsFlatMemory
