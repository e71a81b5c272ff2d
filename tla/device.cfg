SPECIFICATION Spec
CONSTANTS
  LOG_EVAL = 7
  FRI_CPU_TAIL_LOG = 2
  FRI_LEAN_THRESHOLD_LOG = 4
  LAST_LAYER_LOG = 1
  RESIDENT_LOG = 4
  N_CHUNKS = 2
  Grows = TRUE
  Workloads <- MCWorkloads
INVARIANTS
  UsesAreOrdered
  MemoryReturned
