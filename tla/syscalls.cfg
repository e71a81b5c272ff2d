CONSTANTS
  SEGMENT_BASE_DEFAULT = 100
  SEGMENT_SIZE = 30
  MAX_CALL_DEPTH = 2
  MAX_CALLEE_STEPS = 2
  TRACE_ROWS = 3
  gas_cost <- MCgas_cost
  low64 <- MClow64
  sel <- MCsel
  InitialGas = 4
  MainAddress <- MCAddress
  Registered <- MCRegistered
  HasResolver = TRUE
  Published <- MCPublished
  Targets <- MCTwoTargets
  Selectors <- MCOneSelector
  Felts <- MCWideFelt
  MaxSyscalls = 3
  MaxPushes = 1
  None = None
SPECIFICATION Spec
INVARIANTS
  GasAccounted
  ExecInfoIsOwn
  CallerIsParent
PROPERTY CallsReturn
\* The program ends with its trace.
CHECK_DEADLOCK FALSE
