SPECIFICATION Spec
CONSTANTS
  LIMB_BITS = 4
  TOP = 3
  GENERATOR = 11
  ODD_PART = 3
  MAX_LOG = 12
  BETA = 22
  P <- MCPoints
  LogOf <- MCLogOf
  ORDER = 12421
  LOW_BITS = 12
  TOP_BITS = 2
  M31_BITS = 3
  FELT_BITS = 14
  WINDOW_BITS = 2
  WORD_BITS = 12
  OFFSET_BITS = 2
  VM_BITS = 13
  VM_OFFSET_BITS = 4
  VM_WORD_BITS = 28
  START = 100
  LONG_RUN = 5
  DOMINANT = 4
  Jobs <- MCDominantOfFp
INVARIANTS
  StepFunctionsAgree
