SPECIFICATION Spec
CONSTANTS
  LIMB_BITS = 4
  TOP = 3
  GENERATOR = 11
  ODD_PART = 3
  MAX_LOG = 12
  LOG_LAST_LAYER = 2
  LOG_BLOWUP = 2
  OFFSET_BITS = 2
  Statements <- MCStatements
  Coefs <- MCCoefs
  Challenges = {5, 1234}
  Bump = 1
INVARIANTS
  HonestTraceAccepted
  AcceptedRowSatisfiesAir
  ChangedProofRefused
