SPECIFICATION Spec
CONSTANTS
  P = 127
  REG_MODULUS = 65536
  REG_LIMIT = 24
  MAX_REGS = 18
  BaseValues = {6}
  SecureValues <- MCSecure
  Masks <- MCMasks
  KindsAt <- MCKindsAt
  MaxValues = 4
  MaxConstraints = 1
  MaxFractions = 2
  MaxFractionValues = 2
INVARIANTS
  RecordersHoldTheirValues
  ComponentAddsItsConstraints
