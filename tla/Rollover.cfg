SPECIFICATION RolloverSpec
CONSTANTS
  Members = {1}
  RolloverWindow = 3
  RolloverBase = 32
  VersionModulus = 16
  Lateness = 3
  MaxEpoch = 2
CHECK_DEADLOCK FALSE
INVARIANT CheckIsOrder
PROPERTY OrderAcrossRollover
