\* Changes of one key arriving in any order and repeatedly.
CONSTANTS
  k1 = k1
  k2 = k2
  Keys = {k1}
  Members = {1, 2}
  RolloverWindow = 8
  RolloverBase = 32
  VersionModulus = 16
  Histories <- RacesNoInvalidate
  TaskIds = {t1, t2}
  MaxOps = 6
  EnabledOps = {"localInvalidate", "reapVersions"}
  SizeModulus = 16
SPECIFICATION Spec
INVARIANTS
  Converged
  DeltaMeetsItsBase
  TombstoneListExact
  SizeExact
PROPERTIES
  ExpiryTakesItsTombstone
SYMMETRY TaskSymmetry
CHECK_DEADLOCK FALSE
