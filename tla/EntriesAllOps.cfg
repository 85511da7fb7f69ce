\* Every operation on one key.
CONSTANTS
  k1 = k1
  k2 = k2
  Keys = {k1}
  Members = {1, 2}
  RolloverWindow = 8
  RolloverBase = 32
  VersionModulus = 16
  Histories <- ShortRaces
  TaskIds = {t1, t2}
  MaxOps = 4
  EnabledOps = {"create", "createNull", "destroyReply", "localPut",
                "localInvalidate", "localDestroy", "clear", "reapKeys",
                "reapVersions"}
  SizeModulus = 16
SPECIFICATION Spec
INVARIANTS
  TombstoneHasTask
PROPERTIES StampsNeverRegress TombstonesGo
CHECK_DEADLOCK FALSE
