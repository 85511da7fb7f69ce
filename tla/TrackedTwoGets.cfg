SPECIFICATION Spec
CONSTANTS
  Threads = {t1, t2}
  TrackMax = 4
  UpdateMax = 8
  Kinds = {"get"}
  NoticeKinds = {"value"}
  MaxStarts = 2
  MaxChanges = 3
  SizeModulus = 8
SYMMETRY ThreadSymmetry
CHECK_DEADLOCK FALSE
PROPERTY NoticesKept
