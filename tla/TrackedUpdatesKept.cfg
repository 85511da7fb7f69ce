SPECIFICATION Spec
CONSTANTS
  Threads = {t1, t2, t3}
  TrackMax = 4
  UpdateMax = 8
  Kinds = {"put", "create"}
  NoticeKinds = {"value"}
  MaxStarts = 6
  MaxChanges = 5
  SizeModulus = 8
SYMMETRY ThreadSymmetry
CHECK_DEADLOCK FALSE
INVARIANT TrackersCover
PROPERTY UpdatesKept
