SPECIFICATION Spec
CONSTANTS
  Threads = {t1, t2}
  TrackMax = 2
  UpdateMax = 2
  Kinds = {"put", "putAll", "create", "get", "getAll", "destroy", "invalidate"}
  NoticeKinds = {"value", "invalid", "absent"}
  MaxStarts = 4
  MaxChanges = 3
  SizeModulus = 8
SYMMETRY ThreadSymmetry
CHECK_DEADLOCK FALSE
INVARIANT CounterReset
INVARIANT PlaceholderTracked
