SPECIFICATION Spec
CONSTANTS
  Servers = {a, b}
  Threads = {t1, t2}
  MinConnections = 1
  MaxConnections = 2
  retryAllEPsOnce = TRUE
  RetryAttempts = 0
  Hosted = {a}
  MaxBusy = 2
  MaxReauth = 0
  MaxSlips = 1
  None = None
SYMMETRY Symmetry
INVARIANTS
  PoolSizeExact
  OvershootBounded
  NoLostWakeup
  ClosedIsEmpty
