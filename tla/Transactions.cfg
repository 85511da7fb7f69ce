SPECIFICATION FairSpec
CONSTANTS
  Threads = {t1, t2}
  Expiry = Expiry
  Txs = {x1, x2}
  NoTx = NoTx
  TaskIds = {1, 2}
  NoTask = NoTask
  Conns = {1, 2}
  NoConn = NoConn
  MaxFaults = 1
CHECK_DEADLOCK FALSE
INVARIANT OnePlace
INVARIANT WaitersHear
INVARIANT ConnectionsExclusive
INVARIANT CommitIsDone
PROPERTY ExpiryInTime
PROPERTY SuspendedEnds
