SPECIFICATION FairSpec
CONSTANTS
  Servers = {s1, s2}
  m_redundancyLevel = 1
  c1 = c1
  c2 = c2
  n1 = n1
  Cqs = {c1, c2}
  Names = {n1}
  m_cqName <- SameName
  Threads = {t1, t2}
  NoThread = NoThread
  NoCq = NoCq
  MIN_RETRY_ATTEMPTS = 2
  MaxOps = 2
  MaxFaults = 1
  Races = {}
CHECK_DEADLOCK FALSE
INVARIANT RunsEverywhere
INVARIANT ClosedRunsNowhere
INVARIANT NoLateListener
PROPERTY CallsReturn
