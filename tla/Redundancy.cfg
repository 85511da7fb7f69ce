SPECIFICATION FairSpec
CONSTANTS
  A = A
  B = B
  C = C
  m_servers <- ThreeServers
  m_redundancyLevel = 1
  MaxFaults = 1
  MaxRefused = 1
CHECK_DEADLOCK FALSE
INVARIANT ListsPartition
INVARIANT PrimaryLeads
INVARIANT NoSilentEndpoint
INVARIANT LossIsSeen
INVARIANT RegionsKnow
PROPERTY EventsComeBack
PROPERTY LockIsReleased
