SPECIFICATION FairSpec
CONSTANTS
  Servers = {a, b}
  Threads = {t1}
  MinConnections = 1
  MaxConnections = 2
  retryAllEPsOnce = TRUE
  RetryAttempts = 0
  Hosted = {a}
  MaxBusy = 2
  MaxReauth = 1
  MaxSlips = 0
  None = None
PROPERTIES
  RequestsEnd
