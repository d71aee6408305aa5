\* Two projects and room for one: a browser that polls, a request that waits, evictions
CONSTANTS
  k1 = k1  k2 = k2  g1 = g1  c1 = c1  c2 = c2
  Keys = {k1, k2}
  Getters = {g1}
  Clients = {c1}
  Wanted <- MCWanted
  MaxEntries = 1
  TTL = 1
  Locks = {1, 2, 3, 4, 5}
  MaxNow = 1
  MaxDisk = 1
  MaxGets = 2
SPECIFICATION AuditFairSpec
INVARIANTS TypeOK OneScan
PROPERTIES NeverOlder RefreshRunsAgain Answered
CHECK_DEADLOCK FALSE
