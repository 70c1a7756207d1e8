SPECIFICATION Spec

CONSTANTS
  t1 = t1
  t2 = t2
  t3 = t3
  server = server
  cli1 = cli1
  NoReason = NoReason
  None = None
  Ids = {r1}
  Reasons = {}
  Threads = {t1}
  Stores = {server}
  StoreOf <- Alone
  TTLs = {}
  Timeouts = {0}
  PollInterval = 1
  MaxTime = 1
  MaxOrders = 2
  Collisions = TRUE
  DiskFaults = TRUE
  Crashable = {}

INVARIANTS
  EveryDecisionAudited
