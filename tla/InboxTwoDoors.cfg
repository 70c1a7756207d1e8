SPECIFICATION Spec

CONSTANTS
  t1 = t1
  t2 = t2
  t3 = t3
  server = server
  cli1 = cli1
  NoReason = NoReason
  None = None
  Ids = {r1}
  Reasons = {}
  Threads = {t1, t3}
  Stores = {server, cli1}
  StoreOf <- Beside
  TTLs = {}
  Timeouts = {0}
  PollInterval = 1
  MaxTime = 1
  MaxOrders = 2
  Collisions = FALSE
  DiskFaults = FALSE
  Crashable = {}

PROPERTIES
  DecisionFinal
