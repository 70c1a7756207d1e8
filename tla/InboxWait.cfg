SPECIFICATION FairSpec

CONSTANTS
  t1 = t1
  t2 = t2
  t3 = t3
  server = server
  cli1 = cli1
  NoReason = NoReason
  None = None
  Ids = {r1}
  Reasons = {}
  Threads = {t1, t2}
  Stores = {server}
  StoreOf <- Alone
  TTLs = {}
  Timeouts = {2}
  PollInterval = 1
  MaxTime = 1
  MaxOrders = 1
  Collisions = TRUE
  DiskFaults = TRUE
  Crashable = {}

PROPERTIES
  CallsReturn
  WaiterHears
