SPECIFICATION AloneSpec

CONSTANTS
  t1 = t1
  t2 = t2
  t3 = t3
  server = server
  cli1 = cli1
  NoReason = NoReason
  None = None
  Ids = {r1}
  Reasons = {}
  Threads = {t1, t2, t3}
  Stores = {server}
  StoreOf <- Alone
  TTLs = {1}
  Timeouts = {0}
  PollInterval = 1
  MaxTime = 2
  MaxOrders = 2
  Collisions = TRUE
  DiskFaults = FALSE
  Crashable = {}

SYMMETRY Handlers

INVARIANTS
  TypeOK
  OneStoreInv
  ToldStands
  AuditTruthful
  AuditOnce

PROPERTIES
  DecisionFinal
  Implements
