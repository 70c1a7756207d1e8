SPECIFICATION Spec

CONSTANTS
  NoReason = NoReason
  None = None
  Ids = {1, 2}
  Reasons = {}
  Writers = {w1, w2}
  TTLs = {1}
  DiskFaults = TRUE
  MaxTime = 2
  Strays = {0}
  Filters = {"all", "expired"}
  Requests = {r1, r2}
  Appenders = {a1, a2}
  MaxCuts = 2

SYMMETRY Calls

VIEW View

CHECK_DEADLOCK FALSE

INVARIANTS
  ListTypeOK
  ListMissesNone
  ListIsCurrent
  OnlyStraysFailList
  LogTypeOK
  LogKeepsAll
  OnlyCutsSpoilLog
  DamageIsLocal
