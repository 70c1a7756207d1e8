SPECIFICATION MCSpec

CONSTANTS
  NoReason = NoReason
  None = None
  Ids = {r1}
  Reasons = {}
  Callers = {c1, c2}
  Actions = {"read", "write", "drop"}
  Policies <- SomePolicies
  Starter <- Mixed
  AskAll <- Asking
  Broken = Broken
  Setups = {s1, s2}
  TTLs <- SomeTTLs
  Second = 2
  MaxDuration = 7
  MaxTime = 3
  DiskFaults = TRUE

SYMMETRY Alike

VIEW View

CHECK_DEADLOCK FALSE

INVARIANTS
  BootTypeOK
  EditsStand
  TypeOK
  CodesAreTrue
  NetworkNeedsToken
  DoorsAgree
  DryRunPredicts
