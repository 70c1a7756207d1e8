SPECIFICATION FairSpec

CONSTANTS
  Alphabet = {"a", "b", "*", "?"}
  MaxPattern = 4
  MaxSubject = 4

INVARIANTS
  IndexesOK
  GlobSound
  GlobComplete

PROPERTIES
  Progress
  Returns

CHECK_DEADLOCK FALSE
