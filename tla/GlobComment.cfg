SPECIFICATION Spec

CONSTANTS
  Alphabet = {"a", "*", "?"}
  MaxPattern = 2
  MaxSubject = 2

INVARIANTS
  GlobComment

CHECK_DEADLOCK FALSE
