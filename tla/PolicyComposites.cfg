SPECIFICATION Spec

CONSTANTS
  NotANumber = NotANumber
  NumberOf <- Numerals
  TextOf <- Numbers
  Values <- SomeValues
  Policies <- SomePolicies
  Requests <- SomeRequests

INVARIANTS
  CompositesFailClosed

CHECK_DEADLOCK FALSE
