SPECIFICATION Spec

CONSTANTS
  NotANumber = NotANumber
  NumberOf <- Numerals
  TextOf <- Numbers
  Values <- SomeValues
  Policies <- SomePolicies
  Requests <- SomeRequests

INVARIANTS
  TypeOK
  FirstMatchDecides
  OmissionNeverHelps

CHECK_DEADLOCK FALSE
