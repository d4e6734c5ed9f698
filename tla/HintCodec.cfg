CONSTANTS
  N = 5
  K = 2
  Omega = 3
SPECIFICATION Spec
INVARIANTS
  TypeOK
  RoundTrip
  Canonical
  Definitional
PROPERTY
  NeverRefused
CHECK_DEADLOCK FALSE
