CONSTANTS
  NonceMod = 8
  L = 3
SPECIFICATION Spec
INVARIANTS
  TypeOK
  FirstAccepted
PROPERTIES
  FreshMasks
  Stops
