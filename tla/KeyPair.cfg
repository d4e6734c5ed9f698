SPECIFICATION Spec
CHECK_DEADLOCK FALSE
CONSTANTS
  Births <- MCBirths
  Steps = 6
  MaxArrays = 6
INVARIANTS
  TypeOK
  Isolation
  PublicHalfGenuine
  IntactSecretsVerify
  Reloads
