SPECIFICATION Spec
CHECK_DEADLOCK FALSE
CONSTANTS
  Q = 257
  R = 32898
  QInv = 16385
  RedUnit = 256
  N = 64
  F = 241
  Lanes = 8
  LenResume = 4
  KResume = 7
  NInv = 253
  Lengths <- MCLengths
  Depth <- MCDepth
  zetas <- MCzetas
  Powers <- MCPowers
  Inputs <- MCInputs
INVARIANTS
  TypeOK
  ZetaOfBlock
  Growth
  RowProduct
PROPERTY
  ImplementsField
