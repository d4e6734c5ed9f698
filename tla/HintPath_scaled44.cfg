CONSTANTS
  Q = 61
  RedUnit = 64
  TwoD = 8
  Gamma2 = 6
  Buckets = 5
  Masked = FALSE
  DecUnit = 2
  DecMul = 21
  DecDiv = 128
  Beta = 2
  Ws <- AllWs
  Cs2 <- AllCs2
  Ct0 <- AllCt0
  Radius = 0
SPECIFICATION Spec
INVARIANTS
  TypeOK
  HintRecovers
  HintExact
  LowBitsExact
  HintWithinReach
CHECK_DEADLOCK FALSE
