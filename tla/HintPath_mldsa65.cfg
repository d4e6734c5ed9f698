CONSTANTS
  Q = 8380417
  RedUnit = 8388608
  TwoD = 8192
  Gamma2 = 261888
  Buckets = 16
  Masked = TRUE
  DecUnit = 128
  DecMul = 1025
  DecDiv = 4194304
  Beta = 196
  Ws <- EdgeWs
  Cs2 <- EdgeCs2
  Ct0 <- EdgeCt0
  Radius = 2
SPECIFICATION Spec
INVARIANTS
  HintRecovers
  HintExact
CHECK_DEADLOCK FALSE
