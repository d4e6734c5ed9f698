CONSTANTS
  Q = 61
  RedUnit = 64
  TwoD = 8
  Gamma2 = 6
  Buckets = 5
  Masked = FALSE
  DecUnit = 2
  DecMul = 21
  DecDiv = 128
  N = 2
  K = 2
  L = 1
  Eta = 1
  Gamma1 = 8
  EtaWidth = 4
  T1Width = 8
  W1Width = 8
  InvBound = 34
  Far <- MCFar
  Beta = 2
  Omega = 1
  Matrices <- MCMatrices
  Secrets1 <- MCSecrets1
  Secrets2 <- MCSecrets2
  MaskPolys <- MCMaskPolys
  Ctildes <- MCCtildes
  Ball <- MCBall
  Messages <- OneMessage
  Rnds <- OneRnd
  Buffers <- ZeroBuffer
  NonceMod = 8
  MaxAttempts = 2
  MaxCalls = 1
  Seeds = {1, 4}
  MaskEdge = 4
SPECIFICATION Spec
INVARIANTS
  TypeOK
  GenuineVerifies
  KeyHalvesAgree
  HighBitsHideS2
CHECK_DEADLOCK FALSE
