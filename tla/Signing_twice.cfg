CONSTANTS
  Q = 49
  RedUnit = 64
  TwoD = 8
  Gamma2 = 6
  Buckets = 4
  Masked = TRUE
  DecUnit = 2
  DecMul = 21
  DecDiv = 128
  N = 2
  K = 1
  L = 2
  Eta = 1
  Gamma1 = 8
  EtaWidth = 4
  T1Width = 8
  W1Width = 4
  InvBound = 28
  Far <- MCFar
  Beta = 2
  Omega = 1
  Matrices <- MCMatrices
  Secrets1 <- OneSecret1
  Secrets2 <- OneSecret2
  MaskPolys <- MCTwoMasks
  Ctildes <- MCCtildes
  Ball <- MCBall
  Messages <- TwoMessages
  Rnds <- OneRnd
  Buffers <- DirtyBuffers
  NonceMod = 8
  MaxAttempts = 2
  MaxCalls = 3
  Seeds = {4}
  MaskEdge = 4
SPECIFICATION Spec
INVARIANTS
  GenuineVerifies
  Deterministic
CHECK_DEADLOCK FALSE
