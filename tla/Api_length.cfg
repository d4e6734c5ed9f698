CONSTANTS
  CtxMax = 2
  Messages <- MCMessages
  Contexts <- MCContexts
  OID <- MCOID
  SHA512 <- MCSHA512
  Keys <- MCKeys
SPECIFICATION ApiSpec
INVARIANTS
  ReturnsLength
CHECK_DEADLOCK FALSE
