SPECIFICATION SamplersSpec
CHECK_DEADLOCK FALSE
CONSTANTS
  N = 3
  Q = 8380417
  Etas = {2, 4}
  K = 2
  L = 2
  Block128 = 6
  Block256 = 2
  UniformBlocks = 2
  Eta2Blocks = 1
  Eta4Blocks = 2
  Period = 4
  Tapes <- MCTapes
  Size = 5
  Tau = 3
  SignBits = 4
INVARIANTS
  TypeOK
  StreamsDistinct
  TernaryShape
  EquallyLikely
PROPERTY
  ImplementsExpansion
