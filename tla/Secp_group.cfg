SPECIFICATION GroupSpec
CONSTANTS
  \* the curve
  P = 43
  MaxMagnitude = 32
  MulMagnitude = 8
  B = 7
  Order = 31
  Beta = 6
  Lambda = 5
  Generator <- SomeGenerator
  ScalarBits = 5
  HalfBits = 3
  SplitShift = 8
  LatticeA1 = 5
  LatticeB1 <- B1
  LatticeA2 = 1
  LatticeB2 = 6
  \* PointSums
  Addends <- SomeAddends
  Scales = {7}
  \* EcmultSums
  WINDOW_A = 3
  WINDOW_G = 3
  PrecB = 2
  PrecN = 3
  NumsX = 20
  SomeScalars = {0, 1, 7, 30}
  Windows = {1, 2}
  Random = {0, 50}
  MaxCalls = 1
  \* SchnorrBatch
  MaxBytes = 63
  Challenge <- SomeChallenge
  Keys = {3, 8}
  Nonces = {0, 4, 22}
  Messages = {0, 1}
  ForgedSigs <- SomeForged
  Streams <- SomeStreams
  MaxSigs = 2
  \* EcKeys
  SecretBytes = {0, 1, 9, 30, 31}
  Tweaks = {0, 1, 22, 30, 31}
  SomeX = {2, 7, 45}
  SomeY = {0, 12, 31, 36, 7, 45}
  MaxTweaks = 2
  \* Ecdsa
  SignKeys = {1, 9, 31}
  NonceBytes = {0, 1, 2, 3, 5, 8, 13, 21, 26, 30, 31}
  Hashes = {5, 33}
  SigBytes = {0, 1, 2, 3, 4, 5, 6, 7, 8, 9, 10, 11, 12, 15, 16, 19, 22, 25, 28, 30, 31}
  MaxNonces = 2
INVARIANTS
  PointsCorrect
  MultiplicationsCorrect
  BatchSaysWhatItsSignaturesSay
  KeysBelongTogether
  SignaturesCorrect
CHECK_DEADLOCK FALSE
