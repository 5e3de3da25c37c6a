SPECIFICATION WordsSpec
CONSTANTS
  \* ModInv
  InvModulus = 4093
  InvOffset = 3
  Bits62 = 6
  Limbs62 = 3
  Bits30 = 8
  Limbs30 = 3
  Rounds62 = 10
  Rounds30 = 4
  VarRounds62 = 8
  VarRounds30 = 6
  InvInputs <- InvValues
  \* ScalarLimbs
  N = 16771987
  W64 = 6
  W32 = 3
  SignedSlack = 1
  MaxOps = 1
  Starts <- RegValues
  Operands <- RegOperands
  \* FieldLimbs
  FW52 = 6
  FW26 = 6
  FL26 = 5
  FMaxM = 15
  FT = 1
  FC52 = 3
  FC26 <- FieldC26
  FByte = 3
  FSlack = 2
  FStarts <- FieldValues
  FMaxOps = 3
  \* Scratch
  SizeMax = 16777215
  Alignment = 16
  HeaderSize = 20
  NULL = NULL
  SpaceSizes = {0, 24, 64, 201}
  ObjectSizes <- Objects
  MaxObjects = 3
  \* EcmultMulti
  Sizeof <- Sizes64
  TableSizeA = 8
  WnafBits = 128
  PippengerMaxWindow = 12
  StraussObjects = 6
  PippengerObjects = 6
  PippengerThreshold = 4
  MaxPointsPerBatch = 5
  Spaces <- MultiSpaces
  MaxPoints = 7
  \* Der
  ByteBase = 32
  SBytes = 2
  SizeBytes = 2
  SigOrder = 1009
  SEQ = 12
  INT = 2
  OCT = 4
  SigValues <- SigPairs
  LongWires <- LongSigs
  KeyTails <- SomeTails
  EditBytes = {0, 1, 2, 4, 16, 17, 31}
  MaxEdits <- EditsOf
  \* HashStream
  HashBlock = 8
  CountBytes = 2
  CountWord = 128
  MaxPiece = 19
  MaxData = 40
INVARIANTS
  InversionCorrect
  ScalarsCorrect
  FieldCorrect
  ObjectsApart
  NothingLeaks
  MaxAllocationSuffices
  SumIsExact
  MemorySuffices
  EncodingsCorrect
  SplitDoesNotMatter
CHECK_DEADLOCK FALSE
