\* Four nodes, two loops; the broadcast of the first coin leader is slow.
SPECIFICATION MCSpec
CONSTANTS
  n1 = n1
  n2 = n2
  n3 = n3
  n4 = n4
  Node = {n1, n2, n3, n4}
  None = None
  Faulty = {}
  MaxLoop = 1
  Coin <- TwoCoins
  Stepwise <- FirstOfCoin
  Late = {}
SYMMETRY LeaderSymmetry
INVARIANTS
  PiForcesYes
  HaltFixesInput
  InputsProved
PROPERTIES
  ImplementsConsensus
CHECK_DEADLOCK FALSE
