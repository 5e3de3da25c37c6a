\* Four nodes, two loops; n4 is slow, and every broadcast is prompt.
SPECIFICATION MCSpec
CONSTANTS
  n1 = n1
  n2 = n2
  n3 = n3
  n4 = n4
  Node = {n1, n2, n3, n4}
  None = None
  Faulty = {}
  MaxLoop = 1
  Coin <- TwoCoins
  Stepwise <- FirstOfCoin
  Late = {n4}
INVARIANTS
  SigmasAreRight
CHECK_DEADLOCK FALSE
