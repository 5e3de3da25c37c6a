\* Three of four nodes start with 1.
SPECIFICATION FairSpec
CONSTANTS
  Node = {n1, n2, n3, n4}
  Faulty = {n4}
  Ones = {0}
  Starts = {{n1, n2, n3}}
  Late = {}
  MaxLoop = 1

PROPERTIES
  UnanimityOutputs
CHECK_DEADLOCK FALSE
