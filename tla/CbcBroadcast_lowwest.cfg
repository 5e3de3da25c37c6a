\* The lowest buffered height after out-of-order goroutines.
SPECIFICATION Spec
CONSTANTS
  Follower = {f1, f2, f3}
  Faulty = {}
  Testmode = FALSE
  MaxHeight = 3
  MaxLost = 1
  FirstLost = 1
SYMMETRY FollowerSymmetry
INVARIANTS
  LowwestIsLowest
CHECK_DEADLOCK FALSE
