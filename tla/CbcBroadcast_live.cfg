\* Without losses the followers that are not needed for a certificate keep up.
SPECIFICATION MCFairSpec
CONSTANTS
  Follower = {f1, f2, f3}
  Faulty = {}
  Testmode = FALSE
  MaxHeight = 2
  MaxLost = 0
  FirstLost = 0
PROPERTIES
  KeepsUp
CHECK_DEADLOCK FALSE
