\* Calls for help after a lost block (not the first one).
SPECIFICATION MCSpec
CONSTANTS
  Follower = {f1, f2, f3}
  Faulty = {}
  Testmode = FALSE
  MaxHeight = 2
  MaxLost = 2
  FirstLost = 1
SYMMETRY FollowerSymmetry
INVARIANTS
  CertifiedIsSigned
  CountedIsSigned
  HelperHasBlock
  NoEmptyPop
  GapsAreCalledFor
  DeliversChain
PROPERTY
  ImplementsChain
CHECK_DEADLOCK FALSE
