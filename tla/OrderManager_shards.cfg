\* Two broadcasters per node.
SPECIFICATION Spec
CONSTANTS
  Node = {n1, n2}
  K = 2
  MaxHeight = 1
SYMMETRY NodeSymmetry
INVARIANT ProposalAccepted
CHECK_DEADLOCK FALSE
