\* One of four nodes has crashed, all others may be preempted between a signal and its store.
SPECIFICATION Spec
CONSTANTS
  Node = {n1, n2, n3, n4}
  Faulty = {n4}
  Ones = {0}
  Starts = {{}, {n2}, {n2, n3}}
  Late = {n1}
  MaxLoop = 1
SYMMETRY RoleSymmetry
INVARIANTS
  OneIsHeld
  OutputAgreement
CHECK_DEADLOCK FALSE
