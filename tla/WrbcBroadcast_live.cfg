\* Four nodes, three heights; one node is down, and every order of the steps is
\* explored, or none, and n2 may get the first block late and its old handle_echo
\* may outlive a height.
SPECIFICATION MCFairSpec
CONSTANTS
  n1 = n1
  n2 = n2
  n3 = n3
  n4 = n4
  Node = {n1, n2, n3, n4}
  Leader = n1
  Crashes <- NoneOrOne
  MaxHeight = 2
  Slow <- LateVal
  Lingering = {n2}
INVARIANTS
  EchoOnce
  FinishedIsHeld
PROPERTY
  KeepUp
CHECK_DEADLOCK FALSE
