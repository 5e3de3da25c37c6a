\* Four nodes, one broadcaster each, two blocks per broadcaster.
SPECIFICATION FairSpec
CONSTANTS
  Node = {n1, n2, n3, n4}
  K = 1
  MaxHeight = 1
INVARIANTS
  TypeOK
  OneRoundAtATime
  ProposalAccepted
  LedgerIsExact
  LookupFinds
PROPERTIES
  ImplementsLedger
  DecidedIsDelivered
\* The blocks are bounded: when all are committed the system stops.
CHECK_DEADLOCK FALSE
