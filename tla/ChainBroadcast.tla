--------------------------- MODULE ChainBroadcast ---------------------------
(***************************************************************************)
(* What a broadcaster instance promises to the order layer, whichever of   *)
(* the broadcast protocols runs (broadcaster/broadcast): its leader        *)
(* produces one chain of blocks; a block is certified once a quorum has    *)
(* acknowledged it; every node delivers the certified blocks in the order  *)
(* of their heights, each once and without a gap.  The order manager       *)
(* counts on it: it extracts blocks by their number, not by their height.  *)
(***************************************************************************)
EXTENDS Naturals

CONSTANT Node   \* the nodes that deliver the chain

VARIABLES
  certified,  \* the number of certified blocks
  delivered   \* delivered[n]: the number of blocks node n has delivered

bVars == <<certified, delivered>>

BInit ==
  /\ certified = 0
  /\ delivered = [n \in Node |-> 0]

Certify ==
  /\ certified' = certified + 1
  /\ UNCHANGED delivered

Deliver(n) ==
  /\ delivered[n] < certified
  /\ delivered' = [delivered EXCEPT ![n] = @ + 1]
  /\ UNCHANGED certified

BNext == Certify \/ \E n \in Node : Deliver(n)

BSpec == BInit /\ [][BNext]_bVars
=============================================================================
