--------------------------- MODULE MVBAConsensus ---------------------------
(***************************************************************************)
(* What one round of an MVBA promises to the order layer, which makes a    *)
(* channel for the round and reads one output from it (order.go:137-153):  *)
(* no node's output is ever another one, all of them are the same input,   *)
(* and it is one that a node of the round has proposed.  SpeedingMVBA is   *)
(* shown to implement this module.                                         *)
(***************************************************************************)
CONSTANTS
  Node,      \* the nodes that have not crashed
  Proposed,  \* the inputs that they start the round with
  None       \* no input

VARIABLE output   \* output[i]: what i has put on outputCH, or None

AInit == output = [i \in Node |-> None]

\* The first output decides, the others follow it.
Decide(i, v) ==
  /\ output[i] = None
  /\ \A j \in Node : output[j] \in {None, v}
  /\ output' = [output EXCEPT ![i] = v]

ANext == \E i \in Node, v \in Proposed : Decide(i, v)

ASpec == AInit /\ [][ANext]_output
=============================================================================
