-------------------------- MODULE CommittedLedger --------------------------
(***************************************************************************)
(* What the order layer of a Jumbo node promises: a ledger that grows      *)
(* round by round.  Every broadcaster instance (a "chain") numbers its     *)
(* blocks 0, 1, 2, ...; a round commits, for every chain, all the blocks   *)
(* up to a new height, never fewer than before, and more than before on a  *)
(* quorum of chains.  OrderManager is shown to implement this module.      *)
(***************************************************************************)
EXTENDS Integers

CONSTANTS
  Chain,      \* the broadcaster instances, one stream of blocks each
  Quorum,     \* the sets of chains that a round may advance
  MaxHeight   \* bound: the highest block of a chain

VARIABLES
  commit,     \* commit[c] is the highest committed block of chain c, -1 none
  ledger      \* ledger[c] is the set of committed blocks of chain c

aVars == <<commit, ledger>>

AInit ==
  /\ commit = [c \in Chain |-> -1]
  /\ ledger = [c \in Chain |-> {}]

Advances(new, old) ==
  /\ \A c \in Chain : new[c] >= old[c]
  /\ {c \in Chain : new[c] > old[c]} \in Quorum

\* A round: commit the blocks (commit[c], new[c]] of every chain at once.
Commit(new) ==
  /\ Advances(new, commit)
  /\ commit' = new
  /\ ledger' = [c \in Chain |-> ledger[c] \cup ((commit[c] + 1) .. new[c])]

ANext == \E new \in [Chain -> -1 .. MaxHeight] : Commit(new)

ASpec == AInit /\ [][ANext]_aVars
=============================================================================
