--------------------------- MODULE MCCbcBroadcast ---------------------------
(***************************************************************************)
(* Instances of CbcBroadcast for TLC.  Correct followers are               *)
(* interchangeable.                                                        *)
(***************************************************************************)
EXTENDS CbcBroadcast, TLC

FollowerSymmetry == Permutations(Correct)

(***************************************************************************)
(* Four steps are taken as soon as they can be:                            *)
(*   Output(f)    reads and writes nothing that another action reads or    *)
(*                writes, and the later it comes the more is certified;    *)
(*   Advance(f)   what can happen between Put and Advance can happen       *)
(*                before Put as well, which writes what no action reads;   *)
(*   Top(f)       when no sendcallhelp is about to change the buffer: only *)
(*                f itself starts one;                                     *)
(*   LeaderClose  only turns the current handle_msgin, which drops every   *)
(*                payback by then, into a stale one, which does the same;  *)
(*                the leader does nothing else before it.                  *)
(* Two wait, for ever or to the end, since they only take possibilities    *)
(* away: a call for help that its receiver refuses, which it may also find *)
(* later, and the end of a handle_msgin that drops every payback it takes. *)
(***************************************************************************)
Hasty(f) ==
  \/ at[f] \in {"output", "advance"}
  \/ at[f] = "top" /\ calls[f] = {}

Prompt == {f \in Correct : Hasty(f)}
Calm == Prompt = {} /\ lat # "close"

MCNext ==
  \/ \E f \in Prompt : Output(f) \/ Advance(f) \/ Top(f)
  \/ Prompt = {} /\ LeaderClose
  \/ Calm /\ Propose
  \/ Calm /\ RouteCurrent
  \/ Calm /\ RouteStale
  \/ Calm /\ lheight > MaxHeight /\ \E h \in stale : StopRouting(h)
  \/ Calm /\ \E f \in Follower : Collect(f)
  \/ Calm /\ LeaderPut
  \/ Calm /\ \E f \in Correct : Top(f)
  \/ Calm /\ \E f \in Correct : Pop(f)
  \/ Calm /\ \E f \in Correct : ReceiveBlock(f)
  \/ Calm /\ \E f \in Correct : ReceiveHelp(f)
  \/ Calm /\ \E f \in Correct : Put(f)
  \/ Calm /\ \E f \in Correct : \E b \in calls[f] : PutFuture(f, b)
  \/ Calm /\ \E f \in Correct : \E b \in calling[f] : CallHelp(f, b)
  \/ Calm /\ \E a \in asks : CanHelp(a[3], a[2]) /\ Answer(a[1], a[2], a[3])

MCSpec == Init /\ [][MCNext]_vars

MCFairSpec == MCSpec /\ Fairness

=============================================================================
