--------------------------- MODULE MCSpeedingMVBA ---------------------------
(***************************************************************************)
(* Instances of SpeedingMVBA for TLC.  Steps that only make other steps    *)
(* possible (a signature, a share) are taken as soon as they are possible: *)
(* what they permit may still come at any time later, or never.  So are    *)
(* the other steps of the broadcasts, but for those in Stepwise, which     *)
(* interleave with everything.                                             *)
(*                                                                         *)
(* Steps that only limit others wait.  What a node may vote or count stays *)
(* possible when more ballots are there, and every running node may send   *)
(* its ballot before: prevotes, votes and their counts come one after the  *)
(* other.  A node that has prevoted reads neither sigmas nor pis any more, *)
(* and its handlers of the broadcasts rest (but for CombinePi, whose pi is *)
(* for the others).                                                        *)
(***************************************************************************)
EXTENDS SpeedingMVBA, TLC

CONSTANTS
  n1, n2, n3, n4,
  Stepwise,  \* bound: the broadcasts <<loop, leader>> that may be delayed
  Late       \* bound: the nodes that others need not wait for, that take any halt,
             \* and whose handle_share is overtaken by handle_halt

TwoCoins == [r \in Loop |-> IF r = 0 THEN n1 ELSE n2]
FirstOfCoin == {<<0, n1>>}

\* The steps of a loop wait until no running node is in an earlier one, but for
\* those that are late.
Front == {i \in Correct : \A j \in Correct \ Late : Running(j) => loop[j] >= loop[i]}

\* The nodes that i need not wait for when it votes, and when it counts votes.
Prevoted(i) == prevotes[loop[i]][i] # "none"
Voted(i) == votes[loop[i]][i] # "none"
Ahead(i, j) == j = i \/ j \in Late \/ ~Running(j) \/ loop[j] > loop[i]
AllPrevoted(i) == \A j \in Correct : Ahead(i, j) \/ Prevoted(j)
AllVoted(i) == \A j \in Correct : Ahead(i, j) \/ Voted(j)

\* The prompt steps, as <<name, node, leader>>; the last one when the loop has
\* no broadcast that may be delayed, after the others.
Prompt ==
  LET All == {i \in Front : ~Prevoted(i)} \X Correct
      Own == {p \in All : p[1] = p[2]}
      Quick == {p \in All : <<loop[p[1]], p[2]>> \notin Stepwise}
      Smooth == {p \in Own : \A l \in Correct : <<loop[p[1]], l>> \notin Stepwise}
      Named(name, P) == {<<name, p[1], p[2]>> : p \in P}
      First(P, Q) == IF P # {} THEN P ELSE Q
  IN  First({<<"keep", p[1], p[2]>> : p \in {q \in (Correct \ Late) \X Loop : MayKeep(q[1], q[2])}},
      First(Named("share", {p \in Own : MayShare(p[1])}),
      First(Named("sign", {p \in All : MaySign(p[1], p[2])}),
      First(Named("send", {p \in All : MaySend(p[1], p[2])}),
      First(Named("combine", {p \in Quick \cap Own : MayCombine(p[1])}),
      First(Named("store", {p \in Quick : MayStore(p[1], p[2])}),
      First(Named("pi", {p \in Quick \cap Own : MayCombinePi(p[1], loop[p[1]])}),
      First(Named("take", {p \in Quick : PiCount(p[1]) < max /\ MayTake(p[1], p[2])}),
            Named("close", {p \in Smooth : MayClose(p[1])})))))))))

Do(s) ==
  \/ s[1] = "keep" /\ KeepCoin(s[2], s[3])
  \/ s[1] = "share" /\ SendShare(s[2])
  \/ s[1] = "sign" /\ SignInput(s[2], s[3])
  \/ s[1] = "send" /\ SendPBC4(s[2], s[3])
  \/ s[1] = "combine" /\ Combine(s[2])
  \/ s[1] = "store" /\ StoreSigma(s[2], s[3])
  \/ s[1] = "pi" /\ CombinePi(s[2], loop[s[2]])
  \/ s[1] = "take" /\ TakePi(s[2], s[3])
  \/ s[1] = "close" /\ CloseBroadcasts(s[2])

\* The steps of a node but those of handle_halt.
Own(i) ==
  \/ ~Prevoted(i) /\ \E l \in Correct : Broadcast(i, l)
  \/ ~Prevoted(i) /\ (Combine(i) \/ CloseBroadcasts(i))
  \/ \E r \in Loop : CombinePi(i, r)
  \/ HaltByPi(i) \/ Prevote(i)
  \/ AllPrevoted(i) /\ Vote(i)
  \/ AllVoted(i) /\ CountVotes(i)

Last(i) == \A j \in Correct \ {i} : ~Running(j)

MCNext ==
  LET prompt == Prompt IN
  IF prompt # {}
  THEN Do(CHOOSE s \in prompt : TRUE)
  ELSE \E i \in Correct :
         \/ i \in Front /\ Own(i)
         \/ \E r \in Loop : r < loop[i] /\ CombinePi(i, r)
         \/ taken[i] # NoHalt /\ \E r \in Loop : KeepCoin(i, r)
         \/ (Last(i) \/ i \in Late) /\ (TakeHalt(i) \/ Halt(i))

MCSpec == Init /\ [][MCNext]_vars

LeaderSymmetry == Permutations({n3, n4})
=============================================================================
