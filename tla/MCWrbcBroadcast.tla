-------------------------- MODULE MCWrbcBroadcast --------------------------
(***************************************************************************)
(* Instances of WrbcBroadcast for TLC.  With a node down, every order of   *)
(* the steps is explored.  With all nodes up, a step that only makes other *)
(* steps possible is taken as soon as it is possible: what it permits may  *)
(* still come at any time later; and the old handle_echo sees its close at *)
(* once but for the followers in Lingering.  Which messages make a node    *)
(* send ready decides whether handle_echo outlives the height, so ready is *)
(* never prompt.                                                           *)
(***************************************************************************)
EXTENDS WrbcBroadcast

CONSTANTS
  n1, n2, n3, n4,
  Slow,      \* bound: the followers and heights whose val may come late, up
             \* to the time the leader has its next block
  Lingering  \* bound: the followers whose handle_echo may outlive its height

NoneOrOne == {{}, {n4}}

LateVal == {n2} \X {0}

\* The prompt steps, as <<name, node, height>>.
Prompt ==
  LET At(i) == <<i, height[i]>>
      Named(name, P) == {<<name, p[1], p[2]>> : p \in P}
  IN  Named("val", {p \in Follower \X Height :
                       MayReceiveVal(p[1], p[2]) /\ (p \notin Slow \/ proposed > p[2] + 1)})
        \cup Named("info", {At(i) : i \in {j \in Follower : MayReceiveInfo(j)}})
        \cup Named("check", {At(i) : i \in {j \in Follower : MayCheck(j) /\ ~MaySteal(j)}})
        \cup Named("end", {At(i) : i \in {j \in Follower \ Lingering : stale[j]}})
        \cup {<<"leader ready", Leader, 0>> : x \in {y \in {0} : MayLeaderReady}}
        \cup {<<"leader output", Leader, 0>> : x \in {y \in {0} : MayLeaderOutput}}

Do(s) ==
  \/ s[1] = "val" /\ ReceiveVal(s[2], s[3])
  \/ s[1] = "info" /\ ReceiveInfo(s[2])
  \/ s[1] = "check" /\ CheckBuffers(s[2])
  \/ s[1] = "end" /\ EndStale(s[2])
  \/ s[1] = "leader ready" /\ LeaderReady
  \/ s[1] = "leader output" /\ LeaderOutput

MCNext ==
  LET prompt == IF crashed = {} THEN Prompt ELSE {} IN
  IF prompt # {} THEN Do(CHOOSE s \in prompt : TRUE) ELSE Next

MCSpec == Init /\ [][MCNext]_vars

\* What is fair of Spec is fair here: a prompt step delays the others, but
\* there are finitely many of them.
MCFairSpec ==
  /\ MCSpec
  /\ WF_vars(LeaderReady \/ LeaderOutput)
  /\ \A i \in Follower : WF_vars(Proceed(i))
=============================================================================
