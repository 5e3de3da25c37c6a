--------------------------- MODULE WrbcBroadcast ---------------------------
(***************************************************************************)
(* One instance of the weak reliable broadcast (broadcast/wrbc), the       *)
(* default of config/node.yaml: a leader and its followers, one height     *)
(* after the other.                                                        *)
(*                                                                         *)
(* The leader sends the block (val); a node echoes its hash to all once it *)
(* has the block and has finished the height before; it sends ready after  *)
(* 2f+1 echos or f+1 readies, and finishes the height after 2f+1 readies   *)
(* (the leader: after 2f echos, 2f readies).  A finished height is handed  *)
(* to handle_val, which outputs it when it has the block.                  *)
(*                                                                         *)
(* Every height has a goroutine handle_echo of its own, told to stop by    *)
(* closing its channel close.  It looks at the channel twice; preempted    *)
(* between the two it may take one more message after the close, because   *)
(* a select with several choices takes any.  Taken from echoCH, an echo of *)
(* a later height is then dropped, as the channel is closed.  Taken from   *)
(* its buffer, a message is missing when Start moves the rest of the       *)
(* buffer to the next one: check_rbcbuf has counted it and waits for it    *)
(* forever.  Bound: one old handle_echo of a follower at a time.           *)
(*                                                                         *)
(* All messages carry the hash of the one block of their height, and are   *)
(* received after any delay, in any order: a counter can meet its          *)
(* threshold as soon as that many have been sent, or at any later time.    *)
(***************************************************************************)
EXTENDS Integers, FiniteSets

CONSTANTS
  Node, Leader,
  Crashes,    \* bound: the sets of nodes that may be down
  MaxHeight   \* bound: the last height

ASSUME WrbcAssumption ==
  /\ IsFiniteSet(Node) /\ Leader \in Node
  /\ Crashes \subseteq SUBSET (Node \ {Leader})
  /\ MaxHeight \in Nat

Follower == Node \ {Leader}
Height == 0 .. MaxHeight
threshold == (Cardinality(Node) - 1) \div 3

VARIABLES
  crashed,   \* the followers that are down
  proposed,  \* the leader has sent the val of the heights below
  lheight,   \* bcl.height
  echoes,    \* echoes[h]: the echos that have been sent
  readies,   \* readies[h]: the nodes that have sent ready
  height,    \* bcf.height
  at,        \* where Start of i is: in check_rbcbuf, waiting for readysignal
             \* or for outputsignal
  counted,   \* readysignal came from handle_echo, which has returned
  stale,     \* handle_echo of the height before has not seen the close
  lost,      \* lost[i][h]: how many echos of height h has i dropped
  hung,      \* the followers that check_rbcbuf does not return to
  vals,      \* the heights whose val handle_val of i has received
  infos,     \* lastheight + 1 of handle_val: the roundinfos it has received
  out        \* the blocks of the heights below have been output

leaderVars == <<proposed, lheight>>
mainVars == <<height, at, counted, stale, lost, hung>>
valVars == <<vals, infos, out>>
vars == <<crashed, leaderVars, echoes, readies, mainVars, valVars>>

\* An echo: its sender, and in which branch of handle_val it was sent.
Echo == Node \X {"val", "info"}

TypeOK ==
  /\ crashed \subseteq Follower
  /\ proposed \in 0 .. MaxHeight + 1
  /\ lheight \in 0 .. MaxHeight + 1
  /\ echoes \in [Height -> SUBSET Echo]
  /\ readies \in [Height -> SUBSET Node]
  /\ height \in [Follower -> 0 .. MaxHeight + 1]
  /\ at \in [Follower -> {"check", "echo", "ready"}]
  /\ counted \in [Follower -> BOOLEAN]
  /\ stale \in [Follower -> BOOLEAN]
  /\ lost \in [Follower -> [Height -> Nat]]
  /\ hung \subseteq Follower
  /\ vals \in [Follower -> SUBSET Height]
  /\ infos \in [Follower -> 0 .. MaxHeight + 1]
  /\ out \in [Follower -> 0 .. MaxHeight + 1]

Init ==
  /\ crashed \in Crashes
  /\ proposed = 0
  /\ lheight = 0
  /\ echoes = [h \in Height |-> {}]
  /\ readies = [h \in Height |-> {}]
  /\ height = [i \in Follower |-> 0]
  /\ at = [i \in Follower |-> "check"]
  /\ counted = [i \in Follower |-> FALSE]
  /\ stale = [i \in Follower |-> FALSE]
  /\ lost = [i \in Follower |-> [h \in Height |-> 0]]
  /\ hung = {}
  /\ vals = [i \in Follower |-> {}]
  /\ infos = [i \in Follower |-> 0]
  /\ out = [i \in Follower |-> 0]

-----------------------------------------------------------------------------
(***************************************************************************)
(* The leader.                                                             *)
(***************************************************************************)

\* Start has a block: sned_val, and send_echo to all nodes, itself included.
Propose ==
  /\ proposed = lheight /\ proposed <= MaxHeight
  /\ proposed' = proposed + 1
  /\ echoes' = [echoes EXCEPT ![lheight] = @ \cup {<<Leader, "val">>}]
  /\ UNCHANGED <<crashed, lheight, readies, mainVars, valVars>>

\* handle_echo counts 2f, its own included, or handle_ready f+1.
MayLeaderReady ==
  /\ proposed > lheight /\ Leader \notin readies[lheight]
  /\ \/ Cardinality(echoes[lheight]) >= 2 * threshold
     \/ Cardinality(readies[lheight]) >= threshold + 1

LeaderReady ==
  /\ MayLeaderReady
  /\ readies' = [readies EXCEPT ![lheight] = @ \cup {Leader}]
  /\ UNCHANGED <<crashed, leaderVars, echoes, mainVars, valVars>>

\* handle_ready counts 2f, its own included.
MayLeaderOutput ==
  /\ proposed > lheight /\ Leader \in readies[lheight]
  /\ Cardinality(readies[lheight]) >= 2 * threshold

LeaderOutput ==
  /\ MayLeaderOutput
  /\ lheight' = lheight + 1
  /\ UNCHANGED <<crashed, proposed, echoes, readies, mainVars, valVars>>

-----------------------------------------------------------------------------
(***************************************************************************)
(* A follower: Start, handle_echo, handle_ready, check_rbcbuf.             *)
(***************************************************************************)

Up(i) == i \notin crashed

Main(i) == Up(i) /\ i \notin hung /\ height[i] <= MaxHeight

EchoQuorum_low == 2 * threshold       \* mutant: the leader's number

\* handle_echo of a follower.
EchoQuorum == 2 * threshold + 1

\* What makes handle_ready signal that ready is to be sent.
ReadyBack == threshold + 1

EchoCount(i) == Cardinality(echoes[height[i]]) - lost[i][height[i]]

ReadyCount(i) == Cardinality(readies[height[i]])

\* check_rbcbuf returns; handle_echo and handle_ready of the height start.
MayCheck(i) == Main(i) /\ at[i] = "check"

CheckBuffers(i) ==
  /\ MayCheck(i)
  /\ at' = [at EXCEPT ![i] = "echo"]
  /\ UNCHANGED <<crashed, leaderVars, echoes, readies, height, counted, stale,
                 lost, hung, valVars>>

\* readysignal comes from handle_echo, which has returned then, or from
\* handle_ready.
MaySendReady(i) ==
  /\ Main(i) /\ at[i] = "echo"
  /\ EchoCount(i) >= EchoQuorum \/ ReadyCount(i) >= ReadyBack

SendReady(i) ==
  /\ MaySendReady(i)
  /\ \/ EchoCount(i) >= EchoQuorum /\ counted' = [counted EXCEPT ![i] = TRUE]
     \/ ReadyCount(i) >= ReadyBack /\ UNCHANGED counted
  /\ readies' = [readies EXCEPT ![height[i]] = @ \cup {i}]
  /\ at' = [at EXCEPT ![i] = "ready"]
  /\ UNCHANGED <<crashed, leaderVars, echoes, height, stale, lost, hung, valVars>>

\* Start takes outputsignal, hands the roundinfo to handle_val and closes the
\* channel; handle_echo has returned or is still at work.  Bound: the one of
\* the height before has seen its close by now.
FinishHeight(i) ==
  /\ Main(i) /\ at[i] = "ready"
  /\ ReadyCount(i) >= 2 * threshold + 1
  /\ height' = [height EXCEPT ![i] = @ + 1]
  /\ at' = [at EXCEPT ![i] = "check"]
  /\ counted' = [counted EXCEPT ![i] = FALSE]
  /\ \/ ~counted[i] /\ stale' = [stale EXCEPT ![i] = TRUE]
     \/ /\ counted[i] \/ EchoCount(i) >= EchoQuorum
        /\ stale' = [stale EXCEPT ![i] = FALSE]
  /\ UNCHANGED <<crashed, leaderVars, echoes, readies, lost, hung, valVars>>

\* The old handle_echo sees that the channel is closed.
EndStale(i) ==
  /\ Up(i) /\ stale[i]
  /\ stale' = [stale EXCEPT ![i] = FALSE]
  /\ UNCHANGED <<crashed, leaderVars, echoes, readies, height, at, counted, lost,
                 hung, valVars>>

\* The old handle_echo takes an echo of a later height first and drops it.
DropEcho(i) ==
  /\ Up(i) /\ stale[i]
  /\ \E h \in Height :
       /\ h >= height[i] /\ lost[i][h] < Cardinality(echoes[h])
       /\ lost' = [lost EXCEPT ![i][h] = @ + 1]
  /\ stale' = [stale EXCEPT ![i] = FALSE]
  /\ UNCHANGED <<crashed, leaderVars, echoes, readies, height, at, counted, hung,
                 valVars>>

\* Bound: at most f nodes are down or hang.
Spare == Cardinality(crashed \cup hung) < threshold

\* The old handle_echo takes a message from its buffer that check_rbcbuf has
\* counted.  The buffer of height 0 is empty; a later one may have the echos
\* that came before its height.
MaySteal(i) == MayCheck(i) /\ stale[i] /\ height[i] > 1 /\ Spare

Steal(i) ==
  /\ MaySteal(i)
  /\ hung' = hung \cup {i}
  /\ stale' = [stale EXCEPT ![i] = FALSE]
  /\ UNCHANGED <<crashed, leaderVars, echoes, readies, height, at, counted, lost,
                 valVars>>

-----------------------------------------------------------------------------
(***************************************************************************)
(* handle_val of a follower, which no other goroutine waits for.           *)
(***************************************************************************)

\* The heads of valbuf and roundinfobuf are output while they match.
Outputs(from, k, V) ==
  CHOOSE d \in from .. k : (\A h \in from .. d - 1 : h \in V) /\ (d = k \/ d \notin V)

Due_early(i, h) == h <= infos[i] + 1   \* mutant: lastheight starts with 0

\* A val is echoed at once if the height before it is finished.
Due(i, h) == h <= infos[i]

MayReceiveVal(i, h) == Up(i) /\ h < proposed /\ h \notin vals[i]

ReceiveVal(i, h) ==
  /\ MayReceiveVal(i, h)
  /\ vals' = [vals EXCEPT ![i] = @ \cup {h}]
  /\ echoes' = [echoes EXCEPT ![h] = @ \cup IF Due(i, h) THEN {<<i, "val">>} ELSE {}]
  /\ out' = [out EXCEPT ![i] = Outputs(@, infos[i], vals[i] \cup {h})]
  /\ UNCHANGED <<crashed, leaderVars, readies, mainVars, infos>>

MayReceiveInfo(i) == Up(i) /\ infos[i] < height[i]

\* mutant: a val that waits for its height is not echoed
ReceiveInfo_silent(i) ==
  /\ MayReceiveInfo(i)
  /\ infos' = [infos EXCEPT ![i] = @ + 1]
  /\ out' = [out EXCEPT ![i] = Outputs(@, infos[i] + 1, vals[i])]
  /\ UNCHANGED <<crashed, leaderVars, echoes, readies, mainVars, vals>>

\* A roundinfo makes it echo the val of the height after.
ReceiveInfo(i) ==
  LET next == infos[i] + 1 IN
  /\ MayReceiveInfo(i)
  /\ infos' = [infos EXCEPT ![i] = next]
  /\ echoes' = [h \in Height |->
       echoes[h] \cup IF h = next /\ h \in vals[i] THEN {<<i, "info">>} ELSE {}]
  /\ out' = [out EXCEPT ![i] = Outputs(@, next, vals[i])]
  /\ UNCHANGED <<crashed, leaderVars, readies, mainVars, vals>>

-----------------------------------------------------------------------------
LeaderStep == Propose \/ LeaderReady \/ LeaderOutput

\* The steps that a follower takes unless it is preempted.
Proceed(i) ==
  \/ CheckBuffers(i) \/ SendReady(i) \/ FinishHeight(i)
  \/ EndStale(i)
  \/ \E h \in Height : ReceiveVal(i, h)
  \/ ReceiveInfo(i)

Step(i) == Proceed(i) \/ DropEcho(i) \/ Steal(i)

Next == LeaderStep \/ \E i \in Follower : Step(i)

Spec == Init /\ [][Next]_vars

\* The goroutines run and the messages arrive; the leader gets a block now
\* and then, or never.
FairSpec ==
  /\ Spec
  /\ WF_vars(LeaderReady \/ LeaderOutput)
  /\ \A i \in Follower : WF_vars(Proceed(i))

-----------------------------------------------------------------------------
(***************************************************************************)
(* Properties.                                                             *)
(***************************************************************************)

\* handle_echo counts messages, not senders: a node must not echo a height
\* in both branches of handle_val.
EchoOnce ==
  \A h \in Height, i \in Node : ~({<<i, "val">>, <<i, "info">>} \subseteq echoes[h])

Holders(h) == {Leader} \cup {i \in Follower : h \in vals[i]}

\* What any node has finished is held by 2f+1 nodes, although the leader
\* needs 2f echos and 2f readies only, its own included (leader.go:313, 353),
\* and a follower may be late with the block.
FinishedIsHeld ==
  \A h \in Height :
    lheight > h \/ (\E i \in Follower : height[i] > h)
      => Cardinality(Holders(h)) >= 2 * threshold + 1

Down == crashed \cup hung

\* At fewer than f live followers handle_echo can still count 2f+1 echos of h.
Starved(h) ==
  Cardinality({i \in Follower \ Down :
                 lost[i][h] <= Cardinality(Node \ Down) - EchoQuorum}) < threshold

\* Every block is output by all live nodes, with f nodes down or hung and in
\* spite of the echos that old goroutines drop, unless these are so many of one
\* height that the f+1 readies do not come together: the followers that have
\* lost echos are taken along by the others.
KeepUp ==
  \A h \in Height :
    proposed > h ~>
      \/ lheight > h /\ \A i \in Follower \ Down : out[i] > h
      \/ \E q \in 0 .. h : Starved(q)
=============================================================================
