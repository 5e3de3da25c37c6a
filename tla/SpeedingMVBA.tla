---------------------------- MODULE SpeedingMVBA ----------------------------
(***************************************************************************)
(* One round of the signature-based MVBA (order/smvba/speedingmvba): the   *)
(* nodes agree on the input of one of them.                                *)
(*                                                                         *)
(* In a loop every node broadcasts its input provably: PBC1 (the input),   *)
(* PBC2 (2f signatures on it, besides the leader's own), PBC3 (these       *)
(* combined: sigma), PBC4 (2f signatures on having sigma) and pi (these    *)
(* combined).  After 2f+1 pis a node sends its coin share, and the first   *)
(* share makes every node send its own; 2f+1 shares name the coin leader,  *)
(* whose input is output by who holds its pi.  The others prevote (yes     *)
(* with sigma), vote, and output or go to the next loop with its input or  *)
(* their own.  A node that outputs broadcasts halt, with the proof.        *)
(*                                                                         *)
(* The goroutines of a loop share loopInfo without locks.  The broadcasts  *)
(* end by closing the channel PBC_done, which handle_PBC looks at between  *)
(* storing a sigma and sending PBC4, and which a select may overlook when  *)
(* a message is there as well.  OldCoins, with which a node tests the      *)
(* inputs of later loops, is appended to by handle_share of every loop and *)
(* by handle_halt, each if the sequence has no place for its loop yet: a   *)
(* place may hold the coin of another loop.  The test and the append are   *)
(* one step here; two goroutines between them leave a sequence that is     *)
(* shifted or too short, as do the orders of these steps.                  *)
(*                                                                         *)
(* A message is sent to all nodes (PBC2 and PBC4: to the leader) and is    *)
(* received after any delay and in any order: it is a fact about what has  *)
(* been sent.  A leader has one input in a loop, so a sigma, a pi or a     *)
(* halt stands for (loop, leader).  A test followed by a send is one step, *)
(* because the send cannot be told from an earlier one that is late.       *)
(***************************************************************************)
EXTENDS Integers, FiniteSets, Sequences

CONSTANTS
  Node,     \* the nodes
  Faulty,   \* the nodes that have crashed (node.yaml: CrashMVBA)
  MaxLoop,  \* bound: the last loop
  Coin,     \* the leader each loop elects: a hash of round and loop
  None      \* no node

Loop == 0 .. MaxLoop

ASSUME MvbaAssumption ==
  /\ IsFiniteSet(Node) /\ Faulty \subseteq Node
  /\ MaxLoop \in Nat
  /\ Coin \in [Loop -> Node]
  /\ None \notin Node

Correct == Node \ Faulty
max == (Cardinality(Node) * 2) \div 3

VARIABLES
  loop,     \* mvba.Loop
  input,    \* input[r][i]: whose original input i has broadcast as PBC1 of loop r
  proofs,   \* proofs[r][i]: the OldProofs that go with it
  signed,   \* signed[r]: <<i, l>> if i has sent PBC2 to l
  combined, \* combined[r]: the leaders that have broadcast PBC3
  sigmas,   \* sigmas[r]: <<i, l>> if i has stored sigmas[l]
  stored,   \* stored[r]: <<i, l>> if i has sent PBC4 to l
  pis,      \* pis[r]: the leaders that have broadcast pi
  got,      \* got[i]: the leaders whose pi handle_pi of i has taken
  taking,   \* taking[i]: handle_pi of i takes pis
  shares,   \* shares[r]: the nodes that have broadcast their share
  done,     \* done[i]: PBC_done of the loop of i is closed
  prevotes, \* prevotes[r]: i :> yes or no
  votes,    \* votes[r]: i :> yes or no
  OldCoins, \* OldCoins[i]: the coins of the loops before, as i knows them
  kept,     \* kept[i]: the loops whose handle_share is done with OldCoins
  halts,    \* <<i, r>> if i has broadcast halt, with the pi of loop r
  taken,    \* taken[i]: the loop of the halt that handle_halt of i tests
  output,   \* output[i]: the input that i has put on outputCH
  stopped   \* stopped[i]: the panic that has stopped the process of i

pbcVars == <<signed, combined, sigmas, stored, pis>>
coinVars == <<got, taking, shares, done>>
inputVars == <<loop, input, proofs>>
ballotVars == <<prevotes, votes>>
keepVars == <<OldCoins, kept>>
haltVars == <<halts, taken, output>>
vars == <<inputVars, pbcVars, coinVars, ballotVars, keepVars, haltVars, stopped>>

\* What a loop leaves: sigma on the input of its coin leader, or 2f+1 vote no.
Proof == [Type : {TRUE}, loop : Loop, leader : Node, value : Node]
           \cup [Type : {FALSE}, loop : Loop]

Ballot == [Correct -> {"none", "yes", "no"}]

\* No halt is under test.
NoHalt == -1

Panic == {"none", "index out of range", "wrong sigmas", "wrong proof"}

TypeOK ==
  /\ loop \in [Correct -> Loop]
  /\ input \in [Loop -> [Correct -> Node \cup {None}]]
  /\ proofs \in [Loop -> [Correct -> Seq(Proof)]]
  /\ signed \in [Loop -> SUBSET (Correct \X Correct)]
  /\ combined \in [Loop -> SUBSET Correct]
  /\ sigmas \in [Loop -> SUBSET (Correct \X Correct)]
  /\ stored \in [Loop -> SUBSET (Correct \X Correct)]
  /\ pis \in [Loop -> SUBSET Correct]
  /\ got \in [Correct -> SUBSET Correct]
  /\ taking \in [Correct -> BOOLEAN]
  /\ shares \in [Loop -> SUBSET Correct]
  /\ done \in [Correct -> BOOLEAN]
  /\ prevotes \in [Loop -> Ballot]
  /\ votes \in [Loop -> Ballot]
  /\ OldCoins \in [Correct -> Seq(Node)]
  /\ kept \in [Correct -> SUBSET Loop]
  /\ halts \subseteq Correct \X Loop
  /\ taken \in [Correct -> Loop \cup {NoHalt}]
  /\ stopped \in [Correct -> Panic]
  /\ output \in [Correct -> Node \cup {None}]

Init ==
  /\ loop = [i \in Correct |-> 0]
  /\ input = [r \in Loop |-> [i \in Correct |-> IF r = 0 THEN i ELSE None]]
  /\ proofs = [r \in Loop |-> [i \in Correct |-> <<>>]]
  /\ signed = [r \in Loop |-> {}]
  /\ combined = [r \in Loop |-> {}]
  /\ sigmas = [r \in Loop |-> {}]
  /\ stored = [r \in Loop |-> {}]
  /\ pis = [r \in Loop |-> {}]
  /\ got = [i \in Correct |-> {}]
  /\ taking = [i \in Correct |-> TRUE]
  /\ shares = [r \in Loop |-> {}]
  /\ done = [i \in Correct |-> FALSE]
  /\ prevotes = [r \in Loop |-> [i \in Correct |-> "none"]]
  /\ votes = [r \in Loop |-> [i \in Correct |-> "none"]]
  /\ OldCoins = [i \in Correct |-> <<>>]
  /\ kept = [i \in Correct |-> {}]
  /\ halts = {}
  /\ taken = [i \in Correct |-> NoHalt]
  /\ stopped = [i \in Correct |-> "none"]
  /\ output = [i \in Correct |-> None]

\* MVBA_done is not closed, and the process is there.
Running(i) == output[i] = None /\ stopped[i] = "none"

\* The loop whose sigma comes first in the proofs ps of an input of loop r.
From(ps, r) == r - Len(ps)

\* j reads the coin of that loop from its OldCoins.
CoinRead(j, ps, r) == From(ps, r) \in 0 .. Len(OldCoins[j]) - 1

\* The sigma is on the value, and of the leader that this coin names.
SigmaFits(j, value, ps, r) ==
  /\ CoinRead(j, ps, r)
  /\ ps[1].loop = From(ps, r)
  /\ ps[1].leader = OldCoins[j][From(ps, r) + 1]
  /\ ps[1].value = value

\* The rest are the no votes of the loops since, or of all loops.
VotesFit(ps, r) ==
  /\ ~ps[1].Type => From(ps, r) = 0 /\ ps[1].loop = 0
  /\ \A k \in 2 .. Len(ps) : ~ps[k].Type /\ ps[k].loop = From(ps, r) + k - 1

\* check_values of node j: the input of a later loop is proved by the sigma of an
\* earlier loop's coin leader, if any, and by the no votes of all loops since.
CheckValues(j, value, ps, r) ==
  r > 0 => (ps[1].Type => SigmaFits(j, value, ps, r)) /\ VotesFit(ps, r)

\* How the process of j ends when it does not.
PanicOf(j, value, ps, r) ==
  IF ps[1].Type /\ ~CoinRead(j, ps, r) THEN "index out of range"
  ELSE IF ps[1].Type /\ ~SigmaFits(j, value, ps, r) THEN "wrong sigmas"
  ELSE "wrong proof"

-----------------------------------------------------------------------------
(***************************************************************************)
(* The provable broadcasts: handle_PBC, handle_mine_PBC, handle_pi.        *)
(***************************************************************************)

\* PBC1 of leader l has come.
MaySign(i, l) ==
  LET r == loop[i] IN
  /\ Running(i) /\ ~done[i]
  /\ i # l /\ <<i, l>> \notin signed[r]
  /\ input[r][l] # None

\* It is checked and signed, or the check stops the process.
SignInput(i, l) ==
  LET r == loop[i] IN
  /\ MaySign(i, l)
  /\ IF CheckValues(i, input[r][l], proofs[r][l], r)
     THEN signed' = [signed EXCEPT ![r] = @ \cup {<<i, l>>}] /\ UNCHANGED stopped
     ELSE /\ stopped' = [stopped EXCEPT ![i] =
                          PanicOf(i, input[r][l], proofs[r][l], r)]
          /\ UNCHANGED signed
  /\ UNCHANGED <<inputVars, combined, sigmas, stored, pis, coinVars, ballotVars,
                 keepVars, haltVars>>

Senders(set, l) == {i \in Correct : <<i, l>> \in set}

\* The leader combines the signatures of 2f others; it stores its sigma, and
\* broadcasts it if PBC_done is still open.
MayCombine(l) ==
  LET r == loop[l] IN
  /\ Running(l)
  /\ <<l, l>> \notin sigmas[r]
  /\ Cardinality(Senders(signed[r], l)) >= max

Combine(l) ==
  LET r == loop[l] IN
  /\ MayCombine(l)
  /\ sigmas' = [sigmas EXCEPT ![r] = @ \cup {<<l, l>>}]
  /\ combined' = [combined EXCEPT ![r] = IF done[l] THEN @ ELSE @ \cup {l}]
  /\ UNCHANGED <<inputVars, signed, stored, pis, coinVars, ballotVars,
                 keepVars, haltVars, stopped>>

\* PBC3 arrives.  The select takes it even if PBC_done is closed by now.
MayStore(i, l) ==
  LET r == loop[i] IN
  /\ Running(i)
  /\ <<i, l>> \in signed[r] \ sigmas[r]
  /\ l \in combined[r]

StoreSigma(i, l) ==
  LET r == loop[i] IN
  /\ MayStore(i, l)
  /\ sigmas' = [sigmas EXCEPT ![r] = @ \cup {<<i, l>>}]
  /\ UNCHANGED <<inputVars, signed, combined, stored, pis, coinVars, ballotVars,
                 keepVars, haltVars, stopped>>

MaySend_early(i, l) ==                \* mutant: PBC4 before sigma is stored
  LET r == loop[i] IN
  /\ Running(i) /\ ~done[i]
  /\ i # l /\ <<i, l>> \notin stored[r]
  /\ l \in combined[r]

\* PBC4: sent if PBC_done is open after sigma was stored.
MaySend(i, l) ==
  LET r == loop[i] IN
  /\ Running(i) /\ ~done[i]
  /\ i # l /\ <<i, l>> \notin stored[r]
  /\ <<i, l>> \in sigmas[r]

SendPBC4(i, l) ==
  LET r == loop[i] IN
  /\ MaySend(i, l)
  /\ stored' = [stored EXCEPT ![r] = @ \cup {<<i, l>>}]
  /\ UNCHANGED <<inputVars, signed, combined, sigmas, pis, coinVars, ballotVars,
                 keepVars, haltVars, stopped>>

\* The leader combines 2f of them, which may take it beyond its loop, counts
\* its own pi and broadcasts it.
MayCombinePi(l, r) ==
  /\ Running(l)
  /\ r <= loop[l]
  /\ l \in combined[r] \ pis[r]
  /\ Cardinality(Senders(stored[r], l)) >= max

CombinePi(l, r) ==
  /\ MayCombinePi(l, r)
  /\ pis' = [pis EXCEPT ![r] = @ \cup {l}]
  /\ UNCHANGED <<inputVars, signed, combined, sigmas, stored, coinVars, ballotVars,
                 keepVars, haltVars, stopped>>

PiCount(i) ==
  Cardinality(got[i]) + IF i \in pis[loop[i]] THEN 1 ELSE 0

\* handle_pi takes a pi.  It stops with the pi that makes Pi_count exceed 2f;
\* when the node's own pi did that, it takes one more.
MayTake(i, l) ==
  /\ Running(i)
  /\ taking[i]
  /\ l # i /\ l \in pis[loop[i]] \ got[i]

TakePi(i, l) ==
  /\ MayTake(i, l)
  /\ got' = [got EXCEPT ![i] = @ \cup {l}]
  /\ taking' = [taking EXCEPT ![i] = PiCount(i) < max]
  /\ UNCHANGED <<inputVars, pbcVars, shares, done, ballotVars, keepVars, haltVars,
                 stopped>>

-----------------------------------------------------------------------------
(***************************************************************************)
(* The coin: send_share, handle_share.                                     *)
(***************************************************************************)

\* More than 2f pis, or a share of another node.
ShareReady(i) ==
  PiCount(i) > max \/ shares[loop[i]] # {}

MayShare(i) ==
  /\ Running(i)
  /\ i \notin shares[loop[i]]
  /\ ShareReady(i)

SendShare(i) ==
  /\ MayShare(i)
  /\ shares' = [shares EXCEPT ![loop[i]] = @ \cup {i}]
  /\ UNCHANGED <<inputVars, pbcVars, got, taking, done, ballotVars, keepVars, haltVars,
                 stopped>>

\* Share_ready is signalled before PBC_done is closed.
MayClose(i) == Running(i) /\ ~done[i] /\ ShareReady(i)

CloseBroadcasts(i) ==
  /\ MayClose(i)
  /\ done' = [done EXCEPT ![i] = TRUE]
  /\ UNCHANGED <<inputVars, pbcVars, got, taking, shares, ballotVars, keepVars, haltVars,
                 stopped>>

\* A coin goes to the end of OldCoins of i unless that has a place for loop r.
Keeping(i, r, coin) ==
  OldCoins' = [OldCoins EXCEPT ![i] = IF Len(@) <= r THEN Append(@, coin) ELSE @]

\* handle_share of loop r has announced the coin, maybe loops ago.
MayKeep(i, r) ==
  /\ Running(i)
  /\ r \notin kept[i]
  /\ r <= loop[i] /\ (r = loop[i] => done[i])
  /\ Cardinality(shares[r]) > max

KeepCoin(i, r) ==
  /\ MayKeep(i, r)
  /\ Keeping(i, r, Coin[r])
  /\ kept' = [kept EXCEPT ![i] = @ \cup {r}]
  /\ UNCHANGED <<inputVars, pbcVars, coinVars, ballotVars, haltVars, stopped>>

-----------------------------------------------------------------------------
(***************************************************************************)
(* Prevote, vote, output: handle_finish, handle_halt.                      *)
(***************************************************************************)

Finish_own(i, r) ==                   \* mutant: the own input is output
  /\ output' = [output EXCEPT ![i] = input[r][i]]
  /\ halts' = halts \cup {<<i, r>>}
  /\ UNCHANGED taken

\* MVBA_done is closed, halt is broadcast with the proof of loop r.
Finish(i, r) ==
  /\ output' = [output EXCEPT ![i] = input[r][Coin[r]]]
  /\ halts' = halts \cup {<<i, r>>}
  /\ UNCHANGED taken

\* The coin is known: more than 2f shares have been counted, the first of
\* which has closed PBC_done.
CoinReady(i) ==
  /\ Running(i) /\ done[i]
  /\ prevotes[loop[i]][i] = "none"
  /\ Cardinality(shares[loop[i]]) > max

\* handle_pi has the pi of the coin leader.
HaltByPi(i) ==
  /\ CoinReady(i)
  /\ Coin[loop[i]] \in got[i]
  /\ Finish(i, loop[i])
  /\ UNCHANGED <<inputVars, pbcVars, coinVars, ballotVars, keepVars, stopped>>

Prevote(i) ==
  LET r == loop[i] IN
  /\ CoinReady(i)
  /\ Coin[r] \notin got[i]
  /\ prevotes' = [prevotes EXCEPT ![r][i] =
                    IF <<i, Coin[r]>> \in sigmas[r] THEN "yes" ELSE "no"]
  /\ UNCHANGED <<inputVars, pbcVars, coinVars, votes, keepVars, haltVars,
                 stopped>>

\* 2f other nodes, whose ballots have arrived first.
Others(i, ballot) ==
  {S \in SUBSET (Correct \ {i}) :
     Cardinality(S) = max /\ \A j \in S : ballot[j] # "none"}

VotesYes(i, S) == \E j \in S \cup {i} : prevotes[loop[i]][j] = "yes"

Vote(i) ==
  LET r == loop[i] IN
  /\ Running(i)
  /\ prevotes[r][i] # "none" /\ votes[r][i] = "none"
  /\ \E S \in Others(i, prevotes[r]) :
       votes' = [votes EXCEPT ![r][i] = IF VotesYes(i, S) THEN "yes" ELSE "no"]
  /\ UNCHANGED <<inputVars, pbcVars, coinVars, prevotes, keepVars, haltVars,
                 stopped>>

\* The signatures under the votes no of loop r, the sigma of its coin leader.
VoteNo(r) == [Type |-> FALSE, loop |-> r]
Sigma(r) == [Type |-> TRUE, loop |-> r, leader |-> Coin[r], value |-> input[r][Coin[r]]]

Adopted_own(i) == input[loop[i]][i]   \* mutant: the own input with the sigma

\* What i proposes next when the votes differ: the coin leader's input.
Adopted(i) == input[loop[i]][Coin[loop[i]]]

\* mvba.Loop++
Following(r) == r + 1

\* The next loop starts with the input v.
NextLoop(i, v, ps) ==
  LET r == loop[i] IN
  /\ r < MaxLoop
  /\ loop' = [loop EXCEPT ![i] = Following(r)]
  /\ input' = [input EXCEPT ![Following(r)][i] = v]
  /\ proofs' = [proofs EXCEPT ![Following(r)][i] = ps]
  /\ got' = [got EXCEPT ![i] = {}]
  /\ taking' = [taking EXCEPT ![i] = TRUE]
  /\ done' = [done EXCEPT ![i] = FALSE]
  /\ UNCHANGED <<pbcVars, shares, ballotVars, keepVars, haltVars, stopped>>

\* The votes that i counts are those of S and its own.
HaltByVotes(i, S) ==
  /\ \A j \in S \cup {i} : votes[loop[i]][j] = "yes"
  /\ Finish(i, loop[i])
  /\ UNCHANGED <<inputVars, pbcVars, coinVars, ballotVars, keepVars, stopped>>

KeepInput(i, S) ==
  LET r == loop[i] IN
  /\ \A j \in S \cup {i} : votes[r][j] = "no"
  /\ NextLoop(i, input[r][i], Append(proofs[r][i], VoteNo(r)))

AdoptInput(i, S) ==
  LET r == loop[i] IN
  /\ \E j \in S \cup {i} : votes[r][j] = "yes"
  /\ \E j \in S \cup {i} : votes[r][j] = "no"
  /\ NextLoop(i, Adopted(i), <<Sigma(r)>>)

CountVotes(i) ==
  /\ Running(i)
  /\ votes[loop[i]][i] # "none"
  /\ \E S \in Others(i, votes[loop[i]]) :
       HaltByVotes(i, S) \/ KeepInput(i, S) \/ AdoptInput(i, S)

\* handle_halt takes a halt of any loop; its coin goes to OldCoins as if it were
\* that of the loop i is in.
TakeHalt(i) ==
  /\ Running(i)
  /\ taken[i] = NoHalt
  /\ \E m \in halts :
       /\ taken' = [taken EXCEPT ![i] = m[2]]
       /\ Keeping(i, loop[i], Coin[m[2]])
  /\ UNCHANGED <<inputVars, pbcVars, coinVars, ballotVars, kept, halts, output, stopped>>

\* Its coin shares and its pi are verified.
Halt(i) ==
  /\ Running(i)
  /\ taken[i] # NoHalt
  /\ Finish(i, taken[i])
  /\ UNCHANGED <<inputVars, pbcVars, coinVars, ballotVars, keepVars, stopped>>

-----------------------------------------------------------------------------
Broadcast(i, l) ==
  SignInput(i, l) \/ StoreSigma(i, l) \/ SendPBC4(i, l) \/ TakePi(i, l)

Step(i) ==
  \/ \E l \in Correct : Broadcast(i, l)
  \/ Combine(i)
  \/ \E r \in Loop : CombinePi(i, r) \/ KeepCoin(i, r)
  \/ SendShare(i) \/ CloseBroadcasts(i)
  \/ HaltByPi(i) \/ Prevote(i) \/ Vote(i) \/ CountVotes(i)
  \/ TakeHalt(i) \/ Halt(i)

Next == \E i \in Correct : Step(i)

Spec == Init /\ [][Next]_vars

-----------------------------------------------------------------------------
(***************************************************************************)
(* Properties.                                                             *)
(***************************************************************************)

\* No two nodes output different inputs, in whichever loops they do and
\* whether by a pi, by votes or by a halt of another node.
OutputAgreement ==
  \A i, j \in Correct :
    output[i] # None /\ output[j] # None => output[i] = output[j]

\* If the coin leader's pi exists, no node votes no in that loop, although
\* nodes that have closed PBC_done hold no sigma and the pi may come late.
PiForcesYes ==
  \A r \in Loop : Coin[r] \in pis[r] => \A i \in Correct : votes[r][i] # "no"

\* Once a node outputs, every input of a later loop is the one it has output.
HaltFixesInput ==
  \A m \in halts, r \in Loop, i \in Correct :
    r > m[2] /\ input[r][i] # None => input[r][i] = input[m[2]][Coin[m[2]]]

\* The coins of the loops before r stand in their places.
RightCoins(j, r) ==
  \A q \in 0 .. r - 1 : q < Len(OldCoins[j]) /\ OldCoins[j][q + 1] = Coin[q]

\* No input of a later loop stops a peer that has kept the coins right ("wrong
\* proof for input", smvba_handle_msg.go:207): the proofs cover the loops since
\* the last sigma, which is on the input and of the coin leader.
InputsProved ==
  \A r \in Loop, i, j \in Correct :
    input[r][i] # None /\ RightCoins(j, r) =>
      CheckValues(j, input[r][i], proofs[r][i], r)

\* "wrong sigmas for check value" (smvba_handle_msg.go:60) takes a sigma for
\* wrong: no process that meets correct nodes only ends with it.
SigmasAreRight == \A i \in Correct : stopped[i] # "wrong sigmas"

Consensus == INSTANCE MVBAConsensus WITH Node <- Correct, Proposed <- Correct

\* The round is a consensus (smvba/order.go:153 reads one output of it): the
\* outputs agree, they are an input that a node which has not crashed proposed
\* in loop 0, and a late pi, quorum of votes or halt never changes an output.
ImplementsConsensus == Consensus!ASpec
=============================================================================
