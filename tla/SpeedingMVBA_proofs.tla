------------------------ MODULE SpeedingMVBA_proofs ------------------------
(***************************************************************************)
(* Proofs about SpeedingMVBA, for any number of nodes, faulty nodes and    *)
(* loops and any coin.                                                     *)
(***************************************************************************)
EXTENDS SpeedingMVBA, FiniteSetTheorems, SequenceTheorems, TLAPS

-----------------------------------------------------------------------------
(***************************************************************************)
(* The inductive invariant.                                                *)
(***************************************************************************)

Quorum == {T \in SUBSET Correct : Cardinality(T) > max}

\* A quorum has cast the ballot b in loop r.
AllNo(r) == \E T \in Quorum : \A j \in T : votes[r][j] = "no"
AllYes(r) == \E T \in Quorum : \A j \in T : votes[r][j] = "yes"

\* The nodes have an input in the loops they have reached, and in no other.
InputInv ==
  \A r \in Loop, i \in Correct : input[r][i] # None <=> r <= loop[i]

\* An input is the one that a node which has not crashed started the round with.
OriginalInv ==
  \A r \in Loop, i \in Correct : input[r][i] \in Correct \cup {None}

\* A sigma is on an input; who has sent PBC4 to another node has its sigma.
SigmaInv ==
  \A r \in Loop, l \in Correct :
    /\ l \in combined[r] => <<l, l>> \in sigmas[r]
    /\ \A i \in Correct :
         /\ <<i, l>> \in sigmas[r] => r <= loop[l]
         /\ <<i, l>> \in stored[r] => i # l /\ <<i, l>> \in sigmas[r]

\* Behind a pi are PBC4 of 2f nodes and the leader, which has sent PBC3.
PiInv ==
  /\ \A r \in Loop, l \in Correct :
       l \in pis[r] => l \in combined[r] /\ Cardinality(Senders(stored[r], l)) >= max
  /\ \A i \in Correct : got[i] \subseteq pis[loop[i]]

\* Who prevotes has closed PBC_done: it sends no PBC3 or PBC4 of the loop
\* any more, and who prevotes no has not sent them to or as the coin leader.
PrevoteInv ==
  \A r \in Loop, i \in Correct :
    /\ prevotes[r][i] # "none" => r <= loop[i] /\ (r = loop[i] => done[i])
    /\ prevotes[r][i] = "yes" => <<i, Coin[r]>> \in sigmas[r]
    /\ prevotes[r][i] = "no" =>
         <<i, Coin[r]>> \notin stored[r] /\ (i = Coin[r] => i \notin combined[r])

\* Behind a vote yes is a prevote yes, behind a vote no a quorum of prevotes.
VoteInv ==
  \A r \in Loop, i \in Correct :
    /\ votes[r][i] = "yes" => \E j \in Correct : prevotes[r][j] = "yes"
    /\ votes[r][i] = "no" =>
         \E T \in Quorum : \A j \in T : prevotes[r][j] = "no"

\* An input of a later loop is the coin leader's input of each loop that a
\* quorum has not voted no in.
InheritInv ==
  \A r, q \in Loop, i \in Correct :
    r < q /\ input[q][i] # None =>
      \/ Coin[r] \in Correct /\ input[q][i] = input[r][Coin[r]]
      \/ AllNo(r)

\* Behind a halt is the pi of the coin leader or a quorum of votes yes, and
\* behind an output, and behind what handle_halt tests, a halt.
HaltInv ==
  /\ \A m \in halts : Coin[m[2]] \in pis[m[2]] \/ AllYes(m[2])
  /\ \A i \in Correct :
       output[i] # None => \E m \in halts : output[i] = input[m[2]][Coin[m[2]]]
  /\ \A i \in Correct : taken[i] # NoHalt => \E m \in halts : m[2] = taken[i]

\* What check_values asks of the proofs when it reads the right coins.
Proved(value, ps, r) ==
  r > 0 =>
  LET from == r - Len(ps) IN
  /\ IF ps[1].Type
     THEN ps[1].loop = from /\ ps[1].leader = Coin[from] /\ ps[1].value = value
     ELSE from = 0 /\ ps[1].loop = 0
  /\ \A k \in 2 .. Len(ps) : ~ps[k].Type /\ ps[k].loop = from + k - 1

\* The proofs of an input are not longer than the loops before.
ProofInv ==
  \A r \in Loop, i \in Correct :
    input[r][i] # None =>
      /\ r = 0 => Len(proofs[r][i]) = 0
      /\ r > 0 => Len(proofs[r][i]) \in 1 .. r
      /\ Proved(input[r][i], proofs[r][i], r)

IInv ==
  /\ TypeOK /\ InputInv /\ OriginalInv /\ SigmaInv /\ PiInv /\ PrevoteInv
  /\ VoteInv /\ InheritInv /\ HaltInv /\ ProofInv

-----------------------------------------------------------------------------
(***************************************************************************)
(* Quorums.                                                                *)
(***************************************************************************)

\* More than 2/3 of the nodes and more than 2/3 of the nodes have one in
\* common: what counting ballots, signatures and shares up to 2f relies on.
LEMMA QuorumsMeet ==
  ASSUME NEW A \in SUBSET Node, NEW B \in SUBSET Node,
         Cardinality(A) > max, Cardinality(B) > max
  PROVE  \E x \in A : x \in B
<1> DEFINE N == Cardinality(Node)
<1>1. IsFiniteSet(A) /\ IsFiniteSet(B) /\ IsFiniteSet(A \cup B)
  BY MvbaAssumption, FS_Subset
<1>2. /\ N \in Nat /\ Cardinality(A) \in Nat /\ Cardinality(B) \in Nat
      /\ Cardinality(A \cup B) \in Nat
  BY <1>1, MvbaAssumption, FS_CardinalityType
<1>3. Cardinality(A \cup B) <= N
  BY MvbaAssumption, FS_Subset
<1>4. max \in Nat /\ 2 * N < 3 * max + 3
  BY <1>2 DEF max
<1>5. SUFFICES ASSUME A \cap B = {} PROVE FALSE
  OBVIOUS
<1>6. Cardinality(A \cup B) = Cardinality(A) + Cardinality(B)
  <2>1. Cardinality(A \cap B) = 0
    BY <1>5, FS_EmptySet
  <2>2. Cardinality(A \cup B)
          = Cardinality(A) + Cardinality(B) - Cardinality(A \cap B)
    BY <1>1, FS_Union
  <2> QED
    BY <1>2, <2>1, <2>2
<1> HIDE DEF N
<1> QED
  BY <1>2, <1>3, <1>4, <1>6

\* 2f others and the node itself are a quorum.
LEMMA OthersAndSelf ==
  ASSUME NEW i \in Correct, NEW S \in SUBSET (Correct \ {i}),
         Cardinality(S) >= max
  PROVE  S \cup {i} \in Quorum
<1>1. IsFiniteSet(S)
  BY MvbaAssumption, FS_Subset DEF Correct
<1>2. Cardinality(S) \in Nat /\ Cardinality(Node) \in Nat
  BY <1>1, MvbaAssumption, FS_CardinalityType
<1>3. Cardinality(S \cup {i}) = Cardinality(S) + 1
  BY <1>1, FS_AddElement
<1>4. max \in Int
  BY <1>2 DEF max
<1> QED
  BY <1>2, <1>3, <1>4 DEF Quorum

\* A quorum has a member.
LEMMA QuorumMembers == \A A, B \in Quorum : \E x \in Correct : x \in A /\ x \in B
<1> SUFFICES ASSUME NEW A \in Quorum, NEW B \in Quorum
             PROVE  \E x \in Correct : x \in A /\ x \in B
  OBVIOUS
<1>1. /\ A \in SUBSET Node /\ B \in SUBSET Node
      /\ Cardinality(A) > max /\ Cardinality(B) > max
  BY MvbaAssumption DEF Quorum, Correct
<1>2. PICK x \in A : x \in B
  BY <1>1, QuorumsMeet
<1> QED
  BY <1>2 DEF Quorum

-----------------------------------------------------------------------------
(***************************************************************************)
(* What a step changes.                                                    *)
(***************************************************************************)

Halting(n) ==
  /\ Running(n)
  /\ \/ HaltByPi(n) \/ Halt(n)
     \/ \E S \in Others(n, votes[loop[n]]) : HaltByVotes(n, S)

Moving(n) ==
  \E S \in Others(n, votes[loop[n]]) : KeepInput(n, S) \/ AdoptInput(n, S)

\* Which steps change which variables.
LEMMA Effects ==
  ASSUME NEW n \in Correct, Step(n)
  PROVE  /\ UNCHANGED inputVars \/ Moving(n)
         /\ UNCHANGED signed \/ \E l \in Correct : SignInput(n, l)
         /\ UNCHANGED combined \/ Combine(n)
         /\ UNCHANGED sigmas \/ Combine(n) \/ \E l \in Correct : StoreSigma(n, l)
         /\ UNCHANGED stored \/ \E l \in Correct : SendPBC4(n, l)
         /\ UNCHANGED pis \/ \E r \in Loop : CombinePi(n, r)
         /\ \/ UNCHANGED <<got, taking>> \/ Moving(n)
            \/ \E l \in Correct : TakePi(n, l)
         /\ UNCHANGED shares \/ SendShare(n)
         /\ UNCHANGED done \/ CloseBroadcasts(n) \/ Moving(n)
         /\ UNCHANGED prevotes \/ Prevote(n)
         /\ UNCHANGED votes \/ Vote(n)
         /\ UNCHANGED <<halts, output>> \/ Halting(n)
         /\ UNCHANGED taken \/ TakeHalt(n)
<1> USE DEF inputVars, pbcVars, coinVars, ballotVars, haltVars
<1>1. CASE \E l \in Correct : Broadcast(n, l)
  BY <1>1 DEF Broadcast, SignInput, StoreSigma, SendPBC4, TakePi
<1>2. CASE Combine(n) \/ \E r \in Loop : CombinePi(n, r)
  BY <1>2 DEF Combine, CombinePi
<1>3. CASE SendShare(n) \/ CloseBroadcasts(n) \/ Prevote(n) \/ Vote(n)
  BY <1>3 DEF SendShare, CloseBroadcasts, Prevote, Vote
<1>4. CASE HaltByPi(n) \/ Halt(n)
  BY <1>4 DEF HaltByPi, CoinReady, Halt, Halting, Finish
<1>5. CASE CountVotes(n)
  <2>0. Running(n)
    BY <1>5 DEF CountVotes
  <2>1. PICK S \in Others(n, votes[loop[n]]) :
          HaltByVotes(n, S) \/ KeepInput(n, S) \/ AdoptInput(n, S)
    BY <1>5 DEF CountVotes
  <2>2. CASE HaltByVotes(n, S)
    BY <2>0, <2>2 DEF HaltByVotes, Halting, Finish
  <2>3. CASE KeepInput(n, S) \/ AdoptInput(n, S)
    BY <2>3 DEF KeepInput, AdoptInput, NextLoop, Moving
  <2> QED
    BY <2>1, <2>2, <2>3
<1>6. CASE TakeHalt(n) \/ \E r \in Loop : KeepCoin(n, r)
  BY <1>6 DEF TakeHalt, KeepCoin
<1> QED
  BY <1>1, <1>2, <1>3, <1>4, <1>5, <1>6 DEF Step

\* A vote yes in a loop rests on a sigma of its coin leader, and so does a pi
\* of it: the coin leader is a correct node and has an input.
LEMMA CoinHasInput ==
  ASSUME IInv, NEW r \in Loop,
         \/ \E j \in Correct : votes[r][j] = "yes"
         \/ Coin[r] \in pis[r]
  PROVE  /\ Coin[r] \in Correct
         /\ r <= loop[Coin[r]]
         /\ input[r][Coin[r]] # None
         /\ input[r][Coin[r]] \in Node
<1>1. /\ pis[r] \subseteq Correct /\ sigmas[r] \subseteq Correct \X Correct
      /\ input[r] \in [Correct -> Node \cup {None}]
  BY DEF IInv, TypeOK
<1>2. \E j \in Correct : <<j, Coin[r]>> \in sigmas[r]
  <2>1. CASE \E j \in Correct : votes[r][j] = "yes"
    BY <2>1 DEF IInv, VoteInv, PrevoteInv
  <2>2. CASE Coin[r] \in pis[r]
    BY <2>2, <1>1 DEF IInv, PiInv, SigmaInv
  <2> QED
    BY <2>1, <2>2
<1>3. Coin[r] \in Correct
  BY <1>1, <1>2
<1>4. r <= loop[Coin[r]]
  BY <1>2, <1>3 DEF IInv, SigmaInv
<1> QED
  BY <1>1, <1>3, <1>4 DEF IInv, InputInv

\* The next loop is entered with an input, its own or the coin leader's.
LEMMA Entering ==
  ASSUME IInv, NEW n \in Correct, Moving(n)
  PROVE  \E v \in Node, ps \in Seq(Proof) :
           /\ NextLoop(n, v, ps)
           /\ \/ /\ v = input[loop[n]][n] /\ AllNo(loop[n])
                 /\ ps = Append(proofs[loop[n]][n], VoteNo(loop[n]))
              \/ /\ Coin[loop[n]] \in Correct /\ v = input[loop[n]][Coin[loop[n]]]
                 /\ ps = <<Sigma(loop[n])>>
<1> DEFINE r == loop[n]
<1>1. /\ r \in Loop /\ r \in Int /\ input[r] \in [Correct -> Node \cup {None}]
      /\ proofs[r][n] \in Seq(Proof)
  BY DEF IInv, TypeOK, Loop
<1>2. PICK S \in Others(n, votes[r]) : KeepInput(n, S) \/ AdoptInput(n, S)
  BY DEF Moving
<1>3. CASE KeepInput(n, S)
  <2>1. S \cup {n} \in Quorum
    <3>1. S \in SUBSET (Correct \ {n}) /\ Cardinality(S) = max
      BY DEF Others
    <3>2. max \in Int
      BY MvbaAssumption, FS_CardinalityType DEF max
    <3> QED
      BY <3>1, <3>2, OthersAndSelf
  <2>2. AllNo(r)
    BY <1>3, <2>1 DEF KeepInput, AllNo
  <2>3. input[r][n] \in Node
    BY <1>1 DEF IInv, InputInv
  <2>4. VoteNo(r) \in Proof
    BY <1>1 DEF VoteNo, Proof
  <2>5. Append(proofs[r][n], VoteNo(r)) \in Seq(Proof)
    BY <1>1, <2>4
  <2> QED
    BY <1>3, <2>2, <2>3, <2>5 DEF KeepInput
<1>4. CASE AdoptInput(n, S)
  <2>1. \E j \in Correct : votes[r][j] = "yes"
    BY <1>4 DEF AdoptInput, Others
  <2>2. Coin[r] \in Correct /\ input[r][Coin[r]] \in Node
    BY <1>1, <2>1, CoinHasInput
  <2>3. Sigma(r) \in Proof
    BY <1>1, <2>2 DEF Sigma, Proof, Correct
  <2>4. <<Sigma(r)>> \in Seq(Proof)
    BY <2>3
  <2> QED
    BY <1>4, <2>2, <2>4 DEF AdoptInput, Adopted
<1> QED
  BY <1>2, <1>3, <1>4

\* A node outputs, while it runs, the coin leader's input of a loop that the
\* leader's pi or a quorum of votes yes has decided.
LEMMA Outputting ==
  ASSUME IInv, NEW n \in Correct, Halting(n)
  PROVE  \E r \in Loop :
           /\ Running(n) /\ Finish(n, r)
           /\ UNCHANGED <<inputVars, pbcVars, coinVars, ballotVars, keepVars, stopped>>
           /\ Coin[r] \in pis[r] \/ AllYes(r)
<1>0. TypeOK /\ PiInv /\ HaltInv /\ loop[n] \in Loop
  BY DEF IInv, TypeOK
<1>1. CASE HaltByPi(n)
  BY <1>0, <1>1 DEF HaltByPi, PiInv, Halting
<1>2. CASE Halt(n)
  <2>1. PICK m \in halts : m[2] = taken[n]
    BY <1>0, <1>2 DEF HaltInv, Halt
  <2>2. m[2] \in Loop /\ (Coin[m[2]] \in pis[m[2]] \/ AllYes(m[2]))
    BY <1>0 DEF TypeOK, HaltInv
  <2> QED
    BY <1>2, <2>1, <2>2 DEF Halt
<1>3. ASSUME NEW S \in Others(n, votes[loop[n]]), HaltByVotes(n, S)
      PROVE  /\ Finish(n, loop[n]) /\ AllYes(loop[n])
             /\ UNCHANGED <<inputVars, pbcVars, coinVars, ballotVars, keepVars, stopped>>
  <2>1. S \in SUBSET (Correct \ {n}) /\ Cardinality(S) = max
    BY DEF Others
  <2>2. max \in Int
    BY MvbaAssumption, FS_CardinalityType DEF max
  <2>3. S \cup {n} \in Quorum
    BY <2>1, <2>2, OthersAndSelf
  <2> QED
    BY <1>3, <2>3 DEF HaltByVotes, AllYes
<1> QED
  BY <1>0, <1>1, <1>2, <1>3 DEF Halting

-----------------------------------------------------------------------------
(***************************************************************************)
(* Each part of the invariant is kept by every step.                       *)
(***************************************************************************)

\* A coin is appended to the coins of one node, or none.
LEMMA CoinsTyped ==
  ASSUME OldCoins \in [Correct -> Seq(Node)], NEW n \in Correct, NEW r \in Loop,
         NEW c \in Node, Keeping(n, r, c)
  PROVE  OldCoins' \in [Correct -> Seq(Node)]
<1>1. OldCoins[n] \in Seq(Node) /\ Append(OldCoins[n], c) \in Seq(Node)
  OBVIOUS
<1>2. PICK s \in Seq(Node) : OldCoins' = [OldCoins EXCEPT ![n] = s]
  BY <1>1 DEF Keeping
<1> QED
  BY <1>2

LEMMA TypeStep == ASSUME IInv, [Next]_vars PROVE TypeOK'
<1> USE DEF TypeOK, inputVars, pbcVars, coinVars, ballotVars, keepVars, haltVars
<1>0. TypeOK
  BY DEF IInv
<1>1. CASE UNCHANGED vars
  BY <1>0, <1>1 DEF vars
<1>2. ASSUME NEW n \in Correct, Step(n) PROVE TypeOK'
  <2>0. loop[n] \in Loop
    BY <1>0
  <2>1. ASSUME NEW l \in Correct, Broadcast(n, l) PROVE TypeOK'
    <3>1. CASE SignInput(n, l)
      <4>1. signed' \in [Loop -> SUBSET (Correct \X Correct)]
        <5>1. \/ signed' = [signed EXCEPT ![loop[n]] = @ \cup {<<n, l>>}]
              \/ signed' = signed
          BY <3>1 DEF SignInput
        <5>2. CASE signed' = signed
          BY <1>0, <5>2
        <5>3. CASE signed' = [signed EXCEPT ![loop[n]] = @ \cup {<<n, l>>}]
          BY <1>0, <2>0, <5>3
        <5> QED
          BY <5>1, <5>2, <5>3
      <4>2. stopped' \in [Correct -> Panic]
        BY <1>0, <3>1 DEF SignInput, PanicOf, Panic
      <4> QED
        BY <1>0, <3>1, <4>1, <4>2 DEF SignInput
    <3>2. CASE StoreSigma(n, l)
      <4>1. sigmas' \in [Loop -> SUBSET (Correct \X Correct)]
        BY <1>0, <2>0, <3>2 DEF StoreSigma
      <4> QED
        BY <1>0, <3>2, <4>1 DEF StoreSigma
    <3>3. CASE SendPBC4(n, l)
      <4>1. stored' \in [Loop -> SUBSET (Correct \X Correct)]
        BY <1>0, <2>0, <3>3 DEF SendPBC4
      <4> QED
        BY <1>0, <3>3, <4>1 DEF SendPBC4
    <3>4. CASE TakePi(n, l)
      <4>1. got' \in [Correct -> SUBSET Correct] /\ taking' \in [Correct -> BOOLEAN]
        BY <1>0, <2>0, <3>4 DEF TakePi
      <4> QED
        BY <1>0, <3>4, <4>1 DEF TakePi
    <3> QED
      BY <2>1, <3>1, <3>2, <3>3, <3>4 DEF Broadcast
  <2>2. CASE Combine(n)
    <3>1. sigmas' \in [Loop -> SUBSET (Correct \X Correct)]
      BY <1>0, <2>0, <2>2 DEF Combine
    <3>2. combined' \in [Loop -> SUBSET Correct]
      BY <1>0, <2>0, <2>2 DEF Combine
    <3> QED
      BY <1>0, <2>2, <3>1, <3>2 DEF Combine
  <2>3. ASSUME NEW r \in Loop, CombinePi(n, r) PROVE TypeOK'
    BY <1>0, <2>3 DEF CombinePi
  <2>4. CASE SendShare(n)
    BY <1>0, <2>0, <2>4 DEF SendShare
  <2>5. CASE CloseBroadcasts(n)
    BY <1>0, <2>5 DEF CloseBroadcasts
  <2>6. CASE Prevote(n)
    BY <1>0, <2>0, <2>6 DEF Prevote, Ballot
  <2>7. CASE Vote(n)
    <3>1. PICK b \in {"yes", "no"} : votes' = [votes EXCEPT ![loop[n]][n] = b]
      BY <2>7 DEF Vote
    <3>2. votes' \in [Loop -> Ballot]
      BY <1>0, <2>0, <3>1 DEF Ballot
    <3> QED
      BY <1>0, <2>7, <3>2 DEF Vote
  <2>8. CASE Halting(n)
    <3>1. PICK r \in Loop :
            /\ Finish(n, r)
            /\ UNCHANGED <<inputVars, pbcVars, coinVars, ballotVars, keepVars, stopped>>
            /\ Coin[r] \in pis[r] \/ \E j \in Correct : votes[r][j] = "yes"
      BY <2>8, Outputting, QuorumMembers DEF AllYes
    <3>2. input[r][Coin[r]] \in Node
      BY <3>1, CoinHasInput
    <3> QED
      <4>1. output' \in [Correct -> Node \cup {None}]
        BY <1>0, <3>1, <3>2 DEF Finish
      <4>2. halts' \subseteq Correct \X Loop
        BY <1>0, <3>1 DEF Finish
      <4> QED
        BY <1>0, <3>1, <4>1, <4>2 DEF Finish
  <2>9. CASE Moving(n)
    <3>1. PICK v \in Node, ps \in Seq(Proof) : NextLoop(n, v, ps)
      BY <2>9, Entering
    <3>2. Following(loop[n]) \in Loop
      BY <2>0, <3>1, MvbaAssumption DEF NextLoop, Following, Loop
    <3> QED
      BY <1>0, <3>1, <3>2 DEF NextLoop
  <2>10. CASE CountVotes(n)
    BY <2>8, <2>9, <2>10 DEF CountVotes, Halting, Moving
  <2>11. CASE TakeHalt(n)
    <3>1. PICK m \in halts : taken' = [taken EXCEPT ![n] = m[2]]
                            /\ Keeping(n, loop[n], Coin[m[2]])
      BY <2>11 DEF TakeHalt
    <3>2. m[2] \in Loop
      BY <1>0
    <3>3. OldCoins' \in [Correct -> Seq(Node)]
      BY <1>0, <3>1, <3>2, MvbaAssumption, CoinsTyped
    <3>4. taken' \in [Correct -> Loop \cup {NoHalt}]
      BY <1>0, <3>1, <3>2
    <3> QED
      BY <1>0, <2>11, <3>3, <3>4 DEF TakeHalt
  <2>12. ASSUME NEW r \in Loop, KeepCoin(n, r) PROVE TypeOK'
    <3>1. OldCoins' \in [Correct -> Seq(Node)]
      BY <1>0, <2>12, MvbaAssumption, CoinsTyped DEF KeepCoin
    <3>2. kept' \in [Correct -> SUBSET Loop]
      BY <1>0, <2>12 DEF KeepCoin
    <3> QED
      BY <1>0, <2>12, <3>1, <3>2 DEF KeepCoin
  <2> QED
    BY <1>2, <2>1, <2>2, <2>3, <2>4, <2>5, <2>6, <2>7, <2>8, <2>10, <2>11, <2>12
       DEF Step, Halting, HaltByPi, CoinReady, Halt
<1> QED
  BY <1>1, <1>2 DEF Next

\* What has been sent stays sent, and nobody goes back or changes a ballot.
LEMMA Growing ==
  ASSUME IInv, [Next]_vars
  PROVE  /\ \A r \in Loop : /\ combined[r] \subseteq combined'[r]
                            /\ sigmas[r] \subseteq sigmas'[r]
                            /\ stored[r] \subseteq stored'[r]
                            /\ pis[r] \subseteq pis'[r]
         /\ halts \subseteq halts'
         /\ \A i \in Correct : loop[i] <= loop'[i]
         /\ \A r \in Loop, i \in Correct :
              /\ r <= loop[i] => input'[r][i] = input[r][i]
              /\ r <= loop[i] => proofs'[r][i] = proofs[r][i]
              /\ prevotes[r][i] # "none" => prevotes'[r][i] = prevotes[r][i]
              /\ votes[r][i] # "none" => votes'[r][i] = votes[r][i]
<1>0. TypeOK
  BY DEF IInv
<1>1. CASE UNCHANGED vars
  <2>1. \A i \in Correct : loop[i] \in Int
    BY <1>0 DEF TypeOK, Loop
  <2> QED
    BY <1>1, <2>1
       DEF vars, inputVars, pbcVars, coinVars, ballotVars, haltVars
<1>2. ASSUME NEW n \in Correct, Step(n)
      PROVE  \A r \in Loop : /\ combined[r] \subseteq combined'[r]
                             /\ sigmas[r] \subseteq sigmas'[r]
                             /\ stored[r] \subseteq stored'[r]
                             /\ pis[r] \subseteq pis'[r]
  <2>0. loop[n] \in Loop
    BY <1>0 DEF TypeOK
  <2>1. \A r \in Loop : combined[r] \subseteq combined'[r]
    <3>1. CASE UNCHANGED combined
      BY <3>1
    <3>2. CASE Combine(n)
      <4>1. \/ combined' = combined
            \/ combined' = [combined EXCEPT ![loop[n]] = @ \cup {n}]
        BY <1>0, <2>0, <3>2 DEF TypeOK, Combine
      <4> QED
        BY <1>0, <4>1, ZenonT(30) DEF TypeOK
    <3> QED
      BY <1>2, <3>1, <3>2, Effects
  <2>2. \A r \in Loop : sigmas[r] \subseteq sigmas'[r]
    <3>1. CASE UNCHANGED sigmas
      BY <3>1
    <3>2. CASE Combine(n) \/ \E l \in Correct : StoreSigma(n, l)
      <4>1. PICK x \in Correct \X Correct :
              sigmas' = [sigmas EXCEPT ![loop[n]] = @ \cup {x}]
        BY <3>2 DEF Combine, StoreSigma
      <4> QED
        BY <1>0, <4>1 DEF TypeOK
    <3> QED
      BY <1>2, <3>1, <3>2, Effects
  <2>3. \A r \in Loop : stored[r] \subseteq stored'[r]
    <3>1. UNCHANGED stored \/ \E l \in Correct : SendPBC4(n, l)
      BY <1>2, Effects
    <3>2. stored \in [Loop -> SUBSET (Correct \X Correct)]
      BY <1>0 DEF TypeOK
    <3>3. UNCHANGED stored \/ \E x : stored' = [stored EXCEPT ![loop[n]] = @ \cup x]
      BY <3>1 DEF SendPBC4
    <3> QED
      BY <2>0, <3>2, <3>3
  <2>4. \A r \in Loop : pis[r] \subseteq pis'[r]
    <3>1. UNCHANGED pis \/ \E r \in Loop : CombinePi(n, r)
      BY <1>2, Effects
    <3>2. pis \in [Loop -> SUBSET Correct]
      BY <1>0 DEF TypeOK
    <3>3. UNCHANGED pis \/ \E r \in Loop : \E x : pis' = [pis EXCEPT ![r] = @ \cup x]
      BY <3>1 DEF CombinePi
    <3> QED
      BY <3>2, <3>3
  <2> QED
    BY <2>1, <2>2, <2>3, <2>4
<1>3. ASSUME NEW n \in Correct, Step(n) PROVE halts \subseteq halts'
  BY <1>3, Effects DEF Halting, HaltByPi, HaltByVotes, Halt, Finish
<1>4. ASSUME NEW n \in Correct, Step(n)
      PROVE  /\ \A i \in Correct : loop[i] <= loop'[i]
             /\ \A r \in Loop, i \in Correct : r <= loop[i] =>
                  input'[r][i] = input[r][i] /\ proofs'[r][i] = proofs[r][i]
  <2>0. \A i \in Correct : loop[i] \in Int
    BY <1>0 DEF TypeOK, Loop
  <2>1. CASE UNCHANGED inputVars
    BY <2>0, <2>1 DEF inputVars
  <2>2. CASE Moving(n)
    <3>1. PICK v \in Node, ps \in Seq(Proof) : NextLoop(n, v, ps)
      BY <2>2, Entering
    <3>2. \A i \in Correct : loop[i] <= loop'[i]
      BY <1>0, <2>0, <3>1 DEF TypeOK, NextLoop, Following
    <3>3. ASSUME NEW r \in Loop, NEW i \in Correct, r <= loop[i]
          PROVE  ~(r = Following(loop[n]) /\ i = n)
      BY <2>0, <3>3 DEF Following
    <3>4. ASSUME NEW r \in Loop, NEW i \in Correct, r <= loop[i]
          PROVE  input'[r][i] = input[r][i] /\ proofs'[r][i] = proofs[r][i]
      BY <1>0, <3>1, <3>3, <3>4 DEF TypeOK, NextLoop
    <3> QED
      BY <3>2, <3>4
  <2> QED
    BY <1>4, <2>1, <2>2, Effects
<1>5. ASSUME NEW n \in Correct, Step(n)
      PROVE  \A r \in Loop, i \in Correct :
               /\ prevotes[r][i] # "none" => prevotes'[r][i] = prevotes[r][i]
               /\ votes[r][i] # "none" => votes'[r][i] = votes[r][i]
  <2>0. loop[n] \in Loop
    BY <1>0 DEF TypeOK
  <2>1. \A r \in Loop, i \in Correct :
          prevotes[r][i] # "none" => prevotes'[r][i] = prevotes[r][i]
    <3>1. CASE UNCHANGED prevotes
      BY <3>1
    <3>2. CASE Prevote(n)
      <4>1. PICK b \in {"yes", "no"} :
              prevotes' = [prevotes EXCEPT ![loop[n]][n] = b]
        BY <3>2 DEF Prevote
      <4>2. prevotes[loop[n]][n] = "none"
        BY <3>2 DEF Prevote, CoinReady
      <4> QED
        BY <1>0, <2>0, <4>1, <4>2 DEF TypeOK, Ballot
    <3> QED
      BY <1>5, <3>1, <3>2, Effects
  <2>2. \A r \in Loop, i \in Correct :
          votes[r][i] # "none" => votes'[r][i] = votes[r][i]
    <3>1. CASE UNCHANGED votes
      BY <3>1
    <3>2. CASE Vote(n)
      <4>1. PICK b \in {"yes", "no"} : votes' = [votes EXCEPT ![loop[n]][n] = b]
        BY <3>2 DEF Vote
      <4>2. votes[loop[n]][n] = "none"
        BY <3>2 DEF Vote
      <4> QED
        BY <1>0, <2>0, <4>1, <4>2 DEF TypeOK, Ballot
    <3> QED
      BY <1>5, <3>1, <3>2, Effects
  <2> QED
    BY <2>1, <2>2
<1> QED
  BY <1>1, <1>2, <1>3, <1>4, <1>5 DEF Next

LEMMA InputStep == ASSUME IInv, [Next]_vars PROVE InputInv'
<1>0. TypeOK /\ InputInv
  BY DEF IInv
<1>1. CASE UNCHANGED inputVars
  BY <1>0, <1>1 DEF inputVars, InputInv
<1>2. ASSUME NEW n \in Correct, Moving(n) PROVE InputInv'
  <2>1. PICK v \in Node, ps \in Seq(Proof) : NextLoop(n, v, ps)
    BY <1>2, Entering
  <2>2. /\ \A i \in Correct : loop[i] \in Int
        /\ v # None
    BY <1>0, MvbaAssumption DEF TypeOK, Loop
  <2>3. \A i \in Correct : loop'[i] = IF i = n THEN loop[n] + 1 ELSE loop[i]
    BY <1>0, <2>1 DEF TypeOK, NextLoop, Following
  <2>4. \A r \in Loop, i \in Correct :
          input'[r][i] = IF i = n /\ r = loop[n] + 1 THEN v ELSE input[r][i]
    BY <1>0, <2>1 DEF TypeOK, NextLoop, Following
  <2>5. \A r \in Loop : r \in Int
    BY DEF Loop
  <2> QED
    BY <1>0, <2>2, <2>3, <2>4, <2>5 DEF InputInv
<1>3. CASE UNCHANGED vars
  BY <1>1, <1>3 DEF vars
<1> QED
  BY <1>1, <1>2, <1>3, Effects DEF Next

LEMMA OriginalStep == ASSUME IInv, [Next]_vars PROVE OriginalInv'
<1>0. TypeOK /\ OriginalInv
  BY DEF IInv
<1>1. CASE UNCHANGED inputVars
  BY <1>0, <1>1 DEF inputVars, OriginalInv
<1>2. ASSUME NEW n \in Correct, Moving(n) PROVE OriginalInv'
  <2> DEFINE p == loop[n]
  <2>1. PICK v \in Node :
          /\ input' = [input EXCEPT ![p + 1][n] = v]
          /\ \/ v = input[p][n]
             \/ Coin[p] \in Correct /\ v = input[p][Coin[p]]
    BY <1>2, Entering DEF NextLoop, Following
  <2>2. p \in Loop
    BY <1>0 DEF TypeOK
  <2>3. v \in Correct \cup {None}
    BY <1>0, <2>1, <2>2 DEF OriginalInv
  <2> QED
    BY <1>0, <2>1, <2>3 DEF TypeOK, OriginalInv
<1>3. UNCHANGED inputVars \/ \E n \in Correct : Moving(n)
  BY Effects DEF Next, vars
<1> QED
  BY <1>1, <1>2, <1>3

LEMMA SigmaStep == ASSUME IInv, [Next]_vars PROVE SigmaInv'
<1>0. TypeOK /\ SigmaInv
  BY DEF IInv
<1>1. CASE UNCHANGED vars
  BY <1>0, <1>1 DEF vars, inputVars, pbcVars, SigmaInv
<1>2. ASSUME NEW n \in Correct, Step(n) PROVE SigmaInv'
  <2> SUFFICES ASSUME NEW r \in Loop, NEW l \in Correct
               PROVE /\ l \in combined'[r] => <<l, l>> \in sigmas'[r]
                     /\ \A i \in Correct :
                          /\ <<i, l>> \in sigmas'[r] => r <= loop'[l]
                          /\ <<i, l>> \in stored'[r] =>
                               i # l /\ <<i, l>> \in sigmas'[r]
    BY DEF SigmaInv
  <2>0. /\ loop[n] \in Loop /\ r \in Int /\ loop[l] \in Int /\ loop'[l] \in Int
        /\ loop[l] <= loop'[l]
    BY <1>0, TypeStep, Growing DEF TypeOK, Loop
  <2>1. sigmas[r] \subseteq sigmas'[r]
    BY Growing
  <2>2. ASSUME l \in combined'[r] PROVE <<l, l>> \in sigmas'[r]
    <3>1. CASE l \in combined[r]
      BY <1>0, <2>1, <3>1 DEF SigmaInv
    <3>2. CASE Combine(n) /\ l \notin combined[r]
      <4>1. l = n /\ r = loop[n]
        BY <1>0, <2>0, <2>2, <3>2 DEF TypeOK, Combine
      <4> QED
        BY <1>0, <2>0, <3>2, <4>1 DEF TypeOK, Combine
    <3>3. UNCHANGED combined \/ Combine(n)
      BY <1>2, Effects
    <3> QED
      BY <2>2, <3>1, <3>2, <3>3
  <2>3. ASSUME NEW i \in Correct, <<i, l>> \in sigmas'[r] PROVE r <= loop'[l]
    <3>1. CASE <<i, l>> \in sigmas[r]
      <4>1. r <= loop[l]
        BY <1>0, <3>1 DEF SigmaInv
      <4> QED
        BY <2>0, <4>1
    <3>2. CASE Combine(n) /\ <<i, l>> \notin sigmas[r]
      <4>1. l = n /\ r = loop[n]
        BY <1>0, <2>0, <2>3, <3>2 DEF TypeOK, Combine
      <4> QED
        BY <2>0, <4>1
    <3>3. ASSUME NEW k \in Correct, StoreSigma(n, k), <<i, l>> \notin sigmas[r]
          PROVE  r <= loop'[l]
      <4>1. l = k /\ r = loop[n] /\ l \in combined[r]
        BY <1>0, <2>0, <2>3, <3>3 DEF TypeOK, StoreSigma, MayStore
      <4>2. r <= loop[l]
        BY <1>0, <4>1 DEF SigmaInv
      <4> QED
        BY <2>0, <4>2
    <3>4. UNCHANGED sigmas \/ Combine(n) \/ \E k \in Correct : StoreSigma(n, k)
      BY <1>2, Effects
    <3> QED
      BY <2>3, <3>1, <3>2, <3>3, <3>4
  <2>4. ASSUME NEW i \in Correct, <<i, l>> \in stored'[r]
        PROVE  i # l /\ <<i, l>> \in sigmas[r]
    <3>1. CASE <<i, l>> \in stored[r]
      BY <1>0, <3>1 DEF SigmaInv
    <3>2. ASSUME NEW k \in Correct, SendPBC4(n, k), <<i, l>> \notin stored[r]
          PROVE  i # l /\ <<i, l>> \in sigmas[r]
      <4>1. i = n /\ l = k /\ r = loop[n]
        BY <1>0, <2>0, <2>4, <3>2 DEF TypeOK, SendPBC4
      <4> QED
        BY <3>2, <4>1 DEF SendPBC4, MaySend
    <3>3. UNCHANGED stored \/ \E k \in Correct : SendPBC4(n, k)
      BY <1>2, Effects
    <3> QED
      BY <2>4, <3>1, <3>2, <3>3
  <2> QED
    BY <2>1, <2>2, <2>3, <2>4
<1> QED
  BY <1>1, <1>2 DEF Next

LEMMA PiStep == ASSUME IInv, [Next]_vars PROVE PiInv'
<1>0. TypeOK /\ PiInv
  BY DEF IInv
<1>1. CASE UNCHANGED vars
  BY <1>0, <1>1 DEF vars, inputVars, pbcVars, coinVars, PiInv, Senders
<1>2. ASSUME NEW n \in Correct, Step(n),
             NEW r \in Loop, NEW l \in Correct, l \in pis'[r]
      PROVE  l \in combined'[r] /\ Cardinality(Senders(stored'[r], l)) >= max
  <2>1. l \in combined[r] /\ Cardinality(Senders(stored[r], l)) >= max
    <3>1. CASE l \in pis[r]
      BY <1>0, <3>1 DEF PiInv
    <3>2. ASSUME NEW q \in Loop, CombinePi(n, q), l \notin pis[r]
          PROVE  l \in combined[r] /\ Cardinality(Senders(stored[r], l)) >= max
      <4>1. l = n /\ r = q
        BY <1>0, <1>2, <3>2 DEF TypeOK, CombinePi
      <4> QED
        BY <3>2, <4>1 DEF CombinePi, MayCombinePi
    <3>3. UNCHANGED pis \/ \E q \in Loop : CombinePi(n, q)
      BY <1>2, Effects
    <3> QED
      BY <1>2, <3>1, <3>2, <3>3
  <2>2. Senders(stored[r], l) \subseteq Senders(stored'[r], l)
    BY Growing DEF Senders
  <2>3. IsFiniteSet(Senders(stored'[r], l)) /\ IsFiniteSet(Senders(stored[r], l))
    BY MvbaAssumption, FS_Subset DEF Senders, Correct
  <2>4. /\ Cardinality(Senders(stored[r], l)) <= Cardinality(Senders(stored'[r], l))
        /\ Cardinality(Senders(stored[r], l)) \in Nat
        /\ Cardinality(Senders(stored'[r], l)) \in Nat
    BY <2>2, <2>3, FS_Subset, FS_CardinalityType
  <2>5. max \in Int
    BY MvbaAssumption, FS_CardinalityType DEF max
  <2> QED
    BY <2>1, <2>4, <2>5, Growing
<1>3. ASSUME NEW n \in Correct, Step(n), NEW i \in Correct
      PROVE  got'[i] \subseteq pis'[loop'[i]]
  <2>0. loop[i] \in Loop /\ loop[n] \in Loop /\ got[i] \subseteq pis[loop[i]]
    BY <1>0 DEF TypeOK, PiInv
  <2>1. pis[loop[i]] \subseteq pis'[loop[i]]
    BY <2>0, Growing
  <2>2. CASE Moving(n)
    <3>1. PICK v \in Node, ps \in Seq(Proof) : NextLoop(n, v, ps)
      BY <2>2, Entering
    <3>2. /\ got'[i] = IF i = n THEN {} ELSE got[i]
          /\ i # n => loop'[i] = loop[i]
      BY <1>0, <3>1 DEF TypeOK, NextLoop
    <3> QED
      BY <2>0, <2>1, <3>2
  <2>3. CASE UNCHANGED <<loop, got>>
    BY <2>0, <2>1, <2>3
  <2>4. ASSUME NEW l \in Correct, TakePi(n, l) PROVE got'[i] \subseteq pis'[loop'[i]]
    <3>1. UNCHANGED loop /\ l \in pis[loop[n]]
      BY <2>4 DEF TakePi, MayTake, inputVars
    <3>2. got'[i] \subseteq IF i = n THEN got[i] \cup {l} ELSE got[i]
      BY <1>0, <2>4 DEF TypeOK, TakePi
    <3> QED
      BY <2>0, <2>1, <3>1, <3>2
  <2>5. UNCHANGED loop \/ Moving(n)
    BY <1>3, Effects DEF inputVars
  <2>6. UNCHANGED got \/ Moving(n) \/ \E l \in Correct : TakePi(n, l)
    BY <1>3, Effects
  <2> QED
    BY <2>2, <2>3, <2>4, <2>5, <2>6
<1> QED
  BY <1>1, <1>2, <1>3 DEF Next, PiInv

LEMMA PrevoteStep == ASSUME IInv, [Next]_vars PROVE PrevoteInv'
<1>0. TypeOK /\ PrevoteInv /\ SigmaInv
  BY DEF IInv
<1>1. CASE UNCHANGED vars
  BY <1>0, <1>1
     DEF vars, inputVars, pbcVars, coinVars, ballotVars, PrevoteInv
<1>2. ASSUME NEW n \in Correct, Step(n) PROVE PrevoteInv'
  <2> SUFFICES ASSUME NEW r \in Loop, NEW i \in Correct
      PROVE /\ prevotes'[r][i] # "none" => r <= loop'[i] /\ (r = loop'[i] => done'[i])
            /\ prevotes'[r][i] = "yes" => <<i, Coin[r]>> \in sigmas'[r]
            /\ prevotes'[r][i] = "no" =>
                 <<i, Coin[r]>> \notin stored'[r] /\ (i = Coin[r] => i \notin combined'[r])
    BY DEF PrevoteInv
  <2>0. /\ loop[n] \in Loop /\ r \in Int /\ loop[i] \in Int /\ loop'[i] \in Int
        /\ loop[i] <= loop'[i]
    BY <1>0, TypeStep, Growing DEF TypeOK, Loop
  <2>1. CASE Prevote(n) /\ i = n /\ r = loop[n]
    <3>1. /\ prevotes'[r][i] = IF <<i, Coin[r]>> \in sigmas[r] THEN "yes" ELSE "no"
          /\ done[i] /\ UNCHANGED <<inputVars, pbcVars, coinVars>>
      BY <1>0, <2>0, <2>1 DEF TypeOK, Ballot, Prevote, CoinReady
    <3>2. /\ UNCHANGED <<loop, done, sigmas, stored, combined>>
          /\ r <= loop[i]
      BY <2>0, <2>1, <3>1 DEF inputVars, pbcVars, coinVars
    <3>3. /\ <<i, Coin[r]>> \in stored[r] => <<i, Coin[r]>> \in sigmas[r]
          /\ i = Coin[r] /\ i \in combined[r] => <<i, Coin[r]>> \in sigmas[r]
      <4>1. <<i, Coin[r]>> \in stored[r] => Coin[r] \in Correct
        BY <1>0 DEF TypeOK
      <4> QED
        BY <1>0, <4>1 DEF SigmaInv
    <3> QED
      BY <3>1, <3>2, <3>3
  <2>2. CASE ~(Prevote(n) /\ i = n /\ r = loop[n])
    <3>1. prevotes'[r][i] = prevotes[r][i]
      <4>1. CASE UNCHANGED prevotes
        BY <4>1
      <4>2. CASE Prevote(n)
        BY <1>0, <2>0, <2>2, <4>2 DEF TypeOK, Ballot, Prevote
      <4> QED
        BY <1>2, <4>1, <4>2, Effects
    <3>2. ASSUME prevotes[r][i] # "none"
          PROVE  r <= loop'[i] /\ (r = loop'[i] => done'[i])
      <4>1. r <= loop[i] /\ (r = loop[i] => done[i])
        BY <1>0, <3>2 DEF PrevoteInv
      <4>2. ASSUME r = loop'[i] PROVE done'[i]
        <5>1. r = loop[i] /\ done[i] /\ loop'[i] = loop[i]
          BY <2>0, <4>1, <4>2
        <5>2. CASE CloseBroadcasts(n)
          BY <1>0, <5>1, <5>2 DEF TypeOK, CloseBroadcasts
        <5>3. CASE Moving(n)
          <6>1. PICK v \in Node, ps \in Seq(Proof) : NextLoop(n, v, ps)
            BY <5>3, Entering
          <6>2. i # n
            BY <1>0, <2>0, <5>1, <6>1 DEF TypeOK, NextLoop, Following
          <6> QED
            BY <1>0, <5>1, <6>1, <6>2 DEF TypeOK, NextLoop
        <5> QED
          BY <1>2, <5>1, <5>2, <5>3, Effects
      <4> QED
        BY <2>0, <4>1, <4>2
    <3>3. ASSUME prevotes[r][i] = "yes" PROVE <<i, Coin[r]>> \in sigmas'[r]
      BY <1>0, <3>3, Growing DEF PrevoteInv
    <3>4. ASSUME prevotes[r][i] = "no", <<i, Coin[r]>> \in stored'[r] PROVE FALSE
      <4>1. /\ <<i, Coin[r]>> \notin stored[r]
            /\ r = loop[i] => done[i]
        BY <1>0, <3>4 DEF PrevoteInv
      <4>2. PICK k \in Correct : SendPBC4(n, k)
        BY <1>2, <3>4, <4>1, Effects
      <4>3. i = n /\ r = loop[n]
        BY <1>0, <2>0, <3>4, <4>1, <4>2 DEF TypeOK, SendPBC4
      <4> QED
        BY <4>1, <4>2, <4>3 DEF SendPBC4, MaySend
    <3>5. ASSUME prevotes[r][i] = "no", i = Coin[r], i \in combined'[r] PROVE FALSE
      <4>1. /\ i \notin combined[r]
            /\ r = loop[i] => done[i]
        BY <1>0, <3>5 DEF PrevoteInv
      <4>2. Combine(n)
        BY <1>2, <3>5, <4>1, Effects
      <4>3. i = n /\ r = loop[n]
        BY <1>0, <2>0, <3>5, <4>1, <4>2 DEF TypeOK, Combine
      <4> QED
        BY <1>0, <3>5, <4>1, <4>2, <4>3 DEF TypeOK, Combine
    <3> QED
      BY <3>1, <3>2, <3>3, <3>4, <3>5
  <2> QED
    BY <2>1, <2>2
<1> QED
  BY <1>1, <1>2 DEF Next

LEMMA VoteStep == ASSUME IInv, [Next]_vars PROVE VoteInv'
<1>0. TypeOK /\ VoteInv
  BY DEF IInv
<1>1. CASE UNCHANGED vars
  BY <1>0, <1>1 DEF vars, ballotVars, VoteInv
<1>2. ASSUME NEW n \in Correct, Step(n) PROVE VoteInv'
  <2> SUFFICES ASSUME NEW r \in Loop, NEW i \in Correct
      PROVE /\ votes'[r][i] = "yes" => \E j \in Correct : prevotes'[r][j] = "yes"
            /\ votes'[r][i] = "no" =>
                 \E T \in Quorum : \A j \in T : prevotes'[r][j] = "no"
    BY DEF VoteInv
  <2>0. loop[n] \in Loop
    BY <1>0 DEF TypeOK
  <2>1. /\ votes'[r][i] = "yes" => \E j \in Correct : prevotes[r][j] = "yes"
        /\ votes'[r][i] = "no" =>
             \E T \in Quorum : \A j \in T : prevotes[r][j] = "no"
    <3>1. CASE Vote(n) /\ i = n /\ r = loop[n]
      <4>1. PICK S \in Others(n, prevotes[r]) :
              votes'[r][i] = IF VotesYes(n, S) THEN "yes" ELSE "no"
        BY <1>0, <2>0, <3>1 DEF TypeOK, Ballot, Vote
      <4>2. /\ S \in SUBSET (Correct \ {n}) /\ Cardinality(S) = max
            /\ \A j \in S \cup {n} : prevotes[r][j] # "none"
        BY <3>1, <4>1 DEF Others, Vote
      <4>3. max \in Int
        BY MvbaAssumption, FS_CardinalityType DEF max
      <4>4. S \cup {n} \in Quorum
        BY <4>2, <4>3, OthersAndSelf
      <4>5. \A j \in S \cup {n} : prevotes[r][j] \in {"none", "yes", "no"}
        BY <1>0, <4>2 DEF TypeOK, Ballot
      <4>6. CASE VotesYes(n, S)
        BY <3>1, <4>1, <4>2, <4>6 DEF VotesYes
      <4>7. CASE ~VotesYes(n, S)
        BY <3>1, <4>1, <4>2, <4>4, <4>5, <4>7 DEF VotesYes
      <4> QED
        BY <4>6, <4>7
    <3>2. CASE ~(Vote(n) /\ i = n /\ r = loop[n])
      <4>1. votes'[r][i] = votes[r][i]
        <5>1. CASE UNCHANGED votes
          BY <5>1
        <5>2. CASE Vote(n)
          <6>1. \E b \in {"yes", "no"} :
                  votes' = [votes EXCEPT ![loop[n]][n] = b]
            BY <5>2 DEF Vote
          <6> QED
            BY <1>0, <2>0, <3>2, <5>2, <6>1 DEF TypeOK, Ballot
        <5> QED
          BY <1>2, <5>1, <5>2, Effects
      <4> QED
        BY <1>0, <4>1 DEF VoteInv
    <3> QED
      BY <3>1, <3>2
  <2>2. \A j \in Correct :
          prevotes[r][j] \in {"yes", "no"} => prevotes'[r][j] = prevotes[r][j]
    BY Growing
  <2> QED
    BY <2>1, <2>2 DEF Quorum
<1> QED
  BY <1>1, <1>2 DEF Next

\* A quorum of votes stays one.
LEMMA QuorumsStay ==
  ASSUME IInv, [Next]_vars, NEW r \in Loop
  PROVE  (AllNo(r) => AllNo(r)') /\ (AllYes(r) => AllYes(r)')
<1>1. \A j \in Correct : votes[r][j] \in {"yes", "no"} => votes'[r][j] = votes[r][j]
  BY Growing
<1> QED
  BY <1>1 DEF AllNo, AllYes, Quorum

LEMMA InheritStep == ASSUME IInv, [Next]_vars PROVE InheritInv'
<1>0. TypeOK /\ InputInv /\ InheritInv
  BY DEF IInv
<1> SUFFICES ASSUME NEW r \in Loop, NEW q \in Loop, NEW i \in Correct,
                    r < q, input'[q][i] # None, ~AllNo(r)'
             PROVE  Coin[r] \in Correct /\ input'[q][i] = input'[r][Coin[r]]
  BY DEF InheritInv
<1>1. /\ ~AllNo(r) /\ r \in Int /\ q \in Int
      /\ \A k \in Correct : loop[k] \in Int
  BY <1>0, QuorumsStay DEF TypeOK, Loop
<1>2. ASSUME NEW p \in Loop, NEW k \in Correct, r < p, input[p][k] # None
      PROVE  Coin[r] \in Correct /\ input[p][k] = input'[r][Coin[r]]
  <2>1. Coin[r] \in Correct /\ input[p][k] = input[r][Coin[r]]
    BY <1>0, <1>1, <1>2 DEF InheritInv
  <2>2. r <= loop[Coin[r]]
    BY <1>0, <1>2, <2>1 DEF InputInv
  <2> QED
    BY <2>1, <2>2, Growing
<1>3. CASE input'[q][i] = input[q][i]
  BY <1>2, <1>3
<1>4. ASSUME NEW n \in Correct, Moving(n), input'[q][i] # input[q][i]
      PROVE  Coin[r] \in Correct /\ input'[q][i] = input'[r][Coin[r]]
  <2> DEFINE p == loop[n]
  <2>1. PICK v \in Node, ps \in Seq(Proof) :
          /\ NextLoop(n, v, ps)
          /\ \/ v = input[p][n] /\ AllNo(p)
             \/ Coin[p] \in Correct /\ v = input[p][Coin[p]]
    BY <1>4, Entering
  <2>2. /\ i = n /\ q = p + 1 /\ input'[q][i] = v
        /\ p \in Loop /\ p \in Int
    BY <1>0, <1>1, <1>4, <2>1 DEF TypeOK, NextLoop, Following
  <2>3. v # None
    BY MvbaAssumption
  <2>4. CASE r < p
    BY <1>2, <2>1, <2>2, <2>3, <2>4
  <2>5. CASE r = p
    <3>1. Coin[r] \in Correct /\ v = input[r][Coin[r]]
      BY <1>1, <2>1, <2>5
    <3>2. r <= loop[Coin[r]]
      BY <1>0, <2>3, <3>1 DEF InputInv
    <3> QED
      BY <2>2, <3>1, <3>2, Growing
  <2> QED
    BY <1>1, <2>2, <2>4, <2>5
<1>5. UNCHANGED inputVars \/ \E n \in Correct : Moving(n)
  BY Effects DEF Next, vars
<1> QED
  BY <1>3, <1>4, <1>5 DEF inputVars

LEMMA HaltStep == ASSUME IInv, [Next]_vars PROVE HaltInv'
<1>0. TypeOK /\ PiInv /\ HaltInv
  BY DEF IInv
<1>1. ASSUME NEW m \in halts PROVE Coin[m[2]] \in pis'[m[2]] \/ AllYes(m[2])'
  <2>1. m[2] \in Loop
    BY <1>0 DEF TypeOK
  <2>2. Coin[m[2]] \in pis[m[2]] \/ AllYes(m[2])
    BY <1>0 DEF HaltInv
  <2> QED
    BY <2>1, <2>2, QuorumsStay, Growing
<1>2. ASSUME NEW m \in halts PROVE input'[m[2]][Coin[m[2]]] = input[m[2]][Coin[m[2]]]
  <2>1. m[2] \in Loop
    BY <1>0 DEF TypeOK
  <2>2. \/ \E j \in Correct : votes[m[2]][j] = "yes"
        \/ Coin[m[2]] \in pis[m[2]]
    BY <1>0, QuorumMembers DEF HaltInv, AllYes
  <2>3. Coin[m[2]] \in Correct /\ m[2] <= loop[Coin[m[2]]]
    BY <2>1, <2>2, CoinHasInput
  <2> QED
    BY <2>1, <2>3, Growing
<1>3. ASSUME UNCHANGED <<halts, output>>, \/ UNCHANGED taken
                                          \/ \E n \in Correct : TakeHalt(n)
      PROVE  HaltInv'
  <2>1. \A i \in Correct : taken'[i] # NoHalt => \E m \in halts : m[2] = taken'[i]
    <3>1. CASE UNCHANGED taken
      BY <1>0, <3>1 DEF HaltInv
    <3>2. ASSUME NEW n \in Correct, TakeHalt(n), NEW i \in Correct, taken'[i] # NoHalt
          PROVE  \E m \in halts : m[2] = taken'[i]
      <4>1. PICK m \in halts : taken' = [taken EXCEPT ![n] = m[2]]
        BY <3>2 DEF TakeHalt
      <4>2. taken'[i] = IF i = n THEN m[2] ELSE taken[i]
        BY <1>0, <4>1 DEF TypeOK
      <4> QED
        BY <1>0, <3>2, <4>1, <4>2 DEF HaltInv
    <3> QED
      BY <1>3, <3>1, <3>2
  <2> QED
    BY <1>0, <1>1, <1>2, <1>3, <2>1 DEF HaltInv
<1>4. ASSUME NEW n \in Correct, Halting(n) PROVE HaltInv'
  <2>1. PICK r \in Loop : /\ Finish(n, r)
                          /\ Coin[r] \in pis[r] \/ AllYes(r)
                          /\ UNCHANGED <<input, pis, votes, taken>>
    BY <1>4, Outputting DEF inputVars, pbcVars, ballotVars, Finish
  <2>2. /\ halts' = halts \cup {<<n, r>>}
        /\ output' = [output EXCEPT ![n] = input[r][Coin[r]]]
        /\ AllYes(r) => AllYes(r)'
    BY <2>1 DEF Finish, AllYes
  <2>3. \A m \in halts' : Coin[m[2]] \in pis'[m[2]] \/ AllYes(m[2])'
    <3> SUFFICES ASSUME NEW m \in halts', m \notin halts
                 PROVE  Coin[m[2]] \in pis'[m[2]] \/ AllYes(m[2])'
      BY <1>1
    <3>1. m[2] = r
      BY <2>2
    <3> QED
      BY <2>1, <2>2, <3>1
  <2>4. ASSUME NEW i \in Correct, output'[i] # None
        PROVE  \E m \in halts' : output'[i] = input'[m[2]][Coin[m[2]]]
    <3>1. CASE i = n
      <4>1. output'[i] = input'[r][Coin[r]]
        BY <1>0, <2>1, <2>2, <3>1 DEF TypeOK
      <4>2. <<n, r>> \in halts' /\ <<n, r>>[2] = r
        BY <2>2
      <4> QED
        BY <4>1, <4>2
    <3>2. CASE i # n
      <4>1. output'[i] = output[i]
        BY <1>0, <2>2, <3>2 DEF TypeOK
      <4>2. PICK m \in halts : output[i] = input[m[2]][Coin[m[2]]]
        BY <1>0, <2>4, <4>1 DEF HaltInv
      <4> QED
        BY <1>2, <2>2, <4>1, <4>2
    <3> QED
      BY <3>1, <3>2
  <2>5. \A i \in Correct : taken'[i] # NoHalt => \E m \in halts' : m[2] = taken'[i]
    BY <1>0, <2>1, <2>2 DEF HaltInv
  <2> QED
    BY <2>3, <2>4, <2>5 DEF HaltInv
<1>5. \/ UNCHANGED <<halts, output>> /\ UNCHANGED taken
      \/ \E n \in Correct : Step(n)
  BY DEF Next, vars, haltVars
<1>6. ASSUME NEW n \in Correct, Step(n)
      PROVE  \/ Halting(n)
             \/ UNCHANGED <<halts, output>> /\ (UNCHANGED taken \/ TakeHalt(n))
  BY <1>6, Effects
<1> QED
  BY <1>3, <1>4, <1>5, <1>6

LEMMA ProofStep == ASSUME IInv, [Next]_vars PROVE ProofInv'
<1>0. TypeOK /\ InputInv /\ ProofInv
  BY DEF IInv
<1>1. CASE UNCHANGED inputVars
  BY <1>0, <1>1 DEF inputVars, ProofInv, Proved
<1>2. ASSUME NEW n \in Correct, Moving(n) PROVE ProofInv'
  <2> SUFFICES ASSUME NEW r \in Loop, NEW i \in Correct, input'[r][i] # None
               PROVE  /\ r = 0 => Len(proofs'[r][i]) = 0
                      /\ r > 0 => Len(proofs'[r][i]) \in 1 .. r
                      /\ Proved(input'[r][i], proofs'[r][i], r)
    BY DEF ProofInv, Proved
  <2> DEFINE p == loop[n]
  <2>1. PICK v \in Node, ps \in Seq(Proof) :
          /\ NextLoop(n, v, ps)
          /\ \/ v = input[p][n] /\ ps = Append(proofs[p][n], VoteNo(p))
             \/ v = input[p][Coin[p]] /\ ps = <<Sigma(p)>>
    BY <1>2, Entering
  <2>2. p \in Loop /\ p \in Nat /\ r \in Nat
    BY <1>0 DEF TypeOK, Loop
  <2>3. CASE i = n /\ r = p + 1
    <3>1. input'[r][i] = v /\ proofs'[r][i] = ps
      BY <1>0, <2>1, <2>3 DEF TypeOK, NextLoop, Following
    <3>2. CASE v = input[p][Coin[p]] /\ ps = <<Sigma(p)>>
      <4>1. Len(ps) = 1 /\ ps[1] = Sigma(p)
        BY <3>2
      <4>2. r - Len(ps) = p
        BY <2>2, <2>3, <4>1
      <4> QED
        BY <2>2, <2>3, <3>1, <3>2, <4>1, <4>2 DEF Proved, Sigma
    <3>3. CASE v = input[p][n] /\ ps = Append(proofs[p][n], VoteNo(p))
      <4> DEFINE old == proofs[p][n]
                 len == Len(old)
                 from == p - len
      <4>1. old \in Seq(Proof) /\ len \in Nat
        BY <1>0, <2>2 DEF TypeOK
      <4>2. /\ Len(ps) = len + 1
            /\ ps[len + 1] = VoteNo(p)
            /\ \A k \in 1 .. len : ps[k] = old[k]
        BY <3>3, <4>1
      <4>3. /\ r - Len(ps) = from
            /\ from + (len + 1) - 1 = p
        <5>1. len \in Nat /\ Len(ps) = len + 1
          BY <4>1, <4>2
        <5> HIDE DEF len
        <5> QED
          BY <2>2, <2>3, <5>1
      <4>4. /\ p = 0 => len = 0
            /\ p > 0 => len \in 1 .. p
            /\ Proved(v, old, p)
        BY <1>0, <2>2, <3>3, MvbaAssumption DEF ProofInv
      <4>5. CASE p = 0
        <5>1. Len(ps) = 1 /\ ps[1] = VoteNo(0) /\ from = 0
          BY <4>2, <4>4, <4>5
        <5> QED
          BY <2>2, <2>3, <3>1, <4>3, <4>5, <5>1 DEF Proved, VoteNo
      <4>6. CASE p > 0
        <5>1. /\ ps[1] = old[1]
              /\ Len(ps) \in 1 .. r
          <6>1. /\ len \in Nat /\ len \in 1 .. p /\ Len(ps) = len + 1
                /\ \A k \in 1 .. len : ps[k] = old[k]
            BY <2>2, <4>1, <4>2, <4>4, <4>6
          <6> HIDE DEF len, old
          <6> QED
            BY <2>2, <2>3, <6>1
        <5>2. /\ IF old[1].Type
                 THEN old[1].loop = from /\ old[1].leader = Coin[from]
                        /\ old[1].value = v
                 ELSE from = 0 /\ old[1].loop = 0
              /\ \A k \in 2 .. len : ~old[k].Type /\ old[k].loop = from + k - 1
          BY <4>4, <4>6 DEF Proved
        <5>3. ASSUME NEW k \in 2 .. Len(ps)
              PROVE  ~ps[k].Type /\ ps[k].loop = from + k - 1
          <6>1. CASE k \in 2 .. len
            <7>1. k \in 1 .. len
              BY <4>1, <6>1
            <7> QED
              BY <4>2, <5>2, <6>1, <7>1
          <6>2. CASE k = len + 1
            BY <4>2, <4>3, <6>2 DEF VoteNo
          <6> QED
            BY <4>1, <4>2, <6>1, <6>2, SMTT(30)
        <5>4. Proved(v, ps, r)
          BY <4>3, <5>1, <5>2, <5>3 DEF Proved
        <5> QED
          BY <2>2, <2>3, <3>1, <5>1, <5>4
      <4> QED
        BY <2>2, <4>5, <4>6
    <3> QED
      BY <2>1, <3>2, <3>3
  <2>4. CASE ~(i = n /\ r = p + 1)
    <3>1. input'[r][i] = input[r][i] /\ proofs'[r][i] = proofs[r][i]
      BY <1>0, <2>1, <2>2, <2>4 DEF TypeOK, NextLoop, Following
    <3> QED
      BY <1>0, <3>1 DEF ProofInv
  <2> QED
    BY <2>3, <2>4
<1>3. UNCHANGED inputVars \/ \E n \in Correct : Moving(n)
  BY Effects DEF Next, vars
<1> QED
  BY <1>1, <1>2, <1>3

-----------------------------------------------------------------------------
(***************************************************************************)
(* The theorems.                                                           *)
(***************************************************************************)

LEMMA InitIInv == Init => IInv
<1> SUFFICES ASSUME Init PROVE IInv
  OBVIOUS
<1>1. /\ 0 \in Loop /\ \A r \in Loop : r \in Nat
      /\ Correct \subseteq Node /\ None \notin Node
  BY MvbaAssumption DEF Loop, Correct
<1>2. TypeOK
  <2>1. <<>> \in Seq(Proof) /\ <<>> \in Seq(Node)
    OBVIOUS
  <2>2. /\ OldCoins \in [Correct -> Seq(Node)] /\ kept \in [Correct -> SUBSET Loop]
        /\ taken \in [Correct -> Loop \cup {NoHalt}] /\ stopped \in [Correct -> Panic]
    BY <2>1 DEF Init, Panic
  <2> QED
    BY <1>1, <2>1, <2>2 DEF Init, TypeOK, Ballot
<1>3. InputInv /\ OriginalInv
  BY <1>1 DEF Init, InputInv, OriginalInv
<1>4. SigmaInv /\ PiInv
  BY DEF Init, SigmaInv, PiInv
<1>5. PrevoteInv /\ VoteInv
  BY DEF Init, PrevoteInv, VoteInv
<1>6. InheritInv
  BY <1>1 DEF Init, InheritInv
<1>7. HaltInv
  BY DEF Init, HaltInv
<1>8. ProofInv
  BY <1>1 DEF Init, ProofInv, Proved
<1> QED
  BY <1>2, <1>3, <1>4, <1>5, <1>6, <1>7, <1>8 DEF IInv

\* The invariant holds of every reachable state.
THEOREM Invariance == Spec => []IInv
<1>1. IInv /\ [Next]_vars => IInv'
  BY TypeStep, InputStep, OriginalStep, SigmaStep, PiStep, PrevoteStep, VoteStep, InheritStep,
     HaltStep, ProofStep DEF IInv
<1> QED
  BY InitIInv, <1>1, PTL DEF Spec

\* The variables have their types: no node leaves the loops, and what is
\* output or adopted as an input is the input of a node.
THEOREM TypeCorrect == Spec => []TypeOK
<1>1. IInv => TypeOK
  BY DEF IInv
<1> QED
  BY Invariance, <1>1, PTL

LEMMA PiOrNo == ASSUME IInv, NEW r \in Loop, Coin[r] \in pis[r],
                       NEW i \in Correct, votes[r][i] = "no"
                PROVE  FALSE
<1> DEFINE l == Coin[r]
           S == Senders(stored[r], l)
<1>1. l \in Correct
  BY CoinHasInput
<1>2. l \in combined[r] /\ Cardinality(S) >= max
  BY <1>1 DEF IInv, PiInv
<1>3. S \in SUBSET (Correct \ {l})
  BY <1>1 DEF IInv, SigmaInv, Senders
<1>4. S \cup {l} \in Quorum
  BY <1>1, <1>2, <1>3, OthersAndSelf
<1>5. PICK T \in Quorum : \A j \in T : prevotes[r][j] = "no"
  BY DEF IInv, VoteInv
<1>6. PICK x \in Correct : x \in S \cup {l} /\ x \in T
  BY <1>4, <1>5, QuorumMembers
<1>7. <<x, l>> \notin stored[r] /\ (x = l => x \notin combined[r])
  BY <1>5, <1>6 DEF IInv, PrevoteInv
<1> QED
  BY <1>2, <1>6, <1>7 DEF Senders

\* handle_PBC sends PBC4 only while PBC_done is open, handle_finish prevotes
\* only after it is closed: 2f+1 PBC4 behind a pi meet the 2f+1 prevotes
\* behind a vote no.
THEOREM PiCorrect == Spec => []PiForcesYes
<1>1. IInv => PiForcesYes
  BY PiOrNo DEF PiForcesYes
<1> QED
  BY Invariance, <1>1, PTL

LEMMA HaltExcludesNo ==
  ASSUME IInv, NEW m \in halts
  PROVE  /\ m[2] \in Loop /\ Coin[m[2]] \in Correct
         /\ input[m[2]][Coin[m[2]]] # None
         /\ ~AllNo(m[2])
<1>1. m[2] \in Loop
  BY DEF IInv, TypeOK
<1>2. Coin[m[2]] \in pis[m[2]] \/ AllYes(m[2])
  BY DEF IInv, HaltInv
<1>3. AllYes(m[2]) => \E j \in Correct : votes[m[2]][j] = "yes"
  BY QuorumMembers DEF AllYes
<1>4. ASSUME AllNo(m[2]) PROVE FALSE
  <2>1. \E j \in Correct : votes[m[2]][j] = "no"
    BY <1>4, QuorumMembers DEF AllNo
  <2>2. ~AllYes(m[2])
    BY <1>4, QuorumMembers DEF AllNo, AllYes
  <2> QED
    BY <1>1, <1>2, <2>1, <2>2, PiOrNo
<1> QED
  BY <1>1, <1>2, <1>3, <1>4, CoinHasInput

LEMMA HaltInherited == IInv => HaltFixesInput
<1> SUFFICES ASSUME IInv, NEW m \in halts, NEW r \in Loop, NEW i \in Correct,
                    r > m[2], input[r][i] # None
             PROVE  input[r][i] = input[m[2]][Coin[m[2]]]
  BY DEF HaltFixesInput
<1>1. m[2] \in Loop /\ ~AllNo(m[2]) /\ m[2] \in Int /\ r \in Int
  BY HaltExcludesNo DEF Loop
<1> QED
  BY <1>1 DEF IInv, InheritInv

\* handle_finish keeps a node's input only after 2f+1 votes no, which meet the
\* 2f+1 PBC4 or votes yes behind an output.
THEOREM HaltCorrect == Spec => []HaltFixesInput
BY Invariance, HaltInherited, PTL

LEMMA HaltsAgree ==
  ASSUME IInv, NEW m \in halts, NEW k \in halts, m[2] <= k[2]
  PROVE  input[m[2]][Coin[m[2]]] = input[k[2]][Coin[k[2]]]
<1>1. m[2] \in Loop /\ k[2] \in Loop /\ m[2] \in Int /\ k[2] \in Int
  BY HaltExcludesNo DEF Loop
<1>2. Coin[k[2]] \in Correct /\ input[k[2]][Coin[k[2]]] # None
  BY HaltExcludesNo
<1>3. CASE m[2] = k[2]
  BY <1>3
<1>4. CASE k[2] > m[2]
  BY <1>1, <1>2, <1>4, HaltInherited DEF HaltFixesInput
<1> QED
  BY <1>1, <1>3, <1>4

\* The nodes agree, whatever way and in whatever loop handle_finish or
\* handle_halt makes them output.
THEOREM Agreement == Spec => []OutputAgreement
<1>1. IInv => OutputAgreement
  <2> SUFFICES ASSUME IInv, NEW i \in Correct, NEW j \in Correct,
                      output[i] # None, output[j] # None
               PROVE  output[i] = output[j]
    BY DEF OutputAgreement
  <2>1. PICK m \in halts : output[i] = input[m[2]][Coin[m[2]]]
    BY DEF IInv, HaltInv
  <2>2. PICK k \in halts : output[j] = input[k[2]][Coin[k[2]]]
    BY DEF IInv, HaltInv
  <2>3. m[2] \in Int /\ k[2] \in Int
    BY HaltExcludesNo DEF Loop
  <2>4. m[2] <= k[2] \/ k[2] <= m[2]
    BY <2>3
  <2> QED
    BY <2>1, <2>2, <2>4, HaltsAgree
<1> QED
  BY Invariance, <1>1, PTL

\* check_values of a node that has kept the coins right accepts the input of
\* every correct node in every loop.
THEOREM InputsAccepted == Spec => []InputsProved
<1>1. IInv => InputsProved
  <2> SUFFICES ASSUME IInv, NEW r \in Loop, NEW i \in Correct, NEW j \in Correct,
                      input[r][i] # None, RightCoins(j, r), r > 0
               PROVE  CheckValues(j, input[r][i], proofs[r][i], r)
    BY DEF InputsProved, CheckValues, Loop
  <2> DEFINE ps == proofs[r][i]
             from == From(ps, r)
  <2>1. /\ Len(ps) \in 1 .. r /\ r \in Nat
        /\ Proved(input[r][i], ps, r)
    BY DEF IInv, ProofInv, Loop
  <2>2. from \in 0 .. r - 1
    <3>1. Len(ps) \in 1 .. r /\ r \in Nat /\ from = r - Len(ps)
      BY <2>1 DEF From
    <3> HIDE DEF ps, from
    <3> QED
      BY <3>1
  <2>3. from < Len(OldCoins[j]) /\ OldCoins[j][from + 1] = Coin[from]
    BY <2>2 DEF RightCoins
  <2>4. Len(OldCoins[j]) \in Nat
    BY DEF IInv, TypeOK
  <2>5. CoinRead(j, ps, r)
    <3>1. from \in 0 .. Len(OldCoins[j]) - 1
      BY <2>2, <2>3, <2>4
    <3> QED
      BY <3>1 DEF CoinRead
  <2>6. /\ IF ps[1].Type
           THEN ps[1].loop = from /\ ps[1].leader = Coin[from]
                  /\ ps[1].value = input[r][i]
           ELSE from = 0 /\ ps[1].loop = 0
        /\ \A k \in 2 .. Len(ps) : ~ps[k].Type /\ ps[k].loop = from + k - 1
    BY <2>1 DEF Proved, From
  <2>7. ps[1].Type => SigmaFits(j, input[r][i], ps, r)
    BY <2>3, <2>5, <2>6 DEF SigmaFits
  <2>8. VotesFit(ps, r)
    BY <2>6 DEF VotesFit
  <2> QED
    BY <2>7, <2>8 DEF CheckValues
<1> QED
  BY Invariance, <1>1, PTL

LEMMA Deciding ==
  IInv /\ OutputAgreement' /\ [Next]_vars => [Consensus!ANext]_output
<1> SUFFICES ASSUME IInv, OutputAgreement', [Next]_vars, output' # output
             PROVE  Consensus!ANext
  OBVIOUS
<1>1. PICK n \in Correct : Halting(n)
  BY Effects DEF Next, vars, haltVars
<1>2. PICK r \in Loop : /\ Running(n) /\ Finish(n, r)
                        /\ Coin[r] \in pis[r] \/ AllYes(r)
  BY <1>1, Outputting
<1> DEFINE v == input[r][Coin[r]]
<1>3. v \in Correct
  <2>1. Coin[r] \in Correct /\ v # None
    BY <1>2, CoinHasInput, QuorumMembers DEF AllYes
  <2> QED
    BY <2>1 DEF IInv, OriginalInv
<1>4. /\ output[n] = None
      /\ output' = [output EXCEPT ![n] = v]
  BY <1>2 DEF Running, Finish
<1>5. ASSUME NEW j \in Correct PROVE output[j] \in {None, v}
  <2>1. v # None
    BY <1>3, MvbaAssumption DEF Correct
  <2>2. output \in [Correct -> Node \cup {None}]
    BY DEF IInv, TypeOK
  <2>3. output'[n] = v /\ (j # n => output'[j] = output[j])
    BY <1>4, <2>2
  <2> QED
    BY <1>4, <2>1, <2>3 DEF OutputAgreement
<1>6. Consensus!Decide(n, v)
  BY <1>4, <1>5 DEF Consensus!Decide
<1> QED
  BY <1>3, <1>6 DEF Consensus!ANext

\* What handle_finish and handle_halt put on outputCH is one decision: every
\* step of the round is a Decide of MVBAConsensus or leaves the outputs alone.
THEOREM ConsensusImplemented == Spec => ImplementsConsensus
<1>1. Init => Consensus!AInit
  BY DEF Init, Consensus!AInit
<1> QED
  BY Invariance, Agreement, <1>1, Deciding, PTL DEF Spec, ImplementsConsensus,
     Consensus!ASpec
=============================================================================
