----------------------- MODULE BinaryAgreement_proofs -----------------------
(***************************************************************************)
(* Proofs about BinaryAgreement, for any number of nodes, crashed ones,    *)
(* coins and loops.  The safety properties count quorums, which meet only  *)
(* when there are 3f+1 nodes: the theorems about them assume that.         *)
(***************************************************************************)
EXTENDS BinaryAgreement, FiniteSetTheorems, SequenceTheorems, WellFoundedInduction, TLAPS

-----------------------------------------------------------------------------
(***************************************************************************)
(* The inductive invariant.                                                *)
(***************************************************************************)

Deciders(v) == {i \in Correct : Decided(i, v)}

Reached(r) == {i \in Correct : loop[i] >= r}

Relay(i, v) == [node |-> i, value |-> v, why |-> "relayed"]

\* The finish messages of all nodes, broadcast or in a channel.
Sent == {m \in Finish : m \in Signalled(m.node)}

\* A channel holds the signals of its own node.
ChannelInv == \A i \in Correct : \A k \in DOMAIN sig[i] : sig[i][k].node = i

\* Nothing is sent in loops that a node has not reached.  handle_val has one
\* store on its way; after loop 0 its aux is the only one of the loop, and aux
\* 0 is sent after the store.
AuxInv ==
  \A i \in Correct :
    /\ ~\A v \in Bit : <<"handle", v>> \in storing[i]
    /\ loop[i] > 0 /\ aux[loop[i]][i] # {} => auxsent[i]
    /\ 0 \in aux[loop[i]][i] => 0 \in values[i]
    /\ \A r \in Loop :
         /\ aux[r][i] # {} => loop[i] >= r
         /\ r > 0 => ~(0 \in aux[r][i] /\ 1 \in aux[r][i])

\* A node decides the coin of the loop it stays in, which a quorum has reached.
CoinInv ==
  \A i \in Correct, v \in Bit :
    Decided(i, v) =>
      /\ v = Coin(loop[i])
      /\ loop[i] > 0 => Cardinality(Reached(loop[i])) >= Quorum

\* Finish messages that are relayed go back to f+1 nodes that have decided,
\* however often a node has sent its own.
RelayInv ==
  \A i \in Correct, v \in Bit :
    Relay(i, v) \in Sent \/ output[i] = v => Cardinality(Deciders(v)) >= f + 1

IInv ==
  /\ TypeOK
  /\ ChannelInv
  /\ AuxInv
  /\ CoinInv
  /\ RelayInv

-----------------------------------------------------------------------------
\* The nodes that are in loop r with 0 among their values.
Zeros(r) == {i \in Correct : loop[i] = r /\ 0 \in values[i]}

\* When no correct node holds the broadcast of the leader there are no values 1
\* in loop 0; nodes enter a loop with 1 only if they missed the 0 that a quorum
\* has in the loop before, and that quorum follows them nowhere.
ZeroInv ==
  /\ \A i \in Correct :
       /\ 1 \notin signals[i] \cup values[i]
       /\ \A s \in storing[i] : s[2] # 1
       /\ output[i] # 1
       /\ \A r \in Loop : 1 \in val[r][i] => r > 0 /\ Coin(r - 1) = 0 /\ loop[i] >= r
  /\ \A m \in Sent : m.value # 1
  /\ \A r \in Loop :
       Coin(r) = 0 /\ (\E i \in Correct : loop[i] > r) => Cardinality(Zeros(r)) >= Quorum

HeldInv == (\E i \in Correct : Held(i)) \/ ZeroInv

-----------------------------------------------------------------------------
(***************************************************************************)
(* Counting.                                                               *)
(***************************************************************************)

LEMMA Numbers ==
  /\ f \in Nat /\ Quorum = 2 * f + 1
  /\ Cardinality(Node) \in Nat /\ 3 * f + 1 <= Cardinality(Node)
<1>1. Cardinality(Node) \in Nat /\ Cardinality(Node) # 0
  BY BAAssumption, FS_CardinalityType, FS_EmptySet
<1> QED
  BY <1>1 DEF f, Quorum

LEMMA Counted ==
  ASSUME NEW S \in SUBSET Correct
  PROVE  IsFiniteSet(S) /\ Cardinality(S) \in Nat
<1>1. S \in SUBSET Node
  BY DEF Correct
<1> QED
  BY <1>1, BAAssumption, FS_Subset, FS_CardinalityType

LEMMA LeastNumber ==
  ASSUME NEW S \in SUBSET Nat, S # {}
  PROVE  \E m \in S : \A n \in S : m <= n
<1>1. PICK m \in S : \A n \in S : <<n, m>> \notin OpToRel(<, Nat)
  BY NatLessThanWellFounded, WFMin
<1>2. ASSUME NEW n \in S PROVE m <= n
  <2>1. <<n, m>> \notin {ss \in Nat \X Nat : ss[1] < ss[2]}
    BY <1>1 DEF OpToRel
  <2> QED
    BY <2>1
<1> QED
  BY <1>2

LEMMA CountGrows ==
  ASSUME NEW T \in SUBSET Correct, NEW S \in SUBSET T
  PROVE  Cardinality(S) <= Cardinality(T)
BY Counted, FS_Subset

LEMMA CountOne ==
  ASSUME NEW S \in SUBSET Correct, Cardinality(S) >= 1
  PROVE  S # {}
BY FS_EmptySet

\* Two sets without a node in common.
LEMMA Apart ==
  ASSUME NEW S \in SUBSET Correct, NEW T \in SUBSET Correct, S \cap T = {}
  PROVE  /\ Cardinality(S) + Cardinality(T) = Cardinality(S \cup T)
         /\ Cardinality(S) + Cardinality(T) <= Cardinality(Node)
<1>1. S \cup T \in SUBSET Node
  BY DEF Correct
<1>2. Cardinality(S \cup T) <= Cardinality(Node)
  BY <1>1, BAAssumption, FS_Subset
<1>3. Cardinality(S \cup T) = Cardinality(S) + Cardinality(T) - Cardinality(S \cap T)
  BY Counted, FS_Union
<1>4. Cardinality(S \cap T) = 0
  BY FS_EmptySet
<1> QED
  BY <1>2, <1>3, <1>4, Counted

-----------------------------------------------------------------------------
(***************************************************************************)
(* What a step changes.                                                    *)
(***************************************************************************)

LEMMA Coins == \A r \in Loop : Coin(r) \in Bit
BY DEF Coin, Bit

LEMMA StepOfNode ==
  ASSUME Next
  PROVE  \E i \in Correct : Step(i)
BY DEF Next

\* A signal to send finish adds one message, to the broadcast ones or to the
\* channel of its node.
LEMMA SignalStep ==
  ASSUME TypeOK, ChannelInv, NEW m \in Finish, Signal(m)
  PROVE  /\ sig' \in [Correct -> Seq(Finish)] /\ fin' \subseteq Finish
         /\ ChannelInv'
         /\ Sent' = Sent \cup {m}
<1>1. m.node \in Correct /\ sig[m.node] \in Seq(Finish)
  BY DEF Finish, TypeOK
<1>2. CASE Waiting(m.node)
  <2>1. fin' = fin \cup {m} /\ sig' = sig
    BY <1>2 DEF Signal
  <2> QED
    BY <2>1 DEF TypeOK, ChannelInv, Sent, Signalled
<1>3. CASE ~Waiting(m.node)
  <2>1. /\ fin' = fin /\ sig' = [sig EXCEPT ![m.node] = Append(sig[m.node], m)]
        /\ sig \in [Correct -> Seq(Finish)]
    BY <1>3 DEF Signal, TypeOK
  <2>2. sig'[m.node] = Append(sig[m.node], m) /\ \A i \in Correct \ {m.node} : sig'[i] = sig[i]
    BY <1>1, <2>1
  <2>3. /\ DOMAIN sig'[m.node] = 1 .. Len(sig[m.node]) + 1
        /\ DOMAIN sig[m.node] = 1 .. Len(sig[m.node])
        /\ sig'[m.node][Len(sig[m.node]) + 1] = m
        /\ \A k \in 1 .. Len(sig[m.node]) : sig'[m.node][k] = sig[m.node][k]
        /\ Len(sig[m.node]) \in Nat
    BY <1>1, <2>2
  <2>4. sig' \in [Correct -> Seq(Finish)]
    BY <1>1, <2>1
  <2>5. ChannelInv'
    <3>1. ASSUME NEW k \in DOMAIN sig'[m.node] PROVE sig'[m.node][k].node = m.node
      <4>1. k \in 1 .. Len(sig[m.node]) \/ k = Len(sig[m.node]) + 1
        BY <2>3
      <4> QED
        BY <1>1, <2>3, <4>1 DEF ChannelInv
    <3> QED
      BY <2>2, <3>1 DEF ChannelInv
  <2>6. \A n \in Finish : n.node \in Correct
    BY DEF Finish
  <2>7. ASSUME NEW n \in Finish
        PROVE  n \in Signalled(n.node)' <=> n \in Signalled(n.node) \/ n = m
    <3>1. CASE n.node # m.node
      BY <2>1, <2>2, <2>6, <3>1 DEF Signalled
    <3>2. CASE n.node = m.node
      <4>1. n \in Signalled(m.node) <=> n \in fin \/ \E k \in DOMAIN sig[m.node] : sig[m.node][k] = n
        BY DEF Signalled
      <4>2. n \in Signalled(m.node)'
              <=> n \in fin' \/ \E k \in DOMAIN sig'[m.node] : sig'[m.node][k] = n
        BY DEF Signalled
      <4>3. Len(sig[m.node]) + 1 \in DOMAIN sig'[m.node]
        BY <2>3
      <4>4. \A k \in DOMAIN sig[m.node] : k \in DOMAIN sig'[m.node] /\ sig'[m.node][k] = sig[m.node][k]
        BY <2>3
      <4>5. \A k \in DOMAIN sig'[m.node] : k \in DOMAIN sig[m.node] \/ k = Len(sig[m.node]) + 1
        BY <2>3
      <4>6. ASSUME n \in Signalled(m.node)' PROVE n \in Signalled(m.node) \/ n = m
        BY <2>1, <2>3, <4>1, <4>2, <4>4, <4>5, <4>6
      <4>7. ASSUME n \in Signalled(m.node) \/ n = m PROVE n \in Signalled(m.node)'
        BY <2>1, <2>3, <4>1, <4>2, <4>3, <4>4, <4>7
      <4> QED
        BY <3>2, <4>6, <4>7
    <3> QED
      BY <3>1, <3>2
  <2> QED
    BY <2>1, <2>4, <2>5, <2>7 DEF TypeOK, Sent
<1> QED
  BY <1>2, <1>3

\* The goroutine of the next loop adds no message.
LEMMA TakeStep ==
  ASSUME TypeOK, ChannelInv, NEW i \in Correct, TakeSignal(i)
  PROVE  /\ sig' \in [Correct -> Seq(Finish)] /\ fin' \subseteq Finish
         /\ ChannelInv'
         /\ Sent' = Sent
<1>1. sig[i] \in Seq(Finish)
  BY DEF TypeOK
<1>2. CASE sig[i] = <<>>
  BY <1>2 DEF TakeSignal, TypeOK, ChannelInv, Sent, Signalled
<1>3. CASE sig[i] # <<>>
  <2>1. /\ fin' = fin \cup {Head(sig[i])} /\ sig' = [sig EXCEPT ![i] = Tail(sig[i])]
        /\ sig \in [Correct -> Seq(Finish)]
    BY <1>3 DEF TakeSignal, TypeOK
  <2>2. sig'[i] = Tail(sig[i]) /\ \A j \in Correct \ {i} : sig'[j] = sig[j]
    BY <2>1
  <2>3. /\ Head(sig[i]) = sig[i][1] /\ Head(sig[i]) \in Finish /\ Tail(sig[i]) \in Seq(Finish)
        /\ DOMAIN sig[i] = 1 .. Len(sig[i]) /\ Len(sig[i]) \in Nat /\ Len(sig[i]) > 0
        /\ DOMAIN sig'[i] = 1 .. Len(sig[i]) - 1
        /\ \A k \in 1 .. Len(sig[i]) - 1 : sig'[i][k] = sig[i][k + 1]
    BY <1>1, <1>3, <2>2
  <2>4. Head(sig[i]).node = i
    BY <2>3 DEF ChannelInv
  <2>5. sig' \in [Correct -> Seq(Finish)] /\ fin' \subseteq Finish
    BY <2>1, <2>3 DEF TypeOK
  <2>6. ChannelInv'
    <3>1. ASSUME NEW k \in DOMAIN sig'[i] PROVE sig'[i][k].node = i
      <4>1. k \in 1 .. Len(sig[i]) - 1 /\ k + 1 \in DOMAIN sig[i]
        BY <2>3
      <4> QED
        BY <2>3, <4>1 DEF ChannelInv
    <3> QED
      BY <2>2, <3>1 DEF ChannelInv
  <2>7. ASSUME NEW n \in Finish
        PROVE  n \in Signalled(n.node)' <=> n \in Signalled(n.node)
    <3>1. n.node \in Correct
      BY DEF Finish
    <3>2. CASE n.node # i
      BY <2>1, <2>2, <2>4, <3>1, <3>2 DEF Signalled
    <3>3. CASE n.node = i
      <4>1. ASSUME NEW k \in DOMAIN sig[i], sig[i][k] = n
            PROVE  n = Head(sig[i]) \/ \E l \in DOMAIN sig'[i] : sig'[i][l] = n
        <5>1. CASE k = 1
          BY <2>3, <4>1, <5>1
        <5>2. CASE k # 1
          <6>1. k - 1 \in DOMAIN sig'[i] /\ sig'[i][k - 1] = n
            BY <2>3, <4>1, <5>2
          <6> QED
            BY <6>1
        <5> QED
          BY <5>1, <5>2
      <4>2. ASSUME NEW l \in DOMAIN sig'[i], sig'[i][l] = n
            PROVE  \E k \in DOMAIN sig[i] : sig[i][k] = n
        BY <2>3, <4>2
      <4>3. 1 \in DOMAIN sig[i]
        BY <2>3
      <4>4. n \in Signalled(i) <=> n \in fin \/ \E k \in DOMAIN sig[i] : sig[i][k] = n
        BY DEF Signalled
      <4>5. n \in Signalled(i)' <=> n \in fin' \/ \E k \in DOMAIN sig'[i] : sig'[i][k] = n
        BY DEF Signalled
      <4> QED
        BY <2>1, <2>3, <3>3, <4>1, <4>2, <4>3, <4>4, <4>5
    <3> QED
      BY <3>2, <3>3
  <2> QED
    BY <2>5, <2>6, <2>7 DEF Sent
<1> QED
  BY <1>2, <1>3

\* What is sent and stored are bits.
LEMMA Bits ==
  ASSUME TypeOK, NEW i \in Correct
  PROVE  /\ \A r \in Loop, v \in Bit :
              /\ WithAux(r, v) \subseteq Bit
              /\ WithStore(r, v) \subseteq {"handle", "own"} \X Bit
         /\ \A s \in storing[i] :
              /\ s \in {"handle", "own"} \X Bit /\ s[2] \in Bit
              /\ AuxAfter(i, s) \subseteq Bit
         /\ Readable(i) \subseteq SUBSET Bit
         /\ values[i] \subseteq Bit /\ signals[i] \subseteq Bit
         /\ loop[i] \in Loop /\ loop[i] \in Nat /\ Coin(loop[i]) \in Bit
<1>1. \A s \in storing[i] : s \in {"handle", "own"} \X Bit /\ s[2] \in Bit
  BY DEF TypeOK
<1>2. \A s \in storing[i] : AuxAfter(i, s) \subseteq Bit
  BY <1>1 DEF AuxAfter
<1>3. \A r \in Loop, v \in Bit : WithAux(r, v) \subseteq Bit
  BY DEF WithAux, Bit
<1>4. \A r \in Loop, v \in Bit : WithStore(r, v) \subseteq {"handle", "own"} \X Bit
  BY DEF WithStore, Bit
<1>5. values[i] \subseteq Bit /\ signals[i] \subseteq Bit /\ loop[i] \in Loop
  BY DEF TypeOK
<1>6. Readable(i) \subseteq SUBSET Bit
  BY <1>1, <1>5 DEF Readable
<1>7. loop[i] \in Nat
  BY <1>5, BAAssumption DEF Loop
<1> QED
  BY <1>1, <1>2, <1>3, <1>4, <1>5, <1>6, <1>7, Coins

LEMMA StepTypes ==
  ASSUME TypeOK, ChannelInv, NEW i \in Correct, Step(i)
  PROVE  TypeOK' /\ ChannelInv'
<1> USE Bits
<1>1. CASE SecondVal(i)
  <2>1. 0 \in Loop /\ 1 \in Bit
    BY BAAssumption DEF Loop, Bit
  <2>2. UNCHANGED sig
    BY <1>1 DEF SecondVal, finishVars
  <2>3. ChannelInv'
    BY <2>2 DEF ChannelInv
  <2>4. aux' \in [Loop -> [Correct -> SUBSET Bit]]
    BY <1>1, <2>1 DEF SecondVal, TypeOK
  <2>5. storing' \in [Correct -> SUBSET ({"handle", "own"} \X Bit)]
    BY <1>1, <2>1 DEF SecondVal, TypeOK
  <2> QED
    BY <1>1, <2>3, <2>4, <2>5 DEF SecondVal, TypeOK, finishVars
<1>2. ASSUME NEW v \in Bit, SendVal(i, v) PROVE TypeOK' /\ ChannelInv'
  <2>1. UNCHANGED <<first, second, loop, conf, signals, values, auxsent, sig, fin, output>>
    BY <1>2 DEF SendVal, finishVars
  <2>2. ChannelInv'
    BY <2>1 DEF ChannelInv
  <2>3. val' \in [Loop -> [Correct -> SUBSET Bit]]
    BY <1>2 DEF SendVal, TypeOK
  <2>4. aux' \in [Loop -> [Correct -> SUBSET Bit]]
    BY <1>2 DEF SendVal, TypeOK
  <2>5. storing' \in [Correct -> SUBSET ({"handle", "own"} \X Bit)]
    BY <1>2 DEF SendVal, TypeOK
  <2> QED
    BY <2>1, <2>2, <2>3, <2>4, <2>5 DEF TypeOK
<1>3. ASSUME NEW v \in Bit, ValueReady(i, v) PROVE TypeOK' /\ ChannelInv'
  <2>1. UNCHANGED <<first, second, loop, val, aux, conf, values, auxsent, sig, fin, output>>
    BY <1>3 DEF ValueReady, finishVars
  <2>2. ChannelInv'
    BY <2>1 DEF ChannelInv
  <2>3. storing' \in [Correct -> SUBSET ({"handle", "own"} \X Bit)]
    BY <1>3 DEF ValueReady, TypeOK
  <2>4. signals' \in [Correct -> SUBSET Bit]
    BY <1>3 DEF ValueReady, TypeOK
  <2> QED
    BY <2>1, <2>2, <2>3, <2>4 DEF TypeOK
<1>4. ASSUME NEW s \in storing[i], StoreValue(i, s) PROVE TypeOK' /\ ChannelInv'
  <2>1. UNCHANGED <<first, second, loop, val, conf, signals, sig, fin, output>>
    BY <1>4 DEF StoreValue, finishVars
  <2>2. ChannelInv'
    BY <2>1 DEF ChannelInv
  <2>3. aux' \in [Loop -> [Correct -> SUBSET Bit]]
    BY <1>4 DEF StoreValue, TypeOK
  <2>4. storing' \in [Correct -> SUBSET ({"handle", "own"} \X Bit)]
    BY <1>4 DEF StoreValue, TypeOK
  <2>5. values' \in [Correct -> SUBSET Bit] /\ auxsent' \in [Correct -> BOOLEAN]
    BY <1>4 DEF StoreValue, TypeOK
  <2> QED
    BY <2>1, <2>2, <2>3, <2>4, <2>5 DEF TypeOK
<1>5. CASE SendConf(i)
  <2>1. UNCHANGED <<first, second, loop, val, aux, localVars, finishVars>>
    BY <1>5 DEF SendConf
  <2>2. ChannelInv'
    BY <2>1 DEF ChannelInv, finishVars
  <2>3. conf' \in [Loop -> [Correct -> SUBSET SUBSET Bit]]
    BY <1>5 DEF SendConf, TypeOK
  <2> QED
    BY <2>1, <2>2, <2>3 DEF TypeOK, localVars, finishVars
<1>6. ASSUME NEW in \in Bit, NextLoop(i, in) PROVE TypeOK' /\ ChannelInv'
  <2>1. UNCHANGED <<first, second, output>> /\ TakeSignal(i)
    BY <1>6 DEF NextLoop
  <2>2. sig' \in [Correct -> Seq(Finish)] /\ fin' \subseteq Finish /\ ChannelInv'
    BY <2>1, TakeStep
  <2>3. loop[i] + 1 \in Loop
    BY <1>6, BAAssumption DEF NextLoop, Loop
  <2>4. loop' \in [Correct -> Loop]
    BY <1>6, <2>3 DEF NextLoop, TypeOK
  <2>5. val' \in [Loop -> [Correct -> SUBSET Bit]]
    BY <1>6, <2>3 DEF NextLoop, TypeOK
  <2>6. UNION {AuxAfter(i, s) : s \in storing[i]} \subseteq Bit
    OBVIOUS
  <2>7. aux' \in [Loop -> [Correct -> SUBSET Bit]]
    BY <1>6, <2>6 DEF NextLoop, TypeOK
  <2>8. conf' \in [Loop -> [Correct -> SUBSET SUBSET Bit]]
    <3>1. PICK C \in Readable(i) :
            conf' = [conf EXCEPT ![loop[i]][i] = IF @ = {} THEN {C} ELSE @]
      BY <1>6 DEF NextLoop
    <3> QED
      BY <3>1 DEF TypeOK
  <2>9. /\ signals' \in [Correct -> SUBSET Bit] /\ values' \in [Correct -> SUBSET Bit]
        /\ auxsent' \in [Correct -> BOOLEAN]
        /\ storing' \in [Correct -> SUBSET ({"handle", "own"} \X Bit)]
    BY <1>6 DEF NextLoop, TypeOK
  <2> QED
    BY <2>1, <2>2, <2>4, <2>5, <2>7, <2>8, <2>9 DEF TypeOK
<1>7. ASSUME NEW m \in Finish, Signal(m),
             UNCHANGED <<first, second, loop, val, aux, conf, localVars, output>>
      PROVE  TypeOK' /\ ChannelInv'
  <2>1. sig' \in [Correct -> Seq(Finish)] /\ fin' \subseteq Finish /\ ChannelInv'
    BY <1>7, SignalStep
  <2> QED
    BY <1>7, <2>1 DEF TypeOK, localVars
<1>8. CASE Toss(i)
  <2>1. 1 - Coin(loop[i]) \in Bit
    BY DEF Bit
  <2>2. \/ NextLoop(i, Coin(loop[i])) \/ NextLoop(i, 1 - Coin(loop[i]))
        \/ Decide(i, Coin(loop[i]))
    BY <1>8 DEF Toss
  <2>3. [node |-> i, value |-> Coin(loop[i]), why |-> "decided"] \in Finish
    BY DEF Finish
  <2> QED
    BY <1>6, <1>7, <2>1, <2>2, <2>3 DEF Decide
<1>9. ASSUME NEW v \in Bit, RelayFinish(i, v) PROVE TypeOK' /\ ChannelInv'
  <2>1. Relay(i, v) \in Finish
    BY DEF Finish, Relay
  <2> QED
    BY <1>7, <1>9, <2>1 DEF RelayFinish, Relay
<1>10. ASSUME NEW v \in Bit, Output(i, v) PROVE TypeOK' /\ ChannelInv'
  <2>1. UNCHANGED <<first, second, loop, val, aux, conf, localVars, sig, fin>>
    BY <1>10 DEF Output
  <2>2. ChannelInv'
    BY <2>1 DEF ChannelInv
  <2>3. output' \in [Correct -> {None} \cup Bit]
    BY <1>10 DEF Output, TypeOK
  <2> QED
    BY <2>1, <2>2, <2>3 DEF TypeOK, localVars
<1> QED
  BY <1>1, <1>2, <1>3, <1>4, <1>5, <1>8, <1>9, <1>10 DEF Step

\* The main loop goes on or decides.
LEMMA TossCases ==
  ASSUME TypeOK, NEW i \in Correct, Toss(i)
  PROVE  /\ InLoop(i) /\ AuxReady(i) /\ ConfReady(i)
         /\ \/ \E in \in Bit : NextLoop(i, in)
            \/ /\ Decide(i, Coin(loop[i]))
               /\ [node |-> i, value |-> Coin(loop[i]), why |-> "decided"] \in Finish
<1>1. Coin(loop[i]) \in Bit /\ 1 - Coin(loop[i]) \in Bit
  BY Bits DEF Bit
<1>2. [node |-> i, value |-> Coin(loop[i]), why |-> "decided"] \in Finish
  BY <1>1 DEF Finish
<1> QED
  BY <1>1, <1>2 DEF Toss

\* A step of a node changes nothing of the others.
LEMMA Others ==
  ASSUME TypeOK, NEW i \in Correct, Step(i), NEW j \in Correct, j # i
  PROVE  /\ loop'[j] = loop[j] /\ values'[j] = values[j] /\ signals'[j] = signals[j]
         /\ storing'[j] = storing[j] /\ auxsent'[j] = auxsent[j]
         /\ output'[j] = output[j] /\ first'[j] = first[j] /\ second'[j] = second[j]
         /\ \A r \in Loop : /\ val'[r][j] = val[r][j]
                            /\ aux'[r][j] = aux[r][j]
                            /\ conf'[r][j] = conf[r][j]
<1> DEFINE Kept ==
         /\ loop'[j] = loop[j] /\ values'[j] = values[j] /\ signals'[j] = signals[j]
         /\ storing'[j] = storing[j] /\ auxsent'[j] = auxsent[j]
         /\ output'[j] = output[j] /\ first'[j] = first[j] /\ second'[j] = second[j]
         /\ \A r \in Loop : /\ val'[r][j] = val[r][j]
                            /\ aux'[r][j] = aux[r][j]
                            /\ conf'[r][j] = conf[r][j]
<1> USE Bits DEF localVars, finishVars
<1>1. SecondVal(i) => Kept
  BY DEF SecondVal, TypeOK
<1>2. ASSUME NEW v \in Bit, SendVal(i, v) PROVE Kept
  BY <1>2 DEF SendVal, TypeOK
<1>3. ASSUME NEW v \in Bit, ValueReady(i, v) PROVE Kept
  BY <1>3 DEF ValueReady, TypeOK
<1>4. ASSUME NEW s \in storing[i], StoreValue(i, s) PROVE Kept
  BY <1>4 DEF StoreValue, TypeOK
<1>5. SendConf(i) => Kept
  BY DEF SendConf, TypeOK
<1>6. ASSUME NEW in \in Bit, NextLoop(i, in) PROVE Kept
  <2>1. loop'[j] = loop[j] /\ \A r \in Loop : val'[r][j] = val[r][j]
    BY <1>6 DEF NextLoop, TypeOK
  <2>2. \A r \in Loop : aux'[r][j] = aux[r][j]
    BY <1>6 DEF NextLoop, TypeOK
  <2>3. \A r \in Loop : conf'[r][j] = conf[r][j]
    BY <1>6 DEF NextLoop, TypeOK
  <2>4. /\ values'[j] = values[j] /\ signals'[j] = signals[j]
        /\ storing'[j] = storing[j] /\ auxsent'[j] = auxsent[j]
        /\ output'[j] = output[j] /\ first'[j] = first[j] /\ second'[j] = second[j]
    BY <1>6 DEF NextLoop, TypeOK
  <2> QED
    BY <2>1, <2>2, <2>3, <2>4
<1>7. Toss(i) => Kept
  BY <1>6, TossCases DEF Decide
<1>8. ASSUME NEW v \in Bit, RelayFinish(i, v) \/ Output(i, v) PROVE Kept
  BY <1>8 DEF RelayFinish, Output, TypeOK
<1> QED
  BY <1>1, <1>2, <1>3, <1>4, <1>5, <1>7, <1>8 DEF Step

\* What the next loop starts with.
LEMMA LoopStarts ==
  ASSUME TypeOK, NEW i \in Correct, NEW in \in Bit, NextLoop(i, in)
  PROVE  /\ loop[i] + 1 \in Loop /\ loop'[i] = loop[i] + 1
         /\ values'[i] = {} /\ signals'[i] = {} /\ storing'[i] = {} /\ auxsent'[i] = FALSE
         /\ UNCHANGED <<first, second, output>>
         /\ \A r \in Loop :
              /\ val'[r][i] = IF r = loop[i] + 1 THEN {in} ELSE val[r][i]
              /\ aux'[r][i] = aux[r][i] \cup
                   IF r = loop[i] THEN UNION {AuxAfter(i, s) : s \in storing[i]} ELSE {}
<1>1. loop[i] + 1 \in Loop /\ loop'[i] = loop[i] + 1
  BY Bits, BAAssumption DEF NextLoop, Loop, TypeOK
<1>2. /\ values'[i] = {} /\ signals'[i] = {} /\ storing'[i] = {} /\ auxsent'[i] = FALSE
      /\ UNCHANGED <<first, second, output>>
  BY DEF NextLoop, TypeOK
<1>3. \A r \in Loop : val'[r][i] = IF r = loop[i] + 1 THEN {in} ELSE val[r][i]
  BY Bits, <1>1 DEF NextLoop, TypeOK
<1>4. \A r \in Loop : aux'[r][i] = aux[r][i] \cup
                   IF r = loop[i] THEN UNION {AuxAfter(i, s) : s \in storing[i]} ELSE {}
  BY Bits, <1>1 DEF NextLoop, TypeOK
<1> QED
  BY <1>1, <1>2, <1>3, <1>4

LEMMA AuxStep ==
  ASSUME TypeOK, AuxInv, NEW i \in Correct, Step(i)
  PROVE  AuxInv'
<1> DEFINE OneStore(j) == ~\A v \in Bit : <<"handle", v>> \in storing[j]
           SentOnce(j) == loop[j] > 0 /\ aux[loop[j]][j] # {} => auxsent[j]
           AfterStore(j) == 0 \in aux[loop[j]][j] => 0 \in values[j]
           InOrder(j) == \A r \in Loop : aux[r][j] # {} => loop[j] >= r
           OneAux(j) == \A r \in Loop : r > 0 => ~(0 \in aux[r][j] /\ 1 \in aux[r][j])
           Auxs(j) == OneStore(j) /\ SentOnce(j) /\ AfterStore(j) /\ InOrder(j) /\ OneAux(j)
<1>0. OneStore(i) /\ SentOnce(i) /\ AfterStore(i) /\ InOrder(i) /\ OneAux(i)
  BY DEF AuxInv
<1>1. ASSUME NEW j \in Correct, j # i PROVE Auxs(j)'
  <2>1. Auxs(j) /\ loop[j] \in Loop
    BY Bits DEF AuxInv
  <2> QED
    BY <1>1, <2>1, Others
<1>a. ASSUME NEW New, loop' = loop,
             \A r \in Loop : aux'[r][i] = aux[r][i] \cup IF r = loop[i] THEN New ELSE {}
      PROVE  /\ InOrder(i)'
             /\ aux'[loop[i]][i] = aux[loop[i]][i] \cup New
             /\ \A r \in Loop \ {loop[i]} : aux'[r][i] = aux[r][i]
  <2>1. \A r \in Loop : r \in Int
    BY DEF Loop
  <2>2. aux'[loop[i]][i] = aux[loop[i]][i] \cup New
    BY <1>a, Bits
  <2>3. \A r \in Loop \ {loop[i]} : aux'[r][i] = aux[r][i]
    BY <1>a
  <2> QED
    BY <1>0, <1>a, <2>1, <2>2, <2>3, Bits
<1>2. ASSUME SecondVal(i) PROVE Auxs(i)'
  <2>1. 0 \in Loop
    BY BAAssumption DEF Loop
  <2>2. /\ loop' = loop /\ loop[i] = 0 /\ values' = values /\ auxsent' = auxsent
        /\ storing'[i] = storing[i] \cup {<<"own", 1>>}
        /\ \A r \in Loop :
             aux'[r][i] = aux[r][i] \cup IF r = loop[i] THEN {1} ELSE {}
    BY <1>2, <2>1 DEF SecondVal, TypeOK
  <2>3. /\ InOrder(i)'
        /\ aux'[0][i] = aux[0][i] \cup {1}
        /\ \A r \in Loop \ {0} : aux'[r][i] = aux[r][i]
    BY <1>a, <2>2
  <2>4. OneStore(i)' /\ SentOnce(i)'
    BY <1>0, <2>2
  <2>5. AfterStore(i)'
    BY <1>0, <2>2, <2>3
  <2>6. OneAux(i)'
    BY <1>0, <2>3
  <2> QED
    BY <2>3, <2>4, <2>5, <2>6
<1>3. ASSUME NEW v \in Bit, SendVal(i, v) PROVE Auxs(i)'
  <2>1. /\ loop' = loop /\ values' = values /\ auxsent' = auxsent
        /\ storing'[i] = storing[i] \cup WithStore(loop[i], v)
        /\ \A r \in Loop :
             aux'[r][i] = aux[r][i] \cup IF r = loop[i] THEN WithAux(loop[i], v) ELSE {}
    BY <1>3, Bits DEF SendVal, TypeOK
  <2>2. /\ InOrder(i)'
        /\ aux'[loop[i]][i] = aux[loop[i]][i] \cup WithAux(loop[i], v)
        /\ \A r \in Loop \ {loop[i]} : aux'[r][i] = aux[r][i]
    BY <1>a, <2>1
  <2>3. 0 \notin WithAux(loop[i], v) /\ (loop[i] > 0 => WithAux(loop[i], v) = {})
    BY Bits DEF WithAux
  <2>4. \A u \in Bit : <<"handle", u>> \notin WithStore(loop[i], v)
    BY DEF WithStore
  <2>5. OneStore(i)' /\ AfterStore(i)'
    BY <1>0, <2>1, <2>2, <2>3, <2>4
  <2>6. loop[i] > 0 => aux'[loop[i]][i] = aux[loop[i]][i]
    BY <2>2, <2>3
  <2>7. SentOnce(i)'
    BY <1>0, <2>1, <2>6
  <2>8. OneAux(i)'
    BY <1>0, <2>2, <2>6
  <2> QED
    BY <2>2, <2>5, <2>7, <2>8
<1>4. ASSUME NEW v \in Bit, ValueReady(i, v) PROVE Auxs(i)'
  <2>1. /\ loop' = loop /\ values' = values /\ auxsent' = auxsent /\ aux' = aux
        /\ storing'[i] = storing[i] \cup {<<"handle", v>>}
    BY <1>4 DEF ValueReady, TypeOK
  <2>2. <<"handle", 0>> \notin storing[i] /\ <<"handle", 1>> \notin storing[i]
    BY <1>4 DEF ValueReady, Handling, Bit
  <2>3. OneStore(i)'
    BY <2>1, <2>2 DEF Bit
  <2> QED
    BY <1>0, <2>1, <2>3
<1>5. ASSUME NEW s \in storing[i], StoreValue(i, s) PROVE Auxs(i)'
  <2>1. /\ loop' = loop /\ values'[i] = values[i] \cup {s[2]}
        /\ auxsent'[i] = (auxsent[i] \/ s[1] = "handle")
        /\ storing'[i] = storing[i] \ {s}
        /\ \A r \in Loop :
             aux'[r][i] = aux[r][i] \cup IF r = loop[i] THEN AuxAfter(i, s) ELSE {}
    BY <1>5, Bits DEF StoreValue, TypeOK
  <2>2. /\ InOrder(i)'
        /\ aux'[loop[i]][i] = aux[loop[i]][i] \cup AuxAfter(i, s)
        /\ \A r \in Loop \ {loop[i]} : aux'[r][i] = aux[r][i]
    BY <1>a, <2>1
  <2>3. /\ AuxAfter(i, s) = {} \/ AuxAfter(i, s) = {s[2]}
        /\ AuxAfter(i, s) # {} => s[1] = "handle" /\ ~auxsent[i]
    BY DEF AuxAfter
  <2>4. OneStore(i)' /\ AfterStore(i)'
    BY <1>0, <2>1, <2>2, <2>3
  <2>5. SentOnce(i)'
    BY <1>0, <2>1, <2>2, <2>3
  <2>6. AuxAfter(i, s) # {} /\ loop[i] > 0 => aux[loop[i]][i] = {}
    BY <1>0, <2>3
  <2>7. loop[i] > 0 => ~(0 \in aux'[loop[i]][i] /\ 1 \in aux'[loop[i]][i])
    BY <1>0, <2>2, <2>3, <2>6, Bits
  <2>8. OneAux(i)'
    BY <1>0, <2>2, <2>7
  <2> QED
    BY <2>2, <2>4, <2>5, <2>8
<1>6. ASSUME NEW in \in Bit, NextLoop(i, in) PROVE Auxs(i)'
  <2> DEFINE Last == UNION {AuxAfter(i, s) : s \in storing[i]}
  <2>1. /\ loop[i] + 1 \in Loop /\ loop'[i] = loop[i] + 1 /\ storing'[i] = {}
        /\ \A r \in Loop : aux'[r][i] = aux[r][i] \cup IF r = loop[i] THEN Last ELSE {}
    BY <1>6, LoopStarts
  <2>2. auxsent[i] => Last = {}
    BY DEF AuxAfter
  <2>3. ~(0 \in Last /\ 1 \in Last)
    <3>1. \A v \in Last : <<"handle", v>> \in storing[i]
      <4>1. \A s \in storing[i] : s = <<s[1], s[2]>>
        BY Bits
      <4> QED
        BY <4>1 DEF AuxAfter
    <3> QED
      BY <1>0, <3>1 DEF Bit
  <2> HIDE DEF Last
  <2>4. /\ aux'[loop[i]][i] = aux[loop[i]][i] \cup Last
        /\ \A r \in Loop \ {loop[i]} : aux'[r][i] = aux[r][i]
    BY <2>1, Bits
  <2>5. aux[loop[i] + 1][i] = {}
    BY <1>0, <2>1, Bits
  <2>6. aux'[loop'[i]][i] = {}
    BY <2>1, <2>4, <2>5, Bits
  <2>7. loop[i] > 0 => ~(0 \in aux'[loop[i]][i] /\ 1 \in aux'[loop[i]][i])
    <3>1. loop[i] > 0 /\ ~auxsent[i] => aux[loop[i]][i] = {}
      BY <1>0
    <3>2. loop[i] > 0 => ~(0 \in aux[loop[i]][i] /\ 1 \in aux[loop[i]][i])
      BY <1>0, Bits
    <3> QED
      BY <2>2, <2>3, <2>4, <3>1, <3>2
  <2>8. OneAux(i)'
    BY <1>0, <2>4, <2>7
  <2>9. InOrder(i)'
    <3>1. \A r \in Loop : r \in Int
      BY DEF Loop
    <3>2. ASSUME NEW r \in Loop, aux'[r][i] # {} PROVE loop[i] >= r
      BY <1>0, <2>4, <3>1, <3>2, Bits
    <3> QED
      BY <2>1, <3>1, <3>2, Bits
  <2>10. SentOnce(i)' /\ AfterStore(i)' /\ OneStore(i)'
    BY <2>1, <2>6 DEF Bit
  <2> QED
    BY <2>8, <2>9, <2>10
<1>7. UNCHANGED <<loop, aux, localVars>> => Auxs(i)'
  BY <1>0 DEF localVars
<1>8. Toss(i) => Auxs(i)'
  BY <1>6, <1>7, TossCases DEF Decide
<1>9. ASSUME NEW v \in Bit, RelayFinish(i, v) \/ Output(i, v) PROVE Auxs(i)'
  BY <1>7, <1>9 DEF RelayFinish, Output
<1>10. SendConf(i) => Auxs(i)'
  BY <1>7 DEF SendConf
<1>11. Auxs(i)'
  BY <1>2, <1>3, <1>4, <1>5, <1>8, <1>9, <1>10 DEF Step
<1>12. \A j \in Correct : Auxs(j)'
  BY <1>1, <1>11
<1> QED
  BY <1>12 DEF AuxInv

-----------------------------------------------------------------------------
(***************************************************************************)
(* Decisions and finish messages.                                          *)
(***************************************************************************)

\* No node goes back, and a node that has decided does not go on.
LEMMA LoopsGrow ==
  ASSUME TypeOK, NEW i \in Correct, Step(i)
  PROVE  \A j \in Correct :
           /\ loop[j] \in Nat /\ loop'[j] \in Nat
           /\ loop'[j] = loop[j] \/ loop'[j] = loop[j] + 1
           /\ loop[j] <= loop'[j]
           /\ \A v \in Bit : Decided(j, v) => loop'[j] = loop[j]
<1>1. loop' = loop \/ Toss(i)
  <2>1. SecondVal(i) \/ SendConf(i) => loop' = loop
    BY DEF SecondVal, SendConf
  <2>2. ASSUME NEW v \in Bit
        PROVE  SendVal(i, v) \/ ValueReady(i, v) \/ RelayFinish(i, v) \/ Output(i, v)
                 => loop' = loop
    BY DEF SendVal, ValueReady, RelayFinish, Output
  <2>3. ASSUME NEW s \in storing[i] PROVE StoreValue(i, s) => loop' = loop
    BY DEF StoreValue
  <2> QED
    BY <2>1, <2>2, <2>3 DEF Step
<1>2. loop'[i] = loop[i] \/ (loop'[i] = loop[i] + 1 /\ InLoop(i))
  <2>1. ASSUME Toss(i) PROVE loop' = loop \/ (loop'[i] = loop[i] + 1 /\ InLoop(i))
    <3>1. InLoop(i) /\ ((\E in \in Bit : NextLoop(i, in)) \/ Decide(i, Coin(loop[i])))
      BY <2>1, TossCases
    <3>2. ASSUME NEW in \in Bit, NextLoop(i, in) PROVE loop'[i] = loop[i] + 1
      BY <3>2, LoopStarts
    <3>3. Decide(i, Coin(loop[i])) => loop' = loop
      BY DEF Decide
    <3> QED
      BY <3>1, <3>2, <3>3
  <2> QED
    BY <1>1, <2>1
<1>3. \A j \in Correct : loop[j] \in Nat
  BY Bits
<1>4. \A j \in Correct \ {i} : loop'[j] = loop[j]
  BY Others
<1>5. \A v \in Bit : InLoop(i) => ~Decided(i, v)
  BY DEF InLoop
<1> QED
  BY <1>2, <1>3, <1>4, <1>5

LEMMA ReachedGrows ==
  ASSUME TypeOK, NEW i \in Correct, Step(i), NEW r \in Loop
  PROVE  Reached(r) \subseteq Reached(r)' /\ Reached(r)' \subseteq Correct
<1>1. r \in Int
  BY DEF Loop
<1> QED
  BY <1>1, LoopsGrow DEF Reached

\* What is broadcast is sent.
LEMMA SentFin ==
  ASSUME TypeOK
  PROVE  /\ fin \subseteq Sent
         /\ \A j \in Correct, v \in Bit :
              Decided(j, v) <=> [node |-> j, value |-> v, why |-> "decided"] \in Sent
<1>1. fin \subseteq Sent
  BY DEF TypeOK, Sent, Signalled
<1>2. ASSUME NEW j \in Correct, NEW v \in Bit
      PROVE  [node |-> j, value |-> v, why |-> "decided"] \in Finish
  BY DEF Finish
<1> QED
  BY <1>1, <1>2 DEF Sent, Decided

\* A finish message is sent by a decision, or after f+1 others.
LEMMA SentStep ==
  ASSUME TypeOK, ChannelInv, NEW i \in Correct, Step(i)
  PROVE  \/ Sent' = Sent
         \/ /\ Toss(i) /\ Decide(i, Coin(loop[i]))
            /\ Sent' = Sent \cup {[node |-> i, value |-> Coin(loop[i]), why |-> "decided"]}
         \/ \E v \in Bit : /\ FinCount(v) >= f + 1 /\ UNCHANGED output
                           /\ Sent' = Sent \cup {Relay(i, v)}
<1>1. UNCHANGED <<sig, fin>> => Sent' = Sent
  BY DEF Sent, Signalled
<1>2. ASSUME Toss(i)
      PROVE  \/ Sent' = Sent
             \/ /\ Decide(i, Coin(loop[i]))
                /\ Sent' = Sent \cup {[node |-> i, value |-> Coin(loop[i]), why |-> "decided"]}
  <2>1. (\E in \in Bit : NextLoop(i, in)) => TakeSignal(i)
    BY DEF NextLoop
  <2>2. Decide(i, Coin(loop[i]))
          => Signal([node |-> i, value |-> Coin(loop[i]), why |-> "decided"])
    BY DEF Decide
  <2> QED
    BY <1>2, <2>1, <2>2, TossCases, TakeStep, SignalStep
<1>3. ASSUME NEW v \in Bit, RelayFinish(i, v)
      PROVE  FinCount(v) >= f + 1 /\ UNCHANGED output /\ Sent' = Sent \cup {Relay(i, v)}
  <2>1. Relay(i, v) \in Finish
    BY DEF Relay, Finish
  <2>2. FinCount(v) >= f + 1 /\ UNCHANGED output /\ Signal(Relay(i, v))
    BY <1>3 DEF RelayFinish, Relay
  <2> QED
    BY <2>1, <2>2, SignalStep
<1>4. Toss(i) \/ (\E v \in Bit : RelayFinish(i, v)) \/ UNCHANGED <<sig, fin>>
  BY DEF Step, SecondVal, SendVal, ValueReady, StoreValue, SendConf, Output, finishVars
<1> QED
  BY <1>1, <1>2, <1>3, <1>4

\* In a later loop every node sends one aux, so a conf needs a quorum of nodes.
LEMMA AuxQuorum ==
  ASSUME TypeOK, AuxInv, NEW i \in Correct, AuxReady(i), loop[i] > 0
  PROVE  Cardinality(Reached(loop[i])) >= Quorum
<1> DEFINE r == loop[i]
           A(v) == {j \in Correct : v \in aux[r][j]}
<1>1. r \in Loop /\ r \in Nat /\ r > 0
  BY Bits
<1>2. A(0) \cap A(1) = {}
  BY <1>1 DEF AuxInv
<1>3. \A v \in Bit : A(v) \subseteq Reached(r)
  BY <1>1 DEF AuxInv, Reached
<1>4. Reached(r) \subseteq Correct
  BY DEF Reached
<1>5. CASE \E v \in signals[i] : AuxCount(r, v) >= Quorum
  <2>1. PICK v \in Bit : Cardinality(A(v)) >= Quorum
    BY <1>5, Bits DEF AuxCount
  <2>2. Cardinality(A(v)) <= Cardinality(Reached(r))
    BY <1>3, <1>4, CountGrows
  <2> QED
    BY <1>3, <1>4, <2>1, <2>2, Counted, Numbers
<1>6. CASE AuxCount(r, 0) + AuxCount(r, 1) >= Quorum
  <2>1. Cardinality(A(0)) + Cardinality(A(1)) >= Quorum
    BY <1>6 DEF AuxCount
  <2>2. Cardinality(A(0)) + Cardinality(A(1)) = Cardinality(A(0) \cup A(1))
    BY <1>2, Apart
  <2>3. Cardinality(A(0) \cup A(1)) <= Cardinality(Reached(r))
    BY <1>3, <1>4, CountGrows DEF Bit
  <2> HIDE DEF A
  <2>4. A(0) \cup A(1) \subseteq Reached(r)
    BY <1>3 DEF Bit
  <2> QED
    BY <1>4, <2>1, <2>2, <2>3, <2>4, Counted, Numbers
<1> QED
  BY <1>5, <1>6 DEF AuxReady

LEMMA CoinStep ==
  ASSUME TypeOK, ChannelInv, AuxInv, CoinInv, NEW i \in Correct, Step(i)
  PROVE  CoinInv'
<1> SUFFICES ASSUME NEW j \in Correct, NEW v \in Bit, Decided(j, v)'
             PROVE  /\ v = Coin(loop'[j])
                    /\ loop'[j] > 0 => Cardinality(Reached(loop[j])') >= Quorum
  BY DEF CoinInv
<1> DEFINE m == [node |-> j, value |-> v, why |-> "decided"]
<1>1. m \in Finish
  BY DEF Finish
<1>2. m \in Sent'
  BY <1>1 DEF Sent, Decided
<1> DEFINE Now == {k \in Correct : loop'[k] >= loop[j]}
<1>3. Cardinality(Reached(loop[j])) \in Nat /\ Cardinality(Now) \in Nat
  BY Counted DEF Reached
<1>4. Cardinality(Reached(loop[j])) <= Cardinality(Now)
  <2>1. Reached(loop[j]) \subseteq Now
    BY LoopsGrow DEF Reached
  <2> QED
    BY <2>1, CountGrows
<1>5. CASE Decided(j, v)
  <2>1. loop'[j] = loop[j]
    BY <1>5, LoopsGrow
  <2> QED
    BY <1>3, <1>4, <1>5, <2>1, Numbers DEF CoinInv, Reached
<1>6. CASE ~Decided(j, v)
  <2>1. m \notin Sent
    BY <1>6, SentFin
  <2>2. m # Relay(i, 0) /\ m # Relay(i, 1)
    BY DEF Relay
  <2>3. /\ Toss(i) /\ Decide(i, Coin(loop[i]))
        /\ m = [node |-> i, value |-> Coin(loop[i]), why |-> "decided"]
    BY <1>2, <2>1, <2>2, SentStep DEF Bit
  <2>4. j = i /\ v = Coin(loop[i]) /\ loop' = loop /\ AuxReady(i)
    BY <2>3, TossCases DEF Decide
  <2> QED
    BY <1>3, <1>4, <2>4, AuxQuorum, Numbers DEF Reached
<1> QED
  BY <1>5, <1>6

\* A counter of finish messages is not ahead of the decisions, though it does
\* not look at the senders: until f+1 nodes have decided none relays, and a
\* node decides once.
LEMMA FinishesCounted ==
  ASSUME TypeOK, RelayInv, NEW v \in Bit, FinCount(v) >= f + 1
  PROVE  Cardinality(Deciders(v)) >= f + 1
<1> DEFINE M == {m \in fin : m.value = v}
           g == [m \in M |-> m.node]
<1>1. \A m \in M : m \in Sent /\ m \in Finish /\ m.value = v
  BY SentFin DEF TypeOK
<1>2. CASE \E m \in M : m.why = "relayed"
  <2>1. PICK m \in M : m.why = "relayed"
    BY <1>2
  <2>2. m.node \in Correct /\ m = Relay(m.node, v)
    BY <1>1, <2>1 DEF Finish, Relay
  <2> QED
    BY <1>1, <2>2 DEF RelayInv
<1>3. CASE ~\E m \in M : m.why = "relayed"
  <2>1. ASSUME NEW m \in M
        PROVE  /\ m.node \in Correct /\ m = [node |-> m.node, value |-> v, why |-> "decided"]
               /\ m.node \in Deciders(v)
    <3>1. m.node \in Correct /\ m = [node |-> m.node, value |-> v, why |-> "decided"]
      BY <1>1, <1>3 DEF Finish
    <3>2. Decided(m.node, v)
      BY <1>1, <3>1, SentFin
    <3> QED
      BY <3>1, <3>2 DEF Deciders
  <2>2. g \in [M -> Deciders(v)]
    BY <2>1
  <2>3. \A m, n \in M : m.node = n.node => m = n
    BY <2>1
  <2>4. g \in Injection(M, Deciders(v))
    BY <2>2, <2>3 DEF Injection, IsInjective
  <2>5. IsFiniteSet(Deciders(v))
    BY Counted DEF Deciders
  <2>6. FinCount(v) = Cardinality(M)
    BY DEF FinCount
  <2> HIDE DEF g, M
  <2>7. Cardinality(M) <= Cardinality(Deciders(v)) /\ IsFiniteSet(M)
    BY <2>4, <2>5, FS_Injection
  <2> QED
    BY <2>5, <2>6, <2>7, FS_CardinalityType, Numbers
<1> QED
  BY <1>2, <1>3

LEMMA RelayStep ==
  ASSUME TypeOK, ChannelInv, RelayInv, NEW i \in Correct, Step(i)
  PROVE  RelayInv'
<1>1. TypeOK'
  BY StepTypes
<1>2. ASSUME NEW v \in Bit, Cardinality(Deciders(v)) >= f + 1
      PROVE  Cardinality(Deciders(v)') >= f + 1
  <2>1. ASSUME NEW j \in Correct, Decided(j, v) PROVE Decided(j, v)'
    <3>1. [node |-> j, value |-> v, why |-> "decided"] \in Sent
      BY <2>1, SentFin
    <3>2. [node |-> j, value |-> v, why |-> "decided"] \in Sent'
      BY <3>1, SentStep
    <3> QED
      BY <3>2 DEF Sent, Decided
  <2>2. Deciders(v) \subseteq Deciders(v)' /\ Deciders(v)' \subseteq Correct
    BY <2>1 DEF Deciders
  <2>3. /\ Cardinality(Deciders(v)) <= Cardinality(Deciders(v)')
        /\ Cardinality(Deciders(v)) \in Nat /\ Cardinality(Deciders(v)') \in Nat
    BY <2>2, CountGrows, Counted DEF Deciders
  <2> QED
    BY <1>2, <2>3, Numbers
<1>3. ASSUME NEW j \in Correct, NEW v \in Bit, Relay(j, v) \in Sent', Relay(j, v) \notin Sent
      PROVE  FinCount(v) >= f + 1
  <2>1. \A u \in Bit : Relay(j, v) # [node |-> i, value |-> u, why |-> "decided"]
    BY DEF Relay
  <2>2. \A u \in Bit : Relay(j, v) = Relay(i, u) => u = v
    BY DEF Relay
  <2> QED
    BY <1>3, <2>1, <2>2, SentStep, Bits
<1>4. ASSUME NEW j \in Correct, NEW v \in Bit, output'[j] = v, output[j] # v
      PROVE  Relay(j, v) \in Sent
  <2>1. output' = output \/ \E u \in Bit : Output(i, u)
    <3>1. SecondVal(i) \/ SendConf(i) => output' = output
      BY DEF SecondVal, SendConf, finishVars
    <3>2. ASSUME NEW u \in Bit
          PROVE  SendVal(i, u) \/ ValueReady(i, u) \/ RelayFinish(i, u) => output' = output
      BY DEF SendVal, ValueReady, RelayFinish, finishVars
    <3>3. ASSUME NEW s \in storing[i] PROVE StoreValue(i, s) => output' = output
      BY DEF StoreValue, finishVars
    <3>4. Toss(i) => output' = output
      BY TossCases, LoopStarts DEF Decide
    <3> QED
      BY <3>1, <3>2, <3>3, <3>4 DEF Step
  <2>2. PICK u \in Bit : Output(i, u)
    BY <1>4, <2>1
  <2>3. j = i /\ u = v
    BY <1>4, <2>2 DEF Output, TypeOK
  <2>4. Relay(i, v) \in Signalled(i) /\ Relay(i, v) \in Finish /\ Relay(i, v).node = i
    BY <2>2, <2>3 DEF Output, Relay, Finish
  <2> QED
    BY <2>3, <2>4 DEF Sent
<1>5. ASSUME NEW j \in Correct, NEW v \in Bit, Relay(j, v) \in Sent' \/ output'[j] = v
      PROVE  Cardinality(Deciders(v)) >= f + 1
  <2>1. Relay(j, v) \in Sent \/ output[j] = v \/ FinCount(v) >= f + 1
    BY <1>3, <1>4, <1>5
  <2> QED
    BY <2>1, FinishesCounted DEF RelayInv
<1>6. \A j \in Correct, v \in Bit : Relay(j, v)' = Relay(j, v)
  BY DEF Relay
<1> QED
  BY <1>2, <1>5, <1>6 DEF RelayInv

-----------------------------------------------------------------------------
(***************************************************************************)
(* The invariant, and agreement on what is output.                         *)
(***************************************************************************)

LEMMA InitIInv == Init => IInv
<1> SUFFICES ASSUME Init PROVE IInv
  OBVIOUS
<1>1. first \in [Correct -> Bit]
  BY DEF Init, Bit
<1>2. 0 \in Loop /\ 0 \in Bit /\ 1 \in Bit
  BY BAAssumption DEF Loop, Bit
<1>3. \A r \in Loop, v \in Bit :
        WithAux(r, v) \subseteq {1} /\ WithStore(r, v) \subseteq {<<"own", 1>>}
  BY DEF WithAux, WithStore
<1>4. val \in [Loop -> [Correct -> SUBSET Bit]]
  <2>1. ASSUME NEW r \in Loop, NEW i \in Correct
        PROVE  (IF r = 0 THEN {first[i]} ELSE {}) \in SUBSET Bit
    BY <1>1
  <2> QED
    BY <2>1 DEF Init
<1>5. aux \in [Loop -> [Correct -> SUBSET Bit]]
  <2>1. \A r \in Loop, i \in Correct : WithAux(r, first[i]) \in SUBSET Bit
    BY <1>1, <1>2, <1>3
  <2> QED
    BY <2>1 DEF Init
<1>6. storing \in [Correct -> SUBSET ({"handle", "own"} \X Bit)]
  <2>1. \A i \in Correct : WithStore(0, first[i]) \in SUBSET ({"handle", "own"} \X Bit)
    BY <1>1, <1>2, <1>3
  <2> QED
    BY <2>1 DEF Init
<1>7. sig \in [Correct -> Seq(Finish)] /\ \A i \in Correct : sig[i] = <<>>
  BY DEF Init
<1>8. TypeOK
  BY <1>1, <1>2, <1>4, <1>5, <1>6, <1>7 DEF Init, TypeOK
<1>9. ChannelInv
  BY <1>7 DEF ChannelInv
<1>10. AuxInv
  <2> SUFFICES ASSUME NEW i \in Correct
               PROVE  /\ <<"handle", 0>> \notin storing[i] /\ loop[i] = 0
                      /\ 0 \notin aux[0][i]
                      /\ \A r \in Loop : r \in Int /\ r >= 0 /\ (r > 0 => aux[r][i] = {})
    BY <1>2 DEF AuxInv
  <2>1. storing[i] = WithStore(0, first[i]) /\ loop[i] = 0
    BY DEF Init
  <2>2. \A r \in Loop : aux[r][i] = WithAux(r, first[i])
    BY DEF Init
  <2>3. <<"handle", 0>> \notin WithStore(0, first[i])
    BY DEF WithStore
  <2>4. \A r \in Loop : r \in Int /\ r >= 0
    BY DEF Loop
  <2>5. 0 \notin WithAux(0, first[i]) /\ \A r \in Loop : r > 0 => WithAux(r, first[i]) = {}
    BY <2>4 DEF WithAux
  <2> QED
    BY <1>2, <2>1, <2>2, <2>3, <2>4, <2>5
<1>11. Sent = {} /\ \A i \in Correct : Signalled(i) = {}
  <2>1. \A i \in Correct : Signalled(i) = {}
    BY <1>7 DEF Init, Signalled
  <2> QED
    BY <2>1 DEF Sent, Finish
<1>12. CoinInv
  BY <1>11 DEF CoinInv, Decided
<1>13. RelayInv
  <2>1. \A i \in Correct, v \in Bit : output[i] # v
    BY DEF Init, None, Bit
  <2> QED
    BY <1>11, <2>1 DEF RelayInv
<1> QED
  BY <1>8, <1>9, <1>10, <1>12, <1>13 DEF IInv

\* The inductive invariant holds in every state.
THEOREM Invariance == Spec => []IInv
<1>1. IInv /\ [Next]_vars => IInv'
  <2> SUFFICES ASSUME IInv, [Next]_vars PROVE IInv'
    OBVIOUS
  <2>1. CASE Next
    BY <2>1, StepOfNode, StepTypes, AuxStep, CoinStep, RelayStep DEF IInv
  <2>2. CASE UNCHANGED vars
    <3>1. /\ TypeOK' <=> TypeOK
          /\ ChannelInv' <=> ChannelInv
          /\ AuxInv' <=> AuxInv
      BY <2>2 DEF vars, localVars, finishVars, TypeOK, ChannelInv, AuxInv
    <3>2. /\ UNCHANGED loop /\ Sent' = Sent
          /\ \A i \in Correct, v \in Bit : Decided(i, v)' <=> Decided(i, v)
      BY <2>2 DEF vars, finishVars, Sent, Signalled, Decided
    <3>3. CoinInv' <=> CoinInv
      BY <3>2 DEF CoinInv, Reached
    <3>4. RelayInv' <=> RelayInv
      BY <2>2, <3>2 DEF RelayInv, Deciders, Relay, vars, finishVars
    <3> QED
      BY <3>1, <3>3, <3>4 DEF IInv
  <2> QED
    BY <2>1, <2>2
<1> QED
  BY <1>1, InitIInv, PTL DEF Spec

\* Every variable of the agreement stays in its type: the sets of values are
\* sets of bits, and a channel of finish signals only holds finish messages.
THEOREM TypeCorrect == Spec => []TypeOK
<1>1. IInv => TypeOK
  BY DEF IInv
<1> QED
  BY Invariance, <1>1, PTL

\* Of f+1 nodes that have decided v and f+1 that have decided 1 - v, the last
\* one is in a loop that a quorum has reached, and the others are behind it.
LEMMA DecidersAgree ==
  ASSUME IInv, Cardinality(Node) = 3 * f + 1
  PROVE  ~(Cardinality(Deciders(0)) >= f + 1 /\ Cardinality(Deciders(1)) >= f + 1)
<1> SUFFICES ASSUME Cardinality(Deciders(0)) >= f + 1, Cardinality(Deciders(1)) >= f + 1
             PROVE  FALSE
  OBVIOUS
<1>1. \A v \in Bit : /\ Deciders(v) \subseteq Correct
                     /\ Cardinality(Deciders(v)) \in Nat /\ Cardinality(Deciders(v)) >= f + 1
  BY Counted DEF Deciders, Bit
<1>2. \A v \in Bit : Deciders(v) # {}
  BY <1>1, CountOne, Numbers
<1>3. \A v \in Bit : \A i \in Deciders(v) :
        /\ loop[i] \in Loop /\ loop[i] \in Nat /\ v = Coin(loop[i])
        /\ loop[i] > 0 => Cardinality(Reached(loop[i])) >= Quorum
  BY Bits DEF IInv, CoinInv, Deciders
<1> DEFINE K == {k \in Nat : \A v \in Bit : \A i \in Deciders(v) : loop[i] <= k}
<1>4. PICK k \in K : \A l \in K : k <= l
  <2>1. MaxLoop \in K
    BY <1>3, BAAssumption DEF Loop
  <2> QED
    BY <2>1, LeastNumber
<1>5. PICK v \in Bit : \E i \in Deciders(v) : loop[i] = k
  <2>1. CASE k = 0
    <3>1. 0 \in Bit
      BY DEF Bit
    <3>2. PICK i \in Deciders(0) : loop[i] <= 0 /\ loop[i] \in Nat
      BY <1>2, <1>3, <1>4, <2>1, <3>1
    <3> QED
      BY <2>1, <3>1, <3>2
  <2>2. CASE k # 0
    <3>1. k - 1 \in Nat /\ k - 1 \notin K
      BY <1>4, <2>2
    <3>2. PICK v \in Bit : \E i \in Deciders(v) : ~(loop[i] <= k - 1)
      BY <3>1
    <3> QED
      BY <1>3, <1>4, <3>2
  <2> QED
    BY <2>1, <2>2
<1>6. PICK u \in Bit : u # v
  BY DEF Bit
<1>7. k \in Nat /\ \A j \in Deciders(u) : loop[j] < k /\ loop[j] \in Nat
  BY <1>3, <1>4, <1>5, <1>6
<1>8. k > 0
  BY <1>2, <1>3, <1>6, <1>7
<1>9. Deciders(u) \cap Reached(k) = {}
  <2>1. ASSUME NEW j \in Deciders(u) PROVE j \notin Reached(k)
    BY <1>7 DEF Reached
  <2> QED
    BY <2>1
<1>10. Reached(k) \subseteq Correct
  BY DEF Reached
<1>11. Cardinality(Deciders(u)) + Cardinality(Reached(k)) <= Cardinality(Node)
  BY <1>1, <1>6, <1>9, <1>10, Apart
<1>12. Cardinality(Reached(k)) >= Quorum /\ Cardinality(Reached(k)) \in Nat
  BY <1>3, <1>5, <1>8, <1>10, Counted
<1> QED
  BY <1>1, <1>6, <1>11, <1>12, Numbers

\* No two nodes output different bits, whatever the coins are, however nodes
\* are preempted between a signal and its store, and although finish messages
\* are counted without looking at who sent them.  Main loops can decide
\* differently then: agreement comes from the f+1 that a relay takes.
THEOREM OutputCorrect ==
  ASSUME Cardinality(Node) = 3 * f + 1
  PROVE  Spec => []OutputAgreement
<1>1. IInv => OutputAgreement
  <2> SUFFICES ASSUME IInv, NEW i \in Correct, NEW j \in Correct,
                      output[i] # None, output[j] # None
               PROVE  output[i] = output[j]
    BY DEF OutputAgreement
  <2>1. output[i] \in Bit /\ output[j] \in Bit
    BY DEF IInv, TypeOK
  <2>2. /\ Cardinality(Deciders(output[i])) >= f + 1
        /\ Cardinality(Deciders(output[j])) >= f + 1
    BY <2>1 DEF IInv, RelayInv
  <2> QED
    BY <2>1, <2>2, DecidersAgree DEF Bit
<1> QED
  BY Invariance, <1>1, PTL

-----------------------------------------------------------------------------
(***************************************************************************)
(* An output of 1 is of a broadcast that a correct node holds.             *)
(***************************************************************************)

\* A node holds the broadcast of the leader from then on.
LEMMA HeldStays ==
  ASSUME TypeOK, NEW i \in Correct, Step(i)
  PROVE  /\ \A j \in Correct : Held(j) => Held(j)'
         /\ first' = first
         /\ ~Held(i)' => ~SecondVal(i)
<1>1. ASSUME SecondVal(i) PROVE first' = first /\ second'[i] = TRUE
  BY <1>1 DEF SecondVal, TypeOK
<1>2. ASSUME ~SecondVal(i) PROVE first' = first /\ second' = second
  <2>1. SendConf(i) => first' = first /\ second' = second
    BY DEF SendConf
  <2>2. ASSUME NEW v \in Bit
        PROVE  SendVal(i, v) \/ ValueReady(i, v) \/ RelayFinish(i, v) \/ Output(i, v)
                 => first' = first /\ second' = second
    BY DEF SendVal, ValueReady, RelayFinish, Output
  <2>3. ASSUME NEW s \in storing[i] PROVE StoreValue(i, s) => first' = first /\ second' = second
    BY DEF StoreValue
  <2>4. Toss(i) => first' = first /\ second' = second
    BY TossCases, LoopStarts DEF Decide
  <2> QED
    BY <1>2, <2>1, <2>2, <2>3, <2>4 DEF Step
<1>3. \A j \in Correct \ {i} : first'[j] = first[j] /\ second'[j] = second[j]
  BY Others
<1> QED
  BY <1>1, <1>2, <1>3 DEF Held

\* At most f nodes enter a loop with 1: not enough to relay it.
LEMMA FewOnes ==
  ASSUME TypeOK, ZeroInv, \A j \in Correct : ~Held(j), Cardinality(Node) = 3 * f + 1,
         NEW r \in Loop
  PROVE  ~(ValCount(r, 1) >= f + 1)
<1> DEFINE O == {j \in Correct : 1 \in val[r][j]}
           T == {j \in Correct : second[j]}
<1>1. Cardinality(O) \in Nat /\ Cardinality(O) <= f
  <2>1. O \subseteq Correct /\ Cardinality(O) \in Nat
    BY Counted
  <2>2. CASE O = {}
    <3>1. Cardinality({}) = 0
      BY FS_EmptySet
    <3>2. Cardinality(O) = 0
      BY <2>2, <3>1
    <3> HIDE DEF O
    <3> QED
      BY <3>2, Numbers
  <2>3. CASE O # {}
    <3>1. PICK j \in Correct : r > 0 /\ Coin(r - 1) = 0 /\ loop[j] >= r
      BY <2>3 DEF ZeroInv
    <3>2. r - 1 \in Loop /\ r \in Int /\ loop[j] > r - 1
      BY <3>1, BAAssumption, Bits DEF Loop
    <3>3. Cardinality(Zeros(r - 1)) >= Quorum
      BY <3>1, <3>2 DEF ZeroInv
    <3>4. O \cap Zeros(r - 1) = {} /\ Zeros(r - 1) \subseteq Correct
      <4>1. ASSUME NEW k \in O PROVE k \notin Zeros(r - 1)
        <5>1. loop[k] >= r /\ loop[k] \in Nat
          BY Bits DEF ZeroInv
        <5> QED
          BY <3>2, <5>1 DEF Zeros
      <4> QED
        BY <4>1 DEF Zeros
    <3> HIDE DEF O
    <3>5. Cardinality(O) + Cardinality(Zeros(r - 1)) <= Cardinality(Node)
      BY <2>1, <3>4, Apart
    <3>6. Cardinality(Zeros(r - 1)) \in Nat
      BY <3>4, Counted
    <3> QED
      BY <2>1, <3>3, <3>5, <3>6, Numbers
  <2> QED
    BY <2>2, <2>3
<1>2. Cardinality(T) = 0
  <2>1. T = {}
    BY DEF Held
  <2> QED
    BY <2>1, FS_EmptySet
<1>3. ValCount(r, 1) = Cardinality(O) + IF r = 0 /\ 1 = 1 THEN Cardinality(T) ELSE 0
  BY DEF ValCount
<1> HIDE DEF O, T
<1> QED
  BY <1>1, <1>2, <1>3, Numbers

\* The first node that leaves a loop with coin 0 leaves a quorum with 0 behind.
LEMMA ZerosQuorum ==
  ASSUME TypeOK, AuxInv, ZeroInv, NEW i \in Correct, AuxReady(i),
         \A j \in Correct : ~(loop[j] > loop[i])
  PROVE  Cardinality(Zeros(loop[i])) >= Quorum
<1> DEFINE A == {j \in Correct : 0 \in aux[loop[i]][j]}
<1>1. signals[i] \subseteq {0} /\ signals[i] # Bit
  BY Bits DEF ZeroInv, Bit
<1>2. Cardinality(A) >= Quorum
  BY <1>1 DEF AuxReady, AuxCount
<1>3. A \subseteq Zeros(loop[i])
  <2>1. ASSUME NEW j \in A PROVE j \in Zeros(loop[i])
    <3>1. loop[i] \in Loop /\ loop[i] \in Nat /\ loop[j] \in Nat
      BY Bits
    <3>2. loop[j] >= loop[i]
      BY <3>1 DEF AuxInv
    <3>3. loop[j] = loop[i]
      BY <3>1, <3>2
    <3> QED
      BY <3>3 DEF AuxInv, Zeros
  <2> QED
    BY <2>1
<1>4. Zeros(loop[i]) \subseteq Correct
  BY DEF Zeros
<1> HIDE DEF A
<1> QED
  BY <1>2, <1>3, <1>4, CountGrows, Counted, Numbers

\* Where no 1 is stored the main loop decides 0, or misses the 0, or finds the
\* coin 1 and goes on with 0.
LEMMA ZeroToss ==
  ASSUME TypeOK, ZeroInv, NEW i \in Correct, Toss(i)
  PROVE  \/ Coin(loop[i]) = 0 /\ Decide(i, 0)
         \/ Coin(loop[i]) = 0 /\ 0 \notin values[i] /\ NextLoop(i, 1)
         \/ Coin(loop[i]) = 1 /\ NextLoop(i, 0)
<1>1. \A V \in Readable(i) : 1 \notin V /\ values[i] \subseteq V
  BY DEF ZeroInv, Readable
<1>2. PICK V1 \in Readable(i), V2 \in Readable(i) :
         \/ Undecided(V1)
         \/ Commits(Coin(loop[i]), V2) /\ Decide(i, Coin(loop[i]))
         \/ ~Commits(Coin(loop[i]), V2) /\ NextLoop(i, 1 - Coin(loop[i]))
  BY DEF Toss
<1>3. ~Undecided(V1)
  BY <1>1 DEF Undecided, Bit
<1>4. Coin(loop[i]) = 0 \/ Coin(loop[i]) = 1
  BY Bits DEF Bit
<1>5. Commits(Coin(loop[i]), V2) => Coin(loop[i]) = 0
  BY <1>1, <1>4 DEF Commits
<1>6. ~Commits(Coin(loop[i]), V2) /\ Coin(loop[i]) = 0 => 0 \notin values[i]
  BY <1>1 DEF Commits
<1> QED
  BY <1>2, <1>3, <1>4, <1>5, <1>6

\* No finish message has the value 1.
LEMMA ZeroSent ==
  ASSUME TypeOK, ChannelInv, ZeroInv, NEW i \in Correct, Step(i)
  PROVE  \A m \in Sent' : m.value # 1
<1>1. ASSUME Toss(i), Decide(i, Coin(loop[i])),
             Sent' = Sent \cup {[node |-> i, value |-> Coin(loop[i]), why |-> "decided"]}
      PROVE  \A m \in Sent' : m.value # 1
  <2>1. loop' = loop
    BY <1>1 DEF Decide
  <2>2. ASSUME NEW in \in Bit, NextLoop(i, in) PROVE FALSE
    <3>1. loop'[i] = loop[i] + 1 /\ loop[i] \in Nat
      BY <2>2, LoopStarts, Bits
    <3> QED
      BY <2>1, <3>1
  <2>3. Coin(loop[i]) = 0
    BY <1>1, <2>2, ZeroToss DEF Bit
  <2>4. \A m \in Sent : m.value # 1
    BY DEF ZeroInv
  <2> QED
    BY <1>1, <2>3, <2>4
<1>2. ASSUME NEW v \in Bit, FinCount(v) >= f + 1, Sent' = Sent \cup {Relay(i, v)}
      PROVE  \A m \in Sent' : m.value # 1
  <2> DEFINE M == {m \in fin : m.value = v}
  <2>1. M # {}
    <3>1. FinCount(v) = Cardinality(M)
      BY DEF FinCount
    <3>2. M = {} => Cardinality(M) = 0
      BY FS_EmptySet
    <3> HIDE DEF M
    <3> QED
      BY <1>2, <3>1, <3>2, Numbers
  <2>2. v # 1
    BY <2>1, SentFin DEF ZeroInv
  <2>3. Relay(i, v).value = v
    BY DEF Relay
  <2>4. \A m \in Sent : m.value # 1
    BY DEF ZeroInv
  <2> QED
    BY <1>2, <2>2, <2>3, <2>4
<1>3. Sent' = Sent => \A m \in Sent' : m.value # 1
  BY DEF ZeroInv
<1> QED
  BY <1>1, <1>2, <1>3, SentStep

\* What a node with 0 in a loop with coin 0 stays in: its main loop can only
\* decide.
LEMMA ZerosStay ==
  ASSUME TypeOK, ZeroInv, NEW i \in Correct, Step(i), NEW r \in Loop, Coin(r) = 0
  PROVE  Zeros(r) \subseteq Zeros(r)'
<1> SUFFICES ASSUME NEW j \in Correct, loop[j] = r, 0 \in values[j]
             PROVE  loop'[j] = r /\ 0 \in values'[j]
  BY DEF Zeros
<1>1. CASE j # i
  BY <1>1, Others
<1>2. CASE j = i
  <2>1. UNCHANGED <<loop, values>> => loop'[j] = r /\ 0 \in values'[j]
    OBVIOUS
  <2>2. ASSUME Toss(i) PROVE UNCHANGED <<loop, values>>
    <3>1. Coin(loop[i]) = 0 /\ 0 \in values[i]
      BY <1>2
    <3>2. Decide(i, 0)
      BY <2>2, <3>1, ZeroToss
    <3> QED
      BY <3>2 DEF Decide, localVars
  <2>3. SecondVal(i) \/ SendConf(i) => UNCHANGED <<loop, values>>
    BY DEF SecondVal, SendConf, localVars
  <2>4. ASSUME NEW v \in Bit
        PROVE  SendVal(i, v) \/ ValueReady(i, v) \/ RelayFinish(i, v) \/ Output(i, v)
                 => UNCHANGED <<loop, values>>
    BY DEF SendVal, ValueReady, RelayFinish, Output, localVars
  <2>5. ASSUME NEW s \in storing[i], StoreValue(i, s) PROVE loop'[j] = r /\ 0 \in values'[j]
    BY <1>2, <2>5 DEF StoreValue, TypeOK
  <2> QED
    BY <2>1, <2>2, <2>3, <2>4, <2>5 DEF Step
<1> QED
  BY <1>1, <1>2

\* What the values, signals and vals of a node are when no 1 is stored.
LEMMA ZeroLocal ==
  ASSUME TypeOK, ZeroInv, \A j \in Correct : ~Held(j), Cardinality(Node) = 3 * f + 1,
         NEW i \in Correct, Step(i), ~SecondVal(i), NEW j \in Correct
  PROVE  /\ 1 \notin signals'[j] \cup values'[j]
         /\ \A s \in storing'[j] : s[2] # 1
         /\ output'[j] # 1
         /\ \A r \in Loop : 1 \in val'[r][j] => r > 0 /\ Coin(r - 1) = 0 /\ loop'[j] >= r
<1> DEFINE Goal ==
         /\ 1 \notin signals'[j] \cup values'[j]
         /\ \A s \in storing'[j] : s[2] # 1
         /\ output'[j] # 1
         /\ \A r \in Loop : 1 \in val'[r][j] => r > 0 /\ Coin(r - 1) = 0 /\ loop'[j] >= r
<1>0. /\ 1 \notin signals[j] \cup values[j]
      /\ \A s \in storing[j] : s[2] # 1
      /\ output[j] # 1
      /\ \A r \in Loop : 1 \in val[r][j] => r > 0 /\ Coin(r - 1) = 0 /\ loop[j] >= r
  BY DEF ZeroInv
<1>1. CASE j # i
  BY <1>0, <1>1, Others
<1>2. ASSUME j = i, NEW v \in Bit, SendVal(i, v) PROVE Goal
  <2>1. v = 0
    BY <1>2, FewOnes, Bits DEF SendVal, Bit
  <2>2. WithStore(loop[i], v) = {}
    BY <2>1 DEF WithStore
  <2>3. /\ UNCHANGED <<signals, values, output, loop>> /\ storing'[i] = storing[i]
        /\ \A r \in Loop : 1 \in val'[r][i] => 1 \in val[r][i]
    BY <1>2, <2>1, <2>2 DEF SendVal, TypeOK, finishVars
  <2> QED
    BY <1>0, <1>2, <2>3
<1>3. ASSUME j = i, NEW v \in Bit, ValueReady(i, v) PROVE Goal
  <2>1. ~(ValCount(loop[i], 1) >= Quorum)
    <3>1. ~(ValCount(loop[i], 1) >= f + 1)
      BY FewOnes, Bits
    <3>2. ValCount(loop[i], 1) \in Int
      BY Counted DEF ValCount
    <3> QED
      BY <3>1, <3>2, Numbers
  <2>2. v = 0
    BY <1>3, <2>1 DEF ValueReady, Bit
  <2>3. /\ UNCHANGED <<values, output, loop, val>>
        /\ storing'[i] = storing[i] \cup {<<"handle", 0>>} /\ signals'[i] = signals[i] \cup {0}
    BY <1>3, <2>2 DEF ValueReady, TypeOK, finishVars
  <2> QED
    BY <1>0, <1>3, <2>3
<1>4. ASSUME j = i, NEW s \in storing[i], StoreValue(i, s) PROVE Goal
  <2>1. /\ UNCHANGED <<signals, output, loop, val>>
        /\ storing'[i] = storing[i] \ {s} /\ values'[i] = values[i] \cup {s[2]}
    BY <1>4 DEF StoreValue, TypeOK, finishVars
  <2> QED
    BY <1>0, <1>4, <2>1
<1>5. ASSUME j = i, NEW in \in Bit, NextLoop(i, in), Coin(loop[i]) = 0 \/ in = 0
      PROVE  Goal
  <2>1. /\ loop'[i] = loop[i] + 1 /\ output' = output
        /\ values'[i] = {} /\ signals'[i] = {} /\ storing'[i] = {}
        /\ \A r \in Loop : val'[r][i] = IF r = loop[i] + 1 THEN {in} ELSE val[r][i]
    BY <1>5, LoopStarts
  <2>2. loop[i] \in Nat /\ \A r \in Loop : r \in Int
    BY Bits DEF Loop
  <2>3. ASSUME NEW r \in Loop, 1 \in val'[r][i]
        PROVE  r > 0 /\ Coin(r - 1) = 0 /\ loop'[i] >= r
    <3>1. CASE r = loop[i] + 1
      <4>1. r - 1 = loop[i] /\ r > 0
        BY <2>2, <3>1
      <4>2. Coin(loop[i]) = 0
        BY <1>5, <2>1, <2>3, <3>1
      <4> QED
        BY <2>1, <2>2, <3>1, <4>1, <4>2
    <3>2. CASE r # loop[i] + 1
      BY <1>0, <1>5, <2>1, <2>2, <2>3, <3>2
    <3> QED
      BY <3>1, <3>2
  <2> QED
    BY <1>0, <1>5, <2>1, <2>3
<1>6. j = i /\ UNCHANGED <<loop, val, localVars, output>> => Goal
  BY <1>0 DEF localVars
<1>7. ASSUME j = i, Toss(i) PROVE Goal
  <2>1. 0 \in Bit /\ 1 \in Bit
    BY DEF Bit
  <2>2. Decide(i, 0) => UNCHANGED <<loop, val, localVars, output>>
    BY DEF Decide
  <2> QED
    BY <1>5, <1>6, <1>7, <2>1, <2>2, ZeroToss
<1>8. ASSUME j = i, NEW v \in Bit, Output(i, v) PROVE Goal
  <2>1. Relay(i, v) \in Signalled(i) /\ Relay(i, v) \in Finish /\ Relay(i, v).node = i
        /\ Relay(i, v).value = v
    BY <1>8 DEF Output, Relay, Finish
  <2>2. v # 1
    BY <2>1 DEF Sent, ZeroInv
  <2>3. output'[i] = v /\ UNCHANGED <<loop, val, localVars>>
    BY <1>8 DEF Output, TypeOK
  <2> QED
    BY <1>0, <1>8, <2>2, <2>3 DEF localVars
<1>9. ASSUME NEW v \in Bit, RelayFinish(i, v), j = i PROVE Goal
  BY <1>6, <1>9 DEF RelayFinish
<1>10. SendConf(i) /\ j = i => Goal
  BY <1>6 DEF SendConf, finishVars
<1> QED
  BY <1>1, <1>2, <1>3, <1>4, <1>7, <1>8, <1>9, <1>10 DEF Step

LEMMA HeldStep ==
  ASSUME IInv, HeldInv, Cardinality(Node) = 3 * f + 1, NEW i \in Correct, Step(i)
  PROVE  HeldInv'
<1>0. TypeOK /\ ChannelInv /\ AuxInv
  BY DEF IInv
<1>1. CASE \E j \in Correct : Held(j)
  BY <1>0, <1>1, HeldStays DEF HeldInv
<1>2. CASE SecondVal(i)
  BY <1>0, <1>2, HeldStays DEF HeldInv
<1>3. CASE (\A j \in Correct : ~Held(j)) /\ ~SecondVal(i)
  <2>1. ZeroInv
    BY <1>3 DEF HeldInv
  <2>2. ASSUME NEW r \in Loop, Coin(r) = 0, NEW j \in Correct, loop'[j] > r
        PROVE  Cardinality(Zeros(r)') >= Quorum
    <3>1. Cardinality(Zeros(r)) >= Quorum
      <4>1. CASE \E k \in Correct : loop[k] > r
        BY <2>1, <2>2, <4>1 DEF ZeroInv
      <4>2. CASE ~\E k \in Correct : loop[k] > r
        <5>1. r \in Int /\ loop[j] \in Nat
          BY <1>0, Bits DEF Loop
        <5>2. ~(loop[j] > r) /\ (loop'[j] = loop[j] \/ loop'[j] = loop[j] + 1)
          BY <1>0, <4>2, LoopsGrow
        <5>3. loop[j] = r /\ loop'[j] # loop[j]
          BY <2>2, <5>1, <5>2
        <5>4. j = i
          BY <1>0, <5>3, Others
        <5>5. Toss(i)
          <6>1. SecondVal(i) \/ SendConf(i) => loop' = loop
            BY DEF SecondVal, SendConf
          <6>2. ASSUME NEW v \in Bit
                PROVE  SendVal(i, v) \/ ValueReady(i, v) \/ RelayFinish(i, v) \/ Output(i, v)
                         => loop' = loop
            BY DEF SendVal, ValueReady, RelayFinish, Output
          <6>3. ASSUME NEW s \in storing[i] PROVE StoreValue(i, s) => loop' = loop
            BY DEF StoreValue
          <6> QED
            BY <5>3, <6>1, <6>2, <6>3 DEF Step
        <5>6. AuxReady(i)
          BY <1>0, <5>5, TossCases
        <5> QED
          BY <1>0, <2>1, <4>2, <5>3, <5>4, <5>6, ZerosQuorum
      <4> QED
        BY <4>1, <4>2
    <3>2. Zeros(r) \subseteq Zeros(r)' /\ Zeros(r)' \subseteq Correct
      BY <1>0, <2>1, <2>2, ZerosStay DEF Zeros
    <3>3. /\ Cardinality(Zeros(r)) <= Cardinality(Zeros(r)')
          /\ Cardinality(Zeros(r)) \in Nat /\ Cardinality(Zeros(r)') \in Nat
      BY <3>2, CountGrows, Counted DEF Zeros
    <3> QED
      BY <3>1, <3>3, Numbers
  <2>3. ZeroInv'
    BY <1>0, <1>3, <2>1, <2>2, ZeroLocal, ZeroSent DEF ZeroInv
  <2> QED
    BY <2>3 DEF HeldInv
<1> QED
  BY <1>1, <1>2, <1>3

LEMMA InitHeldInv == Init => HeldInv
<1> SUFFICES ASSUME Init, \A i \in Correct : ~Held(i) PROVE ZeroInv
  BY DEF HeldInv
<1>1. \A i \in Correct : first[i] = 0
  BY DEF Init, Held
<1>2. \A i \in Correct, r \in Loop : 1 \notin val[r][i]
  BY <1>1 DEF Init
<1>3. \A i \in Correct : storing[i] = {}
  BY <1>1 DEF Init, WithStore
<1>4. Sent = {}
  <2>1. \A i \in Correct : Signalled(i) = {}
    BY DEF Init, Signalled
  <2> QED
    BY <2>1 DEF Sent, Finish
<1>5. \A r \in Loop, i \in Correct : ~(loop[i] > r)
  BY DEF Init, Loop
<1>6. \A i \in Correct : signals[i] = {} /\ values[i] = {} /\ output[i] # 1
  BY DEF Init, None
<1> QED
  BY <1>2, <1>3, <1>4, <1>5, <1>6 DEF ZeroInv

LEMMA HeldInvariance ==
  ASSUME Cardinality(Node) = 3 * f + 1
  PROVE  Spec => []HeldInv
<1>1. IInv /\ HeldInv /\ [Next]_vars => HeldInv'
  <2> SUFFICES ASSUME IInv, HeldInv, [Next]_vars PROVE HeldInv'
    OBVIOUS
  <2>1. CASE Next
    BY <2>1, StepOfNode, HeldStep
  <2>2. CASE UNCHANGED vars
    <3>1. Sent' = Sent
      BY <2>2 DEF vars, finishVars, Sent, Signalled
    <3>2. ZeroInv' <=> ZeroInv
      BY <2>2, <3>1 DEF vars, localVars, finishVars, ZeroInv, Zeros
    <3> QED
      BY <2>2, <3>2 DEF vars, HeldInv, Held
  <2> QED
    BY <2>1, <2>2
<1> QED
  BY <1>1, Invariance, InitHeldInv, PTL DEF Spec

\* If the agreement outputs 1, a correct node holds the broadcast of the
\* elected leader, and the MVBA that waits for it does not wait in vain.  The
\* main loop does go on with 1 when no node has sent it, if the coin is 0 and
\* its slice is read before the store of the 0, but it goes on with f-1 others
\* at most: the quorum whose aux it has counted has the 0.
THEOREM HeldCorrect ==
  ASSUME Cardinality(Node) = 3 * f + 1
  PROVE  Spec => []OneIsHeld
<1>1. HeldInv => OneIsHeld
  BY DEF HeldInv, ZeroInv, OneIsHeld
<1> QED
  BY HeldInvariance, <1>1, PTL

=============================================================================
