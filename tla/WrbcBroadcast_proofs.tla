------------------------ MODULE WrbcBroadcast_proofs ------------------------
(***************************************************************************)
(* Proofs about WrbcBroadcast, for any number of nodes, crashed followers  *)
(* and heights.                                                            *)
(***************************************************************************)
EXTENDS WrbcBroadcast, FiniteSetTheorems, WellFoundedInduction, TLAPS

-----------------------------------------------------------------------------
(***************************************************************************)
(* The inductive invariant.                                                *)
(***************************************************************************)

\* lastheight follows the height, and the output lastheight: what Outputs
\* chooses from is never empty.
OrderInv ==
  /\ lheight <= proposed
  /\ \A i \in Follower : out[i] <= infos[i] /\ infos[i] <= height[i]

\* handle_val outputs blocks that it holds.
OutInv == \A i \in Follower : \A h \in Height : h < out[i] => h \in vals[i]

\* A follower echoes a block that it holds, once the height before is
\* finished, and in one branch of handle_val only.  The leader echoes what it
\* proposes.
EchoInv ==
  \A h \in Height :
    /\ <<Leader, "info">> \notin echoes[h]
    /\ \A i \in Follower, b \in {"val", "info"} :
         <<i, b>> \in echoes[h] => h \in vals[i] /\ h <= infos[i]
    /\ \A i \in Node : ~({<<i, "val">>, <<i, "info">>} \subseteq echoes[h])

\* Somebody has counted 2f+1 echos before any follower is ready.
ReadyInv ==
  \A h \in Height :
    \/ readies[h] \subseteq {Leader} \/ threshold = 0
    \/ Cardinality(echoes[h]) >= 2 * threshold + 1

\* A height is not finished before a follower is ready.
FinishInv ==
  \A h \in Height :
    lheight > h \/ (\E i \in Follower : height[i] > h)
      => threshold = 0 \/ ~(readies[h] \subseteq {Leader})

IInv == TypeOK /\ OrderInv /\ OutInv /\ EchoInv /\ ReadyInv /\ FinishInv

-----------------------------------------------------------------------------
(***************************************************************************)
(* Numbers and sets.                                                       *)
(***************************************************************************)

\* A set of naturals has a least element.
LEMMA LeastNumber ==
  ASSUME NEW S \in SUBSET Nat, S # {}
  PROVE  \E m \in S : \A n \in S : m <= n
<1>1. PICK m \in S : \A n \in S : <<n, m>> \notin OpToRel(<, Nat)
  BY NatLessThanWellFounded, WFMin
<1>2. ASSUME NEW n \in S PROVE m <= n
  <2>1. <<n, m>> \notin {ss \in Nat \X Nat : ss[1] < ss[2]}
    BY <1>1 DEF OpToRel
  <2> QED
    BY <2>1
<1> QED
  BY <1>2

\* The loop of handle_val over valbuf and roundinfobuf ends between the first
\* height it looks at and the last roundinfo, and passes heights that it has
\* the val of.
LEMMA OutputsType ==
  ASSUME NEW from \in Nat, NEW k \in Nat, from <= k, NEW V
  PROVE  /\ Outputs(from, k, V) \in from .. k
         /\ \A h \in from .. Outputs(from, k, V) - 1 : h \in V
<1> DEFINE S == {d \in from .. k : d = k \/ d \notin V}
<1>1. S \in SUBSET Nat /\ k \in S
  OBVIOUS
<1>2. PICK d \in S : \A e \in S : d <= e
  BY <1>1, LeastNumber
<1>3. \A h \in from .. d - 1 : h \in V
  BY <1>2
<1>4. \E e \in from .. k : (\A h \in from .. e - 1 : h \in V) /\ (e = k \/ e \notin V)
  BY <1>2, <1>3
<1> QED
  BY <1>4 DEF Outputs

LEMMA Thresholds == threshold \in Nat /\ Leader \in Node /\ Leader \notin Follower
<1>1. Cardinality(Node) \in Nat /\ Cardinality(Node) # 0
  BY WrbcAssumption, FS_CardinalityType, FS_EmptySet
<1> QED
  BY <1>1, WrbcAssumption DEF threshold, Follower

LEMMA EchoesFinite == IsFiniteSet(Echo)
<1>1. IsFiniteSet({"val"} \cup {"info"})
  BY FS_Singleton, FS_AddElement
<1>2. {"val"} \cup {"info"} = {"val", "info"}
  OBVIOUS
<1> QED
  BY <1>1, <1>2, WrbcAssumption, FS_Product DEF Echo

\* What is counted is finite.
LEMMA Counted ==
  ASSUME TypeOK, NEW h \in Height
  PROVE  /\ IsFiniteSet(echoes[h]) /\ Cardinality(echoes[h]) \in Nat
         /\ IsFiniteSet(readies[h]) /\ Cardinality(readies[h]) \in Nat
<1>1. echoes[h] \subseteq Echo /\ readies[h] \subseteq Node
  BY DEF TypeOK
<1> QED
  BY <1>1, EchoesFinite, WrbcAssumption, FS_Subset, FS_CardinalityType

\* More than one ready comes from a follower.
LEMMA ManyReadies ==
  ASSUME TypeOK, NEW h \in Height, Cardinality(readies[h]) > 1
  PROVE  ~(readies[h] \subseteq {Leader})
<1>1. IsFiniteSet({Leader}) /\ Cardinality({Leader}) = 1
  BY FS_Singleton
<1> QED
  BY <1>1, Counted, FS_Subset

-----------------------------------------------------------------------------
(***************************************************************************)
(* Each part of the invariant is kept by every step.                       *)
(***************************************************************************)

LEMMA TypeStep == ASSUME IInv, [Next]_vars PROVE TypeOK'
<1>0. TypeOK /\ OrderInv /\ MaxHeight \in Nat
  BY WrbcAssumption DEF IInv
<1> USE DEF TypeOK, leaderVars, mainVars, valVars, Height
<1>1. CASE UNCHANGED vars
  BY <1>0, <1>1 DEF vars
<1>2. CASE Propose
  <2>1. <<Leader, "val">> \in Echo
    BY Thresholds DEF Echo
  <2>2. echoes' \in [Height -> SUBSET Echo]
    BY <1>0, <1>2, <2>1 DEF Propose
  <2>3. proposed' \in 0 .. MaxHeight + 1
    BY <1>0, <1>2 DEF Propose
  <2> QED
    BY <1>0, <1>2, <2>2, <2>3 DEF Propose
<1>3. CASE LeaderReady
  BY <1>0, <1>3, Thresholds DEF LeaderReady
<1>4. CASE LeaderOutput
  BY <1>0, <1>4 DEF LeaderOutput, MayLeaderOutput
<1>5. ASSUME NEW i \in Follower, Step(i) PROVE TypeOK'
  <2>0. i \in Node
    BY DEF Follower
  <2>1. CASE CheckBuffers(i)
    BY <1>0, <2>1 DEF CheckBuffers
  <2>2. CASE SendReady(i)
    <3>1. counted' \in [Follower -> BOOLEAN]
      BY <1>0, <2>2 DEF SendReady
    <3> QED
      BY <1>0, <2>0, <2>2, <3>1 DEF SendReady
  <2>3. CASE FinishHeight(i)
    <3>1. stale' \in [Follower -> BOOLEAN]
      BY <1>0, <2>3 DEF FinishHeight
    <3>2. height' \in [Follower -> 0 .. MaxHeight + 1]
      BY <1>0, <2>3 DEF FinishHeight, Main
    <3> QED
      BY <1>0, <2>3, <3>1, <3>2 DEF FinishHeight
  <2>4. CASE EndStale(i)
    BY <1>0, <2>4 DEF EndStale
  <2>5. ASSUME NEW h \in Height, ReceiveVal(i, h) PROVE TypeOK'
    <3>1. out' \in [Follower -> 0 .. MaxHeight + 1]
      <4>1. Outputs(out[i], infos[i], vals[i] \cup {h}) \in out[i] .. infos[i]
        BY <1>0, OutputsType DEF OrderInv
      <4> QED
        BY <1>0, <2>5, <4>1 DEF ReceiveVal
    <3>2. <<i, "val">> \in Echo
      BY <2>0 DEF Echo
    <3>3. echoes' \in [Height -> SUBSET Echo]
      BY <1>0, <2>5, <3>2 DEF ReceiveVal
    <3> QED
      BY <1>0, <2>5, <3>1, <3>3 DEF ReceiveVal
  <2>6. CASE ReceiveInfo(i)
    <3>1. infos[i] + 1 \in 0 .. MaxHeight + 1
      BY <1>0, <2>6 DEF ReceiveInfo, MayReceiveInfo
    <3>2. out' \in [Follower -> 0 .. MaxHeight + 1]
      <4>1. Outputs(out[i], infos[i] + 1, vals[i]) \in out[i] .. infos[i] + 1
        BY <1>0, <3>1, OutputsType DEF OrderInv
      <4> QED
        BY <1>0, <2>6, <3>1, <4>1 DEF ReceiveInfo
    <3>3. <<i, "info">> \in Echo
      BY <2>0 DEF Echo
    <3>4. echoes' \in [Height -> SUBSET Echo]
      BY <1>0, <2>6, <3>3 DEF ReceiveInfo
    <3> QED
      BY <1>0, <2>6, <3>1, <3>2, <3>4 DEF ReceiveInfo
  <2>7. CASE DropEcho(i)
    <3>1. lost' \in [Follower -> [Height -> Nat]]
      BY <1>0, <2>7, SMTT(30) DEF DropEcho
    <3> QED
      BY <1>0, <2>7, <3>1 DEF DropEcho
  <2>8. CASE Steal(i)
    BY <1>0, <2>8 DEF Steal
  <2> QED
    BY <1>5, <2>1, <2>2, <2>3, <2>4, <2>5, <2>6, <2>7, <2>8 DEF Step, Proceed
<1> QED
  BY <1>1, <1>2, <1>3, <1>4, <1>5 DEF Next, LeaderStep

\* What has been sent, received or finished stays so.
LEMMA Growing ==
  ASSUME IInv, [Next]_vars
  PROVE  /\ proposed <= proposed'
         /\ \A h \in Height : echoes[h] \subseteq echoes'[h]
         /\ \A h \in Height : readies[h] \subseteq readies'[h]
         /\ \A i \in Follower : vals[i] \subseteq vals'[i] /\ infos[i] <= infos'[i]
<1>0. TypeOK
  BY DEF IInv
<1> USE DEF TypeOK, leaderVars, mainVars, valVars
<1>1. CASE UNCHANGED vars
  BY <1>0, <1>1 DEF vars
<1>2. CASE LeaderStep
  BY <1>0, <1>2 DEF LeaderStep, Propose, LeaderReady, LeaderOutput
<1>3. ASSUME NEW n \in Follower, Step(n)
      PROVE  /\ proposed = proposed'
             /\ \A h \in Height : echoes[h] \subseteq echoes'[h]
             /\ \A h \in Height : readies[h] \subseteq readies'[h]
             /\ \A i \in Follower : vals[i] \subseteq vals'[i] /\ infos[i] <= infos'[i]
  <2>1. CASE CheckBuffers(n) \/ FinishHeight(n) \/ EndStale(n) \/ DropEcho(n) \/ Steal(n)
    BY <1>0, <2>1 DEF CheckBuffers, FinishHeight, EndStale, DropEcho, Steal
  <2>2. CASE SendReady(n)
    BY <1>0, <2>2 DEF SendReady
  <2>3. CASE \E h \in Height : ReceiveVal(n, h)
    BY <1>0, <2>3 DEF ReceiveVal
  <2>4. CASE ReceiveInfo(n)
    BY <1>0, <2>4 DEF ReceiveInfo
  <2> QED
    BY <1>3, <2>1, <2>2, <2>3, <2>4 DEF Step, Proceed
<1> QED
  BY <1>0, <1>1, <1>2, <1>3 DEF Next

LEMMA OrderStep == ASSUME IInv, [Next]_vars PROVE OrderInv'
<1>0. TypeOK /\ OrderInv /\ MaxHeight \in Nat
  BY WrbcAssumption DEF IInv
<1> USE DEF TypeOK, OrderInv, leaderVars, mainVars, valVars
<1>1. CASE UNCHANGED vars
  BY <1>0, <1>1 DEF vars
<1>2. CASE LeaderStep
  BY <1>0, <1>2 DEF LeaderStep, Propose, LeaderReady, LeaderOutput, MayLeaderOutput
<1>3. ASSUME NEW n \in Follower, Step(n) PROVE OrderInv'
  <2>1. CASE CheckBuffers(n) \/ SendReady(n) \/ EndStale(n) \/ DropEcho(n) \/ Steal(n)
    BY <1>0, <2>1 DEF CheckBuffers, SendReady, EndStale, DropEcho, Steal
  <2>2. CASE FinishHeight(n)
    BY <1>0, <2>2 DEF FinishHeight
  <2>3. ASSUME NEW h \in Height, ReceiveVal(n, h) PROVE OrderInv'
    <3>1. Outputs(out[n], infos[n], vals[n] \cup {h}) \in out[n] .. infos[n]
      BY <1>0, OutputsType
    <3> QED
      BY <1>0, <2>3, <3>1 DEF ReceiveVal
  <2>4. CASE ReceiveInfo(n)
    <3>1. Outputs(out[n], infos[n] + 1, vals[n]) \in out[n] .. infos[n] + 1
      BY <1>0, OutputsType
    <3> QED
      BY <1>0, <2>4, <3>1 DEF ReceiveInfo, MayReceiveInfo
  <2> QED
    BY <1>3, <2>1, <2>2, <2>3, <2>4 DEF Step, Proceed
<1> QED
  BY <1>1, <1>2, <1>3 DEF Next

LEMMA OutStep == ASSUME IInv, [Next]_vars PROVE OutInv'
<1>0. TypeOK /\ OrderInv /\ OutInv
  BY DEF IInv
<1>1. ASSUME UNCHANGED out PROVE OutInv'
  BY <1>0, <1>1, Growing DEF OutInv
<1>2. ASSUME NEW n \in Follower, NEW k \in Nat, NEW V, out[n] <= k, vals[n] \subseteq V,
             out' = [out EXCEPT ![n] = Outputs(@, k, V)], V \subseteq vals'[n]
      PROVE  OutInv'
  <2> DEFINE new == Outputs(out[n], k, V)
  <2>1. new \in Int /\ \A h \in out[n] .. new - 1 : h \in V
    BY <1>0, <1>2, OutputsType DEF TypeOK
  <2>2. out'[n] = new /\ \A i \in Follower \ {n} : out'[i] = out[i]
    BY <1>0, <1>2 DEF TypeOK
  <2>3. ASSUME NEW h \in Height, h < new PROVE h \in vals'[n]
    <3>1. h \in Int /\ out[n] \in Int
      BY <1>0 DEF TypeOK, Height
    <3>2. h < out[n] \/ h \in out[n] .. new - 1
      BY <2>1, <2>3, <3>1
    <3> QED
      BY <1>0, <1>2, <2>1, <3>2 DEF OutInv
  <2> HIDE DEF new
  <2> QED
    BY <1>0, <2>2, <2>3, Growing DEF OutInv
<1>3. ASSUME NEW n \in Follower, NEW h \in Height, ReceiveVal(n, h) PROVE OutInv'
  <2>1. /\ out' = [out EXCEPT ![n] = Outputs(@, infos[n], vals[n] \cup {h})]
        /\ vals'[n] = vals[n] \cup {h}
        /\ infos[n] \in Nat /\ out[n] <= infos[n]
    BY <1>0, <1>3 DEF ReceiveVal, TypeOK, OrderInv
  <2> QED
    BY <1>2, <2>1
<1>4. ASSUME NEW n \in Follower, ReceiveInfo(n) PROVE OutInv'
  <2>1. /\ out' = [out EXCEPT ![n] = Outputs(@, infos[n] + 1, vals[n])]
        /\ vals' = vals
        /\ infos[n] + 1 \in Nat /\ out[n] <= infos[n] + 1
    BY <1>0, <1>4 DEF ReceiveInfo, TypeOK, OrderInv
  <2> QED
    BY <1>2, <2>1
<1>5. \/ UNCHANGED out
      \/ \E n \in Follower : (\E h \in Height : ReceiveVal(n, h)) \/ ReceiveInfo(n)
  BY DEF Next, vars, valVars, LeaderStep, Propose, LeaderReady, LeaderOutput, Step,
         Proceed, CheckBuffers, SendReady, FinishHeight, EndStale, DropEcho, Steal
<1> QED
  BY <1>1, <1>3, <1>4, <1>5

LEMMA EchoStep == ASSUME IInv, [Next]_vars PROVE EchoInv'
<1>0. TypeOK /\ EchoInv
  BY DEF IInv
<1>1. ASSUME UNCHANGED echoes PROVE EchoInv'
  <2>1. \A i \in Follower : /\ vals[i] \subseteq vals'[i]
                            /\ \A h \in Height : h <= infos[i] => h <= infos'[i]
    BY <1>0, TypeStep, Growing DEF TypeOK, Height
  <2> QED
    BY <1>0, <1>1, <2>1 DEF EchoInv
<1>2. CASE Propose
  <2>1. \A h \in Height : echoes'[h] \subseteq echoes[h] \cup {<<Leader, "val">>}
    BY <1>0, <1>2 DEF Propose, TypeOK
  <2>2. UNCHANGED <<vals, infos>>
    BY <1>2 DEF Propose, valVars
  <2> QED
    BY <1>0, <2>1, <2>2, Thresholds DEF EchoInv, Follower
<1>3. ASSUME NEW n \in Follower, NEW h \in Height, ReceiveVal(n, h) PROVE EchoInv'
  <2>1. /\ vals' = [vals EXCEPT ![n] = @ \cup {h}]
        /\ echoes' = [echoes EXCEPT ![h] = @ \cup IF Due(n, h) THEN {<<n, "val">>} ELSE {}]
        /\ infos' = infos /\ h \notin vals[n]
    BY <1>3 DEF ReceiveVal, MayReceiveVal
  <2>2. \A k \in Height :
          /\ echoes'[k] \subseteq echoes[k] \cup {<<n, "val">>}
          /\ <<n, "val">> \in echoes'[k] /\ <<n, "val">> \notin echoes[k]
               => k = h /\ h <= infos[n] /\ <<n, "info">> \notin echoes[h]
    BY <1>0, <2>1 DEF Due, TypeOK, EchoInv
  <2>3. \A i \in Follower : vals[i] \subseteq vals'[i] /\ h \in vals'[n]
    BY <1>0, <2>1 DEF TypeOK
  <2> QED
    BY <1>0, <2>1, <2>2, <2>3, Thresholds DEF EchoInv
<1>4. ASSUME NEW n \in Follower, ReceiveInfo(n) PROVE EchoInv'
  <2>1. /\ vals' = vals
        /\ infos' = [infos EXCEPT ![n] = infos[n] + 1]
        /\ echoes' = [h \in Height |->
             echoes[h] \cup IF h = infos[n] + 1 /\ h \in vals[n] THEN {<<n, "info">>} ELSE {}]
    BY <1>4 DEF ReceiveInfo
  <2>2. \A k \in Height :
          /\ echoes'[k] \subseteq echoes[k] \cup {<<n, "info">>}
          /\ <<n, "info">> \in echoes'[k] /\ <<n, "info">> \notin echoes[k]
               => k = infos[n] + 1 /\ k \in vals[n] /\ <<n, "val">> \notin echoes[k]
    BY <1>0, <2>1 DEF TypeOK, EchoInv, Height
  <2>3. \A i \in Follower : infos[i] <= infos'[i] /\ infos'[n] = infos[n] + 1
                              /\ infos[i] \in Int /\ infos'[i] \in Int
    BY <1>0, <2>1 DEF TypeOK
  <2>4. Height \subseteq Int
    BY DEF Height
  <2> QED
    BY <1>0, <2>1, <2>2, <2>3, <2>4, Thresholds DEF EchoInv
<1>5. \/ UNCHANGED echoes \/ Propose
      \/ \E n \in Follower : (\E h \in Height : ReceiveVal(n, h)) \/ ReceiveInfo(n)
  BY DEF Next, vars, LeaderStep, LeaderReady, LeaderOutput, Step, Proceed,
         CheckBuffers, SendReady, FinishHeight, EndStale, DropEcho, Steal
<1> QED
  BY <1>1, <1>2, <1>3, <1>4, <1>5

\* EchoCount is at most the number of echos: some are dropped.
LEMMA ReadyStep == ASSUME IInv, [Next]_vars PROVE ReadyInv'
<1>0. TypeOK /\ ReadyInv /\ TypeOK'
  BY TypeStep DEF IInv
<1>1. ASSUME NEW h \in Height, Cardinality(echoes[h]) >= 2 * threshold + 1
      PROVE  Cardinality(echoes'[h]) >= 2 * threshold + 1
  <2>1. /\ IsFiniteSet(echoes'[h]) /\ Cardinality(echoes'[h]) \in Int
        /\ Cardinality(echoes[h]) \in Int
    BY <1>0, Counted, EchoesFinite, FS_Subset, FS_CardinalityType DEF TypeOK
  <2>2. Cardinality(echoes[h]) <= Cardinality(echoes'[h])
    BY <2>1, Growing, FS_Subset
  <2> QED
    BY <1>1, <2>1, <2>2, Thresholds
<1>2. ASSUME UNCHANGED readies PROVE ReadyInv'
  BY <1>0, <1>1, <1>2 DEF ReadyInv
<1>3. CASE LeaderReady
  <2>1. readies' = [readies EXCEPT ![lheight] = @ \cup {Leader}]
    BY <1>3 DEF LeaderReady
  <2> QED
    BY <1>0, <1>1, <2>1 DEF ReadyInv, TypeOK
<1>4. ASSUME NEW n \in Follower, SendReady(n) PROVE ReadyInv'
  <2> DEFINE h == height[n]
  <2>1. /\ h \in Height /\ readies' = [readies EXCEPT ![h] = @ \cup {n}]
        /\ EchoCount(n) >= 2 * threshold + 1 \/ Cardinality(readies[h]) >= threshold + 1
    BY <1>0, <1>4, WrbcAssumption
       DEF SendReady, MaySendReady, Main, ReadyCount, EchoQuorum, ReadyBack, Height, TypeOK
  <2>2. threshold = 0 \/ Cardinality(echoes[h]) >= 2 * threshold + 1
    <3>1. CASE EchoCount(n) >= 2 * threshold + 1
      <4>1. lost[n][h] \in Nat /\ Cardinality(echoes[h]) \in Nat
        BY <1>0, <2>1, Counted DEF TypeOK
      <4> QED
        BY <3>1, <4>1, Thresholds DEF EchoCount
    <3>2. CASE Cardinality(readies[h]) >= threshold + 1 /\ threshold # 0
      <4>1. Cardinality(readies[h]) > 1
        BY <1>0, <2>1, <3>2, Thresholds, Counted
      <4>2. ~(readies[h] \subseteq {Leader})
        BY <1>0, <2>1, <4>1, ManyReadies
      <4> QED
        BY <1>0, <2>1, <4>2 DEF ReadyInv
    <3> QED
      BY <2>1, <3>1, <3>2
  <2>3. ASSUME NEW k \in Height, k # h
        PROVE  readies'[k] = readies[k]
    BY <1>0, <2>1, <2>3 DEF TypeOK
  <2> HIDE DEF h
  <2> QED
    BY <1>0, <1>1, <2>1, <2>2, <2>3 DEF ReadyInv
<1>5. \/ UNCHANGED readies \/ LeaderReady \/ \E n \in Follower : SendReady(n)
  BY DEF Next, vars, LeaderStep, Propose, LeaderOutput, Step, Proceed, CheckBuffers,
         FinishHeight, EndStale, ReceiveVal, ReceiveInfo, DropEcho, Steal
<1> QED
  BY <1>2, <1>3, <1>4, <1>5

LEMMA FinishStep == ASSUME IInv, [Next]_vars PROVE FinishInv'
<1>0. TypeOK /\ FinishInv
  BY DEF IInv
<1>1. ASSUME NEW h \in Height, threshold = 0 \/ ~(readies[h] \subseteq {Leader})
      PROVE  threshold = 0 \/ ~(readies'[h] \subseteq {Leader})
  BY <1>1, Growing
<1>2. ASSUME UNCHANGED <<lheight, height>> PROVE FinishInv'
  BY <1>0, <1>1, <1>2 DEF FinishInv
<1>3. CASE LeaderOutput
  <2>1. /\ lheight' = lheight + 1 /\ UNCHANGED height
        /\ Cardinality(readies[lheight]) >= 2 * threshold
    BY <1>3 DEF LeaderOutput, MayLeaderOutput, mainVars
  <2>2. ASSUME NEW h \in Height, h = lheight
        PROVE  threshold = 0 \/ ~(readies[h] \subseteq {Leader})
    <3>1. threshold = 0 \/ Cardinality(readies[h]) > 1
      BY <1>0, <2>1, <2>2, Thresholds, Counted
    <3> QED
      BY <1>0, <3>1, ManyReadies
  <2>3. lheight \in Int /\ Height \subseteq Int
    BY <1>0 DEF TypeOK, Height
  <2> QED
    BY <1>0, <1>1, <2>1, <2>2, <2>3 DEF FinishInv
<1>4. ASSUME NEW n \in Follower, FinishHeight(n) PROVE FinishInv'
  <2>1. /\ height' = [height EXCEPT ![n] = @ + 1] /\ UNCHANGED lheight
        /\ Cardinality(readies[height[n]]) >= 2 * threshold + 1
    BY <1>4 DEF FinishHeight, ReadyCount, leaderVars
  <2>2. ASSUME NEW h \in Height, h = height[n]
        PROVE  threshold = 0 \/ ~(readies[h] \subseteq {Leader})
    <3>1. threshold = 0 \/ Cardinality(readies[h]) > 1
      BY <1>0, <2>1, <2>2, Thresholds, Counted
    <3> QED
      BY <1>0, <3>1, ManyReadies
  <2>3. /\ Height \subseteq Int
        /\ \A i \in Follower : height[i] \in Int
        /\ \A i \in Follower : height'[i] = IF i = n THEN height[n] + 1 ELSE height[i]
    BY <1>0, <2>1 DEF TypeOK, Height
  <2> QED
    BY <1>0, <1>1, <2>1, <2>2, <2>3 DEF FinishInv
<1>5. \/ UNCHANGED <<lheight, height>> \/ LeaderOutput
      \/ \E n \in Follower : FinishHeight(n)
  BY DEF Next, vars, leaderVars, mainVars, LeaderStep, Propose, LeaderReady, Step,
         Proceed, CheckBuffers, SendReady, EndStale, ReceiveVal, ReceiveInfo,
         DropEcho, Steal
<1> QED
  BY <1>2, <1>3, <1>4, <1>5

-----------------------------------------------------------------------------
(***************************************************************************)
(* The theorems.                                                           *)
(***************************************************************************)

LEMMA InitIInv == Init => IInv
<1> SUFFICES ASSUME Init PROVE IInv
  OBVIOUS
<1>1. MaxHeight \in Nat /\ Crashes \subseteq SUBSET Follower
  BY WrbcAssumption DEF Follower
<1>2. TypeOK
  BY <1>1 DEF Init, TypeOK, Height
<1>3. OrderInv /\ OutInv /\ EchoInv /\ ReadyInv /\ FinishInv
  BY DEF Init, OrderInv, OutInv, EchoInv, ReadyInv, FinishInv, Height
<1> QED
  BY <1>2, <1>3 DEF IInv

\* The invariant holds of every reachable state.
THEOREM Invariance == Spec => []IInv
<1>1. IInv /\ [Next]_vars => IInv'
  BY TypeStep, OrderStep, OutStep, EchoStep, ReadyStep, FinishStep DEF IInv
<1> QED
  BY InitIInv, <1>1, PTL DEF Spec

\* The variables have their types: no node passes the last block that the
\* leader proposes, and Outputs of handle_val always has a value.
THEOREM TypeCorrect == Spec => []TypeOK
<1>1. IInv => TypeOK
  BY DEF IInv
<1> QED
  BY Invariance, <1>1, PTL

\* No node echoes a height twice, from the val branch of handle_val and from
\* its roundinfo branch: handle_echo, which counts messages, counts nodes.
THEOREM EchoCorrect == Spec => []EchoOnce
<1>1. IInv => EchoOnce
  BY DEF IInv, EchoInv, EchoOnce
<1> QED
  BY Invariance, <1>1, PTL

\* The echos of a height are not more than the nodes that hold its block.
LEMMA EchoesAreHolders ==
  ASSUME IInv, NEW h \in Height
  PROVE  Cardinality(echoes[h]) <= Cardinality(Holders(h))
<1> DEFINE g == [e \in echoes[h] |-> e[1]]
<1>1. /\ echoes[h] \subseteq Node \X {"val", "info"}
      /\ \A i \in Node : ~({<<i, "val">>, <<i, "info">>} \subseteq echoes[h])
      /\ \A i \in Follower, b \in {"val", "info"} : <<i, b>> \in echoes[h] => h \in vals[i]
  BY DEF IInv, TypeOK, Echo, EchoInv
<1>2. g \in [echoes[h] -> Holders(h)]
  <2> SUFFICES ASSUME NEW e \in echoes[h] PROVE e[1] \in Holders(h)
    OBVIOUS
  <2>1. PICK i \in Node, b \in {"val", "info"} : e = <<i, b>>
    BY <1>1
  <2>2. i = Leader \/ h \in vals[i]
    BY <1>1, <2>1 DEF Follower
  <2> QED
    BY <2>1, <2>2 DEF Holders, Follower
<1>3. ASSUME NEW d \in echoes[h], NEW e \in echoes[h], d[1] = e[1] PROVE d = e
  BY <1>1, <1>3
<1>4. g \in Injection(echoes[h], Holders(h))
  BY <1>2, <1>3 DEF Injection, IsInjective
<1>5. Holders(h) \subseteq Node
  BY WrbcAssumption DEF Holders, Follower
<1>6. IsFiniteSet(Holders(h))
  BY <1>5, WrbcAssumption, FS_Subset
<1> HIDE DEF g
<1> QED
  BY <1>4, <1>6, FS_Injection

\* What a node has finished 2f+1 nodes hold, however late the vals and the
\* roundinfos come, which echos old goroutines drop and which nodes are down:
\* the leader's lower numbers (2f echos, 2f readies) do not matter, as a
\* follower whose ready it needs has counted 2f+1 echos, or another has.
THEOREM HeldCorrect == Spec => []FinishedIsHeld
<1>1. IInv => FinishedIsHeld
  <2> SUFFICES ASSUME IInv, NEW h \in Height,
                      lheight > h \/ \E i \in Follower : height[i] > h
               PROVE  Cardinality(Holders(h)) >= 2 * threshold + 1
    BY DEF FinishedIsHeld
  <2>0. IsFiniteSet(Holders(h)) /\ Cardinality(Holders(h)) \in Nat
    BY WrbcAssumption, FS_Subset, FS_CardinalityType DEF Holders, Follower
  <2>1. CASE threshold = 0
    <3>1. Cardinality(Holders(h)) # 0
      BY <2>0, FS_EmptySet DEF Holders
    <3> QED
      BY <2>0, <2>1, <3>1
  <2>2. CASE threshold # 0
    <3>1. ~(readies[h] \subseteq {Leader})
      BY <2>2 DEF IInv, FinishInv
    <3>2. Cardinality(echoes[h]) >= 2 * threshold + 1
      BY <2>2, <3>1 DEF IInv, ReadyInv
    <3>3. Cardinality(echoes[h]) \in Nat
      BY Counted DEF IInv
    <3> QED
      BY <2>0, <3>2, <3>3, EchoesAreHolders, Thresholds
  <2> QED
    BY <2>1, <2>2
<1> QED
  BY Invariance, <1>1, PTL

\* A follower outputs what it holds and what 2f+1 nodes hold.
OutputIsHeld ==
  \A i \in Follower, h \in Height :
    h < out[i] => i \in Holders(h) /\ Cardinality(Holders(h)) >= 2 * threshold + 1

\* handle_val outputs a block only when its height is finished and the node
\* has the val: the others can still get it from 2f+1 nodes.
THEOREM OutputCorrect == Spec => []OutputIsHeld
<1>1. IInv /\ FinishedIsHeld => OutputIsHeld
  <2> SUFFICES ASSUME IInv, FinishedIsHeld,
                      NEW i \in Follower, NEW h \in Height, h < out[i]
               PROVE  i \in Holders(h) /\ Cardinality(Holders(h)) >= 2 * threshold + 1
    BY DEF OutputIsHeld
  <2>1. height[i] > h
    <3>1. /\ out[i] \in Int /\ infos[i] \in Int /\ height[i] \in Int /\ h \in Int
          /\ out[i] <= infos[i] /\ infos[i] <= height[i]
      BY DEF IInv, TypeOK, OrderInv, Height
    <3> QED
      BY <3>1
  <2> QED
    BY <2>1 DEF IInv, OutInv, Holders, FinishedIsHeld
<1> QED
  BY Invariance, HeldCorrect, <1>1, PTL

=============================================================================
