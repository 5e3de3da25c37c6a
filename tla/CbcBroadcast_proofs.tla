------------------------ MODULE CbcBroadcast_proofs ------------------------
(***************************************************************************)
(* Proofs about CbcBroadcast, for any number of followers, crashed ones,   *)
(* heights and losses.                                                     *)
(***************************************************************************)
EXTENDS CbcBroadcast, FiniteSetTheorems, SequenceTheorems, WellFoundedInduction, TLAPS

-----------------------------------------------------------------------------
(***************************************************************************)
(* The inductive invariant.                                                *)
(***************************************************************************)

\* The number of blocks the leader has proposed.
Proposed == IF collecting THEN lheight + 1 ELSE lheight

\* The blocks below this one are in the leader's database.
Kept == IF lat = "put" THEN lheight - 1 ELSE lheight

\* Every block on its way, buffered, signed or stored has been proposed, and
\* the leader keeps the certified ones, among them all that are called for.
BlockInv ==
  /\ collecting => lheight <= MaxHeight
  /\ lat \in {"put", "close"} => lheight > 0
  /\ ~Testmode => 0 .. Kept - 1 \subseteq ldb
  /\ \A f \in Follower :
       /\ \A k \in 1 .. Len(link[f]) : link[f][k] < Proposed
       /\ \A m \in help[f] : m[2] < Proposed
       /\ \A b \in buf[f] \cup calls[f] \cup calling[f] : 1 <= b /\ b < Proposed
       /\ fheight[f] <= Proposed
       /\ Storing(f) => fheight[f] < Proposed
  /\ \A a \in asks : a[2] \in 0 .. Kept - 1

\* Outside test mode a follower has the blocks below its height in its
\* database; in test mode nobody calls for help.
DatabaseInv ==
  /\ ~Testmode => \A f \in Follower :
       /\ 0 .. fheight[f] - 1 \subseteq db[f]
       /\ at[f] = "advance" => fheight[f] \in db[f]
  /\ Testmode => asks = {} /\ \A f \in Follower : calls[f] = {} /\ calling[f] = {}

\* A payback is of a block that its sender has signed; from the sender to the
\* counter there is at most one of the height under way.
PaybackInv ==
  /\ \A m \in msgIn : Signed(m.ID, m.Round)
  /\ \A f \in paybackCH : Signed(f, lheight)
  /\ \A f \in Follower :
       [Round |-> lheight, ID |-> f] \in msgIn => f \notin paybackCH
  /\ collecting =>
       /\ signcount = Cardinality(mems)
       /\ \A f \in mems :
            /\ Signed(f, lheight)
            /\ f \notin paybackCH
            /\ [Round |-> lheight, ID |-> f] \notin msgIn

\* What a follower has delivered is the chain below the block it holds.
OutInv ==
  \A f \in Follower :
    /\ lastblock[f] = fheight[f] - 1
    /\ Len(out[f]) = IF at[f] \in {"put", "advance"} THEN fheight[f]
                     ELSE IF fheight[f] = 0 THEN 0 ELSE fheight[f] - 1
    /\ \A i \in 1 .. Len(out[f]) : out[f][i] = i - 1

\* lowwest is a block of the buffer, though not always the lowest one, or
\* below the height, or that of the block just popped; a follower pops only if
\* it is the height.
BufferInv ==
  \A f \in Follower :
    /\ lowwest[f] # 0
    /\ lowwest[f] = -1 => buf[f] = {}
    /\ \/ lowwest[f] \in buf[f] \/ lowwest[f] < fheight[f]
       \/ Storing(f) /\ lowwest[f] = fheight[f]
    /\ at[f] = "pop" => lowwest[f] = fheight[f] /\ lowwest[f] \in buf[f]

\* All blocks from the height to the highest one seen are buffered or called
\* for, and so is a block whose goroutine is half done.
Called(f) ==
  /\ \A b \in buf[f] \ calling[f] : b <= highest[f]
  /\ \A b \in calling[f] : b \in buf[f] \/ Signed(f, b)
  /\ \A r \in Height :
       ~Signed(f, r) /\ r <= highest[f] => r \in buf[f] \cup calls[f] \cup asked[f]

\* Before its first block a follower has seen none: the first block is the
\* first on its link.
Fresh(f) ==
  fheight[f] = 0 =>
    /\ calls[f] = {} /\ calling[f] = {} /\ help[f] = {} /\ \A a \in asks : a[1] # f
    /\ Proposed > 0 => Storing(f) \/ (link[f] # <<>> /\ link[f][1] = 0)

\* This holds outside test mode, in which nobody calls, and if the first block
\* is not lost, which nobody calls for.
GapInv ==
  ~Testmode /\ FirstLost >= 1 => \A f \in Follower : Called(f) /\ Fresh(f)

IInv ==
  /\ TypeOK /\ BlockInv /\ DatabaseInv /\ PaybackInv /\ CertifiedIsSigned
  /\ OutInv /\ BufferInv /\ GapInv

-----------------------------------------------------------------------------
(***************************************************************************)
(* Numbers.                                                                *)
(***************************************************************************)

\* A set of naturals has a least element.
LEMMA LeastNumber ==
  ASSUME NEW S \in SUBSET Nat, S # {}
  PROVE  \E m \in S : \A n \in S : m <= n
<1>1. PICK m \in S : \A n \in S : <<n, m>> \notin OpToRel(<, Nat)
  BY NatLessThanWellFounded, WFMin
<1>2. ASSUME NEW n \in S PROVE m <= n
  <2>1. <<n, m>> \notin {ss \in Nat \X Nat : ss[1] < ss[2]}
    BY <1>1 DEF OpToRel
  <2> QED
    BY <2>1
<1> QED
  BY <1>2

LEMMA MinOfHeights ==
  ASSUME NEW S \in SUBSET Height, S # {}
  PROVE  Min(S) \in S /\ \A n \in S : Min(S) <= n
<1>1. S \in SUBSET Nat
  BY DEF Height
<1>2. \E m \in S : \A n \in S : m <= n
  BY <1>1, LeastNumber
<1> QED
  BY <1>2 DEF Min

LEMMA MaxOfTwo ==
  ASSUME NEW a \in Int, NEW b \in Int
  PROVE  Max({a, b}) = IF a >= b THEN a ELSE b
<1>1. \E x \in {a, b} : \A y \in {a, b} : x >= y
  OBVIOUS
<1>2. Max({a, b}) \in {a, b} /\ \A y \in {a, b} : Max({a, b}) >= y
  BY <1>1 DEF Max
<1> QED
  BY <1>2

LEMMA Heights ==
  /\ MaxHeight \in Nat /\ Correct \subseteq Follower
  /\ Height \subseteq Nat /\ \A h \in Height : h \in Int
BY CbcAssumption DEF Height, Correct

-----------------------------------------------------------------------------
(***************************************************************************)
(* What a step changes.                                                    *)
(***************************************************************************)

\* What is asked for lies between the height and the block that has come.
LEMMA MissingBlocks ==
  ASSUME TypeOK, NEW f \in Follower, NEW b \in Height
  PROVE  Missing(f, b) \subseteq {r \in Height : fheight[f] <= r /\ r < b}
<1>1. fheight[f] \in Nat /\ highest[f] \in Int /\ b \in Nat /\ b <= MaxHeight /\ MaxHeight \in Nat
  BY Heights DEF TypeOK, Height
<1>2. Max({highest[f], fheight[f]}) \in Nat /\ Max({highest[f], fheight[f]}) >= fheight[f]
  BY <1>1, MaxOfTwo
<1> QED
  BY <1>1, <1>2 DEF Missing, Height

\* A block is signed when it has the height of the follower.
Signing(f) ==
  /\ Sign(f) /\ ~Storing(f)
  /\ fheight[f] < Proposed /\ fheight[f] \in Height

\* handle_bcblock takes blocks that the leader has proposed.
LEMMA Arrivals ==
  ASSUME IInv, NEW f \in Correct, ReceiveBlock(f) \/ ReceiveHelp(f)
  PROVE  \E b \in Height :
           /\ b < Proposed /\ Handle(f, b) /\ at[f] = "receive"
           /\ \/ b = link[f][1] /\ link[f] # <<>>
              \/ \E m \in help[f] : b = m[2]
<1>0. TypeOK /\ BlockInv /\ f \in Follower
  BY Heights DEF IInv
<1>1. CASE ReceiveBlock(f)
  <2>1. /\ link[f] \in Seq(Height) /\ link[f] # <<>> /\ Handle(f, link[f][1])
        /\ at[f] = "receive"
    BY <1>0, <1>1 DEF ReceiveBlock, TypeOK
  <2>2. link[f][1] \in Height /\ link[f][1] < Proposed
    BY <1>0, <2>1 DEF BlockInv
  <2> QED
    BY <2>1, <2>2
<1>2. CASE ReceiveHelp(f)
  <2>1. PICK m \in help[f] : Handle(f, m[2]) /\ at[f] = "receive"
    BY <1>2 DEF ReceiveHelp
  <2>2. m[2] \in Height /\ m[2] < Proposed
    BY <1>0, <2>1 DEF TypeOK, BlockInv
  <2> QED
    BY <2>1, <2>2
<1> QED
  BY <1>1, <1>2

\* The steps of the main goroutine after a block is signed.
Finishing(f) == Output(f) \/ Put(f) \/ Advance(f)

\* The steps that sign no block and finish none.
Quiet(f) ==
  /\ UNCHANGED <<msgIn, fheight, lastblock, db, out>>
  /\ \/ UNCHANGED at
     \/ /\ \E a \in {"top", "pop", "receive"} : at' = [at EXCEPT ![f] = a]
        /\ ~Storing(f)

\* A follower signs the block of its height, finishes one, or neither.
LEMMA Stores ==
  ASSUME IInv, NEW f \in Correct, FollowerNext(f)
  PROVE  \/ Quiet(f)
         \/ Signing(f) /\ UNCHANGED <<fheight, lastblock, db, out>>
         \/ Finishing(f)
<1>0. TypeOK /\ BlockInv /\ BufferInv /\ f \in Follower
  BY Heights DEF IInv
<1>1. CASE Top(f)
  BY <1>1 DEF Top, Quiet, Storing
<1>2. CASE Pop(f)
  <2> DEFINE b == Min(buf[f])
  <2>1. buf[f] \subseteq Height /\ buf[f] # {}
    BY <1>0, <1>2 DEF Pop, BufferInv, TypeOK
  <2>2. b \in buf[f] /\ b \in Height /\ b < Proposed
    BY <1>0, <2>1, MinOfHeights DEF BlockInv
  <2> HIDE DEF b
  <2>3. /\ IF b = fheight[f] THEN Sign(f) ELSE Skip(f)
        /\ at[f] = "pop" /\ UNCHANGED <<fheight, lastblock, db, out>>
    BY <1>2 DEF Pop, b
  <2> QED
    BY <2>2, <2>3 DEF Skip, Signing, Quiet, Storing
<1>3. CASE ReceiveBlock(f) \/ ReceiveHelp(f)
  <2>1. PICK b \in Height : b < Proposed /\ Handle(f, b) /\ at[f] = "receive"
    BY <1>3, Arrivals
  <2>2. /\ IF b = fheight[f] THEN Sign(f) ELSE Skip(f)
        /\ UNCHANGED <<fheight, lastblock, db, out>>
    BY <2>1 DEF Handle, IsNext
  <2> QED
    BY <2>1, <2>2 DEF Skip, Signing, Quiet, Storing
<1>4. CASE Finishing(f)
  BY <1>4
<1>5. CASE \/ \E b \in calls[f] : PutFuture(f, b)
           \/ \E b \in calling[f] : CallHelp(f, b)
  BY <1>5 DEF PutFuture, CallHelp, followerVars, Quiet
<1> QED
  BY <1>1, <1>2, <1>3, <1>4, <1>5 DEF FollowerNext, Finishing

-----------------------------------------------------------------------------
(***************************************************************************)
(* Each part of the invariant is kept by every step.                       *)
(***************************************************************************)

\* A block that is signed and not done with is the one of the height.
LEMMA InHand ==
  ASSUME IInv, NEW f \in Follower, Storing(f)
  PROVE  fheight[f] \in Height /\ fheight[f] < Proposed
<1>1. /\ fheight[f] \in Nat /\ fheight[f] < Proposed /\ MaxHeight \in Nat
      /\ lheight \in 0 .. MaxHeight + 1 /\ (collecting => lheight <= MaxHeight)
  BY Heights DEF IInv, TypeOK, BlockInv
<1>2. Proposed <= MaxHeight + 1 /\ Proposed \in Int
  BY <1>1 DEF Proposed
<1> QED
  BY <1>1, <1>2 DEF Height

\* The types of what a follower changes when it signs or finishes a block.
LEMMA FollowerTypes ==
  ASSUME IInv, NEW f \in Correct, FollowerNext(f)
  PROVE  /\ msgIn' \subseteq Payback
         /\ fheight' \in [Follower -> 0 .. MaxHeight + 1]
         /\ lastblock' \in [Follower -> -1 .. MaxHeight]
         /\ db' \in [Follower -> SUBSET Height]
         /\ at' \in [Follower -> {"top", "pop", "receive", "output", "put", "advance"}]
         /\ out' \in [Follower -> Seq(Height)]
<1> USE DEF TypeOK
<1>0. TypeOK /\ OutInv /\ MaxHeight \in Nat /\ f \in Follower
  BY Heights DEF IInv
<1>1. CASE Quiet(f)
  <2>1. at' \in [Follower -> {"top", "pop", "receive", "output", "put", "advance"}]
    BY <1>0, <1>1 DEF Quiet
  <2> QED
    BY <1>0, <1>1, <2>1 DEF Quiet
<1>2. CASE Signing(f) /\ UNCHANGED <<fheight, lastblock, db, out>>
  <2>1. msgIn' \subseteq Payback
    BY <1>0, <1>2 DEF Signing, Sign, Payback
  <2>2. at' \in [Follower -> {"top", "pop", "receive", "output", "put", "advance"}]
    BY <1>0, <1>2 DEF Signing, Sign
  <2> QED
    BY <1>0, <1>2, <2>1, <2>2
<1>3. CASE Output(f)
  <2>1. (IF fheight[f] > 0 THEN Append(out[f], Delivered(f)) ELSE out[f]) \in Seq(Height)
    <3>1. CASE fheight[f] > 0
      <4>1. fheight[f] \in 0 .. MaxHeight /\ lastblock[f] = fheight[f] - 1
        BY <1>0, <1>3, InHand DEF Output, Storing, Height, OutInv
      <4>2. Delivered(f) \in Height
        BY <1>0, <3>1, <4>1 DEF Delivered, Height
      <4> QED
        BY <1>0, <3>1, <4>2
    <3> QED
      BY <1>0, <3>1
  <2>2. out' \in [Follower -> Seq(Height)]
    BY <1>0, <1>3, <2>1 DEF Output
  <2>3. at' \in [Follower -> {"top", "pop", "receive", "output", "put", "advance"}]
    BY <1>0, <1>3 DEF Output
  <2> QED
    BY <1>0, <1>3, <2>2, <2>3 DEF Output
<1>4. CASE Put(f)
  <2>1. fheight[f] \in Height
    BY <1>0, <1>4, InHand DEF Put, Storing
  <2>2. db' \in [Follower -> SUBSET Height]
    BY <1>0, <1>4, <2>1 DEF Put
  <2>3. at' \in [Follower -> {"top", "pop", "receive", "output", "put", "advance"}]
    BY <1>0, <1>4 DEF Put
  <2> QED
    BY <1>0, <1>4, <2>2, <2>3 DEF Put
<1>5. CASE Advance(f)
  <2>1. fheight[f] \in 0 .. MaxHeight
    BY <1>0, <1>5, InHand DEF Advance, Storing, Height
  <2>2. fheight' \in [Follower -> 0 .. MaxHeight + 1] /\ lastblock' \in [Follower -> -1 .. MaxHeight]
    BY <1>0, <1>5, <2>1 DEF Advance
  <2>3. at' \in [Follower -> {"top", "pop", "receive", "output", "put", "advance"}]
    BY <1>0, <1>5 DEF Advance
  <2> QED
    BY <1>0, <1>5, <2>2, <2>3 DEF Advance
<1> QED
  BY <1>1, <1>2, <1>3, <1>4, <1>5, Stores DEF Finishing

LEMMA TypeStep == ASSUME IInv, [Next]_vars PROVE TypeOK'
<1>0. TypeOK /\ BlockInv /\ BufferInv /\ MaxHeight \in Nat
  BY Heights DEF IInv
<1> USE DEF TypeOK, leaderVars, followerVars, bufferVars
<1>1. CASE UNCHANGED vars
  BY <1>0, <1>1 DEF vars
<1>2. CASE Propose
  <2>1. lheight \in Height
    BY <1>0, <1>2 DEF Propose, Height
  <2>2. link' \in [Follower -> Seq(Height)]
    <3>1. \A f \in Follower : Append(link[f], lheight) \in Seq(Height)
      BY <1>0, <2>1
    <3> QED
      BY <1>0, <1>2, <3>1 DEF Propose
  <2>3. lost' \in 0 .. MaxLost
    <3>1. PICK L \in SUBSET Correct :
            lost + Cardinality(L) <= MaxLost /\ lost' = lost + Cardinality(L)
      BY <1>2 DEF Propose
    <3>2. Cardinality(L) \in Nat
      BY CbcAssumption, FS_Subset, FS_CardinalityType DEF Correct
    <3> QED
      BY <1>0, <3>1, <3>2, CbcAssumption
  <2> QED
    BY <1>0, <1>2, <2>2, <2>3 DEF Propose
<1>3. ASSUME NEW h, NEW m \in msgIn, Route(h, m) PROVE TypeOK'
  <2>1. m.ID \in Follower
    BY <1>0 DEF Payback
  <2> QED
    BY <1>0, <1>3, <2>1 DEF Route
<1>4. ASSUME NEW h \in stale, StopRouting(h) PROVE TypeOK'
  BY <1>0, <1>4 DEF StopRouting
<1>5. ASSUME NEW f \in Follower, Collect(f) PROVE TypeOK'
  <2>1. lheight \in Height
    BY <1>0, <1>5 DEF Collect, BlockInv, Height
  <2>2. \/ lheight' = lheight + 1 /\ lat' = "put" /\ paybackCH' = {}
        \/ paybackCH' = paybackCH \ {f} /\ UNCHANGED <<lheight, lat>>
    BY <1>5 DEF Collect
  <2>3. lheight' \in 0 .. MaxHeight + 1
    BY <1>0, <2>1, <2>2 DEF Height
  <2>4. lat' \in {"propose", "collect", "put", "close"} /\ paybackCH' \subseteq Follower
    BY <1>0, <2>2
  <2>5. mems' \subseteq Follower /\ signcount' \in Nat
    BY <1>0, <1>5 DEF Collect
  <2>6. UNCHANGED <<ldb, stale, msgIn, link, help, followerVars, bufferVars, lost>>
    BY <1>5 DEF Collect
  <2> QED
    BY <1>0, <2>3, <2>4, <2>5, <2>6
<1>8. CASE LeaderPut \/ LeaderClose
  <2>1. lat \in {"put", "close"}
    BY <1>8 DEF LeaderPut, LeaderClose
  <2>2. lheight - 1 \in Height
    BY <1>0, <2>1 DEF BlockInv, Height
  <2>3. CASE LeaderPut
    BY <1>0, <2>2, <2>3 DEF LeaderPut, LeaderKey
  <2>4. CASE LeaderClose
    <3>1. Router \in Height
      BY <2>1, <2>2 DEF Router
    <3> QED
      BY <1>0, <2>4, <3>1 DEF LeaderClose
  <2> QED
    BY <1>8, <2>3, <2>4
<1>6. ASSUME NEW f \in Correct, FollowerNext(f) PROVE TypeOK'
  <2>0. f \in Follower
    BY Heights
  <2>1. /\ msgIn' \subseteq Payback
        /\ fheight' \in [Follower -> 0 .. MaxHeight + 1]
        /\ lastblock' \in [Follower -> -1 .. MaxHeight]
        /\ db' \in [Follower -> SUBSET Height]
        /\ at' \in [Follower -> {"top", "pop", "receive", "output", "put", "advance"}]
        /\ out' \in [Follower -> Seq(Height)]
    BY <1>6, FollowerTypes
  <2>2. CASE Top(f)
    <3>1. SkipOld(f)[1] \in SUBSET Height /\ SkipOld(f)[2] \in -1 .. MaxHeight
      <4> DEFINE kept == {b \in buf[f] : b >= fheight[f]}
      <4>1. kept \in SUBSET Height
        BY <1>0, <2>0
      <4>2. kept # {} => Min(kept) \in 0 .. MaxHeight
        BY <4>1, MinOfHeights DEF Height
      <4> HIDE DEF kept
      <4>3. SkipOld(f) = IF lowwest[f] > 0 /\ lowwest[f] < fheight[f]
                         THEN <<kept, IF kept = {} THEN -1 ELSE Min(kept)>>
                         ELSE <<buf[f], lowwest[f]>>
        BY DEF SkipOld, kept
      <4> QED
        BY <1>0, <2>0, <4>1, <4>2, <4>3
    <3>2. /\ buf' \in [Follower -> SUBSET Height]
          /\ lowwest' \in [Follower -> -1 .. MaxHeight]
      BY <1>0, <2>2, <3>1 DEF Top
    <3> QED
      BY <1>0, <2>1, <2>2, <3>2 DEF Top
  <2>3. CASE Pop(f)
    <3> DEFINE rest == buf[f] \ {Min(buf[f])}
    <3>1. rest \in SUBSET Height /\ (rest # {} => Min(rest) \in -1 .. MaxHeight)
      <4>1. rest \in SUBSET Height
        BY <1>0, <2>0
      <4> HIDE DEF rest
      <4>2. rest # {} => Min(rest) \in Height
        BY <4>1, MinOfHeights
      <4>3. Height \subseteq -1 .. MaxHeight
        BY DEF Height
      <4> QED
        BY <4>1, <4>2, <4>3
    <3>2. LowwestAfter(f, rest) \in -1 .. MaxHeight
      <4> HIDE DEF rest
      <4> QED
        BY <1>0, <2>0, <3>1 DEF LowwestAfter
    <3>3. /\ buf' \in [Follower -> SUBSET Height]
          /\ lowwest' \in [Follower -> -1 .. MaxHeight]
      BY <1>0, <2>3, <3>1, <3>2 DEF Pop
    <3> QED
      BY <1>0, <2>1, <2>3, <3>3 DEF Pop
  <2>4. CASE ReceiveBlock(f) \/ ReceiveHelp(f)
    <3>1. PICK b \in Height : Handle(f, b)
      BY <2>4, Arrivals
    <3>2. LowwestWith(f, b) \in -1 .. MaxHeight
      BY <1>0, <2>0 DEF LowwestWith, Height
    <3>3. /\ buf' \in [Follower -> SUBSET Height]
          /\ lowwest' \in [Follower -> -1 .. MaxHeight]
      <4>1. \/ /\ buf' = [buf EXCEPT ![f] = @ \cup {b}]
               /\ lowwest' = [lowwest EXCEPT ![f] = LowwestWith(f, b)]
            \/ UNCHANGED <<buf, lowwest>>
        BY <3>1 DEF Handle
      <4>2. buf[f] \cup {b} \in SUBSET Height
        BY <1>0, <2>0
      <4>3. CASE UNCHANGED <<buf, lowwest>>
        BY <1>0, <4>3
      <4>4. CASE /\ buf' = [buf EXCEPT ![f] = @ \cup {b}]
                 /\ lowwest' = [lowwest EXCEPT ![f] = LowwestWith(f, b)]
        BY <1>0, <2>0, <3>2, <4>2, <4>4
      <4> QED
        BY <4>1, <4>3, <4>4
    <3>5. calls' \in [Follower -> SUBSET Height]
      BY <1>0, <2>0, <3>1 DEF Handle
    <3>4. link' \in [Follower -> Seq(Height)] /\ help' \in [Follower -> SUBSET (Node \X Height)]
      <4>1. CASE ReceiveBlock(f)
        BY <1>0, <2>0, <4>1 DEF ReceiveBlock
      <4>2. CASE ReceiveHelp(f)
        BY <1>0, <2>0, <4>2 DEF ReceiveHelp
      <4> QED
        BY <2>4, <4>1, <4>2
    <3> QED
      BY <1>0, <2>1, <3>1, <3>3, <3>4, <3>5 DEF Handle
  <2>5. ASSUME NEW b \in calls[f], PutFuture(f, b) PROVE TypeOK'
    <3>1. b \in Height /\ LowwestWith(f, b) \in -1 .. MaxHeight
      BY <1>0, <2>0 DEF LowwestWith, Height
    <3>2. /\ calls' \in [Follower -> SUBSET Height]
          /\ calling' \in [Follower -> SUBSET Height]
          /\ buf' \in [Follower -> SUBSET Height]
          /\ lowwest' \in [Follower -> -1 .. MaxHeight]
      BY <1>0, <2>0, <2>5, <3>1 DEF PutFuture
    <3> QED
      BY <1>0, <2>5, <3>2 DEF PutFuture
  <2>6. ASSUME NEW b \in calling[f], CallHelp(f, b) PROVE TypeOK'
    <3>1. b \in Height /\ b \in -1 .. MaxHeight /\ b \in Int
      BY <1>0, <2>0 DEF Height
    <3>2. Max({highest[f], b}) \in -1 .. MaxHeight
      <4>1. highest[f] \in -1 .. MaxHeight /\ highest[f] \in Int
        BY <1>0, <2>0
      <4>2. Max({highest[f], b}) = IF highest[f] >= b THEN highest[f] ELSE b
        BY <3>1, <4>1, MaxOfTwo
      <4> QED
        BY <3>1, <4>1, <4>2
    <3>3. Missing(f, b) \subseteq Height
      BY <1>0, <2>0, <3>1, MissingBlocks
    <3>4. asks' \subseteq Follower \X Height \X Node
      <4>1. PICK dest \in [Missing(f, b) -> Helpers(f)] :
              asks' = asks \cup {<<f, a[1], a[2]>> :
                  a \in {x \in Missing(f, b) \X Node : x[2] \in dest[x[1]]}}
        BY <2>6 DEF CallHelp
      <4> QED
        BY <1>0, <2>0, <3>3, <4>1
    <3>5. /\ calling' \in [Follower -> SUBSET Height]
          /\ highest' \in [Follower -> -1 .. MaxHeight]
          /\ asked' \in [Follower -> SUBSET Height]
      BY <1>0, <2>0, <2>6, <3>1, <3>2, <3>3 DEF CallHelp
    <3> QED
      BY <1>0, <2>6, <3>4, <3>5 DEF CallHelp
  <2>7. CASE Output(f)
    BY <1>0, <2>1, <2>7 DEF Output
  <2>8. CASE Put(f)
    BY <1>0, <2>1, <2>8 DEF Put
  <2>9. CASE Advance(f)
    BY <1>0, <2>1, <2>9 DEF Advance
  <2> QED
    BY <1>6, <2>2, <2>3, <2>4, <2>5, <2>6, <2>7, <2>8, <2>9 DEF FollowerNext
<1>7. ASSUME NEW a \in asks, Answer(a[1], a[2], a[3]) PROVE TypeOK'
  <2>1. a[1] \in Follower /\ a[2] \in Height /\ a[3] \in Node
    BY <1>0
  <2>2. help' \in [Follower -> SUBSET (Node \X Height)]
    <3>1. help \in [Follower -> SUBSET (Node \X Height)]
      BY <1>0
    <3>2. help' = help \/ help' = [help EXCEPT ![a[1]] = @ \cup {<<a[3], a[2]>>}]
      BY <1>7 DEF Answer
    <3>3. help[a[1]] \cup {<<a[3], a[2]>>} \in SUBSET (Node \X Height)
      BY <2>1, <3>1
    <3> QED
      BY <2>1, <3>1, <3>2, <3>3
  <2> QED
    BY <1>0, <1>7, <2>2 DEF Answer
<1> QED
  BY <1>1, <1>2, <1>3, <1>4, <1>5, <1>6, <1>7, <1>8 DEF Next, LeaderNext, RouteCurrent, RouteStale

\* Nothing goes back.
LEMMA Growing ==
  ASSUME IInv, [Next]_vars
  PROVE  /\ lheight' = lheight \/ lheight' = lheight + 1
         /\ Proposed' = Proposed \/ Proposed' = Proposed + 1
         /\ lheight <= lheight' /\ Proposed <= Proposed'
         /\ lheight \in Nat /\ lheight' \in Nat /\ Proposed \in Nat /\ Proposed' \in Nat
         /\ \A f \in Follower :
              fheight[f] <= fheight'[f] /\ fheight[f] \in Nat /\ fheight'[f] \in Nat
<1>0. TypeOK /\ TypeOK'
  BY TypeStep DEF IInv
<1>1. \A f \in Follower : fheight[f] \in Nat /\ fheight'[f] \in Nat
  BY <1>0 DEF TypeOK
<1>2. lheight \in Nat /\ Proposed = IF collecting THEN lheight + 1 ELSE lheight
  BY <1>0 DEF TypeOK, Proposed
<1>3. \/ UNCHANGED <<lheight, collecting>>
      \/ UNCHANGED lheight /\ ~collecting /\ collecting'
      \/ lheight' = lheight + 1 /\ collecting /\ ~collecting'
  <2>1. UNCHANGED <<lheight, lat>> => UNCHANGED <<lheight, collecting>>
    BY DEF collecting
  <2>2. CASE Propose
    BY <2>2 DEF Propose, collecting
  <2>3. ASSUME NEW f \in Follower, Collect(f)
        PROVE  \/ UNCHANGED <<lheight, lat>>
               \/ lheight' = lheight + 1 /\ collecting /\ ~collecting'
    BY <2>3 DEF Collect, collecting
  <2>4. CASE LeaderPut \/ LeaderClose
    BY <2>4 DEF LeaderPut, LeaderClose, collecting
  <2>5. \/ UNCHANGED <<lheight, lat>> \/ Propose \/ LeaderPut \/ LeaderClose
        \/ \E f \in Follower : Collect(f)
    BY ZenonT(30) DEF Next, LeaderNext, RouteCurrent, RouteStale, Route, StopRouting,
         FollowerNext, Top, Pop, ReceiveBlock, ReceiveHelp, Handle, Output, Put, Advance,
         PutFuture, CallHelp, Answer, vars, leaderVars
  <2> QED
    BY <2>1, <2>2, <2>3, <2>4, <2>5
<1>4. /\ lheight' = lheight \/ lheight' = lheight + 1
      /\ Proposed' = Proposed \/ Proposed' = Proposed + 1
  BY <1>2, <1>3 DEF Proposed
<1>5. \/ UNCHANGED fheight
      \/ \E f \in Follower : fheight' = [fheight EXCEPT ![f] = @ + 1]
  <2>1. ASSUME NEW f \in Correct, FollowerNext(f)
        PROVE  UNCHANGED fheight \/ fheight' = [fheight EXCEPT ![f] = @ + 1]
    BY <2>1, Stores DEF Quiet, Finishing, Output, Put, Advance
  <2> QED
    BY <2>1, Heights DEF Next, LeaderNext, Propose, RouteCurrent, RouteStale, Route,
         StopRouting, Collect, LeaderPut, LeaderClose, Answer, vars, followerVars
<1>6. ASSUME NEW g \in Follower PROVE fheight[g] <= fheight'[g]
  <2>1. CASE UNCHANGED fheight
    BY <1>1, <2>1
  <2>2. ASSUME NEW f \in Follower, fheight' = [fheight EXCEPT ![f] = @ + 1]
        PROVE  fheight[g] <= fheight'[g]
    <3>1. fheight'[g] = IF g = f THEN fheight[g] + 1 ELSE fheight[g]
      BY <1>0, <2>2 DEF TypeOK
    <3> QED
      BY <1>1, <3>1
  <2> QED
    BY <1>5, <2>1, <2>2
<1>7. lheight \in Nat /\ Proposed \in Nat /\ lheight + 1 \in Nat /\ Proposed + 1 \in Nat
  BY <1>2
<1> QED
  BY <1>1, <1>4, <1>6, <1>7

\* A step of one follower leaves the others alone.
LEMMA OwnState ==
  ASSUME IInv, NEW g \in Correct, FollowerNext(g), NEW f \in Follower \ {g}
  PROVE  /\ fheight'[f] = fheight[f] /\ at'[f] = at[f] /\ lastblock'[f] = lastblock[f]
         /\ db'[f] = db[f] /\ out'[f] = out[f]
<1>0. TypeOK
  BY DEF IInv
<1>1. CASE Quiet(g)
  BY <1>0, <1>1 DEF Quiet, TypeOK
<1>2. CASE Signing(g) /\ UNCHANGED <<fheight, lastblock, db, out>>
  BY <1>0, <1>2 DEF Signing, Sign, TypeOK
<1>3. CASE Output(g)
  BY <1>0, <1>3 DEF Output, TypeOK
<1>4. CASE Put(g)
  BY <1>0, <1>4 DEF Put, TypeOK
<1>5. CASE Advance(g)
  BY <1>0, <1>5 DEF Advance, TypeOK
<1> QED
  BY <1>1, <1>2, <1>3, <1>4, <1>5, Stores DEF Finishing

\* What a step does to the follower's position, buffers and calls.
Buffers(f) ==
  <<fheight[f], at[f], buf[f], lowwest[f], calls[f], calling[f], highest[f], asked[f]>>

BufferStep(f) ==
  \/ Top(f) \/ Pop(f) \/ Finishing(f)
  \/ \E b \in Height : b < Proposed /\ Handle(f, b) /\ at[f] = "receive"
  \/ \E b \in calls[f] : PutFuture(f, b)
  \/ \E b \in calling[f] : CallHelp(f, b)

LEMMA BufferSteps ==
  ASSUME IInv, [Next]_vars, NEW f \in Follower
  PROVE  UNCHANGED Buffers(f) \/ (f \in Correct /\ BufferStep(f) /\ FollowerNext(f))
<1>0. TypeOK
  BY DEF IInv
<1> USE DEF Buffers
<1>1. CASE UNCHANGED vars
  BY <1>1 DEF vars, followerVars, bufferVars
<1>2. CASE LeaderNext
  BY <1>2 DEF LeaderNext, Propose, RouteCurrent, RouteStale, Route, StopRouting, Collect,
              LeaderPut, LeaderClose, followerVars, bufferVars
<1>3. ASSUME NEW g \in Correct, FollowerNext(g), g # f PROVE UNCHANGED Buffers(f)
  <2>1. fheight'[f] = fheight[f] /\ at'[f] = at[f]
    BY <1>3, OwnState
  <2>2. CASE Top(g)
    BY <1>0, <1>3, <2>1, <2>2 DEF Top, TypeOK
  <2>3. CASE Pop(g)
    BY <1>0, <1>3, <2>1, <2>3 DEF Pop, TypeOK
  <2>4. CASE ReceiveBlock(g) \/ ReceiveHelp(g)
    <3>1. PICK b \in Height : Handle(g, b)
      BY <1>3, <2>4, Arrivals
    <3>2. calls'[f] = calls[f] /\ UNCHANGED <<calling, highest, asked>>
      BY <1>0, <1>3, <3>1 DEF Handle, TypeOK
    <3>3. buf'[f] = buf[f] /\ lowwest'[f] = lowwest[f]
      BY <1>0, <1>3, <3>1 DEF Handle, TypeOK
    <3> QED
      BY <2>1, <3>2, <3>3
  <2>5. CASE \E b \in calls[g] : PutFuture(g, b)
    BY <1>0, <1>3, <2>1, <2>5 DEF PutFuture, TypeOK
  <2>6. CASE \E b \in calling[g] : CallHelp(g, b)
    BY <1>0, <1>3, <2>1, <2>6 DEF CallHelp, TypeOK
  <2>7. CASE Output(g) \/ Put(g) \/ Advance(g)
    BY <2>1, <2>7 DEF Output, Put, Advance, bufferVars
  <2> QED
    BY <1>3, <2>2, <2>3, <2>4, <2>5, <2>6, <2>7 DEF FollowerNext
<1>4. ASSUME f \in Correct, FollowerNext(f) PROVE BufferStep(f)
  BY <1>4, Arrivals DEF FollowerNext, BufferStep, Finishing
<1>5. ASSUME NEW a \in asks, Answer(a[1], a[2], a[3]) PROVE UNCHANGED Buffers(f)
  BY <1>5 DEF Answer, followerVars
<1> QED
  BY <1>1, <1>2, <1>3, <1>4, <1>5 DEF Next

\* The leader's database only grows, and has a block before the next one is
\* proposed.
LEMMA KeptStep ==
  ASSUME IInv, [Next]_vars
  PROVE  /\ lat' \in {"put", "close"} => lheight' > 0
         /\ ~Testmode => 0 .. Kept' - 1 \subseteq ldb'
         /\ Kept <= Kept' /\ Kept \in Int /\ Kept' \in Int /\ Proposed - 1 <= Kept
<1>0. /\ lheight \in Nat /\ lheight' \in Nat
      /\ lat \in {"put", "close"} => lheight > 0
      /\ ~Testmode => 0 .. Kept - 1 \subseteq ldb
  BY Growing DEF IInv, BlockInv
<1>1. Proposed - 1 <= Kept /\ Kept \in Int /\ Kept' \in Int
  BY <1>0 DEF Proposed, Kept, collecting
<1>2. CASE UNCHANGED <<lheight, lat, ldb>>
  BY <1>0, <1>1, <1>2 DEF Kept
<1>3. CASE Propose
  BY <1>0, <1>1, <1>3 DEF Propose, Kept
<1>4. CASE \E f \in Follower : Collect(f)
  <2>1. ldb' = ldb /\ lat = "collect"
    BY <1>4 DEF Collect, collecting
  <2>2. CASE UNCHANGED <<lheight, lat>>
    BY <1>2, <2>1, <2>2
  <2>3. CASE lheight' = lheight + 1 /\ lat' = "put"
    <3>1. Kept' = lheight /\ Kept = lheight
      BY <1>0, <2>1, <2>3 DEF Kept
    <3> QED
      BY <1>0, <1>1, <2>1, <2>3, <3>1
  <2> QED
    BY <1>4, <2>2, <2>3 DEF Collect
<1>5. CASE LeaderPut
  <2>1. /\ Kept = lheight - 1 /\ Kept' = lheight /\ lheight' > 0
        /\ ~Testmode => ldb' = ldb \cup {lheight - 1}
    BY <1>0, <1>5 DEF LeaderPut, LeaderKey, Kept
  <2>2. \A k \in 0 .. lheight - 1 : k \in 0 .. (lheight - 1) - 1 \/ k = lheight - 1
    BY <1>0
  <2> QED
    BY <1>0, <1>1, <2>1, <2>2
<1>6. CASE LeaderClose
  BY <1>0, <1>1, <1>6 DEF LeaderClose, Kept
<1>7. \/ UNCHANGED <<lheight, lat, ldb>> \/ Propose \/ LeaderPut \/ LeaderClose
      \/ \E f \in Follower : Collect(f)
  <2>1. LeaderNext => \/ UNCHANGED <<lheight, lat, ldb>> \/ Propose \/ LeaderPut \/ LeaderClose
                      \/ \E f \in Follower : Collect(f)
    BY ZenonT(20) DEF LeaderNext, RouteCurrent, RouteStale, Route, StopRouting
  <2>2. ASSUME NEW f \in Correct, FollowerNext(f) PROVE UNCHANGED <<lheight, lat, ldb>>
    BY <2>2, ZenonT(20) DEF FollowerNext, Top, Pop, ReceiveBlock, ReceiveHelp, Handle, Output,
       Put, Advance, PutFuture, CallHelp, leaderVars
  <2>3. ASSUME NEW a \in asks, Answer(a[1], a[2], a[3]) PROVE UNCHANGED <<lheight, lat, ldb>>
    BY <2>3 DEF Answer, leaderVars
  <2>4. CASE UNCHANGED vars
    BY <2>4 DEF vars, leaderVars
  <2> QED
    BY <2>1, <2>2, <2>3, <2>4 DEF Next
<1> QED
  BY <1>0, <1>1, <1>2, <1>3, <1>4, <1>5, <1>6, <1>7

LEMMA BlockStep == ASSUME IInv, [Next]_vars PROVE BlockInv'
<1>0. /\ TypeOK /\ TypeOK' /\ BlockInv /\ MaxHeight \in Nat
      /\ Proposed = IF collecting THEN lheight + 1 ELSE lheight
  BY TypeStep, Heights DEF IInv, Proposed
<1>1. \A b \in Int : b < Proposed => b < Proposed'
  BY Growing
<1>2. collecting' => lheight' <= MaxHeight
  <2>1. Propose \/ (UNCHANGED <<lheight, lat>>) \/ lat' \in {"put", "close", "propose"}
    BY ZenonT(30) DEF Next, LeaderNext, RouteCurrent, RouteStale, Route, StopRouting, Collect,
           LeaderPut, LeaderClose, FollowerNext, Top, Pop, ReceiveBlock, ReceiveHelp, Handle,
           Output, Put, Advance, PutFuture, CallHelp, Answer, vars, leaderVars
  <2> QED
    BY <1>0, <2>1 DEF Propose, BlockInv, collecting
<1>3. ASSUME NEW f \in Follower, NEW k \in 1 .. Len(link'[f]) PROVE link'[f][k] < Proposed'
  <2>1. link[f] \in Seq(Height) /\ \A j \in 1 .. Len(link[f]) : link[f][j] < Proposed
    BY <1>0 DEF TypeOK, BlockInv
  <2>2. \A j \in 1 .. Len(link[f]) : link[f][j] \in Int /\ link[f][j] < Proposed'
    <3> SUFFICES ASSUME NEW j \in 1 .. Len(link[f])
                 PROVE  link[f][j] \in Int /\ link[f][j] < Proposed'
      OBVIOUS
    <3>1. link[f][j] \in Height
      BY <2>1, ElementOfSeq
    <3>2. link[f][j] \in Int
      BY <3>1, Heights
    <3> QED
      BY <1>1, <2>1, <3>2
  <2>3. CASE link'[f] = link[f]
    BY <2>2, <2>3
  <2>4. CASE Propose /\ link'[f] = Append(link[f], lheight)
    <3>1. lheight < Proposed'
      BY <1>0, <2>4, Growing DEF Propose, Proposed, collecting
    <3> QED
      BY <2>1, <2>2, <2>4, <3>1
  <2>5. CASE link[f] # <<>> /\ link'[f] = Tail(link[f])
    BY <2>1, <2>2, <2>5
  <2>6. link'[f] = link[f] \/ (Propose /\ link'[f] = Append(link[f], lheight))
          \/ (link[f] # <<>> /\ link'[f] = Tail(link[f]))
    <3>1. CASE Propose
      BY <3>1 DEF Propose
    <3>2. ASSUME NEW g \in Correct, ReceiveBlock(g)
          PROVE  link'[f] = link[f] \/ (link[f] # <<>> /\ link'[f] = Tail(link[f]))
      BY <1>0, <3>2, Heights DEF ReceiveBlock, TypeOK
    <3>3. UNCHANGED link \/ Propose \/ \E g \in Correct : ReceiveBlock(g)
      BY DEF Next, LeaderNext, RouteCurrent, RouteStale, Route, StopRouting, Collect,
             LeaderPut, LeaderClose, FollowerNext, Top, Pop, ReceiveHelp, Output, Put,
             Advance, PutFuture, CallHelp, Answer, vars
    <3> QED
      BY <3>1, <3>2, <3>3
  <2> QED
    BY <2>3, <2>4, <2>5, <2>6
<1>4. ASSUME NEW f \in Follower, NEW m \in help'[f] PROVE m[2] < Proposed'
  <2>1. m \in help[f] \/ m[2] \in 0 .. Kept - 1
    <3>1. ASSUME NEW g \in Correct, ReceiveHelp(g) PROVE m \in help[f]
      BY <1>0, <1>4, <3>1 DEF ReceiveHelp, TypeOK
    <3>2. ASSUME NEW a \in asks, Answer(a[1], a[2], a[3]) PROVE m \in help[f] \/ m[2] \in 0 .. Kept - 1
      <4>1. help' = help \/ help' = [help EXCEPT ![a[1]] = @ \cup {<<a[3], a[2]>>}]
        BY <3>2 DEF Answer
      <4>2. m \in help[f] \/ m = <<a[3], a[2]>>
        <5>1. help \in [Follower -> SUBSET (Node \X Height)]
          BY <1>0 DEF TypeOK
        <5>2. help'[f] \subseteq help[f] \cup {<<a[3], a[2]>>}
          BY <4>1, <5>1
        <5> QED
          BY <1>4, <5>2
      <4> QED
        BY <1>0, <4>2 DEF BlockInv
    <3>3. \/ UNCHANGED help \/ (\E g \in Correct : ReceiveHelp(g))
          \/ \E a \in asks : Answer(a[1], a[2], a[3])
      BY DEF Next, LeaderNext, Propose, RouteCurrent, RouteStale, Route, StopRouting, Collect,
             LeaderPut, LeaderClose, FollowerNext, Top, Pop, ReceiveBlock, Output, Put,
             Advance, PutFuture, CallHelp, vars
    <3> QED
      BY <1>4, <3>1, <3>2, <3>3
  <2>2. m[2] \in Int
    <3>1. m \in Node \X Height
      BY <1>0, <1>4 DEF TypeOK
    <3> QED
      BY <3>1, Heights
  <2>3. m[2] < Proposed
    <3>1. Kept <= Proposed /\ Proposed \in Int /\ Kept \in Int
      BY <1>0, Growing DEF Kept
    <3> QED
      BY <1>0, <2>1, <2>2, <3>1 DEF BlockInv
  <2> QED
    BY <1>1, <2>2, <2>3
<1>5. ASSUME NEW f \in Follower, NEW b \in buf'[f] \cup calls'[f] \cup calling'[f]
      PROVE  1 <= b /\ b < Proposed'
  <2> DEFINE Known == buf[f] \cup calls[f] \cup calling[f]
  <2>1. b \in Known \/ (1 <= b /\ b < Proposed)
    <3>1. CASE UNCHANGED Buffers(f)
      BY <1>5, <3>1 DEF Buffers
    <3>2. ASSUME f \in Correct, Top(f) PROVE b \in Known
      <4>1. /\ SkipOld(f)[1] \subseteq buf[f] /\ UNCHANGED <<calls, calling>>
            /\ buf'[f] = SkipOld(f)[1]
        BY <1>0, <3>2 DEF SkipOld, Top, TypeOK
      <4> QED
        BY <1>5, <4>1
    <3>3. ASSUME f \in Correct, Pop(f) PROVE b \in Known
      BY <1>0, <1>5, <3>3 DEF Pop, TypeOK
    <3>4. ASSUME NEW c \in Height, c < Proposed, Handle(f, c)
          PROVE  b \in Known \/ (1 <= b /\ b < Proposed)
      <4>1. /\ IsFuture(f, c) => /\ buf'[f] \subseteq buf[f] \cup {c}
                                 /\ calls'[f] \subseteq calls[f] \cup {c}
            /\ ~IsFuture(f, c) => UNCHANGED <<buf, calls>>
            /\ UNCHANGED calling
        BY <1>0, <3>4, SMTT(30) DEF Handle, TypeOK
      <4>2. IsFuture(f, c) => 1 <= c
        BY Heights, Growing DEF IsFuture
      <4> QED
        BY <1>5, <3>4, <4>1, <4>2
    <3>5. ASSUME NEW c \in calls[f], PutFuture(f, c) PROVE b \in Known
      BY <1>0, <1>5, <3>5 DEF PutFuture, TypeOK
    <3>6. ASSUME NEW c \in calling[f], CallHelp(f, c) PROVE b \in Known
      BY <1>0, <1>5, <3>6 DEF CallHelp, TypeOK
    <3>7. ASSUME Finishing(f) PROVE b \in Known
      BY <1>5, <3>7 DEF Finishing, Output, Put, Advance, bufferVars
    <3> QED
      BY <3>1, <3>2, <3>3, <3>4, <3>5, <3>6, <3>7, BufferSteps DEF BufferStep
  <2>2. b \in Int
    BY <1>0, <1>5, Heights DEF TypeOK
  <2>3. 1 <= b /\ b < Proposed
    BY <1>0, <2>1 DEF BlockInv
  <2> QED
    BY <1>1, <2>2, <2>3
<1>6. ASSUME NEW f \in Follower
      PROVE  fheight'[f] <= Proposed' /\ (Storing(f)' => fheight'[f] < Proposed')
  <2>1. fheight[f] \in Int /\ fheight[f] <= Proposed /\ (Storing(f) => fheight[f] < Proposed)
    BY <1>0, Growing DEF BlockInv
  <2>2. CASE UNCHANGED Buffers(f)
    BY <1>1, <2>1, <2>2, Growing DEF Buffers, Storing
  <2>3. ASSUME f \in Correct, FollowerNext(f)
        PROVE  \/ fheight'[f] = fheight[f] /\ (Storing(f)' => fheight[f] < Proposed)
               \/ fheight'[f] = fheight[f] + 1 /\ fheight[f] < Proposed /\ ~Storing(f)'
    <3>1. CASE Quiet(f)
      BY <1>0, <2>1, <3>1 DEF Quiet, Storing, TypeOK
    <3>2. CASE Signing(f) /\ UNCHANGED <<fheight, lastblock, db, out>>
      BY <3>2 DEF Signing
    <3>3. CASE Output(f) \/ Put(f)
      BY <2>1, <3>3 DEF Output, Put, Storing
    <3>4. CASE Advance(f)
      BY <1>0, <2>1, <3>4 DEF Advance, Storing, TypeOK
    <3> QED
      BY <2>3, <3>1, <3>2, <3>3, <3>4, Stores DEF Finishing
  <2>4. /\ Proposed <= Proposed' /\ Proposed \in Int /\ Proposed' \in Int
    BY Growing
  <2> QED
    BY <2>1, <2>2, <2>3, <2>4, BufferSteps
<1>7. ASSUME NEW a \in asks' PROVE a[2] \in 0 .. Kept' - 1
  <2>1. a \in asks \/ a[2] < Proposed - 1
    <3>1. ASSUME NEW g \in Correct, NEW b \in calling[g], CallHelp(g, b)
          PROVE  a \in asks \/ a[2] < Proposed - 1
      <4>1. /\ b \in Height /\ b < Proposed /\ Missing(g, b) \subseteq {r \in Height : r < b}
        BY <1>0, Heights, MissingBlocks DEF TypeOK, BlockInv
      <4>2. PICK dest \in [Missing(g, b) -> Helpers(g)] :
              asks' = asks \cup {<<g, x[1], x[2]>> :
                  x \in {y \in Missing(g, b) \X Node : y[2] \in dest[y[1]]}}
        BY <3>1 DEF CallHelp
      <4>3. a \in asks \/ a[2] \in Missing(g, b)
        BY <1>7, <4>2
      <4>4. \A r \in Missing(g, b) : r < Proposed - 1
        <5>1. b \in Int /\ Proposed \in Int
          BY <4>1, Growing, Heights
        <5>2. \A r \in Missing(g, b) : r \in Int /\ r < b
          BY <4>1, Heights
        <5>3. b < Proposed
          BY <4>1
        <5> QED
          BY <5>1, <5>2, <5>3
      <4> QED
        BY <4>3, <4>4
    <3>2. ASSUME NEW c \in asks, Answer(c[1], c[2], c[3]) PROVE a \in asks
      BY <1>7, <3>2 DEF Answer
    <3>3. \/ UNCHANGED asks \/ (\E c \in asks : Answer(c[1], c[2], c[3]))
          \/ \E g \in Correct : \E b \in calling[g] : CallHelp(g, b)
      BY DEF Next, LeaderNext, Propose, RouteCurrent, RouteStale, Route, StopRouting, Collect,
             LeaderPut, LeaderClose, FollowerNext, Top, Pop, ReceiveBlock, ReceiveHelp, Handle,
             Output, Put, Advance, PutFuture, vars, bufferVars
    <3> QED
      BY <1>7, <3>1, <3>2, <3>3
  <2>2. a[2] \in Nat
    <3>1. a \in Follower \X Height \X Node
      BY <1>0, <1>7 DEF TypeOK
    <3> QED
      BY <3>1, Heights
  <2>3. Kept <= Kept' /\ Kept \in Int /\ Kept' \in Int /\ Proposed - 1 <= Kept
    BY KeptStep
  <2>4. a \in asks => a[2] <= Kept - 1
    BY <1>0 DEF BlockInv
  <2>5. Proposed \in Int
    BY Growing
  <2> QED
    BY <2>1, <2>2, <2>3, <2>4, <2>5
<1> QED
  BY <1>2, <1>3, <1>4, <1>5, <1>6, <1>7, KeptStep DEF BlockInv

\* What a step does to a follower's database.
LEMMA DatabaseSteps ==
  ASSUME IInv, [Next]_vars, NEW f \in Follower
  PROVE  \/ /\ fheight'[f] = fheight[f] /\ db[f] \subseteq db'[f]
            /\ \/ at'[f] = at[f]
               \/ at'[f] # "advance"
               \/ ~Testmode => fheight[f] \in db'[f]
         \/ /\ at[f] = "advance" /\ at'[f] = "top"
            /\ fheight'[f] = fheight[f] + 1 /\ db'[f] = db[f]
<1>0. TypeOK
  BY DEF IInv
<1>1. ASSUME f \in Correct, FollowerNext(f)
      PROVE  \/ /\ fheight'[f] = fheight[f] /\ db[f] \subseteq db'[f]
                /\ \/ at'[f] = at[f]
                   \/ at'[f] # "advance"
                   \/ ~Testmode => fheight[f] \in db'[f]
             \/ /\ at[f] = "advance" /\ at'[f] = "top"
                /\ fheight'[f] = fheight[f] + 1 /\ db'[f] = db[f]
  <2>1. CASE Quiet(f)
    BY <1>0, <2>1 DEF Quiet, TypeOK
  <2>2. CASE Signing(f) /\ UNCHANGED <<fheight, lastblock, db, out>>
    BY <1>0, <2>2 DEF Signing, Sign, TypeOK
  <2>3. CASE Output(f)
    BY <1>0, <2>3 DEF Output, TypeOK
  <2>4. CASE Put(f)
    BY <1>0, <2>4 DEF Put, TypeOK
  <2>5. CASE Advance(f)
    BY <1>0, <2>5 DEF Advance, TypeOK
  <2> QED
    BY <1>1, <2>1, <2>2, <2>3, <2>4, <2>5, Stores DEF Finishing
<1>2. ASSUME NEW g \in Correct, FollowerNext(g), g # f
      PROVE  fheight'[f] = fheight[f] /\ db'[f] = db[f] /\ at'[f] = at[f]
  BY <1>2, OwnState
<1>3. UNCHANGED <<fheight, db, at>> \/ \E g \in Correct : FollowerNext(g)
  BY DEF Next, LeaderNext, Propose, RouteCurrent, RouteStale, Route, StopRouting, Collect,
         LeaderPut, LeaderClose, Answer, vars, followerVars
<1> QED
  BY <1>1, <1>2, <1>3

LEMMA DatabaseStep == ASSUME IInv, [Next]_vars PROVE DatabaseInv'
<1>0. TypeOK /\ DatabaseInv
  BY DEF IInv
<1>1. ASSUME ~Testmode, NEW f \in Follower
      PROVE  /\ 0 .. fheight'[f] - 1 \subseteq db'[f]
             /\ at'[f] = "advance" => fheight'[f] \in db'[f]
  <2>1. /\ fheight[f] \in Nat
        /\ 0 .. fheight[f] - 1 \subseteq db[f]
        /\ at[f] = "advance" => fheight[f] \in db[f]
    BY <1>0, <1>1, Growing DEF DatabaseInv
  <2>2. \A k \in 0 .. (fheight[f] + 1) - 1 : k \in 0 .. fheight[f] - 1 \/ k = fheight[f]
    BY <2>1
  <2> QED
    BY <1>1, <2>1, <2>2, DatabaseSteps
<1>2. ASSUME Testmode
      PROVE  asks' = {} /\ \A f \in Follower : calls'[f] = {} /\ calling'[f] = {}
  <2>1. asks = {} /\ \A f \in Follower : calls[f] = {} /\ calling[f] = {}
    BY <1>0, <1>2 DEF DatabaseInv
  <2>2. ASSUME NEW f \in Correct, FollowerNext(f)
        PROVE  UNCHANGED <<asks, calls, calling>>
    <3>1. CASE Top(f) \/ Pop(f) \/ Output(f) \/ Put(f) \/ Advance(f)
      BY <3>1 DEF Top, Pop, Output, Put, Advance, bufferVars
    <3>2. CASE ReceiveBlock(f) \/ ReceiveHelp(f)
      BY <1>2, <3>2 DEF ReceiveBlock, ReceiveHelp, Handle
    <3>3. calls[f] = {} /\ calling[f] = {}
      BY <2>1, Heights
    <3> QED
      BY <2>2, <3>1, <3>2, <3>3 DEF FollowerNext
  <2>3. UNCHANGED <<asks, calls, calling>>
    BY <2>1, <2>2 DEF Next, LeaderNext, Propose, RouteCurrent, RouteStale, Route, StopRouting,
         Collect, LeaderPut, LeaderClose, vars, bufferVars
  <2> QED
    BY <2>1, <2>3
<1> QED
  BY <1>1, <1>2 DEF DatabaseInv

\* What is signed stays signed.
LEMMA SignedStays ==
  ASSUME IInv, [Next]_vars, NEW f \in Follower, NEW h \in Int, Signed(f, h)
  PROVE  Signed(f, h)'
<1>0. TypeOK /\ fheight[f] \in Nat
  BY Growing DEF IInv
<1>1. ASSUME f \in Correct, FollowerNext(f)
      PROVE  \/ fheight'[f] = fheight[f] /\ (Storing(f) => Storing(f)')
             \/ fheight'[f] = fheight[f] + 1
  <2>1. CASE Quiet(f)
    BY <1>0, <2>1 DEF Quiet, Storing
  <2>2. CASE Signing(f) /\ UNCHANGED <<fheight, lastblock, db, out>>
    BY <1>0, <2>2 DEF Signing
  <2>3. CASE Output(f)
    BY <1>0, <2>3 DEF Output, Storing, TypeOK
  <2>4. CASE Put(f)
    BY <1>0, <2>4 DEF Put, Storing, TypeOK
  <2>5. CASE Advance(f)
    BY <1>0, <2>5 DEF Advance, TypeOK
  <2> QED
    BY <1>1, <2>1, <2>2, <2>3, <2>4, <2>5, Stores DEF Finishing
<1>2. ASSUME NEW g \in Correct, FollowerNext(g), g # f
      PROVE  fheight'[f] = fheight[f] /\ at'[f] = at[f]
  BY <1>2, OwnState
<1>3. UNCHANGED <<fheight, at>> \/ \E g \in Correct : FollowerNext(g)
  BY DEF Next, LeaderNext, Propose, RouteCurrent, RouteStale, Route, StopRouting, Collect,
         LeaderPut, LeaderClose, Answer, vars, followerVars
<1>4. \/ fheight'[f] = fheight[f] /\ (Storing(f) => Storing(f)')
      \/ fheight'[f] = fheight[f] + 1
  BY <1>1, <1>2, <1>3 DEF Storing
<1> QED
  BY <1>0, <1>4 DEF Signed

\* Paybacks are added by those that sign, moved by handle_msgin and counted
\* by Start.
LEMMA PaybackSteps ==
  ASSUME IInv, [Next]_vars
  PROVE  \/ /\ UNCHANGED <<lheight, mems, signcount, paybackCH>>
            /\ collecting' => collecting
            /\ UNCHANGED msgIn \/ \E f \in Correct : Signing(f)
         \/ Propose
         \/ \E h \in Int, m \in msgIn : Route(h, m)
         \/ \E f \in Follower : Collect(f)
<1> USE DEF leaderVars, collecting
<1>1. CASE UNCHANGED vars
  BY <1>1 DEF vars
<1>2. CASE Propose \/ \E f \in Follower : Collect(f)
  BY <1>2
<1>3. CASE RouteCurrent \/ RouteStale
  <2>1. lheight \in Int /\ \A h \in stale : h \in Int
    BY Growing, Heights DEF IInv, TypeOK
  <2>2. Router \in Int
    BY <2>1 DEF Router
  <2> QED
    BY <1>3, <2>1, <2>2 DEF RouteCurrent, RouteStale
<1>4. CASE \E h \in stale : StopRouting(h)
  BY <1>4 DEF StopRouting
<1>7. CASE LeaderPut \/ LeaderClose
  BY <1>7 DEF LeaderPut, LeaderClose
<1>5. ASSUME NEW f \in Correct, FollowerNext(f)
      PROVE  UNCHANGED leaderVars /\ (UNCHANGED msgIn \/ Signing(f))
  <2>1. UNCHANGED leaderVars
    BY <1>5 DEF FollowerNext, Top, Pop, ReceiveBlock, ReceiveHelp, Handle, Output, Put, Advance,
                PutFuture, CallHelp
  <2>2. UNCHANGED msgIn \/ Signing(f)
    BY <1>5, Stores DEF Quiet, Finishing, Output, Put, Advance
  <2> QED
    BY <2>1, <2>2
<1>6. CASE \E a \in asks : Answer(a[1], a[2], a[3])
  BY <1>6 DEF Answer
<1> QED
  BY <1>1, <1>2, <1>3, <1>4, <1>5, <1>6, <1>7 DEF Next, LeaderNext

LEMMA PaybackStep == ASSUME IInv, [Next]_vars PROVE PaybackInv'
<1>0. /\ TypeOK /\ PaybackInv /\ lheight \in Int
      /\ \A m \in msgIn : m.Round \in Int /\ m.ID \in Follower
                          /\ m = [Round |-> m.Round, ID |-> m.ID]
      /\ mems \subseteq Follower /\ paybackCH \subseteq Follower
  <2>1. TypeOK /\ PaybackInv
    BY DEF IInv
  <2>2. \A m \in msgIn : /\ m.Round \in Height /\ m.ID \in Follower
                         /\ m = [Round |-> m.Round, ID |-> m.ID]
    BY <2>1 DEF TypeOK, Payback
  <2>3. \A m \in msgIn : m.Round \in Int
    BY <2>2, Heights
  <2>4. mems \subseteq Follower /\ paybackCH \subseteq Follower
    BY <2>1 DEF TypeOK
  <2> QED
    BY <2>1, <2>2, <2>3, <2>4, Growing
<1> DEFINE S(f, h) == Signed(f, h)
<1>s. \A f \in Follower, h \in Int : S(f, h) => S(f, h)'
  BY SignedStays
<1>1. ASSUME UNCHANGED <<lheight, mems, signcount, paybackCH, msgIn>>, collecting' => collecting
      PROVE  PaybackInv'
  BY <1>0, <1>1, <1>s DEF PaybackInv
<1>2. ASSUME NEW f \in Correct, Signing(f), collecting' => collecting,
             UNCHANGED <<lheight, mems, signcount, paybackCH>>
      PROVE  PaybackInv'
  <2>1. /\ msgIn' = msgIn \cup {[Round |-> fheight[f], ID |-> f]}
        /\ f \in Follower /\ fheight[f] \in Nat /\ ~S(f, fheight[f])
        /\ at'[f] = "output"
    <3>1. f \in Follower /\ fheight[f] \in Nat
      BY Heights, Growing
    <3> QED
      BY <1>0, <1>2, <3>1 DEF Signing, Sign, Signed, TypeOK
  <2>2. ASSUME NEW h \in Int, h = fheight[f] PROVE S(f, h)'
    <3>1. fheight'[f] \in Nat /\ fheight[f] <= fheight'[f]
      BY <2>1, Growing
    <3> QED
      BY <2>1, <2>2, <3>1 DEF Signed, Storing
  <2>3. \A m \in msgIn' : S(m.ID, m.Round)'
    <3>1. ASSUME NEW m \in msgIn PROVE S(m.ID, m.Round)'
      BY <1>0, <1>s, <3>1 DEF PaybackInv
    <3> SUFFICES ASSUME NEW m \in msgIn' PROVE S(m.ID, m.Round)'
      OBVIOUS
    <3>2. CASE m = [Round |-> fheight[f], ID |-> f]
      <4>1. m.ID = f /\ m.Round = fheight[f] /\ m.Round \in Int
        BY <2>1, <3>2
      <4> QED
        BY <2>2, <4>1
    <3> QED
      BY <2>1, <3>1, <3>2
  <2>4. /\ \A g \in paybackCH : g \in Follower /\ S(g, lheight)
        /\ collecting => \A g \in mems : g \in Follower /\ S(g, lheight)
    BY <1>0 DEF PaybackInv
  <2>5. ASSUME NEW g \in Follower, S(g, lheight),
               [Round |-> lheight, ID |-> g] \in msgIn'
        PROVE  [Round |-> lheight, ID |-> g] \in msgIn
    <3>1. CASE [Round |-> lheight, ID |-> g] = [Round |-> fheight[f], ID |-> f]
      <4>1. lheight = fheight[f] /\ g = f
        BY <3>1
      <4> QED
        BY <2>1, <2>5, <4>1
    <3> QED
      BY <2>1, <2>5, <3>1
  <2> HIDE DEF S
  <2>6. /\ \A g \in Follower :
             [Round |-> lheight, ID |-> g] \in msgIn' => g \notin paybackCH
        /\ collecting => \A g \in mems : [Round |-> lheight, ID |-> g] \notin msgIn'
    BY <1>0, <2>4, <2>5 DEF PaybackInv
  <2> USE DEF S
  <2> QED
    BY <1>0, <1>2, <1>s, <2>3, <2>4, <2>6 DEF PaybackInv
<1>3. CASE Propose
  <2>1. /\ mems' = {} /\ signcount' = 0 /\ UNCHANGED <<lheight, paybackCH, msgIn>>
    BY <1>3 DEF Propose
  <2> QED
    BY <1>0, <1>s, <2>1, FS_EmptySet DEF PaybackInv
<1>4. ASSUME NEW h \in Int, NEW m \in msgIn, Route(h, m)
      PROVE  PaybackInv'
  <2>1. /\ msgIn' = msgIn \ {m}
        /\ UNCHANGED <<lheight, collecting, mems, signcount>>
        /\ paybackCH' = IF ForMe(h, m) THEN paybackCH \cup {m.ID} ELSE paybackCH
    BY <1>4 DEF Route, collecting
  <2>2. CASE ~ForMe(h, m)
    BY <1>0, <1>s, <2>1, <2>2 DEF PaybackInv
  <2>3. CASE ForMe(h, m)
    <3>1. /\ paybackCH' = paybackCH \cup {m.ID}
          /\ m = [Round |-> lheight, ID |-> m.ID] /\ m.ID \in Follower
      BY <1>0, <2>1, <2>3 DEF ForMe
    <3>2. Signed(m.ID, lheight)
      BY <1>0, <2>3 DEF PaybackInv, ForMe
    <3>3. collecting => m.ID \notin mems
      BY <1>0, <3>1 DEF PaybackInv
    <3>4. \A f \in Follower : [Round |-> lheight, ID |-> f] \in msgIn' => f # m.ID
      BY <2>1, <3>1
    <3> QED
      BY <1>0, <1>s, <2>1, <3>1, <3>2, <3>3, <3>4 DEF PaybackInv
  <2> QED
    BY <2>2, <2>3
<1>5. ASSUME NEW f \in Follower, Collect(f) PROVE PaybackInv'
  <2>1. /\ collecting /\ f \in paybackCH /\ UNCHANGED msgIn
        /\ mems' = mems \cup {f} /\ signcount' = signcount + 1
        /\ \/ paybackCH' = {} /\ ~collecting'
           \/ paybackCH' = paybackCH \ {f} /\ UNCHANGED <<lheight, collecting>>
    BY <1>5 DEF Collect, collecting
  <2>2. CASE paybackCH' = {} /\ ~collecting'
    BY <1>0, <1>s, <2>1, <2>2 DEF PaybackInv
  <2>3. CASE paybackCH' = paybackCH \ {f} /\ UNCHANGED <<lheight, collecting>>
    <3>1. f \notin mems /\ Signed(f, lheight) /\ [Round |-> lheight, ID |-> f] \notin msgIn
      BY <1>0, <2>1 DEF PaybackInv
    <3>2. Cardinality(mems \cup {f}) = Cardinality(mems) + 1
      <4>1. IsFiniteSet(mems)
        BY <1>0, CbcAssumption, FS_Subset DEF TypeOK
      <4> QED
        BY <3>1, <4>1, FS_AddElement
    <3>3. signcount' = Cardinality(mems')
      BY <1>0, <2>1, <3>2 DEF PaybackInv
    <3> QED
      BY <1>0, <1>s, <2>1, <2>3, <3>1, <3>3 DEF PaybackInv
  <2> QED
    BY <2>1, <2>2, <2>3
<1> QED
  BY <1>1, <1>2, <1>3, <1>4, <1>5, PaybackSteps

\* What Start counts are followers that have signed the block.
LEMMA CertifiedStep == ASSUME IInv, [Next]_vars PROVE CertifiedIsSigned'
<1> DEFINE Have(h) == {f \in Follower : Signed(f, h)}
<1>0. TypeOK /\ PaybackInv /\ CertifiedIsSigned /\ lheight \in Nat
  BY Growing DEF IInv
<1>1. threshold \in Int
  <2>1. IsFiniteSet(Node)
    BY CbcAssumption, FS_AddElement DEF Node
  <2>2. Cardinality(Node) \in Nat
    BY <2>1, FS_CardinalityType
  <2> QED
    BY <2>2 DEF threshold, num
<1>2. ASSUME NEW h \in Int, Cardinality(Have(h)) >= threshold
      PROVE  Cardinality(Have(h)') >= threshold
  <2>1. Have(h) \subseteq Have(h)'
    BY SignedStays
  <2>2. IsFiniteSet(Have(h)') /\ IsFiniteSet(Have(h))
    BY CbcAssumption, FS_Subset
  <2>3. Cardinality(Have(h)) \in Int /\ Cardinality(Have(h)') \in Int
    BY <2>2, FS_CardinalityType
  <2>4. Cardinality(Have(h)) <= Cardinality(Have(h)')
    BY <2>1, <2>2, FS_Subset
  <2> HIDE DEF Have
  <2> QED
    BY <1>1, <1>2, <2>3, <2>4
<1>3. lheight' = lheight \/ Cardinality(Have(lheight)) >= threshold
  <2>1. ASSUME NEW f \in Follower, Collect(f), lheight' # lheight
        PROVE  Cardinality(Have(lheight)) >= threshold
    <3>1. collecting /\ f \in paybackCH /\ signcount + 1 >= threshold
      BY <2>1 DEF Collect
    <3>2. /\ f \notin mems /\ Signed(f, lheight) /\ signcount = Cardinality(mems)
          /\ \A g \in mems : Signed(g, lheight)
      BY <1>0, <3>1 DEF PaybackInv
    <3>3. mems \cup {f} \subseteq Have(lheight)
      BY <1>0, <3>2 DEF TypeOK
    <3>4. IsFiniteSet(mems) /\ IsFiniteSet(Have(lheight))
      BY <1>0, CbcAssumption, FS_Subset DEF TypeOK
    <3>5. Cardinality(mems \cup {f}) = signcount + 1
      BY <3>2, <3>4, FS_AddElement
    <3>6. Cardinality(mems \cup {f}) <= Cardinality(Have(lheight))
      BY <3>3, <3>4, FS_Subset
    <3>7. Cardinality(Have(lheight)) \in Int /\ signcount \in Int
      BY <1>0, <3>4, FS_CardinalityType DEF TypeOK
    <3> HIDE DEF Have
    <3> QED
      BY <1>1, <3>1, <3>5, <3>6, <3>7
  <2> QED
    BY <2>1, PaybackSteps DEF Propose, Route
<1>4. ASSUME NEW h \in 0 .. lheight' - 1 PROVE Cardinality(Have(h)') >= threshold
  <2>1. h \in 0 .. lheight - 1 \/ (h = lheight /\ lheight' # lheight)
    BY <1>0, <1>4, Growing
  <2>2. Cardinality(Have(h)) >= threshold
    BY <1>0, <1>3, <2>1 DEF CertifiedIsSigned
  <2> QED
    BY <1>2, <2>2
<1> QED
  BY <1>4 DEF CertifiedIsSigned, threshold, num

\* out and the height change only when a block is finished.
LEMMA Deliveries ==
  ASSUME IInv, [Next]_vars, NEW f \in Follower
  PROVE  \/ /\ fheight'[f] = fheight[f] /\ lastblock'[f] = lastblock[f] /\ out'[f] = out[f]
            /\ at'[f] \in {"put", "advance"} <=> at[f] \in {"put", "advance"}
         \/ Output(f) \/ Put(f) \/ Advance(f)
<1>0. TypeOK
  BY DEF IInv
<1>1. ASSUME f \in Correct, FollowerNext(f), ~Finishing(f)
      PROVE  /\ fheight'[f] = fheight[f] /\ lastblock'[f] = lastblock[f] /\ out'[f] = out[f]
             /\ at'[f] \in {"put", "advance"} <=> at[f] \in {"put", "advance"}
  <2>1. CASE Quiet(f)
    BY <1>0, <2>1 DEF Quiet, Storing, TypeOK
  <2>2. CASE Signing(f) /\ UNCHANGED <<fheight, lastblock, db, out>>
    BY <1>0, <2>2 DEF Signing, Sign, Storing, TypeOK
  <2> QED
    BY <1>1, <2>1, <2>2, Stores
<1>2. ASSUME NEW g \in Correct, FollowerNext(g), g # f
      PROVE  /\ fheight'[f] = fheight[f] /\ lastblock'[f] = lastblock[f] /\ out'[f] = out[f]
             /\ at'[f] = at[f]
  BY <1>2, OwnState
<1>3. UNCHANGED <<fheight, lastblock, out, at>> \/ \E g \in Correct : FollowerNext(g)
  BY DEF Next, LeaderNext, Propose, RouteCurrent, RouteStale, Route, StopRouting, Collect,
         LeaderPut, LeaderClose, Answer, vars, followerVars
<1> QED
  BY <1>1, <1>2, <1>3 DEF Finishing

LEMMA OutStep == ASSUME IInv, [Next]_vars PROVE OutInv'
<1> DEFINE Chain(n, a, l, o) ==
      /\ l = n - 1
      /\ Len(o) = IF a \in {"put", "advance"} THEN n ELSE IF n = 0 THEN 0 ELSE n - 1
      /\ \A i \in 1 .. Len(o) : o[i] = i - 1
<1>0. TypeOK /\ OutInv
  BY DEF IInv
<1> SUFFICES ASSUME NEW f \in Follower
             PROVE  Chain(fheight'[f], at'[f], lastblock'[f], out'[f])
  BY DEF OutInv
<1>1. /\ Chain(fheight[f], at[f], lastblock[f], out[f])
      /\ fheight[f] \in Nat /\ out[f] \in Seq(Height) /\ Len(out[f]) \in Nat
  BY <1>0, Heights DEF TypeOK, OutInv
<1>2. CASE /\ fheight'[f] = fheight[f] /\ lastblock'[f] = lastblock[f] /\ out'[f] = out[f]
           /\ at'[f] \in {"put", "advance"} <=> at[f] \in {"put", "advance"}
  BY <1>1, <1>2
<1>3. CASE Output(f)
  <2> DEFINE n == fheight[f]
             o == out[f]
  <2>1. /\ fheight'[f] = n /\ lastblock'[f] = lastblock[f] /\ lastblock[f] = n - 1
        /\ at'[f] = "put" /\ at[f] = "output"
        /\ out'[f] = IF n > 0 THEN Append(o, n - 1) ELSE o
    BY <1>0, <1>1, <1>3 DEF Output, Delivered, TypeOK
  <2>2. /\ Len(o) = IF n = 0 THEN 0 ELSE n - 1
        /\ \A i \in 1 .. Len(o) : o[i] = i - 1
        /\ n \in Nat /\ o \in Seq(Height) /\ Len(o) \in Nat /\ n \in Height
    BY <1>1, <1>3, <2>1, InHand DEF Storing
  <2> HIDE DEF n, o
  <2>3. CASE n = 0
    BY <2>1, <2>2, <2>3
  <2>4. CASE n # 0
    <3>1. n - 1 \in Height
      BY <2>2, <2>4, Heights DEF Height
    <3>2. /\ out'[f] = Append(o, n - 1) /\ Len(Append(o, n - 1)) = Len(o) + 1
          /\ \A i \in 1 .. Len(o) + 1 :
               Append(o, n - 1)[i] = IF i = Len(o) + 1 THEN n - 1 ELSE o[i]
      BY <2>1, <2>2, <2>4, <3>1
    <3> QED
      BY <2>1, <2>2, <2>4, <3>2
  <2> QED
    BY <2>3, <2>4
<1>4. CASE Put(f)
  <2>1. /\ fheight'[f] = fheight[f] /\ lastblock'[f] = lastblock[f] /\ out'[f] = out[f]
        /\ at'[f] = "advance" /\ at[f] = "put"
    BY <1>0, <1>4 DEF Put, TypeOK
  <2> QED
    BY <1>1, <2>1
<1>5. CASE Advance(f)
  <2>1. /\ fheight'[f] = fheight[f] + 1 /\ lastblock'[f] = fheight[f] /\ out'[f] = out[f]
        /\ at'[f] = "top" /\ at[f] = "advance"
    BY <1>0, <1>5 DEF Advance, TypeOK
  <2> QED
    BY <1>1, <2>1
<1> HIDE DEF Chain
<1> QED
  BY <1>2, <1>3, <1>4, <1>5, Deliveries

\* The lowest block of a buffer is in it.
LEMMA LowestBlock ==
  ASSUME IInv, NEW f \in Follower, NEW S \in SUBSET buf[f], S # {}
  PROVE  /\ Min(S) \in S /\ Min(S) \in Height /\ 1 <= Min(S) /\ Min(S) \in Int
         /\ \A b \in S : Min(S) <= b
<1>1. S \in SUBSET Height
  BY DEF IInv, TypeOK
<1>2. Min(S) \in S /\ \A b \in S : Min(S) <= b
  BY <1>1, MinOfHeights
<1>3. 1 <= Min(S)
  BY <1>2 DEF IInv, BlockInv
<1> QED
  BY <1>1, <1>2, <1>3, Heights

LEMMA BufferInvStep == ASSUME IInv, [Next]_vars PROVE BufferInv'
<1> DEFINE Good(h, a, B, low) ==
      /\ low # 0
      /\ low = -1 => B = {}
      /\ \/ low \in B \/ low < h
         \/ a \in {"output", "put", "advance"} /\ low = h
      /\ a = "pop" => low = h /\ low \in B
<1>0. TypeOK /\ BlockInv
  BY DEF IInv
<1> SUFFICES ASSUME NEW f \in Follower
             PROVE  Good(fheight'[f], at'[f], buf'[f], lowwest'[f])
  BY DEF BufferInv, Storing
<1>1. /\ fheight[f] \in Nat /\ fheight'[f] \in Nat /\ fheight[f] <= fheight'[f]
      /\ lowwest[f] \in Int /\ buf[f] \in SUBSET Height /\ \A b \in buf[f] : b \in Int
      /\ Good(fheight[f], at[f], buf[f], lowwest[f])
  <2>1. /\ lowwest[f] \in Int /\ buf[f] \in SUBSET Height
        /\ Good(fheight[f], at[f], buf[f], lowwest[f])
    BY Heights DEF IInv, TypeOK, BufferInv, Storing
  <2> QED
    BY <2>1, Growing, Heights
<1>2. CASE UNCHANGED Buffers(f)
  BY <1>1, <1>2 DEF Buffers
<1>3. ASSUME Top(f) PROVE Good(fheight'[f], at'[f], buf'[f], lowwest'[f])
  <2> DEFINE kept == {b \in buf[f] : b >= fheight[f]}
  <2>1. kept # {} => Min(kept) \in kept /\ 1 <= Min(kept) /\ Min(kept) \in Int
    <3>1. kept \in SUBSET buf[f]
      OBVIOUS
    <3> HIDE DEF kept
    <3> QED
      BY <3>1, LowestBlock
  <2> HIDE DEF kept
  <2>2. /\ buf'[f] = SkipOld(f)[1] /\ lowwest'[f] = SkipOld(f)[2] /\ fheight'[f] = fheight[f]
        /\ at[f] = "top"
        /\ at'[f] = IF lowwest'[f] = fheight[f] /\ fheight[f] # 0 THEN "pop" ELSE "receive"
    BY <1>0, <1>3 DEF Top, TypeOK, FromBuffer
  <2>3. CASE lowwest[f] > 0 /\ lowwest[f] < fheight[f]
    <3>1. buf'[f] = kept /\ lowwest'[f] = IF kept = {} THEN -1 ELSE Min(kept)
      BY <2>2, <2>3 DEF SkipOld, kept
    <3>2. CASE kept = {}
      BY <1>1, <2>2, <3>1, <3>2
    <3>3. CASE kept # {}
      BY <1>1, <2>1, <2>2, <3>1, <3>3
    <3> QED
      BY <3>2, <3>3
  <2>4. CASE ~(lowwest[f] > 0 /\ lowwest[f] < fheight[f])
    <3>1. buf'[f] = buf[f] /\ lowwest'[f] = lowwest[f]
      BY <2>2, <2>4 DEF SkipOld
    <3> QED
      BY <1>1, <2>2, <3>1
  <2> QED
    BY <2>3, <2>4
<1>4. ASSUME f \in Correct, Pop(f) PROVE Good(fheight'[f], at'[f], buf'[f], lowwest'[f])
  <2> DEFINE b == Min(buf[f])
             rest == buf[f] \ {b}
  <2>1. /\ at[f] = "pop" /\ buf'[f] = rest /\ lowwest'[f] = LowwestAfter(f, rest)
        /\ UNCHANGED fheight /\ at'[f] \in {"top", "output"}
        /\ b = fheight[f] => at'[f] = "output"
    BY <1>0, <1>4 DEF Pop, Sign, Skip, TypeOK
  <2>2. rest # {} => Min(rest) \in rest /\ 1 <= Min(rest) /\ Min(rest) \in Int
    <3>1. rest \in SUBSET buf[f]
      OBVIOUS
    <3> HIDE DEF rest
    <3> QED
      BY <3>1, LowestBlock
  <2>3. lowwest[f] = fheight[f] /\ lowwest[f] \in buf[f]
    BY <1>1, <2>1
  <2>4. CASE rest = {}
    <3>1. b = fheight[f]
      BY <2>3, <2>4
    <3> QED
      BY <1>1, <2>1, <2>3, <2>4, <3>1 DEF LowwestAfter
  <2>5. CASE rest # {}
    <3>1. lowwest'[f] = Min(rest)
      BY <2>1, <2>5 DEF LowwestAfter
    <3> HIDE DEF rest
    <3> QED
      BY <1>1, <2>1, <2>2, <2>5, <3>1
  <2> QED
    BY <2>4, <2>5
<1>5. ASSUME NEW b \in Int, 1 <= b, UNCHANGED at \/ (at'[f] = "top" /\ at[f] = "receive"),
             buf' = [buf EXCEPT ![f] = @ \cup {b}],
             lowwest' = [lowwest EXCEPT ![f] = LowwestWith(f, b)],
             UNCHANGED fheight
      PROVE  Good(fheight'[f], at'[f], buf'[f], lowwest'[f])
  <2>1. buf'[f] = buf[f] \cup {b} /\ lowwest'[f] = IF buf[f] = {} THEN b ELSE lowwest[f]
    BY <1>0, <1>5 DEF TypeOK, LowwestWith
  <2>2. CASE buf[f] = {}
    BY <1>1, <1>5, <2>1, <2>2
  <2>3. CASE buf[f] # {}
    BY <1>1, <1>5, <2>1, <2>3
  <2> QED
    BY <2>2, <2>3
<1>6. ASSUME NEW b \in Height, Handle(f, b), at[f] = "receive"
      PROVE  Good(fheight'[f], at'[f], buf'[f], lowwest'[f])
  <2>1. /\ UNCHANGED fheight /\ at'[f] \in {"top", "output"}
        /\ ~IsNext(f, b) => at'[f] = "top"
    BY <1>0, <1>6 DEF Handle, Sign, Skip, TypeOK
  <2>2. \/ UNCHANGED <<buf, lowwest>>
        \/ /\ IsFuture(f, b) /\ ~IsNext(f, b)
           /\ buf' = [buf EXCEPT ![f] = @ \cup {b}]
           /\ lowwest' = [lowwest EXCEPT ![f] = LowwestWith(f, b)]
    <3>1. ~(IsNext(f, b) /\ IsFuture(f, b))
      BY <1>1, Heights DEF IsNext, IsFuture
    <3> QED
      BY <1>6, <3>1 DEF Handle
  <2>3. CASE UNCHANGED <<buf, lowwest>>
    BY <1>1, <1>6, <2>1, <2>3
  <2>4. CASE /\ IsFuture(f, b) /\ ~IsNext(f, b)
             /\ buf' = [buf EXCEPT ![f] = @ \cup {b}]
             /\ lowwest' = [lowwest EXCEPT ![f] = LowwestWith(f, b)]
    <3>1. b \in Int /\ 1 <= b
      BY <1>1, <2>4, Heights DEF IsFuture
    <3> QED
      BY <1>5, <1>6, <2>1, <2>4, <3>1
  <2> QED
    BY <2>2, <2>3, <2>4
<1>7. ASSUME NEW b \in calls[f], PutFuture(f, b)
      PROVE  Good(fheight'[f], at'[f], buf'[f], lowwest'[f])
  <2>1. b \in Int /\ 1 <= b
    BY <1>0, Heights DEF TypeOK, BlockInv
  <2>2. /\ buf' = [buf EXCEPT ![f] = @ \cup {b}]
        /\ lowwest' = [lowwest EXCEPT ![f] = LowwestWith(f, b)]
        /\ UNCHANGED <<fheight, at>>
    BY <1>7 DEF PutFuture, followerVars
  <2> QED
    BY <1>5, <2>1, <2>2
<1>8. ASSUME NEW b \in calling[f], CallHelp(f, b)
      PROVE  Good(fheight'[f], at'[f], buf'[f], lowwest'[f])
  BY <1>1, <1>8 DEF CallHelp, followerVars
<1>9. CASE Output(f) \/ Put(f)
  <2>1. /\ at[f] \in {"output", "put"} /\ at'[f] \in {"put", "advance"}
        /\ UNCHANGED <<fheight, buf, lowwest>>
    BY <1>0, <1>9 DEF Output, Put, TypeOK, bufferVars
  <2> QED
    BY <1>1, <2>1
<1>10. CASE Advance(f)
  <2>1. /\ at[f] = "advance" /\ at'[f] = "top" /\ fheight'[f] = fheight[f] + 1
        /\ UNCHANGED <<buf, lowwest>>
    BY <1>0, <1>10 DEF Advance, TypeOK, bufferVars
  <2> QED
    BY <1>1, <2>1
<1> HIDE DEF Good
<1> QED
  BY <1>2, <1>3, <1>4, <1>6, <1>7, <1>8, <1>9, <1>10, BufferSteps DEF BufferStep, Finishing

LEMMA CalledStep ==
  ASSUME IInv, [Next]_vars, ~Testmode, NEW f \in Follower, Called(f), Fresh(f)
  PROVE  Called(f)'
<1>0. TypeOK /\ BlockInv /\ BufferInv /\ \A h \in Height : h \in Int
  BY Heights DEF IInv
<1>1. /\ fheight[f] \in Nat /\ fheight'[f] \in Nat /\ fheight[f] <= fheight'[f]
      /\ highest[f] \in Int
      /\ buf[f] \in SUBSET Height /\ calls[f] \in SUBSET Height /\ asked[f] \in SUBSET Height
      /\ calling[f] \in SUBSET Height
  BY <1>0, Growing DEF TypeOK
<1> DEFINE S(h) == Signed(f, h)
<1>s. \A h \in Int : S(h) => S(h)'
  BY SignedStays
<1>c. /\ \A b \in buf[f] \ calling[f] : b <= highest[f]
      /\ \A b \in calling[f] : b \in buf[f] \/ S(b)
      /\ \A r \in Height :
           ~S(r) /\ r <= highest[f] => r \in buf[f] \cup calls[f] \cup asked[f]
  BY DEF Called
<1> SUFFICES /\ \A b \in buf'[f] \ calling'[f] : b <= highest'[f]
             /\ \A b \in calling'[f] : b \in buf'[f] \/ S(b)'
             /\ \A r \in Height :
                  ~S(r)' /\ r <= highest'[f] => r \in buf'[f] \cup calls'[f] \cup asked'[f]
  BY DEF Called
<1> DEFINE Goal == /\ \A b \in buf'[f] \ calling'[f] : b <= highest'[f]
                   /\ \A b \in calling'[f] : b \in buf'[f] \/ S(b)'
                   /\ \A r \in Height :
                        ~S(r)' /\ r <= highest'[f] => r \in buf'[f] \cup calls'[f] \cup asked'[f]
<1>2. ASSUME highest'[f] = highest[f], calling'[f] = calling[f], buf'[f] \subseteq buf[f],
             calls[f] \subseteq calls'[f], asked'[f] = asked[f],
             \A b \in buf[f] : b \in buf'[f] \/ S(b)'
      PROVE  Goal
  <2>1. \A b \in buf'[f] \ calling'[f] : b <= highest'[f]
    BY <1>2, <1>c
  <2>2. \A b \in calling'[f] : b \in buf'[f] \/ S(b)'
    <3> HIDE DEF S
    <3> QED
      BY <1>0, <1>1, <1>2, <1>c, <1>s
  <2>3. \A r \in Height :
          ~S(r)' /\ r <= highest'[f] => r \in buf'[f] \cup calls'[f] \cup asked'[f]
    <3> HIDE DEF S
    <3> QED
      BY <1>0, <1>2, <1>c, <1>s
  <2> QED
    BY <2>1, <2>2, <2>3
<1>3. ASSUME UNCHANGED Buffers(f) PROVE Goal
  BY <1>2, <1>3 DEF Buffers
<1>4. ASSUME Top(f) PROVE Goal
  <2>1. /\ buf'[f] = SkipOld(f)[1] /\ UNCHANGED <<highest, calls, calling, asked>>
    BY <1>0, <1>4 DEF Top, TypeOK
  <2>2. SkipOld(f)[1] = {b \in buf[f] : b >= fheight[f]} \/ SkipOld(f)[1] = buf[f]
    BY DEF SkipOld
  <2>3. ASSUME NEW b \in buf[f], b < fheight[f] PROVE S(b)'
    <3>1. b \in Int /\ S(b)
      BY <1>0, <1>1, <2>3 DEF Signed
    <3> HIDE DEF S
    <3> QED
      BY <1>s, <3>1
  <2>4. \A b \in buf[f] : b \in Int
    BY <1>0, <1>1
  <2> QED
    BY <1>1, <1>2, <2>1, <2>2, <2>3, <2>4
<1>5. ASSUME Pop(f) PROVE Goal
  <2> DEFINE b == Min(buf[f])
  <2>1. /\ at[f] = "pop" /\ buf'[f] = buf[f] \ {b} /\ UNCHANGED <<highest, calls, calling, asked, fheight>>
        /\ b = fheight[f] => at'[f] = "output"
    BY <1>0, <1>5 DEF Pop, Sign, TypeOK
  <2>2. fheight[f] \in buf[f]
    BY <1>0, <2>1 DEF BufferInv
  <2>3. b <= fheight[f] /\ b \in Int
    BY <2>2, LowestBlock
  <2> HIDE DEF b
  <2>4. ASSUME NEW c \in {b} PROVE S(c)'
    <3>1. c \in Int /\ (c < fheight'[f] \/ (c = fheight'[f] /\ at'[f] = "output"))
      BY <1>1, <2>1, <2>3
    <3> QED
      BY <1>1, <3>1 DEF Signed, Storing
  <2> HIDE DEF S
  <2> QED
    BY <1>2, <2>1, <2>4
<1>6. ASSUME NEW b \in Height, Handle(f, b) PROVE Goal
  <2>1. UNCHANGED <<buf, highest, calling, asked>> /\ calls[f] \subseteq calls'[f]
    BY <1>0, <1>6 DEF Handle, TypeOK
  <2> QED
    BY <1>2, <2>1
<1>7. ASSUME Finishing(f) PROVE Goal
  <2>1. UNCHANGED <<buf, highest, calling, asked, calls>>
    BY <1>7 DEF Finishing, Output, Put, Advance, bufferVars
  <2> QED
    BY <1>2, <2>1
<1>8. ASSUME NEW b \in calls[f], PutFuture(f, b) PROVE Goal
  <2>1. /\ b \in Height /\ UNCHANGED <<highest, asked>>
        /\ buf'[f] = buf[f] \cup {b} /\ calls'[f] = calls[f] \ {b}
        /\ calling'[f] = calling[f] \cup {b}
    BY <1>0, <1>8 DEF PutFuture, TypeOK
  <2> HIDE DEF S
  <2>2. \A c \in calling'[f] : c \in buf'[f] \/ S(c)'
    BY <1>0, <1>1, <1>c, <1>s, <2>1
  <2>3. \A r \in Height :
          ~S(r)' /\ r <= highest'[f] => r \in buf'[f] \cup calls'[f] \cup asked'[f]
    BY <1>0, <1>c, <1>s, <2>1
  <2> QED
    BY <1>c, <2>1, <2>2, <2>3
<1>9. ASSUME NEW b \in calling[f], CallHelp(f, b) PROVE Goal
  <2>1. /\ b \in Height /\ b \in Int /\ fheight'[f] = fheight[f]
        /\ buf'[f] = buf[f] /\ calls'[f] = calls[f] /\ calling'[f] = calling[f] \ {b}
        /\ highest'[f] = Max({highest[f], b})
        /\ asked'[f] = asked[f] \cup Missing(f, b)
    BY <1>0, <1>9 DEF CallHelp, TypeOK, followerVars
  <2>2. fheight[f] > 0
    BY <1>1 DEF Fresh
  <2>3. highest'[f] = IF highest[f] >= b THEN highest[f] ELSE b
    BY <1>1, <2>1, MaxOfTwo
  <2>4. ASSUME NEW r \in Int, fheight[f] <= r, highest[f] < r, r < b
        PROVE  r \in Missing(f, b)
    <3>1. /\ Max({highest[f], fheight[f]})
               = IF highest[f] >= fheight[f] THEN highest[f] ELSE fheight[f]
      BY <1>1, MaxOfTwo
    <3>2. Missing(f, b) = Max({highest[f], fheight[f]}) .. b - 1
      BY <1>1, <2>1, <2>2, <2>4, <3>1 DEF Missing
    <3> QED
      BY <1>1, <2>1, <2>4, <3>1, <3>2
  <2>5. \A c \in buf'[f] \ calling'[f] : c <= highest'[f]
    <3> SUFFICES ASSUME NEW c \in buf'[f] \ calling'[f] PROVE c <= highest'[f]
      OBVIOUS
    <3>1. c \in Int /\ (c = b \/ c <= highest[f])
      BY <1>0, <1>1, <1>c, <2>1
    <3> QED
      BY <1>1, <2>1, <2>3, <3>1
  <2>6. ASSUME NEW r \in Height, ~S(r)', r <= highest'[f]
        PROVE  r \in buf'[f] \cup calls'[f] \cup asked'[f]
    <3>0. r \in Int /\ ~S(r)
      <4> HIDE DEF S
      <4> QED
        BY <1>0, <1>s, <2>6
    <3>1. CASE r <= highest[f]
      BY <1>c, <2>1, <3>0, <3>1
    <3>2. CASE r = b
      BY <1>c, <2>1, <3>0, <3>2
    <3>3. CASE ~(r <= highest[f]) /\ r # b
      <4>1. highest[f] < r /\ r < b
        BY <1>1, <2>1, <2>3, <2>6, <3>0, <3>3
      <4>2. fheight[f] <= r
        BY <1>1, <3>0 DEF Signed
      <4> QED
        BY <2>1, <2>4, <3>0, <4>1, <4>2
    <3> QED
      BY <3>1, <3>2, <3>3
  <2>7. \A c \in calling'[f] : c \in buf'[f] \/ S(c)'
    <3> HIDE DEF S
    <3> QED
      BY <1>0, <1>1, <1>c, <1>s, <2>1
  <2> QED
    BY <2>5, <2>6, <2>7
<1> HIDE DEF S, Goal
<1>10. Goal
  <2>1. CASE \E b \in Height : b < Proposed /\ Handle(f, b) /\ at[f] = "receive"
    BY <1>6, <2>1
  <2>2. CASE \E b \in calls[f] : PutFuture(f, b)
    BY <1>8, <2>2
  <2>3. CASE \E b \in calling[f] : CallHelp(f, b)
    BY <1>9, <2>3
  <2>4. UNCHANGED Buffers(f) \/ BufferStep(f)
    BY BufferSteps
  <2> QED
    BY <1>3, <1>4, <1>5, <1>7, <2>1, <2>2, <2>3, <2>4 DEF BufferStep
<1> QED
  BY <1>10 DEF Goal

\* The first block that a follower takes is the first of the leader.
LEMMA FirstBlock ==
  ASSUME IInv, NEW f \in Correct, Fresh(f), fheight[f] = 0,
         ReceiveBlock(f) \/ ReceiveHelp(f)
  PROVE  at'[f] = "output" /\ UNCHANGED <<calls, calling, help, asks>>
<1>0. TypeOK /\ f \in Follower
  BY Heights DEF IInv
<1>1. PICK b \in Height :
        /\ b < Proposed /\ Handle(f, b) /\ at[f] = "receive"
        /\ (b = link[f][1] /\ link[f] # <<>>) \/ \E m \in help[f] : b = m[2]
  BY Arrivals
<1>2. Proposed > 0
  <2>1. b \in Nat /\ Proposed \in Nat
    BY <1>1, Heights DEF IInv, TypeOK, Proposed
  <2> QED
    BY <1>1, <2>1
<1>3. b = 0
  BY <1>1, <1>2 DEF Fresh, Storing
<1>4. Sign(f) /\ UNCHANGED <<calls, calling, asks>>
  BY <1>1, <1>3 DEF Handle, IsNext, IsFuture
<1>5. UNCHANGED help
  BY DEF Fresh, ReceiveBlock, ReceiveHelp
<1> QED
  BY <1>0, <1>4, <1>5 DEF Sign, TypeOK

LEMMA FreshStep ==
  ASSUME IInv, [Next]_vars, FirstLost >= 1, NEW f \in Follower, Fresh(f)
  PROVE  Fresh(f)'
<1>0. TypeOK /\ BlockInv
  BY DEF IInv
<1> DEFINE Calm(c, cg, h, as) ==
             c[f] = {} /\ cg[f] = {} /\ h[f] = {} /\ \A a \in as : a[1] # f
           Ready(p, a, l) ==
             p > 0 => a \in {"output", "put", "advance"} \/ (l # <<>> /\ l[1] = 0)
           Goal == Calm(calls', calling', help', asks') /\ Ready(Proposed', at'[f], link'[f])
<1> SUFFICES ASSUME fheight'[f] = 0 PROVE Goal
  BY DEF Fresh, Storing
<1>1. fheight[f] = 0
  BY Growing
<1>2. Calm(calls, calling, help, asks) /\ Ready(Proposed, at[f], link[f])
  BY <1>1 DEF Fresh, Storing
<1>3. CASE UNCHANGED vars
  BY <1>2, <1>3 DEF vars, leaderVars, bufferVars, followerVars, Proposed, collecting
<1>4. CASE Propose
  <2>1. UNCHANGED <<calls, calling, help, asks, at>>
    BY <1>4 DEF Propose, bufferVars, followerVars
  <2>2. PICK L \in SUBSET Correct :
          /\ L # {} => lheight >= FirstLost
          /\ link'[f] = IF f \in Targets \ L THEN Append(link[f], lheight) ELSE link[f]
    BY <1>4 DEF Propose
  <2>3. link[f] \in Seq(Height) /\ lheight \in Nat /\ lheight \in Height /\ f \in Targets
    BY <1>0, <1>4 DEF TypeOK, Propose, Targets, Height
  <2>4. CASE Proposed > 0
    BY <1>2, <2>1, <2>2, <2>3, <2>4
  <2>5. CASE ~(Proposed > 0)
    <3>1. Proposed = lheight /\ lheight = 0
      BY <1>4, <2>3, <2>5 DEF Propose, Proposed, collecting
    <3>2. L = {}
      BY <2>2, <3>1, CbcAssumption
    <3>3. link[f] = <<>>
      <4>1. \A k \in 1 .. Len(link[f]) : link[f][k] < 0 /\ link[f][k] \in Height
        BY <1>0, <2>3, <3>1, ElementOfSeq DEF BlockInv
      <4>2. \A h \in Height : ~(h < 0)
        BY DEF Height
      <4>3. link[f] # <<>> => Len(link[f]) \in Nat \ {0}
        BY <2>3, EmptySeq
      <4> QED
        BY <4>1, <4>2, <4>3
    <3> QED
      BY <1>2, <2>1, <2>2, <2>3, <3>1, <3>2, <3>3
  <2> QED
    BY <2>4, <2>5
<1>5. CASE \/ RouteCurrent \/ RouteStale \/ (\E h \in stale : StopRouting(h))
           \/ LeaderPut \/ LeaderClose
  <2>1. UNCHANGED <<calls, calling, help, asks, at, link, lheight>> /\ (collecting' = collecting)
    BY <1>5 DEF RouteCurrent, RouteStale, Route, StopRouting, LeaderPut, LeaderClose,
                bufferVars, followerVars, collecting
  <2> QED
    BY <1>2, <2>1 DEF Proposed
<1>6. ASSUME NEW g \in Follower, Collect(g) PROVE Goal
  <2>1. collecting /\ UNCHANGED <<calls, calling, help, asks, link, at>>
    BY <1>6 DEF Collect, bufferVars, followerVars
  <2>2. Proposed > 0
    BY <2>1, Growing DEF Proposed
  <2> QED
    BY <1>2, <2>1, <2>2
<1>7. ASSUME NEW g \in Correct, FollowerNext(g), g # f PROVE Goal
  <2>1. at'[f] = at[f]
    BY <1>7, OwnState
  <2>2. UNCHANGED leaderVars
    BY <1>7 DEF FollowerNext, Top, Pop, ReceiveBlock, ReceiveHelp, Handle, Output, Put, Advance,
                PutFuture, CallHelp
  <2>3. Proposed' = Proposed
    BY <2>2 DEF leaderVars, Proposed, collecting
  <2>4. /\ calls'[f] = calls[f] /\ calling'[f] = calling[f]
        /\ help'[f] = help[f] /\ link'[f] = link[f] /\ \A a \in asks' : a \in asks \/ a[1] = g
    <3>1. CASE Top(g) \/ Pop(g)
      BY <3>1 DEF Top, Pop
    <3>2. CASE ReceiveBlock(g) \/ ReceiveHelp(g)
      <4>1. PICK b : Handle(g, b)
        BY <3>2 DEF ReceiveBlock, ReceiveHelp
      <4>2. calls'[f] = calls[f] /\ UNCHANGED <<asks, calling>>
        BY <1>0, <1>7, <4>1 DEF Handle, TypeOK
      <4>3. help'[f] = help[f] /\ link'[f] = link[f]
        BY <1>0, <1>7, <3>2 DEF ReceiveBlock, ReceiveHelp, TypeOK
      <4> QED
        BY <4>2, <4>3
    <3>3. CASE Output(g) \/ Put(g) \/ Advance(g)
      BY <3>3 DEF Output, Put, Advance, bufferVars
    <3>4. CASE \E b \in calls[g] : PutFuture(g, b)
      BY <1>0, <1>7, <3>4 DEF PutFuture, TypeOK
    <3>5. CASE \E b \in calling[g] : CallHelp(g, b)
      BY <1>0, <1>7, <3>5 DEF CallHelp, TypeOK
    <3> QED
      BY <1>7, <3>1, <3>2, <3>3, <3>4, <3>5 DEF FollowerNext
  <2> QED
    BY <1>2, <1>7, <2>1, <2>3, <2>4
<1>8. ASSUME f \in Correct, FollowerNext(f) PROVE Goal
  <2>1. UNCHANGED leaderVars
    BY <1>8 DEF FollowerNext, Top, Pop, ReceiveBlock, ReceiveHelp, Handle, Output, Put, Advance,
                PutFuture, CallHelp
  <2>2. Proposed' = Proposed
    BY <2>1 DEF leaderVars, Proposed, collecting
  <2>3. CASE Top(f) \/ Pop(f)
    <3>1. UNCHANGED <<calls, calling, help, asks, link>> /\ at[f] \in {"top", "pop"}
      BY <2>3 DEF Top, Pop
    <3> QED
      BY <1>2, <2>2, <3>1
  <2>4. CASE ReceiveBlock(f) \/ ReceiveHelp(f)
    BY <1>1, <1>2, <1>8, <2>2, <2>4, FirstBlock
  <2>5. CASE Output(f) \/ Put(f)
    <3>1. /\ UNCHANGED <<calls, calling, help, asks, link>>
          /\ at'[f] \in {"output", "put", "advance"}
      BY <1>0, <2>5 DEF Output, Put, bufferVars, TypeOK
    <3> QED
      BY <1>2, <2>2, <3>1
  <2>6. ~Advance(f)
    BY <1>0, <1>1 DEF Advance, TypeOK
  <2>7. ~(\E b \in calls[f] : PutFuture(f, b)) /\ ~(\E b \in calling[f] : CallHelp(f, b))
    BY <1>2
  <2> QED
    BY <1>8, <2>3, <2>4, <2>5, <2>6, <2>7 DEF FollowerNext
<1>9. ASSUME NEW a \in asks, Answer(a[1], a[2], a[3]) PROVE Goal
  <2>1. a[1] # f
    BY <1>2
  <2>2. help'[f] = help[f] /\ UNCHANGED <<calls, calling, link, at, leaderVars>> /\ asks' \subseteq asks
    BY <1>0, <1>9, <2>1 DEF Answer, TypeOK, followerVars
  <2>3. Proposed' = Proposed
    BY <2>2 DEF leaderVars, Proposed, collecting
  <2> QED
    BY <1>2, <2>2, <2>3
<1> HIDE DEF Goal
<1> QED
  BY <1>3, <1>4, <1>5, <1>6, <1>7, <1>8, <1>9 DEF Next, LeaderNext

LEMMA GapStep == ASSUME IInv, [Next]_vars PROVE GapInv'
<1> SUFFICES ASSUME ~Testmode, FirstLost >= 1, NEW f \in Follower
             PROVE  Called(f)' /\ Fresh(f)'
  BY DEF GapInv
<1>1. Called(f) /\ Fresh(f)
  BY DEF IInv, GapInv
<1> QED
  BY <1>1, CalledStep, FreshStep

-----------------------------------------------------------------------------
(***************************************************************************)
(* The theorems.                                                           *)
(***************************************************************************)

LEMMA InitIInv == Init => IInv
<1> SUFFICES ASSUME Init PROVE IInv
  OBVIOUS
<1>1. MaxHeight \in Nat /\ MaxLost \in Nat
  BY CbcAssumption
<1>2. <<>> \in Seq(Height) /\ Len(<<>>) = 0
  BY EmptySeq
<1>3. TypeOK
  <2>1. /\ 0 \in 0 .. MaxHeight + 1 /\ -1 \in -1 .. MaxHeight /\ 0 \in 0 .. MaxLost
    BY <1>1
  <2>2. /\ link \in [Follower -> Seq(Height)] /\ out \in [Follower -> Seq(Height)]
    BY <1>2 DEF Init
  <2>3. /\ fheight \in [Follower -> 0 .. MaxHeight + 1]
        /\ lastblock \in [Follower -> -1 .. MaxHeight]
        /\ lowwest \in [Follower -> -1 .. MaxHeight]
        /\ highest \in [Follower -> -1 .. MaxHeight]
    BY <2>1 DEF Init
  <2>4. /\ help \in [Follower -> SUBSET (Node \X Height)]
        /\ at \in [Follower -> {"top", "pop", "receive", "output", "put", "advance"}]
        /\ buf \in [Follower -> SUBSET Height]
        /\ db \in [Follower -> SUBSET Height]
    BY DEF Init
  <2>5. /\ calls \in [Follower -> SUBSET Height]
        /\ calling \in [Follower -> SUBSET Height]
        /\ asked \in [Follower -> SUBSET Height]
    BY DEF Init
  <2> QED
    BY <2>1, <2>2, <2>3, <2>4, <2>5 DEF Init, TypeOK
<1>4. Proposed = 0 /\ Kept = 0
  BY DEF Init, Proposed, Kept, collecting
<1>5. BlockInv
  BY <1>2, <1>4 DEF Init, BlockInv, Storing, collecting
<1>6. DatabaseInv /\ PaybackInv
  BY DEF Init, DatabaseInv, PaybackInv, collecting
<1>7. CertifiedIsSigned
  BY DEF Init, CertifiedIsSigned
<1>8. OutInv /\ BufferInv
  BY <1>2 DEF Init, OutInv, BufferInv
<1>9. GapInv
  <2>1. \A r \in Height : 0 <= r
    BY DEF Height
  <2>2. \A r \in Height : r \in Int
    BY DEF Height
  <2> QED
    BY <1>4, <2>1, <2>2 DEF Init, GapInv, Called, Fresh
<1> QED
  BY <1>3, <1>5, <1>6, <1>7, <1>8, <1>9 DEF IInv

\* The invariant holds of every reachable state.
THEOREM Invariance == Spec => []IInv
<1>1. IInv /\ [Next]_vars => IInv'
  BY TypeStep, BlockStep, DatabaseStep, PaybackStep, CertifiedStep, OutStep, BufferInvStep,
     GapStep DEF IInv
<1> QED
  BY InitIInv, <1>1, PTL DEF Spec

\* The variables have their types: no follower stores, buffers or asks for a
\* block that does not exist, and Min and Max have values.
THEOREM TypeCorrect == Spec => []TypeOK
<1>1. IInv => TypeOK
  BY DEF IInv
<1> QED
  BY Invariance, <1>1, PTL

\* Start certifies a block only with the paybacks of enough followers, each of
\* which holds the block, written to its database or about to be: handle_msgin
\* of an old height can neither deliver a payback to the block under way nor
\* make it counted twice.
THEOREM CertificatesCorrect == Spec => []CertifiedIsSigned
<1>1. IInv => CertifiedIsSigned
  BY DEF IInv
<1> QED
  BY Invariance, <1>1, PTL

\* signcount is the number of signers, and they signed the block under way.
THEOREM CountCorrect == Spec => []CountedIsSigned
<1>1. IInv => CountedIsSigned
  BY DEF IInv, PaybackInv, CountedIsSigned
<1> QED
  BY Invariance, <1>1, PTL

\* A follower delivers blocks 0, 1, 2, ... up to the certified ones at most,
\* whether they come on the link, from a helper or out of futurebuffer.
THEOREM DeliveryCorrect == Spec => []DeliversChain
<1>1. IInv => DeliversChain
  <2> SUFFICES ASSUME IInv, NEW f \in Follower
               PROVE  /\ \A i \in 1 .. Len(out[f]) : out[f][i] = i - 1
                      /\ Len(out[f]) <= lheight
    BY DEF DeliversChain
  <2>1. /\ fheight[f] \in Nat /\ lheight \in Nat /\ fheight[f] <= Proposed
        /\ at[f] \in {"put", "advance"} => fheight[f] < Proposed
        /\ Proposed = IF collecting THEN lheight + 1 ELSE lheight
    BY DEF IInv, TypeOK, BlockInv, Proposed, Storing
  <2>2. /\ Len(out[f]) = IF at[f] \in {"put", "advance"} THEN fheight[f]
                         ELSE IF fheight[f] = 0 THEN 0 ELSE fheight[f] - 1
        /\ \A i \in 1 .. Len(out[f]) : out[f][i] = i - 1
    BY DEF IInv, OutInv
  <2> QED
    BY <2>1, <2>2
<1> QED
  BY Invariance, <1>1, PTL

\* callhelp asks for blocks below one that has come; the leader sends a block
\* after it has written the one before, although it counts its height on
\* first, and a follower counts its height on after it has written a block.
THEOREM HelpCorrect == Spec => []HelperHasBlock
<1>1. IInv => HelperHasBlock
  <2> SUFFICES ASSUME IInv, NEW a \in asks, CanHelp(a[3], a[2])
               PROVE  a[2] \in Database(a[3])
    BY DEF HelperHasBlock
  <2>1. /\ a[2] \in Height /\ a[3] \in Node /\ a[2] \in 0 .. Kept - 1 /\ ~Testmode
    BY DEF IInv, TypeOK, BlockInv, DatabaseInv
  <2>2. CASE a[3] = "leader"
    BY <2>1, <2>2 DEF IInv, BlockInv, Database
  <2>3. CASE a[3] # "leader"
    <3>1. /\ a[3] \in Follower /\ a[2] < fheight[a[3]] /\ a[2] \in Nat
          /\ fheight[a[3]] \in Nat
      BY <2>1, <2>3, Heights DEF Node, CanHelp, IInv, TypeOK
    <3>2. a[2] \in 0 .. fheight[a[3]] - 1
      BY <3>1
    <3> QED
      BY <2>1, <2>3, <3>1, <3>2 DEF IInv, DatabaseInv, Database
  <2> QED
    BY <2>2, <2>3
<1> QED
  BY Invariance, <1>1, PTL

\* getlowwest finds a block, although lowwest is not always the lowest.
THEOREM PopCorrect == Spec => []NoEmptyPop
<1>1. IInv => NoEmptyPop
  BY DEF IInv, BufferInv, NoEmptyPop
<1> QED
  BY Invariance, <1>1, PTL

\* Outside test mode the goroutines sendcallhelp leave no gap, in whichever
\* order their halves run, if the first block is not lost: callhelp.put never
\* asks for block 0 of a follower that sees block 1 first.
THEOREM CallsCorrect ==
  ASSUME ~Testmode, FirstLost >= 1
  PROVE  Spec => []GapsAreCalledFor
<1>1. IInv => GapsAreCalledFor
  <2> SUFFICES ASSUME IInv, NEW f \in Correct, NEW b \in Height, NEW r \in Height,
                      b \in buf[f] \ calling[f], r < b, ~Signed(f, r)
               PROVE  r \in buf[f] \cup calls[f] \cup asked[f]
    BY DEF GapsAreCalledFor
  <2>1. f \in Follower /\ r \in Int /\ b \in Int
    BY Heights
  <2>2. Called(f) /\ highest[f] \in Int
    BY <2>1 DEF IInv, GapInv, TypeOK
  <2>3. r <= highest[f]
    BY <2>1, <2>2 DEF Called
  <2> QED
    BY <2>2, <2>3 DEF Called
<1> QED
  BY Invariance, <1>1, PTL

-----------------------------------------------------------------------------
(***************************************************************************)
(* The refinement.                                                         *)
(***************************************************************************)

LEMMA RefinementInit == Init => Abstract!BInit
<1> SUFFICES ASSUME Init PROVE Abstract!BInit
  OBVIOUS
<1>1. \A f \in Follower : Len(out[f]) = 0
  BY DEF Init
<1> QED
  BY <1>1 DEF Init, Abstract!BInit

\* A step that certifies is Certify, the output of a block is Deliver, and the
\* others are stutters.
LEMMA RefinementStep ==
  ASSUME IInv, [Next]_vars
  PROVE  [Abstract!BNext]_(Abstract!bVars)
<1> DEFINE delivered == [f \in Follower |-> Len(out[f])]
<1>0. TypeOK /\ OutInv /\ BlockInv
  BY DEF IInv
<1>1. UNCHANGED out => UNCHANGED delivered
  OBVIOUS
<1>2. ASSUME NEW f \in Follower, Collect(f) PROVE [Abstract!BNext]_(Abstract!bVars)
  <2>1. UNCHANGED out /\ (lheight' = lheight + 1 \/ UNCHANGED lheight)
    BY <1>2 DEF Collect, followerVars
  <2> QED
    BY <1>1, <2>1 DEF Abstract!BNext, Abstract!Certify, Abstract!bVars
<1>3. ASSUME NEW f \in Follower, Output(f) PROVE [Abstract!BNext]_(Abstract!bVars)
  <2>1. /\ UNCHANGED lheight /\ at[f] = "output" /\ fheight[f] \in Nat
        /\ \A g \in Follower \ {f} : out'[g] = out[g]
        /\ out'[f] = IF fheight[f] > 0 THEN Append(out[f], lastblock[f]) ELSE out[f]
    BY <1>0, <1>3 DEF Output, Delivered, TypeOK, leaderVars
  <2>2. CASE fheight[f] = 0
    <3>1. \A g \in Follower : out'[g] = out[g]
      BY <2>1, <2>2
    <3> QED
      BY <2>1, <3>1 DEF Abstract!bVars
  <2>3. CASE fheight[f] # 0
    <3>1. out[f] \in Seq(Height) /\ out'[f] = Append(out[f], lastblock[f])
      BY <1>0, <2>1, <2>3 DEF TypeOK
    <3>2. Len(out'[f]) = Len(out[f]) + 1
      <4>1. lastblock[f] \in Int
        BY <1>0, Heights DEF TypeOK
      <4>2. Height \subseteq Int
        BY DEF Height
      <4>3. out[f] \in Seq(Int)
        BY <3>1, <4>2, SeqMonotonic
      <4> QED
        BY <3>1, <4>1, <4>3
    <3>3. Len(out[f]) < lheight
      <4>1. /\ lheight \in Nat /\ fheight[f] < Proposed
            /\ Len(out[f]) = fheight[f] - 1
        BY <1>0, <2>1, <2>3, Growing, InHand DEF Storing, OutInv
      <4>2. Proposed = IF collecting THEN lheight + 1 ELSE lheight
        BY DEF Proposed
      <4> QED
        BY <2>1, <4>1, <4>2
    <3>4. delivered' = [delivered EXCEPT ![f] = @ + 1]
      BY <2>1, <3>2
    <3>5. delivered[f] < lheight
      BY <3>3
    <3>6. Abstract!Deliver(f)
      BY <2>1, <3>4, <3>5 DEF Abstract!Deliver
    <3> QED
      BY <3>6 DEF Abstract!BNext
  <2> QED
    BY <2>2, <2>3
<1>4. ASSUME NEW f \in Correct, FollowerNext(f) PROVE [Abstract!BNext]_(Abstract!bVars)
  <2>1. UNCHANGED lheight
    BY <1>4 DEF FollowerNext, Top, Pop, ReceiveBlock, ReceiveHelp, Handle, Output, Put, Advance,
                PutFuture, CallHelp, leaderVars
  <2>2. UNCHANGED out \/ Output(f)
    BY <1>4, Stores DEF Quiet, Finishing, Put, Advance
  <2>3. CASE UNCHANGED out
    BY <1>1, <2>1, <2>3 DEF Abstract!bVars
  <2> QED
    BY <1>3, <2>1, <2>2, <2>3, Heights
<1>5. ASSUME UNCHANGED <<lheight, out>> PROVE [Abstract!BNext]_(Abstract!bVars)
  BY <1>1, <1>5 DEF Abstract!bVars
<1>6. \/ UNCHANGED <<lheight, out>> \/ (\E f \in Follower : Collect(f))
      \/ \E f \in Correct : FollowerNext(f)
  BY DEF Next, LeaderNext, Propose, RouteCurrent, RouteStale, Route, StopRouting,
         LeaderPut, LeaderClose, Answer, vars, leaderVars, followerVars
<1> QED
  BY <1>2, <1>4, <1>5, <1>6

\* The instance implements the abstract chain broadcast, which the order
\* manager counts on, whatever is lost, delayed or asked for.
THEOREM Refinement == Spec => ImplementsChain
<1>1. IInv /\ [Next]_vars => [Abstract!BNext]_(Abstract!bVars)
  BY RefinementStep
<1> QED
  BY RefinementInit, Invariance, <1>1, PTL
     DEF Spec, ImplementsChain, Abstract!BSpec

=============================================================================
