------------------------ MODULE OrderManager_proofs ------------------------
(***************************************************************************)
(* Proofs about OrderManager, for any number of nodes, chains and blocks.  *)
(***************************************************************************)
EXTENDS OrderManager, FiniteSetTheorems, SequenceTheorems, TLAPS

-----------------------------------------------------------------------------
(***************************************************************************)
(* Types.                                                                  *)
(***************************************************************************)

\* The variables always have their types: in particular no height leaves
\* the range of the blocks that the broadcasters produce, and the buffers
\* hold blocks only.
THEOREM TypeCorrect == Spec => []TypeOK
<1>1. Init => TypeOK
  <2> SUFFICES ASSUME Init PROVE TypeOK
    OBVIOUS
  <2>1. Nothing \in Heights
    BY ConstantsAssumption DEF Nothing, Heights, Height
  <2>2. <<>> \in Seq(Heights)
    BY ConstantsAssumption
  <2> QED
    BY <2>1, <2>2 DEF Init, TypeOK, Thread, Labels
<1>2. TypeOK /\ [Next]_vars => TypeOK'
  <2> SUFFICES ASSUME TypeOK, [Next]_vars PROVE TypeOK'
    OBVIOUS
  <2> USE ConstantsAssumption DEF Height, Heights
  <2>1. ASSUME NEW c \in Chain, RcvBlock(c) PROVE TypeOK'
    <3> DEFINE h == arrived[c] + 1
    <3>1. h \in 0 .. MaxHeight
      BY <2>1 DEF RcvBlock, TypeOK
    <3>2. arrived' \in Heights
      BY <2>1, <3>1 DEF RcvBlock, TypeOK
    <3>3. hs' \in Heights
      BY <2>1, <3>1 DEF RcvBlock, TypeOK, Latest
    <3>4. blocks' \in [Chain -> SUBSET (0 .. MaxHeight)]
      BY <2>1, <3>1 DEF RcvBlock, TypeOK, AddBlock
    <3> QED
      BY <2>1, <3>2, <3>3, <3>4 DEF RcvBlock, TypeOK, Thread, Labels
  <2>2. CASE TestReady
    BY <2>2 DEF TestReady, TypeOK, Thread, Labels
  <2>3. CASE RcvOutput
    <3>1. Head(outputCH) \in Heights /\ Tail(outputCH) \in Seq(Heights)
      BY <2>3 DEF RcvOutput, TypeOK
    <3> QED
      BY <2>3, <3>1 DEF RcvOutput, TypeOK, Thread, Labels
  <2>4. CASE CutBlock
    <3>1. \A c \in Chain : Prefix(blocks[c], Differ(c)) \subseteq blocks[c]
      BY DEF Prefix
    <3> QED
      BY <2>4, <3>1 DEF CutBlock, TypeOK, Thread, Labels
  <2>5. ASSUME NEW t \in Thread, CheckSend(t) PROVE TypeOK'
    <3>1. CASE Check(t)
      BY <3>1 DEF Check, TypeOK, Thread, Labels
    <3>2. CASE GenerateInput(t)
      BY <3>2 DEF GenerateInput, TypeOK, Thread, Labels
    <3>3. CASE SendInput(t)
      <4>1. Append(inputCH, input[t]) \in Seq(Heights)
        BY DEF TypeOK
      <4> QED
        BY <3>3, <4>1 DEF SendInput, TypeOK, Thread, Labels
    <3>4. CASE ClearReady(t)
      BY <3>4 DEF ClearReady, TypeOK, Thread, Labels
    <3>5. CASE SetReady(t)
      BY <3>5 DEF SetReady, TypeOK, Thread, Labels
    <3> QED
      BY <2>5, <3>1, <3>2, <3>3, <3>4, <3>5 DEF CheckSend
  <2>6. CASE StartRound
    <3>1. <<Head(inputCH)>> \in Seq(Heights) /\ Tail(inputCH) \in Seq(Heights)
      BY <2>6 DEF StartRound, TypeOK
    <3> QED
      BY <2>6, <3>1 DEF StartRound, TypeOK
  <2>7. ASSUME NEW v \in Heights, Decide(v) PROVE TypeOK'
    <3>1. Append(outputCH, v) \in Seq(Heights)
      BY <2>7 DEF TypeOK
    <3> QED
      BY <2>7, <3>1 DEF Decide, TypeOK
  <2>8. CASE UNCHANGED vars
    BY <2>8 DEF vars, TypeOK
  <2> QED
    BY <2>1, <2>2, <2>3, <2>4, <2>5, <2>6, <2>7, <2>8 DEF Next
<1> QED
  BY <1>1, <1>2, PTL DEF Spec

-----------------------------------------------------------------------------
(***************************************************************************)
(* One round at a time.  OneRoundAtATime alone is not inductive: what      *)
(* keeps the broadcast goroutine from taking a second token is that, while *)
(* a token exists and the flag is (still) set, that goroutine is itself    *)
(* inside check_send, before its ready=false.                              *)
(***************************************************************************)
FlagGuardsToken ==
  ready /\ Tokens >= 1
    => pc["bc"] \in {"check", "generate", "send", "set", "clear"}

TokenInv == OneRoundAtATime /\ FlagGuardsToken

\* What a step does to the length of a channel.
LEMMA ChannelLengths ==
  ASSUME NEW S, NEW q \in Seq(S)
  PROVE  /\ Len(q) \in Nat
         /\ q # <<>> => Len(q) >= 1 /\ Len(Tail(q)) = Len(q) - 1
         /\ \A x \in S : Len(Append(q, x)) = Len(q) + 1
  OBVIOUS

LEMMA TokenInvInductive ==
  ASSUME TypeOK, TokenInv, [Next]_vars
  PROVE  TokenInv'
<1> USE DEF TokenInv, OneRoundAtATime, FlagGuardsToken, Tokens, Holds
<1>0. /\ Len(inputCH) \in Nat /\ Len(outputCH) \in Nat
      /\ Len(mvba) \in Nat /\ ready \in BOOLEAN
      /\ pc \in [Thread -> Labels]
  BY ChannelLengths DEF TypeOK
<1>1. ASSUME NEW c \in Chain, RcvBlock(c) PROVE TokenInv'
  BY <1>0, <1>1 DEF RcvBlock, Thread, Labels
<1>2. CASE TestReady
  <2>1. pc'["bc"] = (IF ready THEN "check" ELSE "idle") /\ pc'["out"] = pc["out"]
    BY <1>0, <1>2 DEF TestReady, Thread
  <2>2. pc["bc"] = "ready?" /\ UNCHANGED <<ready, inputCH, outputCH, mvba>>
    BY <1>2 DEF TestReady
  <2>3. CASE ready
    <3>1. Tokens = 0
      BY <1>0, <2>2, <2>3
    <3>2. Tokens' = 1
      BY <1>0, <2>1, <2>2, <2>3, <3>1
    <3> QED
      BY <2>1, <2>3, <3>2
  <2>4. CASE ~ready
    <3>1. Tokens' = Tokens
      BY <1>0, <2>1, <2>2, <2>4
    <3> QED
      BY <2>1, <2>2, <2>4, <3>1
  <2> QED
    BY <2>3, <2>4
<1>3. CASE RcvOutput
  <2>1. Len(outputCH) >= 1 /\ Len(outputCH') = Len(outputCH) - 1
    BY <1>3, ChannelLengths DEF RcvOutput, TypeOK
  <2>2. pc'["bc"] = pc["bc"] /\ pc'["out"] = "cut"
    BY <1>0, <1>3 DEF RcvOutput, Thread
  <2>3. pc["out"] = "idle" /\ UNCHANGED <<ready, inputCH, mvba>>
    BY <1>3 DEF RcvOutput
  <2>4. Tokens' = Tokens
    BY <1>0, <2>1, <2>2, <2>3
  <2> QED
    BY <1>0, <2>1, <2>2, <2>3, <2>4
<1>4. CASE CutBlock
  BY <1>0, <1>4 DEF CutBlock, Thread, Labels
<1>5. ASSUME NEW t \in Thread, CheckSend(t) PROVE TokenInv'
  <2>1. CASE Check(t)
    BY <1>0, <2>1 DEF Check, Thread, Labels
  <2>2. CASE GenerateInput(t)
    BY <1>0, <2>2 DEF GenerateInput, Thread, Labels
  <2>3. CASE SendInput(t)
    <3>1. Len(inputCH') = Len(inputCH) + 1
      BY <2>3, ChannelLengths DEF SendInput, TypeOK
    <3>2. pc'[t] = "clear" /\ \A u \in Thread \ {t} : pc'[u] = pc[u]
      BY <1>0, <2>3 DEF SendInput
    <3>3. pc[t] = "send" /\ UNCHANGED <<ready, mvba, outputCH>>
      BY <2>3 DEF SendInput
    <3>4. Tokens' = Tokens
      <4>1. CASE t = "bc"
        BY <1>0, <3>1, <3>2, <3>3, <4>1 DEF Thread
      <4>2. CASE t = "out"
        BY <1>0, <3>1, <3>2, <3>3, <4>2 DEF Thread
      <4> QED
        BY <1>5, <4>1, <4>2 DEF Thread
    <3> QED
      BY <3>2, <3>3, <3>4 DEF Thread
  <2>4. CASE ClearReady(t)
    BY <1>0, <2>4 DEF ClearReady, Thread, Labels
  <2>5. CASE SetReady(t)
    <3>1. pc'[t] = "idle" /\ \A u \in Thread \ {t} : pc'[u] = pc[u]
      BY <1>0, <2>5 DEF SetReady
    <3>2. pc[t] = "set" /\ UNCHANGED <<inputCH, mvba, outputCH>>
      BY <2>5 DEF SetReady
    <3>3. Tokens' = Tokens - 1
      <4>1. CASE t = "bc"
        <5>1. pc["bc"] = "set" /\ pc'["bc"] = "idle" /\ pc'["out"] = pc["out"]
          BY <3>1, <3>2, <4>1 DEF Thread
        <5> QED
          BY <1>0, <3>2, <5>1
      <4>2. CASE t = "out"
        <5>1. pc["out"] = "set" /\ pc'["out"] = "idle" /\ pc'["bc"] = pc["bc"]
          BY <3>1, <3>2, <4>2 DEF Thread
        <5> QED
          BY <1>0, <3>2, <5>1
      <4> QED
        BY <1>5, <4>1, <4>2 DEF Thread
    <3>4. Tokens \in Int
      BY <1>0
    <3> HIDE DEF Tokens
    <3>5. OneRoundAtATime' /\ ~(Tokens' >= 1)
      BY <3>3, <3>4
    <3> QED
      BY <3>5
  <2> QED
    BY <1>5, <2>1, <2>2, <2>3, <2>4, <2>5 DEF CheckSend
<1>6. CASE StartRound
  <2>1. Len(inputCH) >= 1 /\ Len(inputCH') = Len(inputCH) - 1
    BY <1>6, ChannelLengths DEF StartRound, TypeOK
  <2>2. Len(mvba) = 0 /\ Len(mvba') = 1
    BY <1>6 DEF StartRound
  <2>3. UNCHANGED <<pc, ready, outputCH>>
    BY <1>6 DEF StartRound
  <2>4. Tokens' = Tokens
    BY <1>0, <2>1, <2>2, <2>3
  <2> QED
    BY <2>3, <2>4
<1>7. ASSUME NEW v \in Heights, Decide(v) PROVE TokenInv'
  <2>1. Len(outputCH') = Len(outputCH) + 1
    BY <1>7, ChannelLengths DEF Decide, TypeOK
  <2>2. Len(mvba) >= 1 /\ Len(mvba') = 0
    BY <1>7, ChannelLengths DEF Decide, TypeOK
  <2>3. UNCHANGED <<pc, ready, inputCH>>
    BY <1>7 DEF Decide
  <2>4. /\ Holds("bc") \in Nat /\ Holds("bc")' = Holds("bc")
        /\ Holds("out") \in Nat /\ Holds("out")' = Holds("out")
    BY <2>3
  <2>5. Tokens' = Tokens
    <3>1. Tokens <= 1
      OBVIOUS
    <3> HIDE DEF Holds, TokenInv
    <3>2. Len(mvba) = 1
      <4>1. \A a, b, c, d, e \in Nat :
              a + b + c + d + e <= 1 /\ c >= 1 => c = 1
        OBVIOUS
      <4> QED
        BY <1>0, <2>2, <2>4, <3>1, <4>1
    <3>3. Len(inputCH') = Len(inputCH)
      BY <2>3
    <3>4. \A a, b, c, d, e \in Nat :
            c = 1 => a + b + 0 + (d + 1) + e = a + b + c + d + e
      OBVIOUS
    <3>5. Holds("bc") + Len(inputCH) + 0 + (Len(outputCH) + 1) + Holds("out")
            = Tokens
      BY <1>0, <2>4, <3>2, <3>4
    <3>6. Tokens' = Holds("bc") + Len(inputCH) + 0 + (Len(outputCH) + 1)
                      + Holds("out")
      BY <2>1, <2>2, <2>4, <3>3
    <3> QED
      BY <3>5, <3>6
  <2> HIDE DEF Tokens
  <2> QED
    BY <2>3, <2>5
<1>8. CASE UNCHANGED vars
  BY <1>8 DEF vars
<1> QED
  BY <1>1, <1>2, <1>3, <1>4, <1>5, <1>6, <1>7, <1>8 DEF Next

LEMMA TokenInvCorrect == Spec => []TokenInv
<1>1. Init => TokenInv
  BY DEF Init, TokenInv, OneRoundAtATime, FlagGuardsToken, Tokens, Holds,
         Thread
<1>2. TypeOK /\ TokenInv /\ [Next]_vars => TokenInv'
  BY TokenInvInductive
<1> QED
  BY <1>1, <1>2, TypeCorrect, PTL DEF Spec

\* The two goroutines of the order manager never queue a second input behind
\* an unfinished round, although they test and write `ready' without a lock.
THEOREM AtMostOneRound == Spec => []OneRoundAtATime
  BY TokenInvCorrect, PTL DEF TokenInv

-----------------------------------------------------------------------------
(***************************************************************************)
(* The input of a round passes the check of the peers, when every node has *)
(* one broadcaster.  An input is tested against the committed heights and  *)
(* built from the received ones; the former cannot move while a token is   *)
(* on its way, the latter only grow.                                       *)
(***************************************************************************)
Working == {"cut", "check", "generate", "send", "set"}

InputsAdvance ==
  /\ \A t \in Thread : pc[t] = "generate" => CheckInput(hs, lastCommit)
  /\ \A t \in Thread : pc[t] = "send" => CheckInput(input[t], lastCommit)
  /\ inputCH # <<>> => CheckInput(Head(inputCH), lastCommit)
  /\ mvba # <<>> => CheckInput(Head(mvba), lastCommit)

CommitsAgree ==
  IF outputCH = <<>> THEN lastCommit = decided ELSE Head(outputCH) = decided

LEMMA ChainsFinite == IsFiniteSet(Chain)
<1>1. IsFiniteSet(1 .. K)
  BY ConstantsAssumption, FS_Interval
<1> QED
  BY <1>1, ConstantsAssumption, FS_Product DEF Chain

\* An input stays good when the received heights grow.
LEMMA CheckInputMonotone ==
  ASSUME NEW low \in Heights, NEW high \in Heights, NEW base \in Heights,
         \A c \in Chain : low[c] <= high[c], CheckInput(low, base)
  PROVE  CheckInput(high, base)
<1> DEFINE L == Newer(low, base)
<1> DEFINE H == Newer(high, base)
<1>0. \A c \in Chain : low[c] \in Int /\ high[c] \in Int /\ base[c] \in Int
  BY ConstantsAssumption DEF Heights, Height
<1>1. L \subseteq H /\ H \subseteq Chain
  BY <1>0 DEF Newer
<1>2. IsFiniteSet(H) /\ Cardinality(H) \in Nat
  BY <1>1, ChainsFinite, FS_Subset, FS_CardinalityType
<1>3. Cardinality(L) <= Cardinality(H) /\ Cardinality(L) \in Nat
  BY <1>1, <1>2, FS_Subset, FS_CardinalityType
<1>4. (N * 2) \div 3 \in Int
  BY ConstantsAssumption, FS_CardinalityType DEF N
<1>5. Cardinality(H) > (N * 2) \div 3
  BY <1>2, <1>3, <1>4 DEF CheckInput
<1>6. NoneBelow(high, base)
  BY <1>0 DEF CheckInput, NoneBelow
<1> QED
  BY <1>5, <1>6 DEF CheckInput

\* A token is in one place only.
LEMMA TokenExclusive ==
  ASSUME TypeOK, OneRoundAtATime
  PROVE  /\ \A t \in Thread : pc[t] \in Working =>
              /\ inputCH = <<>> /\ mvba = <<>> /\ outputCH = <<>>
              /\ \A u \in Thread : pc[u] \in Working => u = t
         /\ inputCH # <<>> => mvba = <<>> /\ outputCH = <<>>
         /\ mvba # <<>> => outputCH = <<>>
         /\ Len(inputCH) <= 1 /\ Len(mvba) <= 1 /\ Len(outputCH) <= 1
<1> DEFINE a == Holds("bc")
<1> DEFINE b == Len(inputCH)
<1> DEFINE c == Len(mvba)
<1> DEFINE d == Len(outputCH)
<1> DEFINE e == Holds("out")
<1>1. a \in Nat /\ b \in Nat /\ c \in Nat /\ d \in Nat /\ e \in Nat
  BY ChannelLengths DEF TypeOK, Holds
<1>2. a + b + c + d + e <= 1
  BY DEF OneRoundAtATime, Tokens
<1>3. /\ inputCH # <<>> => b >= 1
      /\ mvba # <<>> => c >= 1
      /\ outputCH # <<>> => d >= 1
  BY ChannelLengths DEF TypeOK
<1>4. \A t \in Thread : pc[t] \in Working => Holds(t) = 1
  BY DEF Holds, Working
<1> HIDE DEF a, b, c, d, e
<1>5. /\ (a = 1 \/ e = 1) => b = 0 /\ c = 0 /\ d = 0 /\ ~(a = 1 /\ e = 1)
      /\ b >= 1 => c = 0 /\ d = 0
      /\ c >= 1 => d = 0
      /\ b <= 1 /\ c <= 1 /\ d <= 1
  BY <1>1, <1>2
<1> USE DEF a, b, c, d, e
<1> QED
  BY <1>3, <1>4, <1>5 DEF Thread

LEMMA SingleElement ==
  ASSUME NEW S, NEW q \in Seq(S)
  PROVE  /\ Len(q) <= 1 /\ q # <<>> => Tail(q) = <<>>
         /\ q = <<>> => \A x \in S : Append(q, x) # <<>> /\ Head(Append(q, x)) = x
<1>1. ASSUME Len(q) <= 1, q # <<>>
      PROVE  Tail(q) = <<>>
  <2>1. Len(Tail(q)) = Len(q) - 1 /\ Tail(q) \in Seq(S)
    BY <1>1, HeadTailProperties
  <2>2. Len(Tail(q)) \notin Nat \ {0}
    BY <1>1, <2>1, LenProperties
  <2> QED
    BY <2>1, <2>2, EmptySeq
<1>2. ASSUME q = <<>>, NEW x \in S
      PROVE  Append(q, x) # <<>> /\ Head(Append(q, x)) = x
  BY <1>2
<1> QED
  BY <1>1, <1>2

LEMMA InputsAdvanceInductive ==
  ASSUME TypeOK, OneRoundAtATime, InputsAdvance, CommitsAgree, [Next]_vars
  PROVE  InputsAdvance' /\ CommitsAgree'
<1>0. pc \in [Thread -> Labels] /\ inputCH \in Seq(Heights)
      /\ outputCH \in Seq(Heights) /\ mvba \in Seq(Heights)
  BY DEF TypeOK
<1>1. ASSUME NEW c \in Chain, RcvBlock(c)
      PROVE  InputsAdvance' /\ CommitsAgree'
  <2>1. \A t \in Thread : pc'[t] = "generate" => pc[t] = "generate"
    BY <1>0, <1>1 DEF RcvBlock, Thread
  <2>2. \A t \in Thread : pc'[t] = "send" => pc[t] = "send"
    BY <1>0, <1>1 DEF RcvBlock, Thread
  <2>3. hs' \in Heights /\ \A d \in Chain : hs[d] <= hs'[d]
    BY <1>1, ConstantsAssumption, SMTT(30)
       DEF RcvBlock, TypeOK, Heights, Height, Latest
  <2>4. CheckInput(hs, lastCommit) => CheckInput(hs', lastCommit)
    BY <2>3, CheckInputMonotone DEF TypeOK
  <2>5. UNCHANGED <<lastCommit, input, inputCH, outputCH, mvba, decided>>
    BY <1>1 DEF RcvBlock
  <2> QED
    BY <2>1, <2>2, <2>4, <2>5
       DEF InputsAdvance, CommitsAgree, CheckInput, NoneBelow, Newer
<1>2. CASE TestReady
  <2>1. \A t \in Thread : pc'[t] \in {"generate", "send"} => pc'[t] = pc[t]
    BY <1>0, <1>2 DEF TestReady, Thread
  <2>2. UNCHANGED <<hs, lastCommit, input, inputCH, outputCH, mvba, decided>>
    BY <1>2 DEF TestReady
  <2> QED
    BY <2>1, <2>2
       DEF InputsAdvance, CommitsAgree, CheckInput, NoneBelow, Newer
<1>3. CASE RcvOutput
  <2>1. /\ outputCH # <<>>
        /\ lastCommit' = Head(outputCH) /\ outputCH' = Tail(outputCH)
        /\ UNCHANGED <<inputCH, mvba, decided>>
    BY <1>3 DEF RcvOutput
  <2>2. inputCH = <<>> /\ mvba = <<>> /\ outputCH' = <<>>
    BY <1>0, <2>1, TokenExclusive, SingleElement
  <2>3. \A t \in Thread : pc'[t] \notin {"generate", "send"}
    BY <1>0, <1>3, <2>1, TokenExclusive DEF RcvOutput, Thread, Working
  <2> QED
    BY <2>1, <2>2, <2>3 DEF InputsAdvance, CommitsAgree
<1>4. CASE CutBlock
  <2>1. \A t \in Thread : pc'[t] \in {"generate", "send"} => pc'[t] = pc[t]
    BY <1>0, <1>4 DEF CutBlock, Thread
  <2>2. UNCHANGED <<hs, lastCommit, input, inputCH, outputCH, mvba, decided>>
    BY <1>4 DEF CutBlock
  <2> QED
    BY <2>1, <2>2
       DEF InputsAdvance, CommitsAgree, CheckInput, NoneBelow, Newer
<1>5. ASSUME NEW t \in Thread, CheckSend(t)
      PROVE  InputsAdvance' /\ CommitsAgree'
  <2>0. \A u \in Thread \ {t} : pc'[u] = pc[u] /\ input'[u] = input[u]
    BY <1>0, <1>5 DEF CheckSend, Check, GenerateInput, SendInput, ClearReady,
                      SetReady, TypeOK
  <2>1. UNCHANGED <<hs, lastCommit, mvba, outputCH, decided>>
    BY <1>5 DEF CheckSend, Check, GenerateInput, SendInput, ClearReady, SetReady
  <2>2. CommitsAgree'
    BY <2>1 DEF CommitsAgree
  <2>3. CASE Check(t)
    <3>1. pc'[t] = "generate" => CheckInput(hs, lastCommit)
      BY <1>0, <2>3 DEF Check
    <3>2. pc'[t] # "send" /\ UNCHANGED <<input, inputCH>>
      BY <1>0, <2>3 DEF Check
    <3> QED
      BY <2>0, <2>1, <2>2, <3>1, <3>2
         DEF InputsAdvance, CheckInput, NoneBelow, Newer
  <2>4. CASE GenerateInput(t)
    <3>1. pc'[t] = "send" /\ input'[t] = hs /\ CheckInput(hs, lastCommit)
      BY <1>0, <2>4 DEF GenerateInput, InputsAdvance, TypeOK
    <3>2. UNCHANGED inputCH
      BY <2>4 DEF GenerateInput
    <3> QED
      BY <2>0, <2>1, <2>2, <3>1, <3>2
         DEF InputsAdvance, CheckInput, NoneBelow, Newer
  <2>5. CASE SendInput(t)
    <3>1. pc'[t] = "clear" /\ UNCHANGED input
      BY <1>0, <2>5 DEF SendInput
    <3>2. inputCH = <<>>
      BY <2>5, TokenExclusive DEF SendInput, Working
    <3>3. Head(inputCH') = input[t] /\ CheckInput(input[t], lastCommit)
      BY <1>0, <2>5, <3>2, SingleElement DEF SendInput, InputsAdvance, TypeOK
    <3> QED
      BY <2>0, <2>1, <2>2, <3>1, <3>3
         DEF InputsAdvance, CheckInput, NoneBelow, Newer
  <2>6. CASE ClearReady(t) \/ SetReady(t)
    <3>1. pc'[t] = "idle" /\ UNCHANGED <<input, inputCH>>
      BY <1>0, <2>6 DEF ClearReady, SetReady
    <3> QED
      BY <2>0, <2>1, <2>2, <3>1
         DEF InputsAdvance, CheckInput, NoneBelow, Newer
  <2> QED
    BY <1>5, <2>3, <2>4, <2>5, <2>6 DEF CheckSend
<1>6. CASE StartRound
  <2>1. /\ inputCH # <<>> /\ inputCH' = Tail(inputCH)
        /\ Head(mvba') = Head(inputCH)
        /\ UNCHANGED <<pc, hs, input, lastCommit, outputCH, decided>>
    BY <1>6 DEF StartRound
  <2>2. inputCH' = <<>>
    BY <1>0, <2>1, TokenExclusive, SingleElement
  <2> QED
    BY <2>1, <2>2
       DEF InputsAdvance, CommitsAgree, CheckInput, NoneBelow, Newer
<1>7. ASSUME NEW v \in Heights, Decide(v)
      PROVE  InputsAdvance' /\ CommitsAgree'
  <2>1. /\ mvba # <<>> /\ mvba' = <<>> /\ decided' = v
        /\ outputCH' = Append(outputCH, v)
        /\ UNCHANGED <<pc, hs, input, lastCommit, inputCH>>
    BY <1>7 DEF Decide
  <2>2. outputCH = <<>>
    BY <2>1, TokenExclusive
  <2>3. outputCH' # <<>> /\ Head(outputCH') = v
    BY <1>0, <2>1, <2>2, SingleElement
  <2> QED
    BY <2>1, <2>3
       DEF InputsAdvance, CommitsAgree, CheckInput, NoneBelow, Newer
<1>8. CASE UNCHANGED vars
  BY <1>8 DEF vars, InputsAdvance, CommitsAgree, CheckInput, NoneBelow, Newer
<1> QED
  BY <1>1, <1>2, <1>3, <1>4, <1>5, <1>6, <1>7, <1>8 DEF Next

LEMMA InputsAdvanceCorrect == Spec => [](InputsAdvance /\ CommitsAgree)
<1>1. Init => InputsAdvance /\ CommitsAgree
  BY DEF Init, InputsAdvance, CommitsAgree, Thread
<1>2. TypeOK /\ OneRoundAtATime /\ InputsAdvance /\ CommitsAgree /\ [Next]_vars
        => InputsAdvance' /\ CommitsAgree'
  BY InputsAdvanceInductive
<1> QED
  BY <1>1, <1>2, TypeCorrect, AtMostOneRound, PTL DEF Spec

\* With one broadcaster per node, no peer ever stops at the input of a
\* correct node: check_input at the proposer implies check_inputs at the peer.
THEOREM InputsAccepted ==
  ASSUME K = 1
  PROVE  Spec => []ProposalAccepted
<1>1. TypeOK /\ OneRoundAtATime /\ InputsAdvance /\ CommitsAgree
        => ProposalAccepted
  <2> SUFFICES ASSUME TypeOK, OneRoundAtATime, InputsAdvance, CommitsAgree,
                      mvba # <<>>
               PROVE  CheckInputs(Head(mvba), decided)
    BY DEF ProposalAccepted
  <2>1. outputCH = <<>> /\ lastCommit = decided
    BY TokenExclusive DEF CommitsAgree
  <2>2. CheckInput(Head(mvba), decided)
    BY <2>1 DEF InputsAdvance
  <2>3. N * K * 2 = N * 2
    BY ConstantsAssumption, FS_CardinalityType DEF N
  <2> QED
    BY <2>2, <2>3 DEF CheckInput, CheckInputs
<1> QED
  BY <1>1, TypeCorrect, AtMostOneRound, InputsAdvanceCorrect, PTL

-----------------------------------------------------------------------------
(***************************************************************************)
(* The ledger.  cutBlock counts blocks and never looks at their heights.   *)
(* That is right because every buffer is an interval that starts where the *)
(* last complete cut ended: the link delivers every block, in order, and   *)
(* no cut takes more than there is.                                        *)
(***************************************************************************)
\* The height up to which the blocks of chain c have been cut.
Cutoff(c) == IF pc["out"] = "cut" THEN old[c] ELSE lastCommit[c]

BuffersAreGaps ==
  /\ hs = arrived
  /\ \A c \in Chain : /\ Cutoff(c) <= hs[c]
                      /\ ledger[c] = 0 .. Cutoff(c)
                      /\ blocks[c] = (Cutoff(c) + 1) .. hs[c]

DecisionsAdvance ==
  /\ pc["out"] = "cut" => CheckInput(lastCommit, old)
  /\ outputCH # <<>> => CheckInput(Head(outputCH), lastCommit)

LEMMA CardinalityOfInterval ==
  ASSUME NEW a \in Int, NEW b \in Int, a <= b + 1
  PROVE  Cardinality(a .. b) = b - a + 1
  BY FS_Interval

\* The first n heights of an interval, if it has so many.
LEMMA PrefixOfInterval ==
  ASSUME NEW a \in Int, NEW b \in Int, a <= b + 1,
         NEW n \in Nat, n <= Cardinality(a .. b)
  PROVE  Prefix(a .. b, n) = a .. (a + n - 1)
<1>1. n <= b - a + 1
  BY CardinalityOfInterval
<1>2. ASSUME NEW h \in a .. b
      PROVE  Cardinality({g \in a .. b : g < h}) = h - a
  <2>1. {g \in a .. b : g < h} = a .. (h - 1)
    OBVIOUS
  <2>2. Cardinality(a .. (h - 1)) = (h - 1) - a + 1
    BY CardinalityOfInterval
  <2>3. (h - 1) - a + 1 = h - a
    OBVIOUS
  <2> QED
    BY <2>1, <2>2, <2>3, Zenon
<1>3. Prefix(a .. b, n) = {h \in a .. b : h - a < n}
  BY <1>2 DEF Prefix
<1>4. \A h : (h \in a .. b /\ h - a < n) <=> h \in a .. (a + n - 1)
  BY <1>1
<1> QED
  BY <1>3, <1>4

\* cutBlock moves the interval up to the decision from the buffers to the
\* ledger, whole.
LEMMA CutIsExact ==
  ASSUME TypeOK, BuffersAreGaps, DecisionsAdvance, CutBlock, NEW c \in Chain
  PROVE  /\ old[c] <= lastCommit[c] /\ lastCommit[c] <= hs[c]
         /\ Prefix(blocks[c], Differ(c)) = (old[c] + 1) .. lastCommit[c]
<1>0. /\ old[c] \in Int /\ lastCommit[c] \in Int /\ hs[c] \in Int
      /\ pc["out"] = "cut"
  BY ConstantsAssumption DEF TypeOK, Heights, Height, CutBlock
<1>1. old[c] <= lastCommit[c]
  BY <1>0 DEF DecisionsAdvance, CheckInput, NoneBelow
<1>2. old[c] <= hs[c] /\ blocks[c] = (old[c] + 1) .. hs[c]
  BY <1>0 DEF BuffersAreGaps, Cutoff
<1>3. Differ(c) \in Nat /\ Differ(c) = lastCommit[c] - old[c]
  BY <1>0, <1>1 DEF Differ
<1>4. Differ(c) <= Cardinality(blocks[c]) /\ Cardinality(blocks[c]) = hs[c] - old[c]
  <2>1. Cardinality((old[c] + 1) .. hs[c]) = hs[c] - (old[c] + 1) + 1
    BY <1>0, <1>2, CardinalityOfInterval
  <2> QED
    BY <1>0, <1>2, <1>3, <2>1 DEF CutBlock, Buffered
<1>5. \A a, b \in Int, n \in Nat : a <= b + 1 /\ n <= Cardinality(a .. b)
                              => Prefix(a .. b, n) = a .. (a + n - 1)
  BY PrefixOfInterval
<1>6. old[c] + 1 \in Int /\ old[c] + 1 <= hs[c] + 1
  BY <1>0, <1>2
<1>7. Prefix(blocks[c], Differ(c)) = (old[c] + 1) .. (old[c] + 1 + Differ(c) - 1)
  BY <1>0, <1>2, <1>3, <1>4, <1>5, <1>6
<1>8. old[c] + 1 + Differ(c) - 1 = lastCommit[c]
  BY <1>0, <1>3
<1> QED
  BY <1>0, <1>1, <1>3, <1>4, <1>7, <1>8

LEMMA BuffersInductive ==
  ASSUME TypeOK, OneRoundAtATime, CommitsAgree, BuffersAreGaps,
         DecisionsAdvance, [Next]_vars
  PROVE  BuffersAreGaps' /\ DecisionsAdvance'
<1> USE ConstantsAssumption DEF Cutoff
<1>0. /\ pc \in [Thread -> Labels] /\ "out" \in Thread /\ "bc" \in Thread
      /\ hs \in Heights /\ lastCommit \in Heights /\ old \in Heights
      /\ outputCH \in Seq(Heights)
  BY DEF TypeOK, Thread
<1>1. ASSUME NEW d \in Chain, RcvBlock(d)
      PROVE  BuffersAreGaps' /\ DecisionsAdvance'
  <2>1. /\ pc'["out"] = pc["out"]
        /\ UNCHANGED <<lastCommit, old, outputCH, ledger>>
    BY <1>0, <1>1 DEF RcvBlock
  <2>2. DecisionsAdvance'
    BY <2>1 DEF DecisionsAdvance, CheckInput, NoneBelow, Newer
  <2>3. arrived[d] = hs[d] /\ hs[d] \in Int
    BY <1>0 DEF BuffersAreGaps, Heights, Height
  <2>4. hs' = [hs EXCEPT ![d] = hs[d] + 1] /\ hs' = arrived'
    <3>1. Latest(hs[d], hs[d] + 1) = hs[d] + 1
      BY <2>3 DEF Latest
    <3>2. /\ arrived' = [arrived EXCEPT ![d] = arrived[d] + 1]
          /\ hs' = [hs EXCEPT ![d] = Latest(hs[d], arrived[d] + 1)]
      BY <1>1 DEF RcvBlock
    <3> QED
      BY <2>3, <3>1, <3>2 DEF BuffersAreGaps
  <2>5. ASSUME NEW c \in Chain
        PROVE  /\ Cutoff(c)' = Cutoff(c)
               /\ Cutoff(c) <= hs'[c]
               /\ blocks'[c] = (Cutoff(c) + 1) .. hs'[c]
    <3>1. Cutoff(c)' = Cutoff(c) /\ Cutoff(c) \in Int /\ hs[c] \in Int
      BY <1>0, <2>1 DEF Heights, Height
    <3>2. Cutoff(c) <= hs[c] /\ blocks[c] = (Cutoff(c) + 1) .. hs[c]
      BY DEF BuffersAreGaps
    <3>3. CASE c = d
      <4>1. blocks'[c] = blocks[c] \cup {hs[c] + 1} /\ hs'[c] = hs[c] + 1
        BY <1>0, <1>1, <2>3, <2>4, <3>3
           DEF RcvBlock, AddBlock, TypeOK, Heights
      <4>2. ((Cutoff(c) + 1) .. hs[c]) \cup {hs[c] + 1}
              = (Cutoff(c) + 1) .. (hs[c] + 1)
        BY <3>1, <3>2
      <4>3. Cutoff(c) <= hs[c] + 1
        BY <3>1, <3>2
      <4> HIDE DEF Cutoff
      <4> QED
        BY <3>1, <3>2, <4>1, <4>2, <4>3
    <3>4. CASE c # d
      <4>1. blocks'[c] = blocks[c] /\ hs'[c] = hs[c]
        BY <1>0, <1>1, <2>4, <3>4 DEF RcvBlock, TypeOK, Heights
      <4> QED
        BY <3>1, <3>2, <4>1
    <3> QED
      BY <3>3, <3>4
  <2> HIDE DEF Cutoff
  <2> QED
    BY <2>1, <2>2, <2>4, <2>5 DEF BuffersAreGaps
<1>2. ASSUME UNCHANGED <<arrived, hs, blocks, lastCommit, old, ledger>>,
             pc'["out"] = "cut" <=> pc["out"] = "cut"
      PROVE  BuffersAreGaps'
  BY <1>2 DEF BuffersAreGaps
<1>3. ASSUME UNCHANGED <<lastCommit, old, outputCH>>,
             pc'["out"] = "cut" => pc["out"] = "cut"
      PROVE  DecisionsAdvance'
  BY <1>3 DEF DecisionsAdvance, CheckInput, NoneBelow, Newer
<1>4. CASE TestReady
  BY <1>0, <1>2, <1>3, <1>4 DEF TestReady
<1>5. CASE RcvOutput
  <2>1. /\ pc["out"] = "idle" /\ outputCH # <<>> /\ pc'["out"] = "cut"
        /\ old' = lastCommit /\ lastCommit' = Head(outputCH)
        /\ outputCH' = Tail(outputCH)
        /\ UNCHANGED <<arrived, hs, blocks, ledger>>
    BY <1>0, <1>5 DEF RcvOutput
  <2>2. outputCH' = <<>>
    BY <1>0, <2>1, TokenExclusive, SingleElement
  <2>3. CheckInput(lastCommit', old')
    BY <2>1 DEF DecisionsAdvance
  <2>4. DecisionsAdvance'
    BY <2>2, <2>3 DEF DecisionsAdvance, CheckInput, NoneBelow, Newer
  <2>5. \A c \in Chain : Cutoff(c)' = Cutoff(c)
    BY <2>1
  <2> HIDE DEF Cutoff
  <2> QED
    BY <2>1, <2>4, <2>5 DEF BuffersAreGaps
<1>6. CASE CutBlock
  <2>1. /\ pc["out"] = "cut" /\ pc'["out"] = "check"
        /\ UNCHANGED <<arrived, hs, lastCommit, old, outputCH>>
    BY <1>0, <1>6 DEF CutBlock
  <2>2. ASSUME NEW c \in Chain
        PROVE  /\ Cutoff(c)' = lastCommit[c]
               /\ lastCommit[c] <= hs[c]
               /\ ledger'[c] = 0 .. lastCommit[c]
               /\ blocks'[c] = (lastCommit[c] + 1) .. hs[c]
    <3>1. /\ old[c] <= lastCommit[c] /\ lastCommit[c] <= hs[c]
          /\ Prefix(blocks[c], Differ(c)) = (old[c] + 1) .. lastCommit[c]
      BY <1>6, CutIsExact
    <3>2. ledger[c] = 0 .. old[c] /\ blocks[c] = (old[c] + 1) .. hs[c]
      BY <2>1 DEF BuffersAreGaps
    <3>3. /\ ledger'[c] = ledger[c] \cup Prefix(blocks[c], Differ(c))
          /\ blocks'[c] = blocks[c] \ Prefix(blocks[c], Differ(c))
      BY <1>6 DEF CutBlock
    <3>4. /\ old[c] \in Int /\ old[c] >= -1
          /\ lastCommit[c] \in Int /\ hs[c] \in Int
      BY <1>0 DEF Heights, Height
    <3>5. (0 .. old[c]) \cup ((old[c] + 1) .. lastCommit[c]) = 0 .. lastCommit[c]
      BY <3>1, <3>4
    <3>6. ((old[c] + 1) .. hs[c]) \ ((old[c] + 1) .. lastCommit[c])
            = (lastCommit[c] + 1) .. hs[c]
      BY <3>1, <3>4
    <3>7. Cutoff(c)' = lastCommit[c]
      BY <2>1
    <3> HIDE DEF Cutoff
    <3> QED
      BY <3>1, <3>2, <3>3, <3>5, <3>6, <3>7
  <2>3. DecisionsAdvance'
    BY <1>3, <2>1
  <2> HIDE DEF Cutoff
  <2> QED
    BY <2>1, <2>2, <2>3 DEF BuffersAreGaps
<1>7. ASSUME NEW t \in Thread, CheckSend(t)
      PROVE  BuffersAreGaps' /\ DecisionsAdvance'
  <2>1. UNCHANGED <<arrived, hs, blocks, lastCommit, old, outputCH, ledger>>
    BY <1>7 DEF CheckSend, Check, GenerateInput, SendInput, ClearReady, SetReady
  <2>2. pc'["out"] = "cut" <=> pc["out"] = "cut"
    BY <1>0, <1>7 DEF CheckSend, Check, GenerateInput, SendInput, ClearReady,
                      SetReady
  <2> QED
    BY <1>2, <1>3, <2>1, <2>2
<1>8. CASE StartRound
  BY <1>2, <1>3, <1>8 DEF StartRound
<1>9. ASSUME NEW v \in Heights, Decide(v)
      PROVE  BuffersAreGaps' /\ DecisionsAdvance'
  <2>1. /\ mvba # <<>> /\ CheckInput(v, decided)
        /\ outputCH' = Append(outputCH, v)
        /\ UNCHANGED <<arrived, hs, blocks, lastCommit, old, pc, ledger>>
    BY <1>9 DEF Decide
  <2>2. outputCH = <<>> /\ lastCommit = decided
    BY <2>1, TokenExclusive DEF CommitsAgree
  <2>3. Head(outputCH') = v
    BY <1>0, <2>1, <2>2, SingleElement
  <2> QED
    BY <1>2, <2>1, <2>2, <2>3
       DEF DecisionsAdvance, CheckInput, NoneBelow, Newer
<1>10. CASE UNCHANGED vars
  BY <1>2, <1>3, <1>10 DEF vars
<1> QED
  BY <1>1, <1>4, <1>5, <1>6, <1>7, <1>8, <1>9, <1>10 DEF Next

LEMMA BuffersCorrect == Spec => [](BuffersAreGaps /\ DecisionsAdvance)
<1>1. Init => BuffersAreGaps /\ DecisionsAdvance
  BY DEF Init, BuffersAreGaps, DecisionsAdvance, Cutoff, Nothing, Thread
<1>2. TypeOK /\ OneRoundAtATime /\ CommitsAgree /\ BuffersAreGaps
        /\ DecisionsAdvance /\ [Next]_vars
      => BuffersAreGaps' /\ DecisionsAdvance'
  BY BuffersInductive
<1> QED
  BY <1>1, <1>2, TypeCorrect, AtMostOneRound, InputsAdvanceCorrect, PTL DEF Spec

\* What has been cut is, on every chain, exactly the blocks up to the last
\* decision, although cutBlock only counts them.
THEOREM LedgerExact == Spec => []LedgerIsExact
<1>1. BuffersAreGaps => LedgerIsExact
  BY DEF BuffersAreGaps, LedgerIsExact, Cutoff
<1> QED
  BY <1>1, BuffersCorrect, PTL

\* check_inputs finds the block of a height by its position in a buffer that
\* it reads without the lock: while a round runs, that is the right block.
THEOREM LookupCorrect == Spec => []LookupFinds
<1>1. TypeOK /\ OneRoundAtATime /\ CommitsAgree /\ BuffersAreGaps
        => LookupFinds
  <2> SUFFICES ASSUME TypeOK, OneRoundAtATime, CommitsAgree, BuffersAreGaps,
                      mvba # <<>>, NEW c \in Chain,
                      NEW h \in (decided[c] + 1) .. MaxHeight, LooksUp(c, h)
               PROVE  h \in blocks[c] /\ Position(blocks[c], h) = Target(c, h)
    BY DEF LookupFinds
  <2>1. lastCommit = decided /\ pc["out"] # "cut"
    BY TokenExclusive DEF CommitsAgree, Working, Thread
  <2>2. decided[c] \in Int /\ hs[c] \in Int /\ h \in Int /\ decided[c] < h
    BY ConstantsAssumption DEF TypeOK, Heights, Height
  <2>3. decided[c] <= hs[c] /\ blocks[c] = (decided[c] + 1) .. hs[c]
    BY <2>1 DEF BuffersAreGaps, Cutoff
  <2>4. Cardinality(blocks[c]) = hs[c] - decided[c]
    <3>1. Cardinality((decided[c] + 1) .. hs[c]) = hs[c] - (decided[c] + 1) + 1
      BY <2>2, <2>3, CardinalityOfInterval, SMTT(30)
    <3> QED
      BY <2>2, <2>3, <3>1
  <2>5. h <= hs[c]
    BY <2>2, <2>4 DEF LooksUp
  <2>6. h \in blocks[c]
    BY <2>2, <2>3, <2>5
  <2>7. Position(blocks[c], h) = h - decided[c] - 1
    <3>1. {g \in blocks[c] : g < h} = (decided[c] + 1) .. (h - 1)
      BY <2>2, <2>3, <2>5
    <3>2. Cardinality((decided[c] + 1) .. (h - 1)) = (h - 1) - (decided[c] + 1) + 1
      BY <2>2, CardinalityOfInterval
    <3>3. (h - 1) - (decided[c] + 1) + 1 = h - decided[c] - 1
      BY <2>2
    <3> QED
      BY <3>1, <3>2, <3>3, Zenon DEF Position
  <2>8. Min(blocks[c]) = decided[c] + 1
    <3>1. decided[c] + 1 \in blocks[c] /\ \A g \in blocks[c] : decided[c] + 1 <= g
      BY <2>2, <2>3, <2>5
    <3>2. ASSUME NEW m \in blocks[c], \A g \in blocks[c] : m <= g
          PROVE  m = decided[c] + 1
      BY <2>2, <2>3, <3>1, <3>2
    <3> QED
      BY <3>1, <3>2 DEF Min
  <2> QED
    BY <2>2, <2>6, <2>7, <2>8 DEF Target
<1> QED
  BY <1>1, TypeCorrect, AtMostOneRound, InputsAdvanceCorrect, BuffersCorrect, PTL

-----------------------------------------------------------------------------
(***************************************************************************)
(* The refinement.  The abstract commit height is the number of blocks cut *)
(* off minus one, which is the height the last complete cut went up to.    *)
(***************************************************************************)
LEMMA CommitIsCutoff ==
  ASSUME TypeOK, BuffersAreGaps, NEW c \in Chain
  PROVE  Cardinality(ledger[c]) - 1 = Cutoff(c)
<1>1. Cutoff(c) \in Int /\ Cutoff(c) >= -1
  BY ConstantsAssumption DEF TypeOK, Heights, Height, Cutoff
<1>2. Cardinality(0 .. Cutoff(c)) = Cutoff(c) - 0 + 1
  BY <1>1, CardinalityOfInterval
<1> QED
  BY <1>1, <1>2 DEF BuffersAreGaps

LEMMA StepImplements ==
  ASSUME TypeOK, BuffersAreGaps, DecisionsAdvance, BuffersAreGaps', [Next]_vars
  PROVE  [Abstract!ANext]_Abstract!aVars
<1> USE DEF Abstract!aVars
<1>1. CASE CutBlock
  <2> DEFINE from == [c \in Chain |-> Cardinality(ledger[c]) - 1]
             to   == [c \in Chain |-> Cardinality(ledger'[c]) - 1]
  <2>0. /\ pc["out"] = "cut" /\ pc'["out"] = "check" /\ lastCommit' = lastCommit
        /\ lastCommit \in Heights /\ old \in Heights
    BY <1>1 DEF CutBlock, TypeOK, Thread
  <2>1. \A c \in Chain : from[c] = old[c]
    BY <2>0, CommitIsCutoff DEF Cutoff
  <2>2. \A c \in Chain : to[c] = lastCommit[c]
    <3> SUFFICES ASSUME NEW c \in Chain
                 PROVE  Cardinality(ledger'[c]) - 1 = lastCommit[c]
      OBVIOUS
    <3>1. ledger'[c] = 0 .. lastCommit[c]
      BY <2>0 DEF BuffersAreGaps, Cutoff
    <3>2. lastCommit[c] \in Int /\ lastCommit[c] >= -1
      BY <2>0, ConstantsAssumption DEF Heights, Height
    <3>3. Cardinality(0 .. lastCommit[c]) = lastCommit[c] - 0 + 1
      BY <3>2, CardinalityOfInterval
    <3> QED
      BY <3>1, <3>2, <3>3
  <2>3. to \in [Chain -> -1 .. MaxHeight]
    BY <2>0, <2>2 DEF Heights, Height
  <2>4. Abstract!Advances(to, from)
    <3>1. CheckInput(lastCommit, old)
      BY <2>0 DEF DecisionsAdvance
    <3>2. {c \in Chain : to[c] > from[c]} = Newer(lastCommit, old)
      BY <2>1, <2>2 DEF Newer
    <3>3. \A c \in Chain : to[c] >= from[c]
      BY <2>1, <2>2, <3>1 DEF CheckInput, NoneBelow
    <3>4. Newer(lastCommit, old)
            \in {Q \in SUBSET Chain : Cardinality(Q) > (N * 2) \div 3}
      BY <3>1 DEF CheckInput, Newer
    <3> HIDE DEF from, to
    <3> QED
      BY <3>2, <3>3, <3>4, Zenon DEF Abstract!Advances
  <2>5. ledger' = [c \in Chain |-> ledger[c] \cup ((from[c] + 1) .. to[c])]
    <3>1. \A c \in Chain : Prefix(blocks[c], Differ(c))
                             = (from[c] + 1) .. to[c]
      BY <1>1, <2>1, <2>2, CutIsExact
    <3> HIDE DEF from, to
    <3> QED
      BY <1>1, <3>1 DEF CutBlock
  <2>6. Abstract!Commit(to)
    BY <2>4, <2>5 DEF Abstract!Commit
  <2> QED
    BY <2>3, <2>6 DEF Abstract!ANext
<1>2. CASE UNCHANGED ledger
  BY <1>2
<1>3. \/ CutBlock
      \/ UNCHANGED ledger
  BY DEF Next, vars, RcvBlock, TestReady, RcvOutput, CheckSend, Check,
         GenerateInput, SendInput, ClearReady, SetReady, StartRound, Decide
<1> QED
  BY <1>1, <1>2, <1>3

\* The order manager of a node is a ledger that grows by whole rounds: every
\* step is a round of CommittedLedger or leaves the ledger alone.
THEOREM LedgerImplemented == Spec => ImplementsLedger
<1>1. Init => Abstract!AInit
  <2>1. ASSUME Init, NEW c \in Chain
        PROVE  Cardinality(ledger[c]) - 1 = -1
    BY <2>1, FS_EmptySet DEF Init
  <2> QED
    BY <2>1 DEF Init, Abstract!AInit
<1>2. TypeOK /\ BuffersAreGaps /\ DecisionsAdvance /\ BuffersAreGaps'
        /\ [Next]_vars
      => [Abstract!ANext]_Abstract!aVars
  BY StepImplements
<1> QED
  BY <1>1, <1>2, TypeCorrect, BuffersCorrect, PTL
     DEF Spec, ImplementsLedger, Abstract!ASpec

=============================================================================
