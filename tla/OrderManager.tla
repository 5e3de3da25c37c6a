---------------------------- MODULE OrderManager ----------------------------
(***************************************************************************)
(* The order manager of one node (order/start_order.go, order/input.go):   *)
(* two goroutines that share the block buffer, the committed heights and   *)
(* the flag `ready' (which no lock protects).                              *)
(*                                                                         *)
(*   "bc"   handle_rcvBroadcastCH: takes the blocks the broadcast layer    *)
(*          delivers, buffers them, and starts a round when ready;         *)
(*   "out"  handle_rcvOutputCH: takes the decision of a round, waits until *)
(*          the committed blocks are buffered, cuts them off the buffer,   *)
(*          and starts the next round.                                     *)
(*                                                                         *)
(* Both start a round through check_send.  The MVBA service that decides   *)
(* the rounds (order/smvba/order.go) is the third process: it takes one    *)
(* input per round and returns a decision that all the nodes agree on.     *)
(*                                                                         *)
(* A block is its height: the content of a block, its signatures and the   *)
(* latency accounting of cutBlock do not influence any of these steps.     *)
(***************************************************************************)
EXTENDS Integers, FiniteSets, Sequences, FiniteSetsExt

CONSTANTS
  Node,       \* the nodes (od_m.Node_num of them)
  K,          \* broadcaster instances per node
  MaxHeight   \* bound: the highest block a broadcaster produces

ASSUME ConstantsAssumption ==
  /\ IsFiniteSet(Node) /\ Node # {}
  /\ K \in Nat \ {0}
  /\ MaxHeight \in Nat

Chain == Node \X (1 .. K)
N == Cardinality(Node)
Height == -1 .. MaxHeight
Heights == [Chain -> Height]
Nothing == [c \in Chain |-> -1]
Thread == {"bc", "out"}

VARIABLES
  arrived,    \* arrived[c]: last block of chain c the link has carried
  hs,         \* od_m.heights and od_m.hs: highest block received per chain
  blocks,     \* od_m.oldBCBlocks.blocks: buffered, not yet cut blocks
  lastCommit, \* od_m.lastCommit: heights of the last decision taken
  old,        \* tmpHeights of handle_rcvOutputCH: heights before it
  ready,      \* od_m.ready
  pc,         \* where each goroutine is
  input,      \* the local variable `input' of check_send, per goroutine
  inputCH,    \* od_m.sendIntputCH
  outputCH,   \* od_m.rcvOutputCH
  mvba,       \* the input of the MVBA round that is running, <<>> if none
  decided,    \* order.lastCommit of the MVBA service: the last decision
  ledger      \* history: the blocks cutBlock has extracted, per chain

vars == <<arrived, hs, blocks, lastCommit, old, ready, pc, input,
          inputCH, outputCH, mvba, decided, ledger>>

Labels ==
  {"idle",      \* waiting on the goroutine's channel
   "ready?",    \* bc: about to test od_m.ready
   "cut",       \* out: inside cutBlock
   "check",     \* check_send: about to evaluate check_input
   "generate",  \* check_send: about to lock and build the input
   "send",      \* check_send: about to send on sendIntputCH
   "clear",     \* check_send: about to set ready to false
   "set"}       \* check_send: about to set ready to true

TypeOK ==
  /\ arrived \in Heights
  /\ hs \in Heights
  /\ blocks \in [Chain -> SUBSET (0 .. MaxHeight)]
  /\ lastCommit \in Heights
  /\ old \in Heights
  /\ ready \in BOOLEAN
  /\ pc \in [Thread -> Labels]
  /\ input \in [Thread -> Heights]
  /\ inputCH \in Seq(Heights)
  /\ outputCH \in Seq(Heights)
  /\ mvba \in Seq(Heights)
  /\ decided \in Heights
  /\ ledger \in [Chain -> SUBSET (0 .. MaxHeight)]

Init ==
  /\ arrived = Nothing
  /\ hs = Nothing
  /\ blocks = [c \in Chain |-> {}]
  /\ lastCommit = Nothing /\ old = Nothing
  /\ ready = TRUE
  /\ pc = [t \in Thread |-> "idle"]
  /\ input = [t \in Thread |-> Nothing]
  /\ inputCH = <<>> /\ outputCH = <<>>
  /\ mvba = <<>>
  /\ decided = Nothing
  /\ ledger = [c \in Chain |-> {}]

(***************************************************************************)
(* The two tests of an input.  check_input decides whether this node may   *)
(* start a round; check_inputs is what every peer requires of the input    *)
(* (a peer that finds it false stops with "wrong input in PBC1").          *)
(***************************************************************************)
Newer(new, base) == {c \in Chain : new[c] > base[c]}

NoneBelow(new, base) == \A c \in Chain : new[c] >= base[c]

CheckInput_atLeast(heights, base) ==   \* mutant: `>=' for `>'
  /\ NoneBelow(heights, base)
  /\ Cardinality(Newer(heights, base)) >= (N * 2) \div 3

CheckInput(heights, base) ==
  /\ NoneBelow(heights, base)
  /\ Cardinality(Newer(heights, base)) > (N * 2) \div 3

\* check_inputs compares the block proposed for height h of chain c with its
\* own copy when its buffer is longer than the heights to commit; it takes
\* the one at index `target'.
LooksUp(c, h) == Cardinality(blocks[c]) > h - decided[c]

Target_committed(c, h) ==             \* mutant: as if cut up to the decision
  h - decided[c]

Target(c, h) == h - Min(blocks[c])

\* There is nothing to compare with in the first round (`len(old) == 0').
CheckInputs(new, base) ==
  \/ base = Nothing
  \/ /\ NoneBelow(new, base)
     /\ Cardinality(Newer(new, base)) > (N * K * 2) \div 3

Prefix_upTo(buffer, n) ==              \* mutant: [:n+1]
  {h \in buffer : Cardinality({g \in buffer : g < h}) <= n}

Latest_next(height, h) == h + 1        \* mutant: the height expected next

\* update_bcBlocks and add_bcBlock: the latest height, the sorted buffer.
Latest(height, h) == IF h > height THEN h ELSE height

AddBlock(buffer, h) == buffer \cup {h}

\* The index of a height in a sorted buffer.
Position(buffer, h) == Cardinality({g \in buffer : g < h})

\* The n smallest heights of a buffer: the prefix [:n] of the sorted slice.
Prefix(buffer, n) ==
  {h \in buffer : Cardinality({g \in buffer : g < h}) < n}

Differ(c) == lastCommit[c] - old[c]

Buffered_more(c) ==                    \* mutant: waits for a block too many
  Cardinality(blocks[c]) > Differ(c)

\* cutBlock may extract from chain c: its buffer is long enough.
Buffered(c) == Cardinality(blocks[c]) >= Differ(c)

-----------------------------------------------------------------------------
\* handle_rcvBroadcastCH takes the next block of chain c: update_bcBlocks
\* and add_bcBlock, under the lock of the buffer.
RcvBlock(c) ==
  LET h == arrived[c] + 1 IN
  /\ pc["bc"] = "idle"
  /\ h <= MaxHeight
  /\ arrived' = [arrived EXCEPT ![c] = h]
  /\ hs' = [hs EXCEPT ![c] = Latest(@, h)]
  /\ blocks' = [blocks EXCEPT ![c] = AddBlock(@, h)]
  /\ pc' = [pc EXCEPT !["bc"] = "ready?"]
  /\ UNCHANGED <<lastCommit, old, ready, input, inputCH, outputCH,
                 mvba, decided, ledger>>

TestReady_always ==                    \* mutant: does not test the flag
  /\ pc["bc"] = "ready?"
  /\ pc' = [pc EXCEPT !["bc"] = "check"]
  /\ UNCHANGED <<arrived, hs, blocks, lastCommit, old, ready, input,
                 inputCH, outputCH, mvba, decided, ledger>>

\* `if od_m.ready { od_m.check_send() }'.
TestReady ==
  /\ pc["bc"] = "ready?"
  /\ pc' = [pc EXCEPT !["bc"] = IF ready THEN "check" ELSE "idle"]
  /\ UNCHANGED <<arrived, hs, blocks, lastCommit, old, ready, input,
                 inputCH, outputCH, mvba, decided, ledger>>

\* handle_rcvOutputCH takes a decision and updates lastCommit.
RcvOutput ==
  /\ pc["out"] = "idle"
  /\ outputCH # <<>>
  /\ old' = lastCommit
  /\ lastCommit' = Head(outputCH)
  /\ outputCH' = Tail(outputCH)
  /\ pc' = [pc EXCEPT !["out"] = "cut"]
  /\ UNCHANGED <<arrived, hs, blocks, ready, input, inputCH, mvba, decided, ledger>>

\* cutBlock: poll until every buffer is long enough, then extract.
CutBlock ==
  /\ pc["out"] = "cut"
  /\ \A c \in Chain : Buffered(c)
  /\ ledger' = [c \in Chain |-> ledger[c] \cup Prefix(blocks[c], Differ(c))]
  /\ blocks' = [c \in Chain |-> blocks[c] \ Prefix(blocks[c], Differ(c))]
  /\ pc' = [pc EXCEPT !["out"] = "check"]
  /\ UNCHANGED <<arrived, hs, lastCommit, old, ready, input, inputCH,
                 outputCH, mvba, decided>>

-----------------------------------------------------------------------------
\* check_send, run by either goroutine.
Check(t) ==
  /\ pc[t] = "check"
  /\ pc' = [pc EXCEPT ![t] =
              IF CheckInput(hs, lastCommit) THEN "generate" ELSE "set"]
  /\ UNCHANGED <<arrived, hs, blocks, lastCommit, old, ready, input,
                 inputCH, outputCH, mvba, decided, ledger>>

\* generate_input, under the lock of the buffer.
GenerateInput(t) ==
  /\ pc[t] = "generate"
  /\ input' = [input EXCEPT ![t] = hs]
  /\ pc' = [pc EXCEPT ![t] = "send"]
  /\ UNCHANGED <<arrived, hs, blocks, lastCommit, old, ready, inputCH,
                 outputCH, mvba, decided, ledger>>

SendInput(t) ==
  /\ pc[t] = "send"
  /\ inputCH' = Append(inputCH, input[t])
  /\ pc' = [pc EXCEPT ![t] = "clear"]
  /\ UNCHANGED <<arrived, hs, blocks, lastCommit, old, ready, input,
                 outputCH, mvba, decided, ledger>>

ClearReady(t) ==
  /\ pc[t] = "clear"
  /\ ready' = FALSE
  /\ pc' = [pc EXCEPT ![t] = "idle"]
  /\ UNCHANGED <<arrived, hs, blocks, lastCommit, old, input, inputCH,
                 outputCH, mvba, decided, ledger>>

SetReady(t) ==
  /\ pc[t] = "set"
  /\ ready' = TRUE
  /\ pc' = [pc EXCEPT ![t] = "idle"]
  /\ UNCHANGED <<arrived, hs, blocks, lastCommit, old, input, inputCH,
                 outputCH, mvba, decided, ledger>>

-----------------------------------------------------------------------------
\* The MVBA service: a round starts when this node hands in its input ...
StartRound ==
  /\ mvba = <<>>
  /\ inputCH # <<>>
  /\ mvba' = <<Head(inputCH)>>
  /\ inputCH' = Tail(inputCH)
  /\ UNCHANGED <<arrived, hs, blocks, lastCommit, old, ready, pc, input,
                 outputCH, decided, ledger>>

\* ... and decides the input of some node: one that passed check_input at
\* its proposer, whose committed heights are the last decision, and that the
\* peers accepted.  It need not be the input of this node, and may be ahead
\* of what this node has received.
Decide(v) ==
  /\ mvba # <<>>
  /\ CheckInput(v, decided)
  /\ CheckInputs(v, decided)
  /\ decided' = v
  /\ outputCH' = Append(outputCH, v)
  /\ mvba' = <<>>
  /\ UNCHANGED <<arrived, hs, blocks, lastCommit, old, ready, pc, input,
                 inputCH, ledger>>

-----------------------------------------------------------------------------
CheckSend(t) ==
  Check(t) \/ GenerateInput(t) \/ SendInput(t) \/ ClearReady(t) \/ SetReady(t)

Next ==
  \/ \E c \in Chain : RcvBlock(c)
  \/ TestReady
  \/ RcvOutput
  \/ CutBlock
  \/ \E t \in Thread : CheckSend(t)
  \/ StartRound
  \/ \E v \in Heights : Decide(v)

Spec == Init /\ [][Next]_vars

\* Goroutines are scheduled fairly, the broadcast layer delivers to every
\* node what it has delivered to another, and MVBA rounds terminate.
Fairness ==
  /\ \A c \in Chain : WF_vars(RcvBlock(c))
  /\ WF_vars(TestReady)
  /\ WF_vars(RcvOutput) /\ WF_vars(CutBlock)
  /\ \A t \in Thread : WF_vars(CheckSend(t))
  /\ WF_vars(StartRound)
  /\ WF_vars(\E v \in Heights : Decide(v))

FairSpec == Spec /\ Fairness

-----------------------------------------------------------------------------
(***************************************************************************)
(* Properties.                                                             *)
(***************************************************************************)
\* The right to start a round is a token.  It is a goroutine that runs
\* check_send (or cuts the blocks of a decision, on its way there), an input
\* on its way to the MVBA, the round, or a decision on its way back.
Holds(t) ==
  IF pc[t] \in {"cut", "check", "generate", "send", "set"} THEN 1 ELSE 0

Tokens ==
  Holds("bc") + Len(inputCH) + Len(mvba) + Len(outputCH) + Holds("out")

\* At most one round is under way, and the two goroutines are never both
\* inside check_send before its send: although `ready' is read and written
\* without a lock, no second input is queued behind an unfinished round.
OneRoundAtATime == Tokens <= 1

\* The input a round runs on is one that every peer accepts, although the
\* heights are read three times without the commit heights being frozen:
\* no peer stops with "wrong input in PBC1" (speedingmvba/smvba_handle_msg.go:191).
ProposalAccepted == mvba # <<>> => CheckInputs(Head(mvba), decided)

\* The blocks extracted so far are, on every chain, exactly the blocks up to
\* the height of the last decision whose cut is complete: none is skipped
\* and none is extracted ahead of its round.
LedgerIsExact ==
  \A c \in Chain :
    ledger[c] = 0 .. (IF pc["out"] = "cut" THEN old[c] ELSE lastCommit[c])

\* When a peer's input is tested during a round, the block that check_inputs
\* finds by its position in the buffer, which it reads without the lock, is
\* the block of that height: no index out of range, and no signature of
\* another block to compare with.
LookupFinds ==
  mvba # <<>> /\ decided # Nothing =>
    \A c \in Chain : \A h \in (decided[c] + 1) .. MaxHeight :
      LooksUp(c, h) => /\ h \in blocks[c]
                       /\ Position(blocks[c], h) = Target(c, h)

\* A round is started once enough blocks are there for it.
EnoughStartsRound == CheckInput(hs, lastCommit) ~> Tokens > 0

\* Every decision is eventually extracted in full: cutBlock does not wait
\* for ever for blocks that this node has not received yet.
DecidedIsDelivered ==
  outputCH # <<>> ~> \A c \in Chain : ledger[c] = 0 .. decided[c]

\* The order manager implements the abstract ledger: cutBlock is its only
\* step that is not a stutter.
Abstract ==
  INSTANCE CommittedLedger
    WITH commit <- [c \in Chain |-> Cardinality(ledger[c]) - 1],
         Quorum <- {Q \in SUBSET Chain : Cardinality(Q) > (N * 2) \div 3}

ImplementsLedger == Abstract!ASpec
=============================================================================
