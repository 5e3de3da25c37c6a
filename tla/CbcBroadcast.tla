---------------------------- MODULE CbcBroadcast ----------------------------
(***************************************************************************)
(* One instance of the consistent broadcast (broadcaster/broadcast/cbc):   *)
(* a leader that chains certified blocks, and the followers that sign,     *)
(* deliver and store them.                                                 *)
(*                                                                         *)
(*   leader     Start proposes block h, collects the paybacks (signatures) *)
(*              of 2f followers into a certificate and goes on to h+1,     *)
(*              whose block carries the certificate of h.  A goroutine     *)
(*              handle_msgin(h) routes the incoming paybacks of height h;  *)
(*              the one of the previous height is told to stop by closing  *)
(*              a channel, and may take another message before it looks.   *)
(*   follower   handle_bcblock signs the block of its height and sends the *)
(*              payback, then delivers the block before, writes the new    *)
(*              one to its database and goes on to the next height: four   *)
(*              steps, between which the certificate may be made and its   *)
(*              handle_callhelp may look at height and database.  A block  *)
(*              of a later height goes to futurebuffer; outside test mode  *)
(*              a goroutine does that, and afterwards calls for help: it   *)
(*              asks 2f+1 nodes in a row for the blocks in between.        *)
(*                                                                         *)
(* The leader's link to a follower is one TCP connection, first in first   *)
(* out, on which a block can be lost (network.Direct_Send reports no error *)
(* when the payload cannot be written).  Help comes on other connections,  *)
(* in any order.  A leader proposes one block per height, so a block is    *)
(* its height, and a certificate is the set of its signers.                *)
(***************************************************************************)
EXTENDS Integers, FiniteSets, FiniteSetsExt, Sequences

CONSTANTS
  Follower,   \* the nodes other than the leader
  Faulty,     \* the followers that have crashed (node.yaml: CrashMVBA)
  Testmode,   \* node.yaml: no database, no calls for help
  MaxHeight,  \* bound: the highest block the leader proposes
  MaxLost,    \* bound: blocks that are lost on the leader's links
  FirstLost   \* bound: no block below this height is lost

ASSUME CbcAssumption ==
  /\ IsFiniteSet(Follower) /\ Faulty \subseteq Follower
  /\ "leader" \notin Follower
  /\ Testmode \in BOOLEAN
  /\ MaxHeight \in Nat /\ MaxLost \in Nat /\ FirstLost \in Nat

Node == Follower \cup {"leader"}
num == Cardinality(Node)
threshold == (num * 2) \div 3
Correct == Follower \ Faulty
Height == 0 .. MaxHeight

VARIABLES
  \* the leader
  lheight,     \* bcl.height
  lat,         \* where Start is in its loop
  ldb,         \* bcl.db: the blocks in the leader's database
  mems,        \* the signers counted so far
  signcount,   \* signcount
  stale,       \* heights whose handle_msgin is told to stop but has not yet
  msgIn,       \* bcl.msgIn: paybacks, of any followers in any order
  paybackCH,   \* the channel from the current handle_msgin to Start
  \* the followers
  link,        \* link[f]: the leader's blocks on their way to f
  help,        \* help[f]: the blocks f's helpers have sent, <<helper, height>>
  fheight,     \* bcf.height
  lastblock,   \* bcf.lastblock
  db,          \* bcf.db: the blocks in f's database
  at,          \* where f is in the loop of handle_bcblock
  buf,         \* futurebuffer.bcblocks
  lowwest,     \* futurebuffer.lowwest
  calls,       \* the blocks whose goroutine sendcallhelp has not run yet
  calling,     \* those whose goroutine is between the put of the two buffers
  highest,     \* callhelp.highest
  asks,        \* calls for help on their way: <<follower, height, helper>>
  asked,       \* history: asked[f], the heights f has called for
  out,         \* history: out[f], the heights f has delivered, in order
  lost         \* blocks lost

leaderVars == <<lheight, lat, ldb, mems, signcount, stale, paybackCH>>
bufferVars == <<buf, lowwest, calls, calling, highest, asks, asked>>
followerVars == <<fheight, lastblock, db, at, out>>
vars == <<leaderVars, msgIn, link, help, followerVars, bufferVars, lost>>

\* Block lheight is proposed, its paybacks are collected.
collecting == lat = "collect"

Payback == [Round : Height, ID : Follower]

TypeOK ==
  /\ lheight \in 0 .. MaxHeight + 1
  /\ lat \in {"propose", "collect", "put", "close"}
  /\ ldb \subseteq Height
  /\ mems \subseteq Follower
  /\ signcount \in Nat
  /\ stale \subseteq Height
  /\ msgIn \subseteq Payback
  /\ paybackCH \subseteq Follower
  /\ link \in [Follower -> Seq(Height)]
  /\ help \in [Follower -> SUBSET (Node \X Height)]
  /\ fheight \in [Follower -> 0 .. MaxHeight + 1]
  /\ lastblock \in [Follower -> -1 .. MaxHeight]
  /\ db \in [Follower -> SUBSET Height]
  /\ at \in [Follower -> {"top", "pop", "receive", "output", "put", "advance"}]
  /\ buf \in [Follower -> SUBSET Height]
  /\ lowwest \in [Follower -> -1 .. MaxHeight]
  /\ calls \in [Follower -> SUBSET Height]
  /\ calling \in [Follower -> SUBSET Height]
  /\ highest \in [Follower -> -1 .. MaxHeight]
  /\ asks \subseteq Follower \X Height \X Node
  /\ asked \in [Follower -> SUBSET Height]
  /\ out \in [Follower -> Seq(Height)]
  /\ lost \in 0 .. MaxLost

Init ==
  /\ lheight = 0 /\ lat = "propose" /\ ldb = {} /\ mems = {} /\ signcount = 0
  /\ stale = {} /\ msgIn = {} /\ paybackCH = {}
  /\ link = [f \in Follower |-> <<>>]
  /\ help = [f \in Follower |-> {}]
  /\ fheight = [f \in Follower |-> 0]
  /\ lastblock = [f \in Follower |-> -1]
  /\ db = [f \in Follower |-> {}]
  /\ at = [f \in Follower |-> "top"]
  /\ buf = [f \in Follower |-> {}]
  /\ lowwest = [f \in Follower |-> -1]
  /\ calls = [f \in Follower |-> {}]
  /\ calling = [f \in Follower |-> {}]
  /\ highest = [f \in Follower |-> -1]
  /\ asks = {}
  /\ asked = [f \in Follower |-> {}]
  /\ out = [f \in Follower |-> <<>>]
  /\ lost = 0

-----------------------------------------------------------------------------
(***************************************************************************)
(* The leader.                                                             *)
(***************************************************************************)

Targets_short == Follower \ {CHOOSE f \in Correct : TRUE}  \* mutant: i < num

\* The block goes to every node but the leader.
Targets == Follower

\* Start: take a batch of transactions, broadcast the block.  Each link may
\* lose it.
Propose ==
  /\ lat = "propose"
  /\ lheight <= MaxHeight
  /\ lat' = "collect"
  /\ mems' = {} /\ signcount' = 0
  /\ \E L \in SUBSET Correct :
       /\ lost + Cardinality(L) <= MaxLost
       /\ L # {} => lheight >= FirstLost
       /\ lost' = lost + Cardinality(L)
       /\ link' = [f \in Follower |->
                     IF f \in Targets \ L
                     THEN Append(link[f], lheight) ELSE link[f]]
  /\ UNCHANGED <<lheight, ldb, stale, paybackCH, msgIn, help, followerVars,
                 bufferVars>>

ForMe_any(h, m) == h = lheight         \* mutant: payback.Round not compared

\* The payback is of the height of this handle_msgin, and Start still reads
\* its channel.
ForMe(h, m) == m.Round = h /\ h = lheight

\* handle_msgin(h) takes a payback; one of a later height is dropped too.
Route(h, m) ==
  /\ m \in msgIn
  /\ msgIn' = msgIn \ {m}
  /\ paybackCH' = IF ForMe(h, m) THEN paybackCH \cup {m.ID} ELSE paybackCH
  /\ UNCHANGED <<lheight, lat, ldb, mems, signcount, stale, link, help,
                 followerVars, bufferVars, lost>>

\* The handle_msgin that has not been told to stop: the next one starts when
\* Start is back at the top of its loop.
Router == IF lat \in {"put", "close"} THEN lheight - 1 ELSE lheight

RouteCurrent == \E m \in msgIn : Route(Router, m)

\* A handle_msgin that is told to stop picks between the two ready channels.
RouteStale == \E h \in stale, m \in msgIn : Route(h, m)

StopRouting(h) ==
  /\ h \in stale
  /\ stale' = stale \ {h}
  /\ UNCHANGED <<lheight, lat, ldb, mems, signcount, paybackCH, msgIn,
                 link, help, followerVars, bufferVars, lost>>

\* Start counts a payback of this block (a block is its height, so the BlkID
\* that it compares is the Round by which ForMe has routed the payback); with
\* enough of them the block is certified.
Collect(f) ==
  /\ collecting
  /\ f \in paybackCH
  /\ mems' = mems \cup {f}
  /\ signcount' = signcount + 1
  /\ IF signcount' >= threshold
     THEN /\ lheight' = lheight + 1
          /\ lat' = "put"
          /\ paybackCH' = {}
     ELSE /\ paybackCH' = paybackCH \ {f}
          /\ UNCHANGED <<lheight, lat>>
  /\ UNCHANGED <<ldb, stale, msgIn, link, help, followerVars, bufferVars, lost>>

\* The key of the block just certified, for height is one further already.
LeaderKey == lheight - 1

\* The certified block goes to the order layer and to the database.
LeaderPut ==
  /\ lat = "put"
  /\ lat' = "close"
  /\ ldb' = IF Testmode THEN ldb ELSE ldb \cup {LeaderKey}
  /\ UNCHANGED <<lheight, mems, signcount, stale, paybackCH, msgIn, link, help,
                 followerVars, bufferVars, lost>>

\* SafeClose tells the handle_msgin to stop, and the loop begins again.
LeaderClose ==
  /\ lat = "close"
  /\ lat' = "propose"
  /\ stale' = stale \cup {Router}
  /\ UNCHANGED <<lheight, ldb, mems, signcount, paybackCH, msgIn, link, help,
                 followerVars, bufferVars, lost>>

-----------------------------------------------------------------------------
(***************************************************************************)
(* The followers.                                                          *)
(***************************************************************************)

\* getlowwest, after the first block b is popped: lowwest moves to the next
\* block, but keeps its value when there is none.
LowwestAfter(f, rest) == IF rest = {} THEN lowwest[f] ELSE Min(rest)

\* The loop that drops what is below the height.  getlowwest resets lowwest
\* when it finds the buffer empty.
SkipOld(f) ==
  LET kept == {b \in buf[f] : b >= fheight[f]} IN
  IF lowwest[f] > 0 /\ lowwest[f] < fheight[f]
  THEN <<kept, IF kept = {} THEN -1 ELSE Min(kept)>>
  ELSE <<buf[f], lowwest[f]>>

FromBuffer_le(f, low) == low <= fheight[f]   \* mutant: `<=' for `=='

FromBuffer(f, low) == low = fheight[f] /\ fheight[f] # 0

\* The top of handle_bcblock: from the buffer, or wait for a message.
Top(f) ==
  LET s == SkipOld(f) IN
  /\ at[f] = "top"
  /\ buf' = [buf EXCEPT ![f] = s[1]]
  /\ lowwest' = [lowwest EXCEPT ![f] = s[2]]
  /\ at' = [at EXCEPT ![f] =
              IF FromBuffer(f, s[2]) THEN "pop" ELSE "receive"]
  /\ UNCHANGED <<leaderVars, msgIn, link, help, fheight, lastblock, db, out,
                 calls, calling, highest, asks, asked, lost>>

\* generatepayback and the second half of check_bcblock begin alike: sign the
\* block, which is the one of this height, and send the payback.
Sign(f) ==
  /\ msgIn' = msgIn \cup {[Round |-> fheight[f], ID |-> f]}
  /\ at' = [at EXCEPT ![f] = "output"]

Skip(f) == UNCHANGED msgIn /\ at' = [at EXCEPT ![f] = "top"]

Delivered_early(f) == fheight[f]       \* mutant: delivers what it has signed

\* The block that goes to the order layer, with the certificate that the new
\* one carries.
Delivered(f) == lastblock[f]

Output_always(f) ==                    \* mutant: the height not tested
  /\ at[f] = "output"
  /\ at' = [at EXCEPT ![f] = "put"]
  /\ out' = [out EXCEPT ![f] = Append(@, Delivered(f))]
  /\ UNCHANGED <<leaderVars, msgIn, link, help, fheight, lastblock, db,
                 bufferVars, lost>>

\* It goes there when there is a block before this one.
Output(f) ==
  /\ at[f] = "output"
  /\ at' = [at EXCEPT ![f] = "put"]
  /\ out' = [out EXCEPT ![f] =
               IF fheight[f] > 0 THEN Append(@, Delivered(f)) ELSE @]
  /\ UNCHANGED <<leaderVars, msgIn, link, help, fheight, lastblock, db,
                 bufferVars, lost>>

Put(f) ==
  /\ at[f] = "put"
  /\ at' = [at EXCEPT ![f] = "advance"]
  /\ db' = IF Testmode THEN db ELSE [db EXCEPT ![f] = @ \cup {fheight[f]}]
  /\ UNCHANGED <<leaderVars, msgIn, link, help, fheight, lastblock, out,
                 bufferVars, lost>>

Advance(f) ==
  /\ at[f] = "advance"
  /\ at' = [at EXCEPT ![f] = "top"]
  /\ lastblock' = [lastblock EXCEPT ![f] = fheight[f]]
  /\ fheight' = [fheight EXCEPT ![f] = @ + 1]
  /\ UNCHANGED <<leaderVars, msgIn, link, help, db, out, bufferVars, lost>>

Pop(f) ==
  LET b == Min(buf[f])
      rest == buf[f] \ {b}
  IN
  /\ at[f] = "pop"
  /\ buf' = [buf EXCEPT ![f] = rest]
  /\ lowwest' = [lowwest EXCEPT ![f] = LowwestAfter(f, rest)]
  /\ IF b = fheight[f] THEN Sign(f) ELSE Skip(f)
  /\ UNCHANGED <<leaderVars, link, help, fheight, lastblock, db, out, calls,
                 calling, highest, asks, asked, lost>>

\* futurebuffer.put.  The comparison that should lower lowwest is made with
\* the first block of the new buffer, which is the block itself.
LowwestWith(f, b) == IF buf[f] = {} THEN b ELSE lowwest[f]

IsNext(f, b) == b = fheight[f]
IsFuture(f, b) == b > fheight[f]

\* A block arrives: old, the next one, or one of the future.
Handle(f, b) ==
  /\ IF IsNext(f, b) THEN Sign(f) ELSE Skip(f)
  /\ IF IsFuture(f, b) /\ Testmode
     THEN /\ buf' = [buf EXCEPT ![f] = @ \cup {b}]
          /\ lowwest' = [lowwest EXCEPT ![f] = LowwestWith(f, b)]
     ELSE UNCHANGED <<buf, lowwest>>
  /\ calls' = IF IsFuture(f, b) /\ ~Testmode
              THEN [calls EXCEPT ![f] = @ \cup {b}] ELSE calls
  /\ UNCHANGED <<leaderVars, fheight, lastblock, db, out, calling, highest,
                 asks, asked, lost>>

ReceiveBlock(f) ==
  /\ at[f] = "receive"
  /\ link[f] # <<>>
  /\ link' = [link EXCEPT ![f] = Tail(@)]
  /\ Handle(f, Head(link[f]))
  /\ UNCHANGED help

ReceiveHelp(f) ==
  /\ at[f] = "receive"
  /\ \E m \in help[f] :
       /\ help' = [help EXCEPT ![f] = @ \ {m}]
       /\ Handle(f, m[2])
  /\ UNCHANGED link

-----------------------------------------------------------------------------
(***************************************************************************)
(* Calling for help (not in test mode).                                    *)
(***************************************************************************)

Missing_short(f, b) ==                 \* mutant: off by one
  IF b <= highest[f] THEN {} ELSE Max({highest[f], fheight[f]}) .. b - 2

\* callhelp.put: the heights to ask for when block b is seen.  (bcf.height is
\* read just before the lock is taken; an older height only asks for more.)
Missing(f, b) ==
  IF b <= highest[f] \/ highest[f] + 1 = b THEN {}
  ELSE LET from == Max({highest[f], fheight[f]})
       IN  IF from = 0 /\ b - 1 = 0 THEN {} ELSE from .. b - 1

\* 2f+1 nodes in a row; the node itself is passed over.
Helpers(f) == {H \ {f} : H \in kSubset((num \div 3) * 2 + 1, Node)}

\* The goroutine sendcallhelp of block b buffers the block, ...
PutFuture(f, b) ==
  /\ b \in calls[f]
  /\ calls' = [calls EXCEPT ![f] = @ \ {b}]
  /\ calling' = [calling EXCEPT ![f] = @ \cup {b}]
  /\ buf' = [buf EXCEPT ![f] = @ \cup {b}]
  /\ lowwest' = [lowwest EXCEPT ![f] = LowwestWith(f, b)]
  /\ UNCHANGED <<leaderVars, msgIn, link, help, followerVars, highest, asks,
                 asked, lost>>

\* ... and then, under another lock, works out the gap and calls for it.
CallHelp(f, b) ==
  /\ b \in calling[f]
  /\ calling' = [calling EXCEPT ![f] = @ \ {b}]
  /\ highest' = [highest EXCEPT ![f] = Max({@, b})]
  /\ asked' = [asked EXCEPT ![f] = @ \cup Missing(f, b)]
  /\ \E dest \in [Missing(f, b) -> Helpers(f)] :
       asks' = asks \cup {<<f, a[1], a[2]>> :
                  a \in {x \in Missing(f, b) \X Node : x[2] \in dest[x[1]]}}
  /\ UNCHANGED <<leaderVars, msgIn, link, help, followerVars, buf, lowwest,
                 calls, lost>>

CanHelp_le(g, r) ==                    \* mutant: the leader's test in followers
  IF g = "leader" THEN r <= lheight ELSE r <= fheight[g]

\* handle_callhelp of a follower, and of the leader (whose handle_msgin has
\* dropped the calls for heights it has not reached).
CanHelp(g, r) == IF g = "leader" THEN r <= lheight ELSE r < fheight[g]

Answer(f, r, g) ==
  /\ <<f, r, g>> \in asks
  /\ g \notin Faulty
  /\ asks' = asks \ {<<f, r, g>>}
  /\ help' = IF CanHelp(g, r) THEN [help EXCEPT ![f] = @ \cup {<<g, r>>}]
             ELSE help
  /\ UNCHANGED <<leaderVars, msgIn, link, followerVars, buf, lowwest, calls,
                 calling, highest, asked, lost>>

-----------------------------------------------------------------------------
LeaderNext ==
  \/ Propose
  \/ RouteCurrent
  \/ RouteStale
  \/ \E h \in stale : StopRouting(h)
  \/ \E f \in Follower : Collect(f)
  \/ LeaderPut \/ LeaderClose

FollowerNext(f) ==
  \/ Top(f) \/ Pop(f) \/ ReceiveBlock(f) \/ ReceiveHelp(f)
  \/ Output(f) \/ Put(f) \/ Advance(f)
  \/ \E b \in calls[f] : PutFuture(f, b)
  \/ \E b \in calling[f] : CallHelp(f, b)

Next ==
  \/ LeaderNext
  \/ \E f \in Correct : FollowerNext(f)
  \/ \E a \in asks : Answer(a[1], a[2], a[3])

Spec == Init /\ [][Next]_vars

\* The loop of handle_bcblock, fed by the leader.
MainLoop(f) ==
  Top(f) \/ Pop(f) \/ ReceiveBlock(f) \/ Output(f) \/ Put(f) \/ Advance(f)

\* The main goroutine of a follower runs, and what is on a link arrives.
Fairness == \A f \in Correct : WF_vars(MainLoop(f))

FairSpec == Spec /\ Fairness

-----------------------------------------------------------------------------
(***************************************************************************)
(* Properties.                                                             *)
(***************************************************************************)

\* f has sent the payback of the block of its height and is not done with it.
Storing(f) == at[f] \in {"output", "put", "advance"}

\* f has sent the payback of block h.
Signed(f, h) == fheight[f] > h \/ (fheight[f] = h /\ Storing(f))

\* A certificate stands for 2f followers that have signed the block and hold
\* it, in memory at least (some may not have written it to the database yet),
\* however the paybacks of several heights are routed and counted: no payback
\* is counted twice or for another height.
CertifiedIsSigned ==
  \A h \in 0 .. lheight - 1 :
    Cardinality({f \in Follower : Signed(f, h)}) >= threshold

\* What is counted for the block under way was signed for that block.
CountedIsSigned ==
  collecting => /\ signcount = Cardinality(mems)
                /\ \A f \in mems : Signed(f, lheight)

\* A follower delivers the chain from its first block on without a gap or a
\* repetition, and only certified blocks, whatever was buffered or resent.
DeliversChain ==
  \A f \in Follower :
    /\ \A i \in 1 .. Len(out[f]) : out[f][i] = i - 1
    /\ Len(out[f]) <= lheight

\* The blocks in the database of a node.
Database(g) == IF g = "leader" THEN ldb ELSE db[g]

\* A handle_callhelp that looks into the database finds the block (it panics
\* otherwise, leader.go:101 and follower.go:490), although height and database
\* change one after the other, in the leader in the wrong order.
HelperHasBlock ==
  \A a \in asks : CanHelp(a[3], a[2]) => a[2] \in Database(a[3])

\* getlowwest is never called on an empty buffer (follower.go:597), which
\* would hand handle_bcblock a block without a header.
NoEmptyPop == \A f \in Follower : at[f] = "pop" => buf[f] # {}

\* Every gap below a block that the follower has buffered is called for, once
\* the goroutine that buffered the block has run to its end.
GapsAreCalledFor ==
  \A f \in Correct, b \in Height, r \in Height :
    b \in buf[f] \ calling[f] /\ r < b /\ ~Signed(f, r)
      => r \in buf[f] \cup calls[f] \cup asked[f]

\* lowwest is the lowest height in the buffer.
LowwestIsLowest ==
  \A f \in Follower : buf[f] # {} => lowwest[f] = Min(buf[f])

\* Without losses every correct follower gets every certified block and has it
\* in its database, whether or not its payback is needed.
KeepsUp ==
  \A f \in Correct, h \in Height :
    lheight > h ~> \/ fheight[f] > h /\ (Testmode \/ h \in db[f])
                   \/ lost > 0

\* The instance implements the abstract chain broadcast.
Abstract ==
  INSTANCE ChainBroadcast
    WITH Node <- Follower,
         certified <- lheight,
         delivered <- [f \in Follower |-> Len(out[f])]

ImplementsChain == Abstract!BSpec
=============================================================================
