# Jumbo: TLA+ specifications, model checking and proofs

Jumbo is an asynchronous Byzantine fault tolerant ordering system written in Go.  Broadcast and
agreement are decoupled: every node streams blocks of transactions through its own broadcast
instances, and a sequence of multi-valued agreements (MVBA) decides, round after round, up to which
height each stream is committed.  These modules model the parts of the code that are hard to test:
goroutines that share variables without locks, messages of several heights and loops in flight at
once, lost messages, crashed nodes.  The repository also carries a C library,
`secp256k1-schnorrsig-batch-verify`: libsecp256k1 with batch verification and aggregation of Schnorr
signatures, which `crypto/signature/cgo_bitcoincore.go` binds.  It is sequential; what is hard to
test there is arithmetic whose corner cases no random input reaches, and buffers cut to a limit.

Paths below are relative to `src/`.

## 1. The system

### Components, their state, their operations

| component | source | state | operations | modelled by |
|---|---|---|---|---|
| transaction pool | `tx_pool/tx_pool.go` | the current batch | take a transaction, emit a batch | planned |
| broadcaster process | `broadcaster/newstart.go` | channels per instance, one connection and buffer per peer | start instances, route messages, send with retry | planned |
| consistent broadcast (CBC) | `broadcaster/broadcast/cbc` | leader: height, signatures; follower: height, last block, future buffer, call-for-help range | propose, sign, certify, deliver, buffer, call for help, help | `CbcBroadcast` |
| reliable broadcast (RBC) | `broadcaster/broadcast/rbc` | echo and ready counts per height | val, echo, ready, reconstruct | planned |
| weak reliable broadcast (WRBC) | `broadcaster/broadcast/wrbc` | echo and ready counts per height | val, echo, ready, output | `WrbcBroadcast` |
| order manager | `order/start_order.go`, `order/input.go` | block buffer, heights, committed heights, `ready` | receive a block, start a round, take a decision, cut | `OrderManager` |
| MVBA round service | `order/smvba/order.go`, `handle_msg.go` | round, last decision | start the MVBA of a round, route its messages | inside `OrderManager` as its environment; planned |
| signature MVBA | `order/smvba/speedingmvba` | per loop: certificates, shares, votes | provable broadcast, share, prevote, vote, halt | `SpeedingMVBA`, `MVBAConsensus` |
| Dumbo MVBA | `order/smvba/dumbomvba`, `speedingmvbadm` | fragments, a copy of the above | disperse, agree, reconstruct | planned |
| signature-free MVBA | `order/smvba/signaturefreemvba` | reliable broadcasts, loop of agreements | broadcast with finish, coin, agree | planned |
| binary agreement | `.../signaturefreemvba/binaryagreement` | per loop: vals, auxs, confs, coin shares; finish counts | val, aux, conf, coin, decide, finish | `BinaryAgreement` |
| FIN, SimpleHotStuff, `mvbaonly` | `fin`, `SimpleHotStuff`, `mvbaonly` | copies of the above under another driver | | not modelled (FIN's round is planned) |
| signature library: words | `secp256k1.../src/{modinv*,scalar*,field*,hash}_impl.h` | limbs of numbers; the buffer of a hash | invert, add, multiply, reduce, convert; write, finalize | `ModInv`, `ScalarLimbs`, `FieldLimbs`, `HashStream` |
| signature library: memory | `scratch_impl.h`, `ecmult_impl.h` | one block with a mark; the batch in progress | allocate, checkpoint, go back; sum in batches | `ScratchSpace`, `Scratch`, `EcmultMulti`, their `_proofs` |
| signature library: points | `group_impl.h`, `ecmult*_impl.h` | a point with magnitudes; tables, the blinded context | add, double, negate, lift, multiply, blind again | `Group`, `PointSums`, `Ecmult`, `EcmultConst`, `EcmultSums` over `Curve`, `FieldElement`, `Scalar`; `Signatures_proofs` |
| signature library: keys | `secp256k1.c`, `eckey_impl.h`, `modules/extrakeys`, `modules/ecdh` | secret keys, public keys, key pairs | generate, tweak, negate, combine, parse, serialize, agree | `EcKey`, `EcKeys`, `Signatures_proofs` |
| signature library: signatures | `ecdsa_impl.h`, `modules/recovery`, `modules/schnorrsig`, `contrib/lax_der_*` | signatures; sums and randomizers of a batch | sign, verify, recover, encode, batch, aggregate | `Ecdsa`, `Der`, `SchnorrSig`, `SchnorrBatch`, `Signatures_proofs` |
| network, database, crypto, client | `network`, `database`, `crypto`, `client` | | wrappers of TCP, LevelDB, libraries; load generator | as message loss, stored heights, identities of signers |

A node is several processes: the transaction pool feeds the broadcaster, whose delivered blocks go
over a local TCP connection to the order process; the order process runs the order manager and the
MVBA in goroutines connected by Go channels.  Broadcasters and order processes of different nodes
exchange messages over one TCP connection per pair.  `n = 3f+1`; the code computes `2f` as `n*2/3`.

### What is hard

* **Shared variables without locks.** `ready` and the heights in the order manager, `values` and
  the bin-values signals in the binary agreement, `lowwest` in the follower of CBC.
* **Two heights (loops, rounds) at once.** A goroutine of the previous height is told to stop by
  closing a channel; Go's `select` may still let it take one more message.
* **Partial information.** A node may decide a commit of blocks it has not received; a follower may
  miss a block and learn the gap from a later one.
* **Numbers at their limits** (C library).  Limbs that exceed their width, a carry at the top, a
  second form of 0, the point at infinity in the middle of a sum, an x above the order: each occurs
  with negligible probability on the real curve and is a branch of its own.
* **Batches** (C library).  A sum of many points is cut to the memory there is, while a callback
  keeps state from one point to the next and may refuse.
* **Liveness without time-outs.** Every protocol here waits for a number of messages; a node that
  stops sending too early starves the others.

The full list of such places, with lines and the properties that look at them, is under `hazards`
in `PROJECT.json`.

### What makes each part correct

* order manager: one round at a time; the input handed to an MVBA passes the peers' test; the
  ledger is exactly the committed prefix of each chain; decided blocks are delivered; enough blocks
  start a round.
* CBC: a certified block is held by enough followers; a follower delivers the chain without gap
  or repetition; a gap is asked for, and whoever is asked has the block; the leader goes on as long as
  2f followers live.
* binary agreement: no two outputs differ; an output 1 is a value somebody holds; unanimity outputs; a
  decision spreads.
* MVBA: agreement across loops; nobody votes against a proof that exists; later inputs are proved, and
  no correct input stops a peer.
* weak reliable broadcast: what is finished is held by 2f+1 nodes; all live nodes output it.
* signature library: limbs keep the value and lose no carry; memory is never handed out twice; a
  sum has every point once; every multiplication gives the same point; the two sides of a key stay
  in step; what is signed is verified, and a batch says what its signatures say.
* reliable broadcast (planned): agreement, totality, one value per height.

## 2. Modules

### OrderManager, CommittedLedger

The two goroutines `handle_rcvBroadcastCH` ("bc") and `handle_rcvOutputCH` ("out") have a program
counter each; one action is what runs between two accesses to shared state.  `check_send` is split
into its reads and writes (`Check`, `GenerateInput`, `SendInput`, `ClearReady`, `SetReady`) because
`ready` and the heights are shared without a lock; `cutBlock` is one action with a guard: it polls
until the buffers are long enough.  The MVBA is the environment: `StartRound` takes an input,
`Decide` returns any height vector that a proposer and its peers would accept.  A block is its
height.  `CommittedLedger` is the abstract promise: a ledger that grows by whole height intervals,
by more than a quorum of chains each time.  `OrderManager!ImplementsLedger` is the refinement with
`commit` mapped to the length of the ledger.

| run | question | bound | result |
|---|---|---|---|
| `order_rounds` | one round at a time, accepted inputs, an exact ledger, look-ups that find the block; the refinement of `CommittedLedger`; under fairness a decision is delivered in full | 4 nodes, K=1, 2 blocks each | holds |
| `order_shards` | accepted inputs with two instances per node | 2 nodes, K=2 | violated: the two tests count with different quorums |

Two blocks per chain let a second decision follow on a first one and let blocks arrive during a
round; four nodes are the smallest number with f=1.  Fairness: every goroutine runs when it can
(the Go scheduler), the broadcast layer delivers to every node, MVBA rounds terminate.

`EnoughStartsRound` (enough blocks start a round) is stated and belongs to no run: it does not hold.
`check_send` finds too few blocks and sets `ready=true` in two steps (`input.go:34`), and a last block
that arrives in between is seen by nobody.  TLC shows it with `order_rounds`' constants and fairness.

### CbcBroadcast, ChainBroadcast, CbcBroadcast_proofs

One broadcast instance.  The leader proposes block h, counts the paybacks of 2f followers, and
goes on to h+1 whose block carries the certificate of h; `handle_msgin(h)` of the previous height
is in `stale` from the moment its close channel is closed until it notices, and may take one more
payback meanwhile.  A follower is the loop of `handle_bcblock` (`at`), its buffer with the separate
variable `lowwest`, and outside test mode the goroutines `sendcallhelp`.  Taking a block is four steps in
the code and in the model: the payback is sent (`Sign`, in `Pop` or `Handle`), the block before is
delivered (`Output`), the block is written to the database (`Put`), the height goes on (`Advance`).
The leader certifies (`Collect`, which raises the height), writes to its database (`LeaderPut`) and closes
the channel (`LeaderClose`).  `sendcallhelp` is `PutFuture` and `CallHelp`, each under its own lock.  The
leader's link is a FIFO per follower that may lose blocks; help comes unordered.  `ChainBroadcast` is the
abstract promise (every follower's deliveries are a prefix of one chain, and do not run ahead of
certificates); `DeliversChain` adds that the i-th delivery is block i.

| run | question | bound | result |
|---|---|---|---|
| `cbc_recover` | a certificate stands for 2f followers that hold the block, counted paybacks are signed, whoever is asked has the block in its database, no empty pop, gaps are called for, deliveries are the chain; the refinement of `ChainBroadcast` | n=4, 3 blocks, 2 lost (not the first) | holds |
| `cbc_live` | do followers whose payback is not needed deliver and store every block, under fairness? | n=4, 3 blocks, no loss | holds |
| `cbc_lowwest` | is `lowwest` the lowest buffered height? | 4 blocks, 1 lost | violated: `put` compares with the changed slice |

A certificate does not mean that anybody has stored the block: its signers may all be before their
`Put`.  What the code does guarantee, and `CertifiedIsSigned` says, is that 2f followers have it in memory
and go on to store it.  A follower answers a call only for heights below its own, the leader for heights up
to its own, and `HelperHasBlock` says that this suffices for both orders of writing and counting.

Three blocks put two heights between a gap and its end; two losses make gaps in two followers, and the
certificate needs only two of the three followers, so that a follower may be far behind.  A gap at
height 0 is left out of `cbc_recover` (`FirstLost`): `callhelp.put` cannot tell the range (0,0)
from "nothing to ask for", which is modelled in `Missing`.  `MCCbcBroadcast` takes `Output`, `Advance`,
`LeaderClose` and (with no `sendcallhelp` about) `Top` as soon as they are possible, lets a stale
`handle_msgin` end after the last block only and leaves calls that are refused where they are; it says
why nothing is lost by it, and the theorems are about `Spec`, without that.  Fairness of `cbc_live`: the main goroutine of a follower runs and what is on a link
arrives; the leader may stop at any time.  Nothing is lost in that run, so blocks come once and in order:
that a follower catches up by help is not claimed, since a hidden block (`cbc_lowwest`) may stop it.

`RouteStale` also drops a payback of the next height, which the code logs as "illegal future msg"
(`leader.go:75`) although it is legal: when only 2f followers live the leader then waits for ever.

### WrbcBroadcast, WrbcBroadcast_proofs

One instance of the weak reliable broadcast, the default of `config/node.yaml`.  `echoes` and
`readies` are what has been sent; a handler meets its threshold as soon as that many have been sent,
or at any later time, so that messages come in every order.  `Propose`, `LeaderReady` and
`LeaderOutput` are the leader's loop.  `CheckBuffers`, `SendReady` and `FinishHeight` are the loop of
a follower, between its waits for `check_rbcbuf`, `readysignal` and `outputsignal`; `stale` says that
the goroutine `handle_echo` of the height before has not seen its close yet.  It ends (`EndStale`),
takes one more echo and drops it (`DropEcho`), or takes a message that `check_rbcbuf` has counted,
which then waits for ever (`Steal`).  `ReceiveVal` and `ReceiveInfo` are the two branches of
`handle_val`.

| run | question | bound | result |
|---|---|---|---|
| `wrbc_live` | is an echo counted once per node; is a finished height held by 2f+1 nodes; under fairness, do all live nodes output every block, unless too many echos of one height were dropped? | n=4, 3 heights, at most one node down or hanging | holds |

`KeepUp` has an exception, `Starved`: with f nodes down, 2f+1 echos are all that there are, and a follower
whose old `handle_echo` has dropped one can send its ready only after f+1 others.  When fewer than f
followers can still count 2f+1 echos of a height (the leader sends its ready after 2f), the live nodes wait
for each other for ever.  That can happen: in both live followers the `handle_echo` of the height before
takes an echo after its close (`follower.go:310-351`).  Without the exception TLC finds such a behaviour.
As long as there is no such height every block is output.

Three heights are needed for `Steal`, whose buffer is empty at the first two.  With a node down
`MCWrbcBroadcast` takes steps in any order.  With all nodes up it takes steps as soon as they are
possible if they only make other steps possible (what they permit may come at any later time); a ready is
never among them, because its order decides which `handle_echo` is stale.  The first val of one follower
(`Lingering`) may come late, so that a height is finished before
the block is there.  Bounds: one old `handle_echo` of a follower at a time, and no more than f nodes
down or hanging (`Spare`): f+1 followers that hang in `check_rbcbuf` stop the instance.  Fairness:
the goroutines run and messages arrive; the leader gets a next block or never.  The late steps
(`DropEcho`, `Steal`) are not fair: they need a preemption between two looks at a channel.

### BinaryAgreement, BinaryAgreement_proofs

All nodes of one agreement.  A loop is val (relayed at f+1, ready at 2f+1), aux, conf, coin; the
coin of the first loop is 1, which biases the agreement to it.  Messages are not removed from
channels: a counter can meet its threshold as soon as enough nodes have broadcast, or at any later
time, so that messages arrive in every order.  What is kept step by step are the stores to
`values`: a handler signals that a value is ready and stores it afterwards (`ValueReady`,
`StoreValue`), and any steps of any nodes may come in between; the main loop reads the slice twice after
the coin (`Toss`), around stores or not.  `Late` names the nodes to which the leader's broadcast may be
delivered after the start.

| run | question | bound | result |
|---|---|---|---|
| `ba_crash` | outputs agree; an output 1 has a holder | one of 4 crashed, 2 loops | holds |
| `ba_one` | all start with 1: all output 1, under fairness | one of 4 crashed, the others start with 1 | violated: a conf {false,false} counts for nothing |

`DecidedSpreads` (a decision spreads) is stated and belongs to no run: it does not hold.  A node that
decides enters no further loop (`ba.go:209`); if fewer than f+1 decide in that loop and one node is
crashed, the others starve.

Neither that main loops decide alike nor the bias to 1 (with f+1 nodes that start with 1 nobody goes on
with 0) is a property of this code: a main loop may read `values` twice around a store (`ba.go:188-198`)
and decide 1 alone.  What the MVBA relies on is the output, which takes finish messages of 2f+1 nodes.
`OutputAgreement` is proved for every number of nodes; TLC checks it with three live nodes, four being
beyond exhaustive search.  The second loop has the other coin; what a loop hands to the next is its inputs.
Fairness: a node with a step to take takes one (goroutines run, messages arrive).

### SpeedingMVBA, MVBAConsensus, SpeedingMVBA_proofs

All nodes of one round of the signature-based MVBA.  A broadcast of leader `l` in loop `r` goes
through `SignInput` (PBC1 checked, PBC2 sent), `Combine` (sigma, PBC3), `StoreSigma`, `SendPBC4`
and `CombinePi` (pi); followers take pis (`TakePi`) until more than 2f are counted.  What
`handle_PBC` does around `PBC_done` is kept in steps: a select may take PBC3 although the channel is
closed, the sigma is stored, and only then is the channel looked at again before PBC4.  `SendShare`
and `CloseBroadcasts` are two steps because `Share_ready` is signalled before the channel is
closed.  `HaltByPi`, `Prevote`, `Vote` and `CountVotes` are the parts of `handle_finish` between two
waits.  `handle_halt` is `TakeHalt`, which appends to `OldCoins`, and `Halt`, which outputs once the
signatures are verified; the loops may go on between the two.  `KeepCoin` is the append of `handle_share`,
which comes after it has announced the coin.  `CheckValues(j, ...)` is the test of an input of a later loop
by node `j` with the coins that `j` has kept; a test that fails ends the process (`SignInput`, `stopped`).  A set of ballots that a node has counted is any 2f of the others.
`MVBAConsensus` is the abstract promise to the order layer: one decision on an input that a node which
has not crashed proposed in the first loop.  `SpeedingMVBA!ImplementsConsensus` is the refinement, with
the first output of a node as its decision.  The tests of `MVBA_done` and of `SafeClose` are two steps
in the code, so that `handle_finish` and `handle_halt` of one node may both output; `mvba2order` is made
per round with room for two and the order layer reads one of them (`order.go:137-153`), and the theorem
`Agreement` covers the other.

| run | question | bound | result |
|---|---|---|---|
| `mvba_loops` | outputs agree across loops; a pi of the coin leader leaves no vote no, also when it comes late; an output fixes all later inputs; every peer with the coins in their places accepts every later input; the refinement of `MVBAConsensus` | 4 live nodes, 2 loops with different coin leaders, the first coin leader's broadcast delayed at every step | holds |
| `mvba_coins` | does a process ever stop because of the sigma of a correct node's input? | the same, one slow node | violated: `handle_halt` files the coin of another loop |

`handle_halt` and `handle_share` append to `OldCoins` if it is not longer than the loop the node is in
(`smvba_handle_msg.go:667`, `1219`); `handle_halt` has the coin of the halt's loop, which may be another.
In `mvba_coins` a slow node, between announcing its coin (666) and keeping it (667), takes a halt of loop 1
while it is in loop 0.  `OldCoins[0]` is now the coin of loop 1; it goes on to loop 1, and
`check_values` tests the sigma of loop 0 against the wrong leader and panics.  `InputsProved`
therefore asks for the right coins (`RightCoins`) in the node that tests; all other properties of the
round, agreement among them, hold whatever `OldCoins` has and whoever stops.

The broadcasts of four leaders at once are out of reach.  `MCSpeedingMVBA` therefore takes steps that
only make other steps possible (a signature, a share) as soon as they are possible, for what they
permit may still come at any time or never; the other steps of a broadcast are prompt too unless it
is in `Stepwise`, which holds the one broadcast the properties of loop 0 speak about: its coin
leader's.  Three further reductions: prevotes, votes and their counts of a loop come one after the
other, since the more ballots there are the more a node may do; a loop waits for nodes in an earlier one (the late pi of loop 0 may
still come), and a halt, which stops a node with an output another node has made, is taken by the
last running node and by those in `Late` (n4 in `mvba_coins`), whose `KeepCoin` is not prompt either once
they have taken one.  The second loop shows that what the first one hands over leads to the same
output.

### The signature library

The parts of the library call each other but share no state, so they are checked bottom up: each layer
is checked against a definition, and the layer above uses the definition.  `FieldElement` is what
`FieldLimbs` shows the limbs to do (a value and a magnitude), `Scalar` what `ScalarLimbs` shows, points
in `EcKey` and above are points of `Curve`, which `PointSums` and `EcmultSums` show the algorithms to
compute.  Two MC modules hold one machine per part; the initial state chooses the part ("unit") and the
others rest, so one run explores each of them by itself.

**Words** (`MCSecpWords`).

* `ModInv`: one inversion of either file, constant or variable time; a step is a round of divsteps
  with `update_de` and `update_fg`, and the shortening of `len`.
* `ScalarLimbs`: a register that both builds hold in their limbs, and every operation of
  `scalar_4x64_impl.h` and `scalar_8x32_impl.h` on it.  `ok` remembers a sum that did not fit its
  accumulator (the macros with two and with three words are kept apart).
* `FieldLimbs`: the same for `field_10x26` and `field_5x52`, with magnitudes.
* `ScratchSpace`, `Scratch`: the record `secp256k1_scratch` and an owner of it.
* `EcmultMulti`: `ecmult_multi_var` with the choice of the algorithm, the batches, the allocations of
  `strauss_batch` and `pippenger_batch`, and a callback that may refuse.  The loop of
  `pippenger_max_points` over the bucket windows, with its two breaks, is the set `windows_tried`.
* `Der`: bytes that the library wrote, or that have integers which are too long, edited one at a time.
  A parser that read behind the input would be an error of evaluation, which TLC reports.
* `HashStream`: `sha256_write` in pieces of any length and `sha256_finalize`.  A block that is
  transformed is recorded, and a byte is its place in the data.

| run | question | bound | result |
|---|---|---|---|
| `secp_words` | inverse: right result, `d*x=f` and `e*x=g` in every round, enough rounds | 3 limbs of 6 and 8 bits, modulus 4093, some 60 numbers | holds |
| | scalars: same reduced value in both builds, no carry lost, readers agree | 4 limbs of 6 bits and 8 of 3, 17 x 11 operands | holds |
| | field: magnitudes, words, zero, conversions | limbs of 6 bits, up to 3 operations in sequence | holds |
| | scratch space: types, objects apart, no leak, what `max_allocation` promises | sizes of 24 bits, 3 objects, sizes around the alignment and the wrap | holds |
| | sums: every point once, callbacks in order, space given back, admitted batches are served | up to 7 points, 5 in a batch, 14 spaces, structure sizes of a 64-bit build | holds |
| | encodings: one per signature, lax agrees with strict, imported keys are valid | numbers of 2 bytes of 5 bits, up to 2 edited bytes | holds |
| | hash: the blocks do not depend on how the data were cut | blocks of 8 bytes, pieces to 19, data to 40 | holds |

Short limbs keep the algorithms limb for limb and the slack between limb, word and accumulator, scaled,
because these decide where a carry can be lost.  The moduli have the shape of the real ones, a power of
two less a small number.  Three operations in sequence are as long as the chains between two reductions
that `group_impl.h` builds; magnitudes go to 15 by the multiplications with a small number.  Seven points with at most five in a batch make two batches of unequal size; the
spaces have room for no point, for a few, and for more than a batch.  19 bytes are more than two
blocks, and every remainder of the length modulo a block is met, with and without a tag in front.

**Points, keys, signatures** (`MCSecpGroup`), on y^2 = x^3 + 7 over the integers modulo 43: 31 points,
so that every point, scalar and exceptional case occurs; the field is larger than the order, so that an
x above the order occurs; x -> 6x is multiplication by 5.

* `PointSums`: an accumulator on which the operations of `group_impl.h` act in any order, with the
  VERIFY_CHECKs on magnitudes as part of every operation.
* `EcmultSums`: a point that is multiplied by one algorithm after the other, and a context that is
  blinded again and again.
* `EcKeys`: a holder of a secret key and a holder of its public key apply the same operations at their
  own pace; a key pair, with which every message may be signed under every nonce; bytes that are parsed.
* `Ecdsa`: a signer that tries nonces, and receivers that normalize, verify and recover.
* `SchnorrBatch`: signatures are collected, valid and forged; then the loop over s and the callback
  draw randomizers from one stream.  The seed is a hash over r, message and key of every signature,
  so a stream is chosen when the batch starts.

| run | question | bound | result |
|---|---|---|---|
| `secp_group` | points: the accumulator is the sum, magnitudes hold, batch inversion, `lift_x` and the endomorphism | an accumulator at every point, five points added to it, no bound on the number of operations | holds |
| | multiples: every algorithm is right, digits are within their tables | 4 points, infinity among them, 4 scalars (31 for the constant-time one), 2 windows of Pippenger, one call | holds |
| | blinding: it cancels, and keys are right under it | 31 scalars, any number of randomizations and a call among them | holds |
| | keys: both sides in step, pairs belong together, tweak checks, agreement, bytes | 5 secrets (0 and the order among them), 5 tweaks, two in sequence | holds |
| | ECDSA: signed is verified and recovered, recovered is verified, one of s and -s | 3 keys, 2 nonces in sequence, 11 nonces, 2 hashes, foreign r and s | holds |
| | Schnorr batches: valid ones accepted, one invalid refused, the aggregate agrees | 2 signatures, 2 keys, 3 nonces, forged ones, streams with 0 and with a rejected try | holds |

Two signatures use both entries of the cache of randomizers, the first of which is the constant 1.  The
third signature, which takes the first entry of a refill, and the second refill are beyond this run;
`BatchCorrect` covers them, for any number of signatures.  The order of the callbacks over longer batches is
`CalledInOrder` of the other run.

In these runs the system may stop: an inversion ends, a batch is decided.

## 3. Proofs

`OrderManager_proofs` proves for every number of nodes and blocks:

* `TypeCorrect`: `Spec => []TypeOK`.
* `AtMostOneRound`: `Spec => []OneRoundAtATime`.  The property is not inductive: a second goroutine
  enters `check_send` when it reads `ready = TRUE`.  The strengthening `TokenInv` says that the
  right to start a round is one token, held by a goroutine in `check_send`, an input, the round or
  a decision, and that `ready = TRUE` excludes the token, so a goroutine that
  reads it true cannot race with another one.
* `InputsAccepted`: for `K = 1`, `Spec => []ProposalAccepted`.  `check_input` compared the heights
  with `lastCommit`; between that test and the round the heights only grow (`CheckInputMonotone`)
  and, because the token is held, `lastCommit` stays what it was.  `K = 1` is needed: see
  `order_shards`.
* `LedgerExact`: `Spec => []LedgerIsExact`, and `LookupCorrect`: `Spec => []LookupFinds`.  Both rest
  on one invariant: the buffer of a chain is the interval from the last cut to the last block that
  has arrived.  A count of buffered blocks (`cutBlock`) and an index into them (`check_inputs`) then
  say what a comparison of heights would.  That the cut is never behind the decision it is asked
  for needs that decisions advance, which is `Decide`'s guard.
* `LedgerImplemented`: `Spec => ImplementsLedger`, from the same invariant: a cut is a round of the
  abstract ledger, every other step a stutter.

`SpeedingMVBA_proofs` proves for every number of nodes, every set of crashed nodes, every number of
loops and every coin, and for the specification `Spec` itself, without the reductions of
`MCSpeedingMVBA`:

* `TypeCorrect`: `Spec => []TypeOK`.
* `InputsAccepted`: `Spec => []InputsProved`, whatever coins other nodes have kept.
* `PiCorrect`: `Spec => []PiForcesYes`.
* `HaltCorrect`, `Agreement`: `Spec => []HaltFixesInput` and `Spec => []OutputAgreement`.
* `ConsensusImplemented`: `Spec => ImplementsConsensus`.  Behind every output and every halt there is an
  input of loop 0, and all outputs are equal, so an output is a decision of the abstract consensus or
  repeats it, and all other steps are stutters.

They rest on one inductive invariant, `IInv`, of ten parts, each with its own lemma (`TypeStep`,
`InputStep`, ...).  `Effects` says which step changes which variable, `Growing` that nothing that has
been sent is taken back, and `QuorumsMeet` that two sets of more than `2n/3` nodes, as the code
computes it, have a member in common.  The argument: a node prevotes after it has closed `PBC_done`
and sends PBC3 or PBC4 before (`PrevoteInv`), so a node with a prevote no is not behind the coin
leader's pi; a pi has a quorum behind it (`PiInv`), a vote no has one of prevotes no (`VoteInv`), and
they would meet.  Hence behind an output there is a pi or a quorum of votes yes (`HaltInv`), in both
cases no quorum of votes no, without which every input of the following loops is the coin leader's
(`InheritInv`).  `InheritInv` relates all pairs of loops, so that a step extends it by one loop and
nothing has to be proved by induction on loops.  `TypeOK` is not inductive by itself: an output is the
input of a node only because the coin leader, which a pi or a vote yes vouches for, has one.

`Scratch_proofs` proves for every width of `size_t`, every alignment, every size of the header and
every set of sizes, `ScratchTypes`, `ScratchObjectsApart` and `ScratchNothingLeaks`: `Spec` implies
`[]TypeOK`, `[]ObjectsApart` and `[]NothingLeaks`, and `MaxAllocationCorrect`:
`Spec => []MaxAllocationSuffices`.  The first part of the module has the facts about the operations of a
scratch space that `EcmultMulti_proofs` needs too: what `round_to_align` returns when it does not wrap
(`RoundUp`), what an allocation takes (`Allocation`) and what `scratch_max_allocation` returns
(`MaxAllocation`).  The invariant `Inv` says that the objects lie one
after the other, each aligned and no longer than its rounded size, that the mark is the end of the last
one, and that every checkpoint is a mark which an earlier prefix of the objects had.  `Rounding` and
the lemmas before it give the non-linear facts: `round_to_align(n)`, computed modulo `SizeMax + 1`, is
always a multiple of the alignment, so that a rounding that wraps can only come out too small, which is
what `scratch_alloc` tests.  `WrapOnce` shows that the unsigned difference of the size of the space and
its mark is their difference (`Served`).  `EndMonotone` orders the objects without induction: their ends grow because each
begins where the one before ended.  `MaxAllocationCorrect` is about any split of what
`scratch_max_allocation` promises for `n` objects into `n` sizes: the rounding that it set aside for each
object is enough, and so each allocation in turn is served (`EachServed`), by going through the sizes from
the first on (`Iteration`), with no induction over the data.

`EcmultMulti_proofs` proves for every width, alignment, size of a structure, limit of a batch, number of
points and set of scratch spaces:

* `SumCorrect` (`MultiSpec => []SumIsExact`) and `SpaceCorrect` (`MultiSpec => []SpaceGivenBack`), with
  no further hypothesis.  The invariant `IInv` says that the plan of a call in progress is
  `multi_plan` of the space as the call found it, whatever the batches have allocated since (`PlanInv`),
  that the points below the batch are in the sum once and those of the batch in `tmp` (`SumInv`,
  `BatchInv`), and that the mark to go back to is the one of the request (`MarkInv`).  The index that
  the callback gets, the position plus the batch times `n_batch_points`, counts on because every batch
  but the last non-empty one is full (`Offset`); and the batches of `multi_batch_size_helper`, evened
  out below the limit, hold all the points (`Batches`).
* `MemoryCorrect` (`MultiSpec => []MemorySuffices`), for `LibraryConstants`: six objects for either
  algorithm, twelve windows, and `OneIsAligned`.  For Pippenger's algorithm the break at the first
  window that is not full is what lets a smaller number of points, with a smaller window and
  longer digits, find its memory (`WindowFits`, `PippengerServed`).  For Strauss' algorithm the count
  is short: `strauss_batch` allocates seven objects (`ecmult_impl.h:594-600`), but
  `STRAUSS_SCRATCH_OBJECTS` is 6 (`ecmult_impl.h:71`), so `max_allocation` sets the rounding of only
  six aside.  The promise holds because at least one of the seven needs none: a scalar has 32 bytes
  and a table eight points, multiples of the alignment of 16 in every build.  `OneIsAligned` asks for
  one such object, and that is all that the theorem assumes about sizes.

`WrbcBroadcast_proofs` proves for every number of nodes, heights and losses `TypeCorrect`,
`EchoCorrect` (`Spec => []EchoOnce`), `HeldCorrect` (`Spec => []FinishedIsHeld`) and `OutputCorrect`, a
property stated beside the proofs: a follower outputs what it holds and what `2f+1` nodes hold.  The
invariant follows a message from its counter back: an echo is of a node that has the val or is the
leader (`EchoInv`, which also says that the two branches that echo exclude each other), a ready that is
not the leader's has `2f+1` echos behind it (`ReadyInv`), and a height that is finished has a ready of
a follower (`FinishInv`, `ManyReadies`).  `EchoesAreHolders` maps echos to nodes one to one.

`CbcBroadcast_proofs` proves for every number of followers, crashed ones, heights and losses
`TypeCorrect`, `CertificatesCorrect` (`CertifiedIsSigned`), `CountCorrect` (`CountedIsSigned`),
`HelpCorrect` (`HelperHasBlock`), `PopCorrect` (`NoEmptyPop`), `CallsCorrect` (`GapsAreCalledFor`),
`DeliveryCorrect` (`DeliversChain`) and `Refinement` (`ImplementsChain`), of `Spec`, so with any step
between any two of the code's steps.
The parts of the invariant: no block on its way, buffered or called for is beyond the proposed ones, and
what is called for is below the blocks that the leader has written (`BlockInv`: the leader proposes a block
after it has written the one before); a follower has written what is below its height (`DatabaseInv`); between its sender and the counter there is at most one payback of a follower for the
height, in the router's channel or in the counter's (`PaybackInv`), so counting them counts signers;
`lowwest` is in the buffer or below the height (`BufferInv`), which is less than being the lowest (see
`cbc_lowwest`) and enough for a pop; all blocks from the height to the highest one seen are buffered or
called for (`GapInv`).  `CallsCorrect` assumes that the program is not in test mode, in which nothing is
called for, and `FirstLost >= 1`: `callhelp.put` cannot tell the range (0,0) from "nothing to ask
for", so a follower whose first block alone is lost does not ask for it.  The other theorems need neither.

`BinaryAgreement_proofs` proves for every set of nodes, of crashed nodes and of late ones, every number
of loops and every coin whose loop 0 is 1: `TypeCorrect`, and, for `3f+1` nodes,

* `OutputCorrect`: `Spec => []OutputAgreement`, with any node preempted anywhere.  A relayed finish goes
  back to `f+1` nodes that have decided (`RelayInv`, `FinishesCounted`: relays and decisions of one node
  are two messages to the counter, but the first relay has only decisions to count).  A node that decides
  stays in its loop, which `2f+1` nodes have reached (`CoinInv`; after loop 0 a node sends one aux per
  loop, `AuxInv`), so at most `f` nodes decide in earlier loops (`DecidersAgree`).  This is how
  agreement survives the reads of the slice `values` without a lock: single main loops may decide
  differently, `f+1` may not.
* `HeldCorrect`: `Spec => []OneIsHeld`, also with preemption.  `ZeroInv` holds as long as no correct
  node holds the broadcast.  A main loop may then still go on with 1, when the coin is 0 and it reads the
  slice before the store of the 0; but a quorum whose aux 0 it has counted has stored the 0, can only
  decide (`ZerosStay`), and at most `f` nodes are left to send the 1 (`FewOnes`).

`3f+1` is a hypothesis because the code computes `f = (n-1)/3` and counts `2f+1` for every `n`: of
6 nodes two quorums of 3 need not have a node in common.  The invariants do not need it, the theorems that
let quorums meet do.

`Signatures_proofs` is about the layers above the group law, and the magnitudes below it.  It proves for
every prime field and every curve whose affine points, with the operations of `Curve`, are a group of prime order:

* `SignedIsValid`, `BatchTypesKept` and `BatchCorrect` (`BatchSpec => []BatchSaysWhatItsSignaturesSay`).
  The defect of a signature is the point that its equation is off by.  The sum over s and the sum over the
  points are made by two loops that draw their randomizers separately; they use the same one for the same
  signature (`CacheOfSums`, `CacheOfPoints`), so together they make the sum of the defects, each times its
  randomizer (`SumSplit`).  Valid signatures have no defect (`NoDefect`, `ValidItem`), and one invalid one
  leaves its own defect times its randomizer, which in a group of prime order is infinity only if the
  randomizer is 0.  An aggregate is the first of the two sums, and whoever verifies it makes the second.
* `OperationsTogether` and `KeysCorrect` (`KeysSpec => []KeysBelongTogether`).  Negation, addition and
  multiplication of a secret key make of its public key the public key of the result.  The invariant says
  that the public key leads to the one of the secret key through the operations in `todo`.
* `EcdsaCorrect` (`EcdsaSpec => []SignaturesCorrect`), for fields less than twice as large as the order,
  so that an x is one of two numbers.  A key verifies a signature iff its equation leads to a point whose x
  is `r` modulo the order (`VerifyIff`); the four recovery ids are the candidates for that point, and each
  gives the key that leads to it (`RecoverIff`); a negated `s` goes with the negated point, which has the
  same x (`NegativeIff`).
* `HashCorrect` (`HashSpec => []SplitDoesNotMatter`).  `Holds(h, E, n)` says that a state holds the first
  `n` bytes of a stream `E`: the whole blocks of it, and the rest in the buffer.  A write keeps it
  (`WriteHolds`), turn by turn (`TurnsHold`); the padding is two more writes of the stream that finalize
  makes of the data (`Ended`), and ends at the end of a block (`ZerosFill`).

* `MagnitudesCorrect` (`Factor8 => (SumSpec => []MagnitudesHold)`), of `PointSums`: whatever the order of
  the operations on points, none breaks a VERIFY_CHECK on a magnitude.  The invariant is that every
  coordinate has a magnitude of at most 8 (`Gej`); there is a lemma for each operation of `group_impl.h`
  that `PointSums` uses.  `Factor8` says that a factor may have a magnitude of 8, as the VERIFY_CHECKs of both
  fields do; nothing is to spare, since `gej_double` multiplies by a sum of 6 and 2.

The loops of the first four are not proved by induction (which would need an operator as a parameter) but by
`Stepwise`, a lemma about sets of numbers that a least element proves.  Multiples of a point are a
recursive function; `MultiplesDef` and the lemmas after it unfold it in the same way.

The assumptions are the named ASSUMEs of `ScratchSpace` and `Scratch` (an alignment that divides
`SizeMax + 1`, sizes of spaces that fit the width together with the header), of `EcmultMulti` (positive
sizes, spaces whose mark is within them), of `OrderManager` (a finite non-empty set of nodes, natural
bounds), of `SpeedingMVBA` (a finite set of nodes, a coin that names a node in every loop), and of
`WrbcBroadcast`, `CbcBroadcast` and `BinaryAgreement` (finite sets of nodes, natural bounds, loop 0 among
the loops whose coin is 1).  `Signatures_proofs` rests on those of `FieldElement` and `Scalar` (`P` and the
order are primes, `P % 4 = 3`), of `Curve` (`GroupAssumption`: addition of points is associative and
commutative, and `Order` times a point is infinity: the group law of the
curve is taken from mathematics, and TLC checks it on the small curve), of `EcKey` (bytes hold every field element and
scalar), and of the machines themselves (points on the curve, keys and nonces in their ranges, a challenge is a number, a field less than twice
as large as the order, a word of the count made of whole bytes).

Only model-checked: the arithmetic of the signature library below the group law (`InversionCorrect`,
`ScalarsCorrect`, `FieldCorrect`, `PointsCorrect` but for its part `MagnitudesHold`, `MultiplicationsCorrect`) and its encodings
(`EncodingsCorrect`), whose definitions are recursive over limbs, digits or bytes, for which the prover has no
induction, and liveness (`DecidedIsDelivered`,
`KeepsUp`, `KeepUp` and the temporal property of `BinaryAgreement`), which is out of the prover's reach.

## 4. Not modelled, and why

In the protocols signatures, hashes, erasure codes and Merkle trees are library calls; a signature is
the identity of its signer.  TCP, LevelDB and protobuf appear only as losses, stored heights and records.  Timing
(sleeps, latency accounting) is left out: no guard depends on it.  The fault model is crashed
nodes (`CrashMVBA` in `config/node.yaml`), lost messages on reconnection, and every
interleaving of goroutines.

Of the signature library: contexts with their flags and callbacks (guards only); rfc6979, HMAC and the
rounds of SHA-256 and ChaCha20, which mix numbers and keep no state beyond a call (a nonce and a
randomizer are any number of a set); the assembler versions, which are taken to return what their C
versions do; clearing of secrets and constant time, which no value of the program depends on; the tests
and benchmarks.

## 5. Plan

1. The rounds of `OrderManager` over `MVBAConsensus`, which `SpeedingMVBA` implements; termination of a
   loop of `SpeedingMVBA`.
2. `LoopRouter`: the buffers between two loops used by `ba.go`, `sfmvba.go`, `order.go` and `rbc`.
3. `RbcBroadcast`: agreement and totality per height, two heights at once.
4. `RbcWithFinish` and `SfMvba`: the signature-free MVBA over `BinaryAgreement`'s promise.
5. `Links` (broadcaster and order): bounded buffers, drop flag; `TxPool`; `FinRound`; `DumboMVBA`.
6. Proofs about the signature library below the group law: a digit of `Ecmult`, a carry of `FieldLimbs`.
7. Signature library: the rejection loop of `scalar_chacha20` inside `ScalarLimbs`.
