--------------------------- MODULE BinaryAgreement ---------------------------
(***************************************************************************)
(* The biased binary agreement of the signature-free MVBA                  *)
(* (order/smvba/signaturefreemvba/binaryagreement): do the nodes hold the  *)
(* value of the elected leader's broadcast (1) or not (0)?                 *)
(*                                                                         *)
(* A loop has four kinds of messages, all broadcast: val (relayed at f+1), *)
(* aux (after 2f+1 equal vals), conf (the set of values seen, once the aux *)
(* messages justify it), and finish, which is not bound to a loop and ends *)
(* the agreement at 2f+1.  Every kind has its goroutine; they share the    *)
(* slice loopinfo.values without a lock:                                   *)
(*                                                                         *)
(*   handle_val sends the value-ready signals first and stores values[v]   *)
(*   after them, and signals aux last; sendval and sendsencondval store    *)
(*   values[1] after their broadcast; sendconf and the main loop read the  *)
(*   slice at any time in between.                                         *)
(*                                                                         *)
(* A step of a handler is the step in which a counter meets its threshold. *)
(* Messages reach every correct node, after any delay and in any order, so *)
(* a counter can meet its threshold at any time after enough messages of   *)
(* that kind have been broadcast.  A node that has left a loop stops its   *)
(* message router; what its other goroutines of that loop could still send *)
(* is sent in the step that leaves the loop (receipt is later anyway).     *)
(***************************************************************************)
EXTENDS Integers, FiniteSets, Sequences

CONSTANTS
  Node,     \* the nodes
  Faulty,   \* the nodes that have crashed (node.yaml: CrashMVBA)
  Ones,     \* the loops whose coin is true; loop 0 is one of them
  Starts,   \* bound: the sets of nodes that may start with 1
  Late,     \* bound: the nodes to which the leader's broadcast may come late
  MaxLoop   \* bound: the last loop

ASSUME BAAssumption ==
  /\ IsFiniteSet(Node) /\ Node # {} /\ Faulty \subseteq Node
  /\ MaxLoop \in Nat
  /\ Starts \subseteq SUBSET Node /\ Late \subseteq Node
  /\ Ones \subseteq 0 .. MaxLoop /\ 0 \in Ones

Correct == Node \ Faulty
f == (Cardinality(Node) - 1) \div 3
Bit == {0, 1}
Loop == 0 .. MaxLoop
None == -1

VARIABLES
  first,    \* ba.input: 1 if the leader's broadcast is held at the start
  second,   \* second[i]: sendsencondval of i has broadcast val 1
  loop,     \* ba.loop
  val,      \* val[r][i]: the vals that sendval has broadcast in loop r
  aux,      \* aux[r][i]: the auxs that i has broadcast in loop r
  conf,     \* conf[r][i]: {C} if i has broadcast the conf C in loop r
  signals,  \* signals[i]: the values with a value-ready signal
  storing,  \* storing[i]: stores to values on their way, by their writer
  values,   \* loopinfo.values, as a set
  auxsent,  \* isauxsent of handle_val
  sig,      \* ba.sendfinishsignal
  fin,      \* the finish messages that have been broadcast
  output    \* what i has put on outputCH

localVars == <<signals, storing, values, auxsent>>
finishVars == <<sig, fin, output>>
vars == <<first, second, loop, val, aux, conf, localVars, finishVars>>

\* A finish is sent because the main loop decides or because f+1 were counted.
Finish == [node : Correct, value : Bit, why : {"decided", "relayed"}]

TypeOK ==
  /\ first \in [Correct -> Bit]
  /\ second \in [Correct -> BOOLEAN]
  /\ loop \in [Correct -> Loop]
  /\ val \in [Loop -> [Correct -> SUBSET Bit]]
  /\ aux \in [Loop -> [Correct -> SUBSET Bit]]
  /\ conf \in [Loop -> [Correct -> SUBSET SUBSET Bit]]
  /\ signals \in [Correct -> SUBSET Bit]
  /\ storing \in [Correct -> SUBSET ({"handle", "own"} \X Bit)]
  /\ values \in [Correct -> SUBSET Bit]
  /\ auxsent \in [Correct -> BOOLEAN]
  /\ sig \in [Correct -> Seq(Finish)]
  /\ fin \subseteq Finish
  /\ output \in [Correct -> {None} \cup Bit]

\* What sending val v does besides, in loop 0 for v = 1: aux 1, then the store.
WithAux(r, v) == IF r = 0 /\ v = 1 THEN {1} ELSE {}
WithStore(r, v) == IF r = 0 /\ v = 1 THEN {<<"own", 1>>} ELSE {}

Init ==
  /\ \E S \in Starts : first = [i \in Correct |-> IF i \in S THEN 1 ELSE 0]
  /\ second = [i \in Correct |-> FALSE]
  /\ loop = [i \in Correct |-> 0]
  /\ val = [r \in Loop |-> [i \in Correct |-> IF r = 0 THEN {first[i]} ELSE {}]]
  /\ aux = [r \in Loop |-> [i \in Correct |-> WithAux(r, first[i])]]
  /\ conf = [r \in Loop |-> [i \in Correct |-> {}]]
  /\ signals = [i \in Correct |-> {}]
  /\ storing = [i \in Correct |-> WithStore(0, first[i])]
  /\ values = [i \in Correct |-> {}]
  /\ auxsent = [i \in Correct |-> FALSE]
  /\ sig = [i \in Correct |-> <<>>]
  /\ fin = {}
  /\ output = [i \in Correct |-> None]

-----------------------------------------------------------------------------
\* The counters.  Messages are counted, not senders.
ValCount(r, v) ==
  Cardinality({i \in Correct : v \in val[r][i]})
    + IF r = 0 /\ v = 1 THEN Cardinality({i \in Correct : second[i]}) ELSE 0

AuxCount(r, v) == Cardinality({i \in Correct : v \in aux[r][i]})

FinCount_any(v) == Cardinality(fin)    \* mutant: one counter for both

FinCount(v) == Cardinality({m \in fin : m.value = v})

Quorum == 2 * f + 1

Coin(r) == IF r \in Ones THEN 1 ELSE 0

\* What a reader of the slice may find while stores are on their way.
Readable(i) == {values[i] \cup {s[2] : s \in S} : S \in SUBSET storing[i]}

\* The conf of j as handle_conf of i can have read it.  The one that a node
\* sends to itself holds the slice, not a copy of it.
ConfOf(i, j) ==
  IF i # j THEN conf[loop[i]][j]
  ELSE UNION {{D \in SUBSET values[i] : C \subseteq D} : C \in conf[loop[i]][i]}

ConfCount(i, Cs) == Cardinality({j \in Correct : ConfOf(i, j) \cap Cs # {}})

\* The justification of a conf: 2f+1 equal auxs of a value that is ready, or
\* 2f+1 auxs in all when both values are.
AuxReady(i) ==
  \/ \E v \in signals[i] : AuxCount(loop[i], v) >= Quorum
  \/ signals[i] = Bit /\ AuxCount(loop[i], 0) + AuxCount(loop[i], 1) >= Quorum

\* The same for the coin.  A conf without any value counts for nothing.
ConfReady(i) ==
  \/ \E v \in signals[i] : ConfCount(i, {{v}}) >= Quorum
  \/ signals[i] = Bit /\ ConfCount(i, SUBSET Bit \ {{}}) >= Quorum

\* The agreement goes on at i; its main loop has not decided.
Running(i) == output[i] = None

Signalled(i) == fin \cup {sig[i][k] : k \in DOMAIN sig[i]}

Decided(i, v) == [node |-> i, value |-> v, why |-> "decided"] \in Signalled(i)

InLoop(i) == Running(i) /\ \A v \in Bit : ~Decided(i, v)

-----------------------------------------------------------------------------
(***************************************************************************)
(* Val and aux: sendval, sendsencondval, handle_val, sendaux.              *)
(***************************************************************************)

\* The counter of val v meets f+1: the val is relayed.
SendVal(i, v) ==
  LET r == loop[i] IN
  /\ Running(i)
  /\ v \notin val[r][i]
  /\ ValCount(r, v) >= f + 1
  /\ val' = [val EXCEPT ![r][i] = @ \cup {v}]
  /\ aux' = [aux EXCEPT ![r][i] = @ \cup WithAux(r, v)]
  /\ storing' = [storing EXCEPT ![i] = @ \cup WithStore(r, v)]
  /\ UNCHANGED <<first, second, loop, conf, signals, values, auxsent, finishVars>>

\* The broadcast of the leader is delivered after all: a node that has sent
\* val 0 sends val 1 as well, whether or not it has already relayed val 1.
SecondVal(i) ==
  /\ Running(i)
  /\ i \in Late
  /\ loop[i] = 0 /\ first[i] = 0 /\ ~second[i]
  /\ second' = [second EXCEPT ![i] = TRUE]
  /\ aux' = [aux EXCEPT ![0][i] = @ \cup {1}]
  /\ storing' = [storing EXCEPT ![i] = @ \cup {<<"own", 1>>}]
  /\ UNCHANGED <<first, loop, val, conf, signals, values, auxsent, finishVars>>

\* handle_val is between the signals of a value and its store.
Handling(i) == \E v \in Bit : <<"handle", v>> \in storing[i]

\* The counter of val v meets 2f+1: the two value-ready signals.
ValueReady(i, v) ==
  /\ Running(i)
  /\ v \notin signals[i] /\ ~Handling(i)
  /\ ValCount(loop[i], v) >= Quorum
  /\ signals' = [signals EXCEPT ![i] = @ \cup {v}]
  /\ storing' = [storing EXCEPT ![i] = @ \cup {<<"handle", v>>}]
  /\ UNCHANGED <<first, second, loop, val, aux, conf, values, auxsent, finishVars>>

\* handle_val sends aux with the first value it stores, and with no other.
AuxAfter(i, s) == IF s[1] = "handle" /\ ~auxsent[i] THEN {s[2]} ELSE {}

StoreValue(i, s) ==
  /\ Running(i)
  /\ s \in storing[i]
  /\ storing' = [storing EXCEPT ![i] = @ \ {s}]
  /\ values' = [values EXCEPT ![i] = @ \cup {s[2]}]
  /\ aux' = [aux EXCEPT ![loop[i]][i] = @ \cup AuxAfter(i, s)]
  /\ auxsent' = [auxsent EXCEPT ![i] = @ \/ s[1] = "handle"]
  /\ UNCHANGED <<first, second, loop, val, conf, signals, finishVars>>

-----------------------------------------------------------------------------
(***************************************************************************)
(* Finish: sendfinish, handle_finish.                                      *)
(***************************************************************************)

\* Every loop starts one goroutine sendfinish, which takes one signal.
Waiting(i) == Cardinality({m \in fin : m.node = i}) <= loop[i]

\* A signal to send finish: it is broadcast, or stays in the channel.
Signal(m) ==
  IF Waiting(m.node)
  THEN fin' = fin \cup {m} /\ UNCHANGED sig
  ELSE sig' = [sig EXCEPT ![m.node] = Append(@, m)] /\ UNCHANGED fin

\* The goroutine of the next loop takes what is in the channel.
TakeSignal(i) ==
  IF sig[i] = <<>>
  THEN UNCHANGED <<sig, fin>>
  ELSE fin' = fin \cup {Head(sig[i])} /\ sig' = [sig EXCEPT ![i] = Tail(@)]

\* f+1 finish messages ask for this node's own.
RelayFinish(i, v) ==
  LET m == [node |-> i, value |-> v, why |-> "relayed"] IN
  /\ Running(i)
  /\ m \notin Signalled(i)
  /\ FinCount(v) >= f + 1
  /\ Signal(m)
  /\ UNCHANGED <<first, second, loop, val, aux, conf, localVars, output>>

\* 2f+1 of them are an output: all the goroutines of the agreement stop.
Output(i, v) ==
  /\ Running(i)
  /\ [node |-> i, value |-> v, why |-> "relayed"] \in Signalled(i)
  /\ FinCount(v) >= Quorum
  /\ output' = [output EXCEPT ![i] = v]
  /\ UNCHANGED <<first, second, loop, val, aux, conf, localVars, sig, fin>>

-----------------------------------------------------------------------------
(***************************************************************************)
(* Conf, the coin and the end of a loop: Launch, sendconf, handle_conf.    *)
(***************************************************************************)

\* The goroutine sendconf reads the slice and broadcasts it.
SendConf(i) ==
  /\ Running(i)
  /\ AuxReady(i)
  /\ conf[loop[i]][i] = {}
  /\ conf' = [conf EXCEPT ![loop[i]][i] = {values[i]}]
  /\ UNCHANGED <<first, second, loop, val, aux, localVars, finishVars>>

\* The loop ends with the input in for the next one.  The goroutines of the
\* loop that have not come to their sends yet come to them.
NextLoop(i, in) ==
  LET r == loop[i] IN
  /\ r < MaxLoop
  /\ loop' = [loop EXCEPT ![i] = r + 1]
  /\ val' = [val EXCEPT ![r + 1][i] = {in}]
  /\ aux' = [aux EXCEPT ![r][i] = @ \cup UNION {AuxAfter(i, s) : s \in storing[i]}]
  /\ \E C \in Readable(i) :
       conf' = [conf EXCEPT ![r][i] = IF @ = {} THEN {C} ELSE @]
  /\ signals' = [signals EXCEPT ![i] = {}]
  /\ storing' = [storing EXCEPT ![i] = {}]
  /\ values' = [values EXCEPT ![i] = {}]
  /\ auxsent' = [auxsent EXCEPT ![i] = FALSE]
  /\ TakeSignal(i)
  /\ UNCHANGED <<first, second, output>>

Decide(i, v) ==
  /\ Signal([node |-> i, value |-> v, why |-> "decided"])
  /\ UNCHANGED <<first, second, loop, val, aux, conf, localVars, output>>

Commits_any(coin, V) == TRUE           \* mutant: the values not compared

\* Both values are there: the next loop starts with the coin.
Undecided(V) == V = Bit

\* The coin is the value of the loop.
Commits(coin, V) == coin \in V

\* The coin is tossed and the slice read, twice.  The main loop of a node
\* that has decided waits for the output and enters no other loop.
Toss(i) ==
  LET coin == Coin(loop[i]) IN
  /\ InLoop(i)
  /\ AuxReady(i) /\ ConfReady(i)
  /\ \E V1, V2 \in Readable(i) :
       /\ V1 \subseteq V2
       /\ \/ Undecided(V1) /\ NextLoop(i, coin)
          \/ ~Undecided(V1) /\ Commits(coin, V2) /\ Decide(i, coin)
          \/ ~Undecided(V1) /\ ~Commits(coin, V2) /\ NextLoop(i, 1 - coin)

Step(i) ==
  \/ SecondVal(i)
  \/ \E v \in Bit : SendVal(i, v) \/ ValueReady(i, v)
  \/ \E s \in storing[i] : StoreValue(i, s)
  \/ SendConf(i) \/ Toss(i)
  \/ \E v \in Bit : RelayFinish(i, v) \/ Output(i, v)

Next == \E i \in Correct : Step(i)

Spec == Init /\ [][Next]_vars

\* The goroutines run and the messages arrive.
FairSpec == Spec /\ \A i \in Correct : WF_vars(Step(i))

-----------------------------------------------------------------------------
(***************************************************************************)
(* Properties.                                                             *)
(***************************************************************************)

\* No two nodes output different bits, although finish messages are counted
\* without looking at who sent them.
OutputAgreement ==
  \A i, j \in Correct : output[i] # None /\ output[j] # None => output[i] = output[j]

Held(i) == first[i] = 1 \/ second[i]

\* The output is 1 only if a correct node holds the leader's value: the MVBA,
\* which waits for the leader's broadcast then, does not wait in vain.
OneIsHeld ==
  (\E i \in Correct : output[i] = 1) => \E i \in Correct : Held(i)

\* Once a main loop has decided, every node outputs: the nodes that are left
\* behind reach the thresholds without the one that has stopped.
DecidedSpreads ==
  (\E i \in Correct, v \in Bit : Decided(i, v)) ~> \A i \in Correct : output[i] # None

\* When all correct nodes start with the same bit they output it, with f
\* nodes crashed, whatever the coins of the loops are.
UnanimityOutputs ==
  \A v \in Bit :
    (\A i \in Correct : first[i] = v) ~> \A i \in Correct : output[i] = v
=============================================================================
