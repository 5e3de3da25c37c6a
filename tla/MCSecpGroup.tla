---------------------------- MODULE MCSecpGroup ----------------------------
(***************************************************************************)
(* A small instance of the parts of the signature library that work on     *)
(* points: y^2 = x^3 + 7 over the integers modulo 43, a group of 31        *)
(* points, with the endomorphism that multiplies x by 6 and a point by 5.  *)
(* The parts share no state: the initial state chooses one unit, and the   *)
(* others rest.                                                            *)
(***************************************************************************)
EXTENDS PointSums, EcmultSums, SchnorrBatch, EcKeys, Ecdsa

VARIABLE unit

groupVars == <<unit, sumVars, multVars, batchVars, keyVars, ecdsaVars>>

SomeGenerator == <<2, 12>>
B1 == -1

\* The accumulator takes every point, so that these meet an equal, an opposite
\* and (by the endomorphism) a point of the same y and another x.
SomeAddends == {Infinity, Generator} \cup {Times(k, Generator) : k \in {Lambda, 7, Order - 1}}

\* Numbers for the hash of a challenge, also ones that are no scalar.
SomeChallenge(r, p, m) == (5 * r + 11 * p + 17 * m + 3) % 64

\* r no field element, r and s of no signature, and s of a signature but for a
\* wrap of the order.
SomeForged ==
  {[r |-> 45, s |-> 3], [r |-> 7, s |-> 30],
   [schnorrsig_sign(3, 0, 4, TRUE).sig EXCEPT !.s = @ + Order]}

\* What the generator may make of a seed: a half of the second scalar that is
\* anything, also 0, and a first try that is no scalar.
SomeStreams == {<< <<p>>, <<q>> >> : p \in {<<9, c>> : c \in {0, 17}}, q \in {<<3, 22>>}}
                 \cup {<< << <<33, 2>>, <<9, 12>> >>, << <<3, 40>>, <<5, 5>> >> >>}

BatchRest == BatchInit /\ stream = CHOOSE t \in Streams : TRUE
KeysRest == KeysInit /\ sec = 1
EcdsaRest == EcdsaInit /\ msg = CHOOSE m \in Hashes : TRUE

GroupInit ==
  /\ unit \in {"sums", "multiples", "blinding", "batch", "keys", "ecdsa"}
  /\ SumInit
  /\ MultInit /\ (unit # "multiples" => times = 1)
  /\ IF unit = "batch" THEN BatchInit ELSE BatchRest
  /\ IF unit = "keys" THEN KeysInit ELSE KeysRest
  /\ IF unit = "ecdsa" THEN EcdsaInit ELSE EcdsaRest

GroupNext ==
  \/ unit = "sums" /\ SumNext /\ UNCHANGED <<unit, multVars, batchVars, keyVars, ecdsaVars>>
  \/ unit = "multiples" /\ PointNext /\ UNCHANGED <<unit, sumVars, batchVars, keyVars, ecdsaVars>>
  \/ unit = "blinding" /\ GenNext /\ UNCHANGED <<unit, sumVars, batchVars, keyVars, ecdsaVars>>
  \/ unit = "batch" /\ BatchNext /\ UNCHANGED <<unit, sumVars, multVars, keyVars, ecdsaVars>>
  \/ unit = "keys" /\ KeysNext /\ UNCHANGED <<unit, sumVars, multVars, batchVars, ecdsaVars>>
  \/ unit = "ecdsa" /\ EcdsaNext /\ UNCHANGED <<unit, sumVars, multVars, batchVars, keyVars>>

GroupSpec == GroupInit /\ [][GroupNext]_groupVars

=============================================================================
