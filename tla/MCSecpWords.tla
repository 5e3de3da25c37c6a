---------------------------- MODULE MCSecpWords ----------------------------
(***************************************************************************)
(* Small instances of the parts of the signature library that work on      *)
(* machine words: the limbs of the field and of the scalars in both        *)
(* builds, the modular inverses, the scratch space, the sums of points     *)
(* that are cut to the memory it has, the encoding of signatures, and hashing.  The *)
(* parts share no state: the initial state chooses one unit, and the       *)
(* others rest.                                                            *)
(***************************************************************************)
EXTENDS ModInv, ScalarLimbs, FieldLimbs, Scratch, EcmultMulti, Der, HashStream

VARIABLE unit

wordVars == <<unit, inv, reg, fe, vars, multiVars, derVars, hashVars>>

InvValues == {0, 1, 2, 3, 4, 7, 8, 31, 32, 63, 64, 127, 1023, 1024, 2046, 2047, 3000, 4091, 4092}
               \cup {k * 67 % InvModulus : k \in 1..40}

RegValues == {0, 1, 63, 64, 4095, 5229, 5230, 262143, 262144, 7654321,
              N - 1, N - 2, N - 4096, N \div 2, N \div 2 + 1, 2^23 - 1, 2^23}
RegOperands == {0, 1, 2, 63, 64, 4095, 5229, N - 1, N - 2, N \div 2 + 1, 7654321}

FieldValues == {0, 1, 2, -1, -2, 1234567, -31}
FieldC26 == <<3, 2>>

\* The sizes of the C structures of a 64-bit build.
Sizes64 == [ge |-> 88, gej |-> 128, fe |-> 40, scalar |-> 32, int |-> 4,
            strauss_point_state |-> 1112, pippenger_point_state |-> 16, pippenger_state |-> 16]

\* Objects around the alignment, and around the width of a size.
Objects == {0, 1, 16, 17, 40, SizeMax - 15, SizeMax - 14, SizeMax}

\* Spaces that have room for no point and for more than a batch, in use or not.
MultiSpaces ==
  {[valid |-> TRUE, data |-> round_to_align(HeaderSize), max_size |-> s, alloc_size |-> a] :
     s \in {100, 1300, 2800, 4056, 8000, 12000, 26000}, a \in {0, 48}}

SigPairs == {<<1, 1008>>, <<512, 500>>}

\* Long forms of a length: integers of 14 bytes, one of which has zeros in front.
LongSigs ==
  {<<12, 17, 19, 2, 14>> \o [k \in 1..14 |-> IF k <= z THEN 0 ELSE 20] \o <<2, 1, 5>> : z \in {1, 13}}

\* Lengths of one and of two bytes.
SomeTails == {[k \in 1..10 |-> 0], [k \in 1..27 |-> 1]}
EditsOf == [sig |-> 2, long |-> 1, key |-> 1]

RegRest == reg = [v |-> 0, ok |-> TRUE, ops |-> 0, d |-> [n \in Builds |-> Limbs_of(n, 0)]]
FieldRest ==
  LET zero == FByValue(FBuild(52), 0)
  IN  fe = [f |-> 52, a |-> zero, v |-> 0, b |-> zero, u |-> 0, ok |-> TRUE, ops |-> 0]
DerRest == kind = "long" /\ wire = <<>> /\ edits = 0
HashRest == hash = sha256_initialize /\ given = 0 /\ final = <<>>
MultiRest == MultiInit /\ space = NULL

WordsInit ==
  /\ unit \in {"inverse", "scalar", "field", "scratch", "multi", "der", "hash"}
  /\ InvInit
  /\ IF unit = "scalar" THEN RegInit ELSE RegRest
  /\ IF unit = "field" THEN FieldInit ELSE FieldRest
  /\ Init
  /\ IF unit = "multi" THEN MultiInit ELSE MultiRest
  /\ IF unit = "der" THEN DerInit ELSE DerRest
  /\ IF unit = "hash" THEN HashInit ELSE HashRest

WordsNext ==
  \/ unit = "inverse" /\ InvNext /\ UNCHANGED <<unit, reg, fe, vars, multiVars, derVars, hashVars>>
  \/ unit = "scalar" /\ RegNext /\ UNCHANGED <<unit, inv, fe, vars, multiVars, derVars, hashVars>>
  \/ unit = "field" /\ FieldNext /\ UNCHANGED <<unit, inv, reg, vars, multiVars, derVars, hashVars>>
  \/ unit = "scratch" /\ Next /\ UNCHANGED <<unit, inv, reg, fe, multiVars, derVars, hashVars>>
  \/ unit = "multi" /\ MultiNext /\ UNCHANGED <<unit, inv, reg, fe, vars, derVars, hashVars>>
  \/ unit = "der" /\ DerNext /\ UNCHANGED <<unit, inv, reg, fe, vars, multiVars, hashVars>>
  \/ unit = "hash" /\ HashNext /\ UNCHANGED <<unit, inv, reg, fe, vars, multiVars, derVars>>

WordsSpec == WordsInit /\ [][WordsNext]_wordVars

=============================================================================
