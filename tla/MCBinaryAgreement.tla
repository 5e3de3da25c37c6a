------------------------- MODULE MCBinaryAgreement -------------------------
(***************************************************************************)
(* Instances of BinaryAgreement for TLC.  Correct nodes with the same role *)
(* in the bounds are interchangeable.                                      *)
(***************************************************************************)
EXTENDS BinaryAgreement, TLC

Alike(i, j) ==
  /\ i \in Late <=> j \in Late
  /\ \A S \in Starts : i \in S <=> j \in S

RoleSymmetry == {p \in Permutations(Correct) : \A i \in Correct : Alike(i, p[i])}
=============================================================================
