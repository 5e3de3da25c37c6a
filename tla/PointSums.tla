----------------------------- MODULE PointSums -----------------------------
(***************************************************************************)
(* An accumulator on which the operations of group_impl.h work in any      *)
(* order, as ecmult_impl.h, ecmult_const_impl.h and ecmult_gen_impl.h use  *)
(* them, beside the sum that it stands for.                                *)
(***************************************************************************)
EXTENDS Group

CONSTANTS
  Addends,  \* the points that are added, or some of them
  Scales    \* z coordinates other than 0 that an operand or a rescaling has

ASSUME AddendsAssumption ==
  /\ Addends \subseteq Points
  /\ Scales \subseteq 1..(P-1)

VARIABLES
  acc,   \* the accumulator, a gej
  sum    \* the point that it should stand for

sumVars == <<acc, sum>>

SumInit == acc = gej_set_infinity /\ sum = Infinity

\* The point q over the z coordinate z.
Jacobian(q, z) ==
  IF q = Infinity THEN gej_set_infinity ELSE gej_rescale(gej_set_ge(GeOf(q)), fe_set_int(z))

Double == acc' = gej_double_var(acc).r /\ sum' = Sum_of(sum, sum)

Add(q, z) == acc' = gej_add_var(acc, Jacobian(q, z)).r /\ sum' = Sum_of(sum, q)

AddAffine(q) == acc' = gej_add_ge_var(acc, GeOf(q)).r /\ sum' = Sum_of(sum, q)

\* b is over the inverse of bzinv.
AddZinv(q, z) ==
  LET b == Jacobian(q, z)
  IN  /\ acc' = gej_add_zinv_var(acc, [x |-> b.x, y |-> b.y, infinity |-> b.infinity],
                                 fe_inv(fe_set_int(z)))
      /\ sum' = Sum_of(sum, q)

\* The constant time addition takes no infinity.
AddConst(q) == q # Infinity /\ acc' = gej_add_ge(acc, GeOf(q)) /\ sum' = Sum_of(sum, q)

Negate == acc' = gej_neg(acc) /\ sum' = Negative(sum)

Rescale(z) == acc' = gej_rescale(acc, fe_set_int(z)) /\ UNCHANGED sum

\* ecmult_multi_var and schnorrsig_verify bring a result to affine form.
ToAffine == acc' = gej_set_ge(ge_set_gej_var(acc)) /\ UNCHANGED sum

SumNext ==
  \/ Double \/ Negate \/ ToAffine
  \/ \E q \in Addends : AddAffine(q) \/ AddConst(q)
  \/ \E q \in Addends, z \in Scales : Add(q, z) \/ AddZinv(q, z)
  \/ \E z \in Scales : Rescale(z)

SumSpec == SumInit /\ [][SumNext]_sumVars

-----------------------------------------------------------------------------
\* Every operation is complete: whatever the operands are, equal, opposite,
\* infinite, or of the same y and another x, the accumulator stands for the
\* sum of the group (group_impl.h:268-609).
AccIsSum == ValueOf(acc) = sum

\* No order of operations breaks a VERIFY_CHECK on a magnitude.
MagnitudesHold == \A a \in {acc.x, acc.y, acc.z} : a.m <= MulMagnitude

\* One inversion for many points (ge_set_all_gej_var) gives each of them the
\* coordinates of its own, also when some are infinity, the first or the last
\* one among them.
BatchInversion ==
  \A a \in { <<acc, Jacobian(Generator, z), gej_set_infinity>> : z \in Scales }
           \cup { <<gej_set_infinity, Jacobian(Generator, z), acc, acc>> : z \in Scales } :
    LET r == ge_set_all_gej_var(a)
    IN  \A i \in 1..Len(a) : r[i].x.m <= 1 /\ ValueOfGe(r[i]) = ValueOf(a[i])

\* lift_x (ge_set_xo_var) finds the point of the curve with a given x that has
\* the y asked for, and refuses an x that is on no point; multiplication by
\* Beta is multiplication by Lambda.
LiftAndEndomorphism ==
  LET a == ge_set_gej_var(acc)
      lift(odd) == ge_set_xo_var(a.x, odd)
      x == fe_set_int(acc.x.v)
  IN  /\ ~a.infinity =>
           /\ ge_is_valid_var(a) /\ gej_eq_x_var(a.x, acc)
           /\ \A odd \in BOOLEAN :
                lift(odd).ok /\ ValueOfGe(lift(odd).r) \in {sum, Negative(sum)}
           /\ ValueOfGe(lift(TRUE).r) = Negative(ValueOfGe(lift(FALSE).r))
           /\ fe_normalize(lift(TRUE).r.y).v % 2 = 1
           /\ ValueOfGe(ge_mul_lambda(a)) = Times(Lambda, sum)
      /\ ge_set_xo_var(x, TRUE).ok <=> \E q \in Affine : q[1] = x.v

\* The operations of group_impl.h in any order: the right point, with magnitudes
\* that the next operation may take.
PointsCorrect == AccIsSum /\ MagnitudesHold /\ BatchInversion /\ LiftAndEndomorphism

=============================================================================
