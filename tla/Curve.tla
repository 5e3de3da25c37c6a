------------------------------- MODULE Curve -------------------------------
(***************************************************************************)
(* The curve y^2 = x^3 + B over the integers modulo P, as a group: the     *)
(* definition that the code of group_impl.h and ecmult_impl.h is checked   *)
(* against.  A point is <<x, y>> or Infinity.                              *)
(***************************************************************************)
EXTENDS FieldElement, Scalar

CONSTANTS
  B,          \* the constant of the curve equation
  Generator   \* a point other than Infinity

Infinity == <<>>

Affine == {p \in (0..(P-1)) \X (0..(P-1)) : (p[2] * p[2]) % P = (p[1] * p[1] * p[1] + B) % P}

Points == Affine \cup {Infinity}

ASSUME CurveAssumption ==
  /\ B \in 1..(P-1)
  /\ Generator \in Affine
  /\ \A p \in Affine : p[2] # 0

Negative(p) == IF p = Infinity THEN p ELSE <<p[1], (P - p[2]) % P>>

\* The chord and tangent law.
Sum_of(p, q) ==
  LET slope == IF p = q
               THEN (3 * p[1] * p[1] * Inverse_of[(2 * p[2]) % P]) % P
               ELSE ((q[2] - p[2]) * Inverse_of[(q[1] - p[1]) % P]) % P
      x == (slope * slope - p[1] - q[1]) % P
  IN  CASE p = Infinity -> q
        [] q = Infinity -> p
        [] p # Infinity /\ q = Negative(p) -> Infinity
        [] OTHER -> <<x, (slope * (p[1] - x) - p[2]) % P>>

\* The multiples of every point.
Multiples ==
  [p \in Points |-> LET mult[k \in 0..(Order-1)] == IF k = 0 THEN Infinity ELSE Sum_of(mult[k-1], p)
                    IN  mult]

Times(k, p) == Multiples[p][k % Order]

\* The chord and tangent law is that of a group whose order is Order.
ASSUME GroupAssumption ==
  /\ \A p, q \in Points : Sum_of(p, q) \in Points /\ Sum_of(p, q) = Sum_of(q, p)
  /\ \A p, q, t \in Points : Sum_of(Sum_of(p, q), t) = Sum_of(p, Sum_of(q, t))
  /\ \A p \in Points : Sum_of(Times(Order - 1, p), p) = Infinity

=============================================================================
