---------------------------- MODULE FieldElement ----------------------------
(***************************************************************************)
(* What the field of libsecp256k1 promises to the code above it (field.h,  *)
(* field_impl.h): an element is a value modulo P with a magnitude, which   *)
(* bounds how far its limbs exceed their width, and a flag that says it is *)
(* normalized.  The VERIFY_CHECKs of the 32-bit field (field_10x26_impl.h) *)
(* are part of every operation: an operation that breaks one returns       *)
(* Broken, and so does every operation on Broken.  FieldLimbs shows how    *)
(* the limbs implement this.                                               *)
(***************************************************************************)
EXTENDS Integers

CONSTANTS
  P,              \* the modulus, 3 modulo 4
  MaxMagnitude,   \* the largest magnitude of any element: 32
  MulMagnitude    \* the largest magnitude of a factor: 8

ASSUME FieldAssumption ==
  /\ P \in Nat /\ P > 3 /\ P % 4 = 3
  /\ MaxMagnitude \in Nat /\ MulMagnitude \in 1..MaxMagnitude

\* P is a prime.
ASSUME FieldPrimeAssumption == \A v \in 1..(P-1) : \E w \in 1..(P-1) : (v * w) % P = 1

Fe == [v : 0..(P-1), m : 0..MaxMagnitude, n : BOOLEAN]

Broken == [v |-> 0, m |-> MaxMagnitude + 1, n |-> FALSE]

\* secp256k1_fe_verify: an element is not Broken, and its magnitude fits.
fe_verify(a) == a.m <= MaxMagnitude

Weak(v, m) == [v |-> v % P, m |-> m, n |-> FALSE]

fe_set_int(i) == [v |-> i % P, m |-> 1, n |-> TRUE]

fe_clear == [v |-> 0, m |-> 0, n |-> TRUE]

fe_normalize(a) == IF fe_verify(a) THEN [v |-> a.v, m |-> 1, n |-> TRUE] ELSE Broken

\* normalize_weak leaves the flag alone.
fe_normalize_weak(a) == IF fe_verify(a) THEN [a EXCEPT !.m = 1] ELSE Broken

fe_normalizes_to_zero(a) == fe_verify(a) /\ a.v = 0

fe_is_zero(a) == a.n /\ a.v = 0

fe_is_odd(a) == a.n /\ a.v % 2 = 1

fe_negate(a, m) ==
  IF a.m <= m /\ m + 1 <= MaxMagnitude THEN Weak(P - a.v, m + 1) ELSE Broken

fe_mul_int(a, i) == IF a.m * i <= MaxMagnitude THEN Weak(a.v * i, a.m * i) ELSE Broken

fe_add(a, b) == IF a.m + b.m <= MaxMagnitude THEN Weak(a.v + b.v, a.m + b.m) ELSE Broken

fe_mul(a, b) ==
  IF a.m <= MulMagnitude /\ b.m <= MulMagnitude THEN Weak(a.v * b.v, 1) ELSE Broken

fe_sqr(a) == IF a.m <= MulMagnitude THEN Weak(a.v * a.v, 1) ELSE Broken

fe_cmov(a, b, flag) ==
  IF ~fe_verify(a) \/ ~fe_verify(b) THEN Broken ELSE IF flag THEN b ELSE a

fe_equal(a, b) == fe_normalizes_to_zero(fe_add(fe_negate(a, 1), b))

\* The inverse of 0 is 0: the modular inversion is tried on P itself and
\* leaves 0 (ModInv).
Inverse_of[v \in 0..(P-1)] ==
  IF v = 0 THEN 0 ELSE CHOOSE w \in 1..(P-1) : (v * w) % P = 1

fe_inv(a) ==
  IF fe_verify(a) THEN [v |-> Inverse_of[a.v], m |-> 1, n |-> TRUE] ELSE Broken

\* a ^ ((P+1)/4) is a square root of a if a has one, and a square itself.
Power(v, e) == LET pow[k \in 0..e] == IF k = 0 THEN 1 ELSE (pow[k-1] * v) % P IN pow[e]

fe_sqrt(a) ==
  LET r == IF a.m <= MulMagnitude THEN Weak(Power(a.v, (P + 1) \div 4), 1) ELSE Broken
  IN  [r |-> r, ok |-> fe_equal(fe_sqr(r), a)]

\* A stored element has no magnitude; only a normalized one is stored.
fe_to_storage(a) == IF a.n THEN a.v ELSE -1

fe_from_storage(s) == IF s >= 0 THEN fe_set_int(s) ELSE Broken

=============================================================================
