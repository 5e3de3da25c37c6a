------------------------------- MODULE Scalar -------------------------------
(***************************************************************************)
(* Scalars of libsecp256k1: numbers modulo the group order, as the small   *)
(* build of the library has them (scalar_low_impl.h), with the splits of   *)
(* scalar_impl.h that are made for 256 bits.  Those widths are constants   *)
(* here, so that the same code runs on a small order.  ScalarLimbs shows   *)
(* how limbs implement this.                                               *)
(***************************************************************************)
EXTENDS Integers, Sequences

CONSTANTS
  Order,        \* n, the order of the group, a prime
  ScalarBits,   \* bits of n: 256
  HalfBits,     \* bits of the halves of a split: 128
  SplitShift,   \* 384: g1 and g2 are quotients scaled by 2^SplitShift
  Lambda,       \* a cube root of 1 modulo n
  LatticeA1, LatticeB1, LatticeA2, LatticeB2   \* the reduced basis a + b * Lambda = 0

ASSUME OrderAssumption ==
  /\ Order \in Nat /\ Order > 3 /\ Order % 2 = 1 /\ Order < 2^ScalarBits
  /\ HalfBits \in 1..ScalarBits
  /\ (Lambda * Lambda + Lambda + 1) % Order = 0
  /\ (LatticeA1 + LatticeB1 * Lambda) % Order = 0
  /\ (LatticeA2 + LatticeB2 * Lambda) % Order = 0
  /\ LatticeA1 * LatticeB2 - LatticeB1 * LatticeA2 = Order

Scalars == 0..(Order-1)

\* Order is a prime.
ASSUME OrderPrimeAssumption == \A a \in 1..(Order-1) : \E b \in Scalars : (b * a) % Order = 1

scalar_is_even(a) == a % 2 = 0

scalar_is_high(a) == a > Order \div 2

scalar_get_bits(a, offset, count) == (a \div 2^offset) % 2^count

scalar_add(a, b) == (a + b) % Order

scalar_mul(a, b) == (a * b) % Order

scalar_negate(a) == IF a = 0 THEN 0 ELSE Order - a

scalar_cond_negate(a, flag) == IF flag THEN scalar_negate(a) ELSE a

\* The sum must not overflow: nothing is reduced.
scalar_cadd_bit(a, bit, flag) == IF flag THEN a + 2^bit ELSE a

\* From bytes, whatever their value: the remainder, and whether it overflowed.
scalar_set_b32(v) == [r |-> v % Order, overflow |-> v >= Order]

scalar_set_b32_seckey(v) ==
  [r |-> v % Order, ok |-> v < Order /\ v % Order # 0]

\* What falls off and what is left.
scalar_shr_int(a, k) == [low |-> a % 2^k, r |-> a \div 2^k]

scalar_inverse(a) == IF a = 0 THEN 0 ELSE CHOOSE i \in Scalars : (i * a) % Order = 1

scalar_split_128(k) == <<k % 2^HalfBits, k \div 2^HalfBits>>

\* A rounded a * b / 2^shift.
scalar_mul_shift_var(a, b, shift) == ((a * b) \div 2^shift) + (((a * b) \div 2^(shift-1)) % 2)

Rounded(a, d) == (2 * a + d) \div (2 * d)

\* k = r1 + r2 * Lambda with short r1 and r2, or negatives of short ones.
scalar_split_lambda(k) ==
  LET g1 == Rounded(2^SplitShift * LatticeB2, Order)
      g2 == Rounded(2^SplitShift * (0 - LatticeB1), Order)
      c1 == scalar_mul(scalar_mul_shift_var(k, g1, SplitShift), (0 - LatticeB1) % Order)
      c2 == scalar_mul(scalar_mul_shift_var(k, g2, SplitShift), (0 - LatticeB2) % Order)
      r2 == scalar_add(c1, c2)
  IN  <<scalar_add(scalar_negate(scalar_mul(r2, Lambda)), k), r2>>

\* Two halves, each less 2^(HalfBits-1): randomizers that are short as signed
\* numbers.
scalar_split_128_randomizer(k) ==
  LET t == scalar_negate(2^(HalfBits-1) % Order)
      h == scalar_split_128(k)
  IN  <<scalar_add(h[1], t), scalar_add(h[2], t)>>

\* The generator makes pairs of numbers of 32 bytes from a seed and an index,
\* and takes the first pair without an overflow.
scalar_chacha20(pairs) ==
  LET fits(k) == \A part \in 1..2 : ~scalar_set_b32(pairs[k][part]).overflow
  IN  pairs[CHOOSE k \in 1..Len(pairs) : fits(k) /\ \A j \in 1..(k-1) : ~fits(j)]

=============================================================================
