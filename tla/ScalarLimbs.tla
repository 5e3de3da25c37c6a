---------------------------- MODULE ScalarLimbs ----------------------------
(***************************************************************************)
(* Scalars as the builds for 64 and for 32 bit processors hold them        *)
(* (scalar_4x64_impl.h, scalar_8x32_impl.h): limbs of b.w bits, lowest     *)
(* first, always reduced modulo n.  The two files run the same algorithms  *)
(* on 4 and on 8 limbs; here a build b is [w, limbs], and one machine      *)
(* applies each operation to a register of both builds.  Accumulators have *)
(* three words, or two where the code uses its fast macros: sums that do   *)
(* not fit are remembered in ok.                                           *)
(***************************************************************************)
EXTENDS Integers, Sequences

CONSTANTS
  N,            \* the group order
  W64, W32,     \* bits of a limb, 64 and 32; a number has 4 or 8 limbs
  SignedSlack,  \* 2: the limbs of the modular inversion have 62 and 30 bits
  Starts,       \* bound: values a register starts with
  Operands,     \* bound: second operands
  MaxOps        \* bound: operations on a register

Builds == {64, 32}
Limbed(n) == IF n = 64 THEN [w |-> W64, limbs |-> 4] ELSE [w |-> W32, limbs |-> 8]

\* 2^256 - n has one bit more than half of the limbs.
ASSUME LimbAssumption ==
  /\ W64 = 2 * W32 /\ W32 >= 3 /\ N % 2 = 1 /\ 3 * SignedSlack <= W32
  /\ LET c == 2^(4 * W64) - N IN 2^(2 * W64) <= c /\ c < 2 * 2^(2 * W64)
  /\ Starts \subseteq 0..(N-1) /\ Operands \subseteq 0..(N-1)

Digits(b, v, len) == [i \in 1..len |-> (v \div 2^(b.w * (i - 1))) % 2^b.w]
NTables ==
  [limbs \in {4, 8} |->
     LET b == Limbed(IF limbs = 4 THEN 64 ELSE 32)
     IN  [n |-> Digits(b, N, limbs), c |-> Digits(b, 2^(b.w * limbs) - N, limbs \div 2 + 1),
          half |-> Digits(b, N \div 2, limbs)]]
NLimbs(b) == NTables[b.limbs].n
NC(b) == NTables[b.limbs].c
NHalf(b) == NTables[b.limbs].half

Number(b, d) ==
  LET above[i \in 1..(Len(d) + 1)] == IF i > Len(d) THEN 0 ELSE above[i+1] * 2^b.w + d[i] IN above[1]

\* Carry the sums of the columns upwards, through an accumulator.
RECURSIVE CarryFrom(_, _, _)
CarryFrom(b, cols, acc) ==
  IF Len(acc) = Len(cols) THEN acc
  ELSE CarryFrom(b, cols, Append(acc, cols[Len(acc) + 1]
                                       + IF acc = <<>> THEN 0 ELSE acc[Len(acc)] \div 2^b.w))

Carry(b, cols) ==
  LET acc == CarryFrom(b, cols, <<>>)
  IN  [d |-> [k \in 1..Len(cols) |-> acc[k] % 2^b.w], out |-> acc[Len(cols)] \div 2^b.w, acc |-> acc]

\* muladd, sumadd and extract: all sums fit three words, those of the columns in
\* fast two.
Fits(b, acc, fast) ==
  \A k \in DOMAIN acc : acc[k] < 2^(b.w * IF k \in fast THEN 2 ELSE 3)

Column(x, y, k) ==
  LET sum[i \in 0..Len(x)] ==
        IF i = 0 THEN 0 ELSE sum[i-1] + IF k + 1 - i \in 1..Len(y) THEN x[i] * y[k+1-i] ELSE 0
  IN  sum[Len(x)]

set_int(b, v) == [i \in 1..b.limbs |-> IF i = 1 THEN v ELSE 0]

is_zero(d) == \A i \in 1..Len(d) : d[i] = 0

is_even(d) == d[1] % 2 = 0

\* Within a limb, and over the end of one.
get_bits(b, d, offset, count) ==
  (d[offset \div b.w + 1] \div 2^(offset % b.w)) % 2^count

\* Mutant: only the limb of the first bit is read.
get_bits_var_OneLimb(b, d, offset, count) == get_bits(b, d, offset, count)

get_bits_var(b, d, offset, count) ==
  IF (offset + count - 1) \div b.w = offset \div b.w THEN get_bits(b, d, offset, count)
  ELSE ((d[offset \div b.w + 1] \div 2^(offset % b.w))
        + (d[offset \div b.w + 2] * 2^(b.w - (offset % b.w)))) % 2^count

\* d >= bound, or d > bound, by the first limb from above that differs.
Exceeds(d, bound, strict) ==
  \E k \in 1..Len(d) :
    /\ \A j \in (k+1)..Len(d) : d[j] >= bound[j]
    /\ d[k] > bound[k] \/ (k = 1 /\ ~strict /\ d[1] = bound[1])

\* Mutant: the order itself does not count as an overflow.
check_overflow_Strict(b, d) == Exceeds(d, NLimbs(b), TRUE)

check_overflow(b, d) == Exceeds(d, NLimbs(b), FALSE)

is_high(b, d) == Exceeds(d, NHalf(b), TRUE)

\* overflow times n is taken away by adding 2^256 - n.
reduce(b, d, overflow) ==
  LET c == NC(b) IN Carry(b, [i \in 1..b.limbs |-> d[i] + IF i <= Len(c) THEN overflow * c[i] ELSE 0]).d

One_if(cond) == IF cond THEN 1 ELSE 0

add(b, x, y) ==
  LET s == Carry(b, [i \in 1..b.limbs |-> x[i] + y[i]])
      overflow == s.out + One_if(check_overflow(b, s.d))
  IN  [d |-> reduce(b, s.d, overflow), ok |-> overflow <= 1, overflow |-> overflow]

\* A flag that is not set moves the bit out of the number.
cadd_bit(b, d, bit, flag) ==
  LET at == bit + IF flag THEN 0 ELSE b.w * b.limbs
      s == Carry(b, [i \in 1..b.limbs |-> d[i] + IF at \div b.w = i - 1 THEN 2^(at % b.w) ELSE 0])
  IN  [d |-> s.d, ok |-> s.out = 0 /\ ~check_overflow(b, s.d)]

\* From a number of 32 bytes, big endian, as a value.
set_b32(b, v) ==
  LET d == Digits(b, v, b.limbs) IN [d |-> reduce(b, d, One_if(check_overflow(b, d))), overflow |-> check_overflow(b, d)]

get_b32(b, d) == Number(b, d)

\* The complement plus n plus 1, but 0 stays 0.
negate(b, d) ==
  LET s == Carry(b, [i \in 1..b.limbs |-> (2^b.w - 1 - d[i]) + NLimbs(b)[i] + One_if(i = 1)]).d
  IN  IF is_zero(d) THEN set_int(b, 0) ELSE s

cond_negate(b, d, flag) == IF flag THEN negate(b, d) ELSE d

\* Mutant: the second column, too, is added up with the fast macros.
mul_512_FastSecond(b, x, y) ==
  LET s == Carry(b, [k \in 1..(2 * b.limbs) |-> Column(x, y, k)])
  IN  [l |-> s.d, ok |-> s.out = 0 /\ Fits(b, s.acc, {1, 2, 2 * b.limbs - 1, 2 * b.limbs})]

mul_512(b, x, y) ==
  LET s == Carry(b, [k \in 1..(2 * b.limbs) |-> Column(x, y, k)])
  IN  [l |-> s.d, ok |-> s.out = 0 /\ Fits(b, s.acc, {1, 2 * b.limbs - 1, 2 * b.limbs})]

\* lo + hi * (2^256 - n): the limbs above 2^256 come down, n digits of the sum.
FoldHigh(b, lo, hi, n, fast) ==
  LET s == Carry(b, [k \in 1..n |-> Column(hi, NC(b), k) + IF k <= Len(lo) THEN lo[k] ELSE 0])
  IN  [d |-> s.d, ok |-> s.out = 0 /\ Fits(b, s.acc, fast)]

\* From 512 bits to 385, to 258, to 256 and a carry, and below n.
reduce_512(b, l) ==
  LET n == b.limbs
      half == n \div 2
      m == FoldHigh(b, SubSeq(l, 1, n), SubSeq(l, n + 1, 2 * n), n + half + 1, {1, n + half, n + half + 1})
      p == FoldHigh(b, SubSeq(m.d, 1, n), SubSeq(m.d, n + 1, n + half + 1), n + 1, {1, n, n + 1})
      c == NC(b)
      r == Carry(b, [k \in 1..n |-> p.d[k] + IF k <= Len(c) THEN c[k] * p.d[n+1] ELSE 0])
      over == r.out + One_if(check_overflow(b, r.d))
  IN  [d |-> reduce(b, r.d, over),
       ok |-> m.ok /\ p.ok /\ m.d[n + half + 1] <= 1 /\ p.d[n + 1] <= 2 /\ over <= 1]

mul(b, x, y) ==
  LET l == mul_512(b, x, y)
      r == reduce_512(b, l.l)
  IN  [d |-> r.d, ok |-> l.ok /\ r.ok]

\* The bits that fall off, and the rest.
shr_int(b, d, n) ==
  [low |-> d[1] % 2^n,
   d |-> [i \in 1..b.limbs |-> (d[i] \div 2^n) + IF i < b.limbs THEN (d[i+1] * 2^(b.w - n)) % 2^b.w ELSE 0]]

split_128(b, d) ==
  LET half == b.limbs \div 2
      part(from) == [i \in 1..b.limbs |-> IF i <= half THEN d[from + i] ELSE 0]
  IN  <<part(0), part(half)>>

\* The product shifted down, rounded by the last bit shifted out; a limb takes
\* bits from the one above unless the shift is whole limbs.
mul_shift_var(b, x, y, shift) ==
  LET l == mul_512(b, x, y).l
      limbs == shift \div b.w
      low == shift % b.w
      at(i) == IF i <= 2 * b.limbs THEN l[i] ELSE 0
      r == [i \in 1..b.limbs |-> (at(i + limbs) \div 2^low)
                                 + IF low = 0 THEN 0 ELSE (at(i + limbs + 1) * 2^(b.w - low)) % 2^b.w]
  IN  cadd_bit(b, r, 0, (l[(shift - 1) \div b.w + 1] \div 2^((shift - 1) % b.w)) % 2 = 1)

cmov(d, e, flag) == IF flag THEN e ELSE d

\* To limbs that are shorter by SignedSlack bits, for the modular inversion, and
\* back: each limb is put together from two.
SignedWidth(b) == b.w - SignedSlack
SignedLimbs(b) == (b.w * b.limbs + SignedWidth(b) - 1) \div SignedWidth(b)

Piece(d, w, bit, width) ==
  LET i == bit \div w + 1
      off == bit % w
  IN  ((d[i] \div 2^off) + (IF i < Len(d) THEN d[i+1] * 2^(w - off) ELSE 0)) % 2^width

to_signed62(b, d) == [i \in 1..SignedLimbs(b) |-> Piece(d, b.w, SignedWidth(b) * (i - 1), SignedWidth(b))]

from_signed62(b, s) == [i \in 1..b.limbs |-> Piece(s, SignedWidth(b), b.w * (i - 1), b.w)]

-----------------------------------------------------------------------------
VARIABLES
  reg   \* v: the value; d: the limbs of each build; ok; ops so far

RegInit ==
  \E v \in Starts :
    reg = [v |-> v, ok |-> TRUE, ops |-> 0, d |-> [n \in Builds |-> Digits(Limbed(n), v, Limbed(n).limbs)]]

Operate(v, r(_)) ==
  /\ reg.ops < MaxOps
  /\ reg' = [v |-> v, ops |-> reg.ops + 1, d |-> [n \in Builds |-> r(n).d],
             ok |-> reg.ok /\ \A n \in Builds : r(n).ok]

Limbs_of(n, v) == Digits(Limbed(n), v, Limbed(n).limbs)

\* The product modulo n, six bits at a time so that no number exceeds the
\* checker's integers.
MulMod(x, y) ==
  LET part(s, shift) == ((s * 64) + x * ((y \div 2^shift) % 64)) % N
  IN  part(part(part(part(0, 18), 12), 6), 0)

Add(y) == Operate((reg.v + y) % N, LAMBDA n : add(Limbed(n), reg.d[n], Limbs_of(n, y)))

Mul(y) == Operate(MulMod(reg.v, y), LAMBDA n : mul(Limbed(n), reg.d[n], Limbs_of(n, y)))

CondNegate(flag) ==
  Operate(IF flag THEN (N - reg.v) % N ELSE reg.v,
          LAMBDA n : [d |-> cond_negate(Limbed(n), reg.d[n], flag), ok |-> TRUE])

\* As wnaf_const and mul_shift_var use it: the sum stays below n.
CaddBit(bit, flag) ==
  /\ reg.v + 2^bit < N
  /\ Operate(reg.v + IF flag THEN 2^bit ELSE 0, LAMBDA n : cadd_bit(Limbed(n), reg.d[n], bit, flag))

ShrInt(k) == Operate(reg.v \div 2^k, LAMBDA n : [d |-> shr_int(Limbed(n), reg.d[n], k).d, ok |-> TRUE])

Split128(part) ==
  Operate(IF part = 1 THEN reg.v % 2^(2 * W64) ELSE reg.v \div 2^(2 * W64),
          LAMBDA n : [d |-> split_128(Limbed(n), reg.d[n])[part], ok |-> TRUE])

\* Bytes that are not reduced.
SetB32(v) ==
  Operate(v % N, LAMBDA n : [d |-> set_b32(Limbed(n), v).d,
                             ok |-> set_b32(Limbed(n), v).overflow = (v >= N)])

RegNext ==
  \/ \E y \in Operands : Add(y) \/ Mul(y)
  \/ \E flag \in BOOLEAN : CondNegate(flag)
  \/ \E flag \in BOOLEAN, bit \in {0, 1, 2 * W64, 4 * W64 - 2} : CaddBit(bit, flag)
  \/ \E k \in 1..(W32 - 1) : ShrInt(k)
  \/ \E part \in {1, 2} : Split128(part)
  \/ \E y \in Operands : SetB32(2^(4 * W64) - 1 - y) \/ SetB32(N + (y % (2^(4 * W64) - N)))

RegSpec == RegInit /\ [][RegNext]_reg

-----------------------------------------------------------------------------
\* Both builds compute the same scalar, and a reduced one, whatever operation was
\* applied to whatever limbs: the reductions after a sum and a product find
\* every overflow (scalar_4x64_impl.h:61-101, 470-559).
LimbsAreReduced ==
  \A n \in Builds :
    /\ \A i \in 1..Len(reg.d[n]) : reg.d[n][i] \in 0..(2^Limbed(n).w - 1)
    /\ get_b32(Limbed(n), reg.d[n]) = reg.v
    /\ reg.v < N

\* No accumulator of a product or a reduction loses a carry: the macros without a
\* third word are used where two suffice, and the limbs above the last fold are
\* what the code asserts (m6 <= 1, p4 <= 2).
AccumulatorsFit == reg.ok

\* What the digit notations and the lattice split read off a scalar is the same
\* in both builds and is what its value says.
ReadersAgree ==
  reg.ops > 0 =>
    LET v == reg.v
        bits == 4 * W64
        half(x) == x \div 2
    IN  \A n \in Builds :
          LET b == Limbed(n)
              d == reg.d[n]
          IN  /\ is_high(b, d) = (v > half(N)) /\ is_even(d) = (v % 2 = 0) /\ is_zero(d) = (v = 0)
              /\ \A offset \in 0..(bits - 1), count \in {1, 2, b.w} :
                   offset + count <= bits =>
                     get_bits_var(b, d, offset, count) = (v \div 2^offset) % 2^count
              /\ \A k \in 1..(W32 - 1) : shr_int(b, d, k).low = v % 2^k
              /\ from_signed62(b, to_signed62(b, d)) = d
              /\ \A i \in 1..SignedLimbs(b) : to_signed62(b, d)[i] < 2^SignedWidth(b)
              /\ \A y \in {N - 1, N \div 3}, shift \in {bits, bits + 7, 6 * W64} :
                   LET l == mul_512(b, d, Digits(b, y, b.limbs)).l
                       bit(i) == IF i >= 2 * bits THEN 0 ELSE (l[i \div b.w + 1] \div 2^(i % b.w)) % 2
                       from[i \in 0..bits] == IF i = bits THEN 0 ELSE 2 * from[i+1] + bit(shift + i)
                   IN  Number(b, mul_shift_var(b, d, Digits(b, y, b.limbs), shift).d) = bit(shift - 1) + from[0]

\* The scalars of both builds (scalar_4x64_impl.h, scalar_8x32_impl.h): the same
\* reduced number, computed without a lost carry and read without loss.
ScalarsCorrect == LimbsAreReduced /\ AccumulatorsFit /\ ReadersAgree

=============================================================================
