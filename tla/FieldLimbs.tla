----------------------------- MODULE FieldLimbs -----------------------------
(***************************************************************************)
(* Field elements as the builds for 64 and for 32 bit processors hold      *)
(* them: field_5x52_impl.h, with the products of field_5x52_int128_impl.h  *)
(* or field_5x52_asm_impl.h, and field_10x26_impl.h.  Limbs, lowest first, *)
(* may exceed their width: a magnitude bounds by how much.  The two share  *)
(* every algorithm but the products, so a build f is a record of widths:   *)
(* w bits of a limb, top bits of the last one, the modulus                 *)
(* 2^((limbs-1)*w + top) - c0 - c1 * 2^w, and the bits of a word.  Words   *)
(* and accumulators are those of the code, scaled with w: what does not    *)
(* fit is remembered in ok.                                                *)
(***************************************************************************)
EXTENDS Integers, Sequences

CONSTANTS
  FW52, FW26,   \* bits of a limb: 52 and 26
  FL26,         \* limbs of the build for 32 bits: 10; the other one has 5
  FT,           \* bits that the last limb is shorter: 4
  FC52,         \* 2^256 - p: 0x1000003D1, as one limb
  FC26,         \* and as two: <<0x3D1, 0x40>>
  FByte,        \* bits of a byte
  FSlack,       \* bits that a limb of the modular inversion is shorter than a word
  FStarts,      \* bound: numbers elements start with, as offsets from 0 (or from p if negative)
  FMaxM,        \* bound: magnitudes
  FMaxOps       \* bound: operations on an element

FBuilds == {52, 26}

\* With FT = 4 the words have 64 and 32 bits, the magnitudes that fe_verify allows
\* are 2048 and 32, and a factor may have the magnitude 8.
FBuild(n) ==
  IF n = 52 THEN [id |-> 52, w |-> FW52, limbs |-> 5, top |-> FW52 - FT, c0 |-> FC52, c1 |-> 0,
                  word |-> FW52 + 2 * FT + 4, maxm |-> 2^(2 * FT + 3)]
  ELSE [id |-> 26, w |-> FW26, limbs |-> FL26, top |-> FW26 - FT, c0 |-> FC26[1], c1 |-> FC26[2],
        word |-> FW26 + FT + 2, maxm |-> 2^(FT + 1)]

MulM == 2^(FT - 1)

Capped(f) == IF f.maxm <= FMaxM THEN f.maxm ELSE FMaxM

FP == [n \in FBuilds |->
         LET f == FBuild(n) IN 2^((f.limbs - 1) * f.w + f.top) - f.c0 - f.c1 * 2^f.w]

\* A normalized element can be negated with any magnitude, R = c << FT is a limb,
\* and the carries into the last limb are few against its width.
ASSUME FieldLimbsAssumption ==
  \A n \in FBuilds :
    LET f == FBuild(n)
    IN  /\ f.limbs >= 4 /\ Capped(f) >= 2 /\ 2 * Capped(f) + 1 < 2^f.top
        /\ f.c0 * 2^FT < 2^f.w /\ (f.c1 + 1) * 2^FT < 2^f.w
        /\ Capped(f) * (2^f.w - 1) <= (Capped(f) + 1) * (2^f.w - f.c0)
        /\ Capped(f) * (2^f.w - 1) <= (Capped(f) + 1) * (2^f.w - 1 - f.c1)
        /\ FStarts \subseteq -FP[n]..(FP[n] - 1)

FDigits(w, v, len) == [i \in 1..len |-> (v \div 2^(w * (i - 1))) % 2^w]

\* The largest limbs of a number of 256 bits, and the limbs of p.
Mask(f) == [i \in 1..f.limbs |-> 2^(IF i = f.limbs THEN f.top ELSE f.w) - 1]
PLimbs(f) == [i \in 1..f.limbs |-> Mask(f)[i] - IF i = 1 THEN f.c0 - 1 ELSE IF i = 2 THEN f.c1 ELSE 0]

\* k doublings modulo p, one at a time: no number exceeds the checker's integers.
FDoubled(p, v, k) == LET twice[i \in 0..k] == IF i = 0 THEN v ELSE (2 * twice[i-1]) % p IN twice[k]

FMulMod(p, x, y) ==
  LET part[k \in 0..30] == IF k = 30 THEN 0 ELSE (2 * part[k+1] + (IF (y \div 2^k) % 2 = 1 THEN x ELSE 0)) % p
  IN  part[0]

\* The value of limbs, modulo p.
FValue(f, n) ==
  LET above[i \in 1..(f.limbs + 1)] == IF i > f.limbs THEN 0 ELSE (FDoubled(FP[f.id], above[i+1], f.w) + n[i]) % FP[f.id]
  IN  above[1]

\* secp256k1_fe_verify.
limbs_verify(f, a) ==
  LET m == IF a.norm THEN 1 ELSE 2 * a.m
  IN  /\ \A i \in 1..f.limbs : a.n[i] \in 0..(m * Mask(f)[i])
      /\ a.m \in 0..f.maxm
      /\ a.norm => /\ a.m <= 1
                   /\ \E i \in 1..f.limbs : a.n[i] # Mask(f)[i] /\ \A j \in (i+1)..f.limbs : a.n[j] = Mask(f)[j]
                                            /\ (i = 1 => a.n[1] < PLimbs(f)[1])
                                            /\ (i = 2 /\ a.n[2] = PLimbs(f)[2] => a.n[1] < PLimbs(f)[1])

\* x * (2^256 - p) is added, and the carries go up to the last limb.
RECURSIVE FCarryFrom(_, _, _, _)
FCarryFrom(f, t, i, ok) ==
  IF i = f.limbs THEN [t |-> t, ok |-> ok /\ t[i] < 2^f.word]
  ELSE FCarryFrom(f, [t EXCEPT ![i] = t[i] % 2^f.w, ![i+1] = t[i+1] + (t[i] \div 2^f.w)], i + 1,
                  ok /\ t[i] < 2^f.word)

FirstPass(f, t, x) == FCarryFrom(f, [t EXCEPT ![1] = t[1] + x * f.c0, ![2] = t[2] + x * f.c1], 1, TRUE)

\* Mutant: the bits above the width of the last limb are added in below but stay.
Folded_KeepsTop(f, n) == FirstPass(f, n, n[f.limbs] \div 2^f.top)

\* The bits of the last limb above its width are taken away first, so that there
\* is at most a single carry out of the pass.
Folded(f, n) ==
  FirstPass(f, [n EXCEPT ![f.limbs] = n[f.limbs] % 2^f.top], n[f.limbs] \div 2^f.top)

\* A number below 2^256 that is p or more.
AtLeastP(f, t) ==
  /\ t[f.limbs] = 2^f.top - 1
  /\ \A i \in (IF f.c1 = 0 THEN 2 ELSE 3)..(f.limbs - 1) : t[i] = 2^f.w - 1
  /\ IF f.c1 = 0 THEN t[1] >= 2^f.w - f.c0
     ELSE t[2] + f.c1 + ((t[1] + f.c0) \div 2^f.w) > 2^f.w - 1

fe_limbs_normalize(f, a) ==
  LET first == Folded(f, a.n)
      x == IF first.t[f.limbs] \div 2^f.top > 0 \/ AtLeastP(f, first.t) THEN 1 ELSE 0
      r == FirstPass(f, first.t, x)
      last == r.t[f.limbs]
  IN  [n |-> [r.t EXCEPT ![f.limbs] = last % 2^f.top], m |-> 1, norm |-> TRUE,
       ok |-> first.ok /\ first.t[f.limbs] \div 2^(f.top + 1) = 0 /\ last \div 2^f.top = x]

\* normalize_weak leaves the flag alone.
fe_limbs_normalize_weak(f, a) ==
  LET first == Folded(f, a.n)
  IN  [n |-> first.t, m |-> 1, norm |-> a.norm, ok |-> first.ok /\ first.t[f.limbs] \div 2^(f.top + 1) = 0]

\* Only a number that needs the final reduction gets it.
fe_limbs_normalize_var(f, a) ==
  LET first == Folded(f, a.n)
      needed == first.t[f.limbs] \div 2^f.top > 0 \/ AtLeastP(f, first.t)
      r == FirstPass(f, first.t, 1)
      last == r.t[f.limbs]
  IN  [n |-> IF needed THEN [r.t EXCEPT ![f.limbs] = last % 2^f.top] ELSE first.t, m |-> 1, norm |-> TRUE,
       ok |-> first.ok /\ (needed => last \div 2^f.top = 1)]

\* Mutant: of the two raw forms of zero only 0 is known.
fe_limbs_normalizes_to_zero_RawOnly(f, n) == Folded(f, n).t = [i \in 1..f.limbs |-> 0]

\* A raw 0 or a raw p after the first pass (z0 and z1).
fe_limbs_normalizes_to_zero(f, n) ==
  LET t == Folded(f, n).t IN t = [i \in 1..f.limbs |-> 0] \/ t = PLimbs(f)

\* It looks at the lowest limb first: neither 0 nor that of p is the fast answer.
fe_limbs_normalizes_to_zero_var(f, n) ==
  LET t0 == n[1] + (n[f.limbs] \div 2^f.top) * f.c0
  IN  t0 % 2^f.w \in {0, PLimbs(f)[1]} /\ fe_limbs_normalizes_to_zero(f, n)

fe_limbs_set_int(f, v) == [n |-> [i \in 1..f.limbs |-> IF i = 1 THEN v ELSE 0], m |-> 1, norm |-> TRUE, ok |-> TRUE]

fe_limbs_is_zero(n) == \A i \in 1..Len(n) : n[i] = 0

fe_limbs_is_odd(n) == n[1] % 2 = 1

\* Mutant: the lowest limb that differs decides.
fe_limbs_cmp_var_Lowest(x, y) ==
  IF x = y THEN 0
  ELSE LET i == CHOOSE k \in 1..Len(x) : x[k] # y[k] /\ \A j \in 1..(k-1) : x[j] = y[j]
       IN  IF x[i] > y[i] THEN 1 ELSE -1

\* By the highest limb that differs.
fe_limbs_cmp_var(x, y) ==
  IF x = y THEN 0
  ELSE LET i == CHOOSE k \in 1..Len(x) : x[k] # y[k] /\ \A j \in (k+1)..Len(x) : x[j] = y[j]
       IN  IF x[i] > y[i] THEN 1 ELSE -1

\* The bits of digits of w bits, grouped into len digits of v bits.
Regroup(d, w, v, len) ==
  LET bit(k) == IF k < w * Len(d) THEN (d[(k \div w) + 1] \div 2^(k % w)) % 2 ELSE 0
      digit(i) == LET sum[j \in 0..v] == IF j = v THEN 0 ELSE bit(v * (i - 1) + j) + 2 * sum[j+1] IN sum[0]
  IN  [i \in 1..len |-> digit(i)]

FBits(f) == (f.limbs - 1) * f.w + f.top
CeilDiv(x, y) == (x + y - 1) \div y

\* From bytes, lowest first here; 0 is returned for p and above, whose limbs are
\* set all the same.
fe_limbs_set_b32(f, bytes) ==
  LET n == Regroup(bytes, FByte, f.w, f.limbs)
  IN  [n |-> n, m |-> 1, norm |-> ~AtLeastP(f, n), ok |-> TRUE, ret |-> ~AtLeastP(f, n)]

fe_limbs_get_b32(f, n) == Regroup(n, f.w, FByte, CeilDiv(FBits(f), FByte))

\* Mutant: the magnitude is not raised.
fe_limbs_negate_SameM(f, a, m) ==
  [n |-> [i \in 1..f.limbs |-> PLimbs(f)[i] * 2 * (m + 1) - a.n[i]], m |-> m, norm |-> FALSE, ok |-> a.m <= m]

fe_limbs_negate(f, a, m) ==
  [n |-> [i \in 1..f.limbs |-> PLimbs(f)[i] * 2 * (m + 1) - a.n[i]], m |-> m + 1, norm |-> FALSE, ok |-> a.m <= m]

fe_limbs_mul_int(f, a, k) ==
  [n |-> [i \in 1..f.limbs |-> a.n[i] * k], m |-> a.m * k, norm |-> FALSE, ok |-> TRUE]

fe_limbs_add(f, a, b) ==
  [n |-> [i \in 1..f.limbs |-> a.n[i] + b.n[i]], m |-> a.m + b.m, norm |-> FALSE, ok |-> TRUE]

fe_limbs_cmov(a, b, flag) == IF flag THEN b ELSE a

\* Storage is packed into whole words.
fe_limbs_to_storage(f, n) == Regroup(n, f.w, f.word, CeilDiv(FBits(f), f.word))

fe_limbs_from_storage(f, s) ==
  [n |-> Regroup(s, f.word, f.w, f.limbs), m |-> 1, norm |-> TRUE, ok |-> TRUE]

SignedBits(f) == f.word - FSlack

fe_to_signed62(f, n) == Regroup(n, f.w, SignedBits(f), CeilDiv(FBits(f), SignedBits(f)))

fe_from_signed62(f, s) == [n |-> Regroup(s, SignedBits(f), f.w, f.limbs), m |-> 1, norm |-> TRUE, ok |-> TRUE]

-----------------------------------------------------------------------------
\* The column k of a product: the sum of x[i] * y[j] with i + j = k, counted from
\* 0; and of a square, where a pair of different limbs is multiplied once, by the
\* double of one.
FColumn(x, y, k) ==
  LET sum[i \in 0..Len(x)] ==
        IF i = 0 THEN 0 ELSE sum[i-1] + IF k + 2 - i \in 1..Len(y) THEN x[i] * y[k+2-i] ELSE 0
  IN  sum[Len(x)]

FSquareColumn(x, k) ==
  LET sum[i \in 0..Len(x)] ==
        IF i = 0 THEN 0
        ELSE sum[i-1] + IF k + 2 - i \notin 1..Len(x) \/ k + 2 - i < i THEN 0
                        ELSE IF k + 2 - i = i THEN x[i] * x[i] ELSE (2 * x[i]) * x[k+2-i]
  IN  sum[Len(x)]

\* Five limbs, with the columns p: the high columns come down in the order 8, 5,
\* 6, 7, in which the accumulator of 128 bits is emptied as soon as it is used.
\* What the comments and the VERIFY_BITS say of the widths is ok.
MulInner5(f, p, up(_)) ==
  LET w == f.w
      M(x) == x % 2^w
      R == f.c0 * 2^FT
      d3 == p[3] + M(p[8]) * R
      c8 == up(p[8])
      t3 == M(d3)
      d4 == up(d3) + p[4] + c8 * R
      tx == M(d4) \div 2^(w - FT)
      t4 == M(d4) % 2^(w - FT)
      d5 == up(d4) + p[5]
      u0 == M(d5) * 2^FT + tx
      c0 == p[0] + u0 * (R \div 2^FT)
      d6 == up(d5) + p[6]
      c1 == up(c0) + p[1] + M(d6) * R
      d7 == up(d6) + p[7]
      c2 == up(c1) + p[2] + M(d7) * R
      c3 == up(c2) + up(d7) * R + t3
      c4 == up(c3) + t4
  IN  [n |-> <<M(c0), M(c1), M(c2), M(c3), c4>>,
       ok |-> LET bits(x, k) == x < 2^k
                  twice == 2 * (w + FT)
              IN  /\ \A x \in {p[3], d6, d7, p[1] + up(c0), p[2] + up(c1)} : bits(x, twice + 2)
                  /\ \A x \in {d3, d5, c0, c1, c2} : bits(x, twice + 3)
                  /\ bits(d4, twice + 4) /\ bits(c8, w + 2 * FT) /\ bits(u0, w + FT)
                  /\ bits(up(d4), f.word) /\ bits(up(c0), w + 2 * FT + 1) /\ bits(up(d7), w + 2 * FT + 2)
                  /\ bits(c3, 2 * w - FT) /\ bits(c4, f.top + 1)]

fe_mul_inner_5x52(f, x, y) == MulInner5(f, [k \in 0..8 |-> FColumn(x, y, k)], LAMBDA a : a \div 2^f.w)

fe_sqr_inner_5x52(f, x) == MulInner5(f, [k \in 0..8 |-> FSquareColumn(x, k)], LAMBDA a : a \div 2^f.w)

\* The assembly for x86_64: an accumulator is a pair of registers, and a shift
\* (shrdq) leaves the low one only.
fe_mul_inner_5x52_asm(f, x, y) ==
  MulInner5(f, [k \in 0..8 |-> FColumn(x, y, k)], LAMBDA a : (a \div 2^f.w) % 2^f.word)

fe_sqr_inner_5x52_asm(f, x) ==
  MulInner5(f, [k \in 0..8 |-> FSquareColumn(x, k)], LAMBDA a : (a \div 2^f.w) % 2^f.word)

\* Ten limbs: c makes the low columns and d the high ones; each limb u that d
\* gives comes down by R0 into the column of c, and by R1 into the next.
RECURSIVE MulColumns(_, _, _)
MulColumns(f, p, s) ==
  IF s.k = f.limbs - 1 THEN s
  ELSE LET w == f.w
           d == s.d + p[f.limbs + s.k]
           u == d % 2^w
           low == s.c + p[s.k]
           c == low + u * (f.c0 * 2^FT)
       IN  MulColumns(f, p, [k |-> s.k + 1, d |-> d \div 2^w, t |-> Append(s.t, c % 2^w),
                             c |-> (c \div 2^w) + u * (f.c1 * 2^FT),
                             ok |-> s.ok /\ d < 2^(2 * f.word) /\ c < 2^(2 * f.word)])

MulInner10(f, p) ==
  LET w == f.w
      len == f.limbs
      R0 == f.c0 * 2^FT
      R1 == f.c1 * 2^FT
      s == MulColumns(f, p, [k |-> 0, d |-> p[len-1] \div 2^w, c |-> 0, t |-> <<>>, ok |-> p[len-1] < 2^(2 * f.word)])
      t9 == p[len-1] % 2^w
      c9 == s.c + s.d * R0 + t9
      over == (c9 \div 2^f.top) + s.d * (R1 * 2^FT)
      d0 == over * (R0 \div 2^FT) + s.t[1]
      d1 == (d0 \div 2^w) + over * (R1 \div 2^FT) + s.t[2]
      d2 == (d1 \div 2^w) + s.t[3]
  IN  [n |-> [i \in 1..len |-> CASE i = 1 -> d0 % 2^w [] i = 2 -> d1 % 2^w [] i = 3 -> d2
                                 [] i = len -> c9 % 2^f.top [] OTHER -> s.t[i]],
       ok |-> /\ s.ok /\ c9 < 2^(2 * f.word) /\ d1 < 2^(2 * f.word)
              /\ d1 \div 2^w <= 2^w /\ d2 < 2^(w + 1)]

fe_mul_inner_10x26(f, x, y) == MulInner10(f, [k \in 0..(2 * f.limbs - 2) |-> FColumn(x, y, k)])

\* The doubled limbs are words.
fe_sqr_inner_10x26(f, x) ==
  LET r == MulInner10(f, [k \in 0..(2 * f.limbs - 2) |-> FSquareColumn(x, k)])
  IN  [r EXCEPT !.ok = r.ok /\ \A i \in 1..f.limbs : 2 * x[i] < 2^f.word]

\* A product by each of the builds' inner functions.
Factor(r, ok) == [n |-> r.n, m |-> 1, norm |-> FALSE, ok |-> r.ok /\ ok]

fe_limbs_mul(f, a, b) ==
  LET inner == IF f.id = 52 THEN {fe_mul_inner_5x52(f, a.n, b.n), fe_mul_inner_5x52_asm(f, a.n, b.n)}
               ELSE {fe_mul_inner_10x26(f, a.n, b.n)}
  IN  {Factor(r, a.m <= MulM /\ b.m <= MulM) : r \in inner}

fe_limbs_sqr(f, a) ==
  LET inner == IF f.id = 52 THEN {fe_sqr_inner_5x52(f, a.n), fe_sqr_inner_5x52_asm(f, a.n)}
               ELSE {fe_sqr_inner_10x26(f, a.n)}
  IN  {Factor(r, a.m <= MulM) : r \in inner}

-----------------------------------------------------------------------------
VARIABLES
  fe   \* the element a: [n, m, norm]; the build f; the value v; another element b, of
       \* the value u; ok; operations so far; what the last one was

FStart(n, s) == IF s >= 0 THEN s ELSE FP[n] + s

FByValue(f, v) == [n |-> FDigits(f.w, v, f.limbs), m |-> 1, norm |-> TRUE]

FieldInit ==
  \E id \in FBuilds, s \in FStarts, r \in FStarts :
    fe = [f |-> id, a |-> FByValue(FBuild(id), FStart(id, s)), v |-> FStart(id, s),
          b |-> FByValue(FBuild(id), FStart(id, r)), u |-> FStart(id, r), ok |-> TRUE, ops |-> 0]

\* An operation makes an element of the value v; what the code above the field
\* promises of the magnitudes is the guard.
Field(r, v) ==
  /\ fe.ops < FMaxOps
  /\ fe' = [fe EXCEPT !.a = [n |-> r.n, m |-> r.m, norm |-> r.norm], !.v = v,
                      !.ok = fe.ok /\ r.ok, !.ops = fe.ops + 1]

Normalize ==
  LET f == FBuild(fe.f)
  IN  \E r \in {fe_limbs_normalize(f, fe.a), fe_limbs_normalize_var(f, fe.a), fe_limbs_normalize_weak(f, fe.a)} :
        Field(r, fe.v)

\* m is the magnitude that the caller knows.
Negate(m) ==
  /\ fe.a.m <= m /\ m < Capped(FBuild(fe.f))
  /\ Field(fe_limbs_negate(FBuild(fe.f), fe.a, m), (FP[fe.f] - fe.v) % FP[fe.f])

MulInt(k) ==
  /\ fe.a.m * k <= Capped(FBuild(fe.f))
  /\ Field(fe_limbs_mul_int(FBuild(fe.f), fe.a, k), FMulMod(FP[fe.f], fe.v, k))

FieldAdd ==
  /\ fe.a.m + fe.b.m <= Capped(FBuild(fe.f))
  /\ Field(fe_limbs_add(FBuild(fe.f), fe.a, fe.b), (fe.v + fe.u) % FP[fe.f])

FieldMul ==
  /\ fe.a.m <= MulM /\ fe.b.m <= MulM
  /\ \E r \in fe_limbs_mul(FBuild(fe.f), fe.a, fe.b) : Field(r, FMulMod(FP[fe.f], fe.v, fe.u))

FieldSqr ==
  /\ fe.a.m <= MulM
  /\ \E r \in fe_limbs_sqr(FBuild(fe.f), fe.a) : Field(r, FMulMod(FP[fe.f], fe.v, fe.v))

\* The other element takes part in the operations to come.
CmovOther(flag) ==
  /\ fe.ops < FMaxOps
  /\ fe' = [fe EXCEPT !.b = fe_limbs_cmov(fe.b, fe.a, flag), !.u = IF flag THEN fe.v ELSE fe.u, !.ops = fe.ops + 1]

\* A number of 32 bytes that may be p or more.
SetBytes(k) ==
  LET f == FBuild(fe.f)
      v == IF k >= 0 THEN k ELSE 2^FBits(f) + k
      r == fe_limbs_set_b32(f, FDigits(FByte, v, CeilDiv(FBits(f), FByte)))
  IN  Field([r EXCEPT !.ok = r.ret = (v < FP[fe.f])], v % FP[fe.f])

FieldNext ==
  \/ Normalize \/ FieldAdd \/ FieldMul \/ FieldSqr
  \/ \E m \in {1, 3, 7, 8} : Negate(m)
  \/ \E k \in {0, 2, 3, 4, 8} : MulInt(k)
  \/ \E flag \in BOOLEAN : CmovOther(flag)
  \/ \E k \in FStarts : SetBytes(k)

FieldSpec == FieldInit /\ [][FieldNext]_fe

-----------------------------------------------------------------------------
\* However elements were added, negated and multiplied: the limbs are bounded by
\* the magnitude, and their value is what the operations say.
MagnitudeHolds ==
  LET f == FBuild(fe.f)
  IN  limbs_verify(f, fe.a) /\ limbs_verify(f, fe.b) /\ FValue(f, fe.a.n) = fe.v

\* No word and no accumulator loses a carry, a normalization needs a single final
\* reduction, and set_b32 tells a number of p or more.
WordsSuffice == fe.ok

\* Every number modulo p has two raw forms after the first pass of a reduction
\* when it is small, and the tests for zero, in constant time and in variable
\* time, know both.
ZeroIsKnown ==
  LET f == FBuild(fe.f)
      z == fe.v = 0
  IN  /\ fe_limbs_normalizes_to_zero(f, fe.a.n) = z
      /\ fe_limbs_normalizes_to_zero_var(f, fe.a.n) = z
      /\ fe.a.norm => fe_limbs_is_zero(fe.a.n) = z

\* A normalized element is written and read without loss: as bytes, as storage and
\* as the limbs of the modular inversion; its parity and its order are those of
\* its value.
WrittenIsRead ==
  LET f == FBuild(fe.f)
      n == fe.a.n
  IN  fe.a.norm =>
        /\ fe_limbs_is_odd(n) = (fe.v % 2 = 1)
        /\ fe_limbs_get_b32(f, n) = FDigits(FByte, fe.v, CeilDiv(FBits(f), FByte))
        /\ fe_limbs_set_b32(f, fe_limbs_get_b32(f, n)).n = n
        /\ fe_limbs_from_storage(f, fe_limbs_to_storage(f, n)).n = n
        /\ fe_from_signed62(f, fe_to_signed62(f, n)).n = n
        /\ fe.b.norm => fe_limbs_cmp_var(n, fe.b.n) = (IF fe.v > fe.u THEN 1 ELSE IF fe.v < fe.u THEN -1 ELSE 0)

\* The field elements of both builds (field_10x26_impl.h, field_5x52_impl.h):
\* bounded limbs that carry the value, lose nothing, and know 0 in every form.
FieldCorrect == MagnitudeHolds /\ WordsSuffice /\ ZeroIsKnown /\ WrittenIsRead

=============================================================================
