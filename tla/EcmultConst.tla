---------------------------- MODULE EcmultConst ----------------------------
(***************************************************************************)
(* The multiplication of a point by a secret (ecmult_const_impl.h) and of  *)
(* the generator (ecmult_gen_impl.h), in constant time: every step adds    *)
(* something, so no digit may be 0, and a table of the generator is        *)
(* blinded by a point that cancels out over all its rows.  The context of  *)
(* ecmult_gen also keeps a blinding scalar and the point that undoes it.   *)
(***************************************************************************)
EXTENDS Ecmult

LOCAL INSTANCE SequencesExt   \* FoldLeft

CONSTANTS
  PrecB, PrecN,   \* ECMULT_GEN_PREC_B and _N: bits of a row, and rows
  NumsX           \* the x coordinate of the point without a known scalar

ASSUME PrecAssumption == PrecB \in Nat \ {0} /\ PrecN \in Nat /\ PrecN >= 2 /\ PrecB * PrecN >= ScalarBits

\* The number of digits of a constant time wNAF, less the last one.
WnafSizeBits(bits, w) == (bits + w - 1) \div w

\* A mutant: 2 is added to -1 too, which wraps.
wnaf_const_NoMinusOne(scalar, w, size) ==
  LET flip == scalar_is_high(scalar)
      bit == IF flip = scalar_is_even(scalar) THEN 1 ELSE 0
      s == scalar_cond_negate(scalar_cadd_bit(scalar, bit, TRUE), flip)
      sign == IF flip THEN -1 ELSE 1
      words == IF size = 0 THEN 1 ELSE WnafSizeBits(size, w)
      scan[word \in 0..words] ==
        IF word = 0 THEN [u |-> s % 2^w, s |-> s \div 2^w, out |-> <<>>]
        ELSE LET prev == scan[word-1]
                 sh == scalar_shr_int(prev.s, w)
                 even == IF sh.low % 2 = 0 THEN 1 ELSE 0
             IN  [u |-> sh.low + even, s |-> sh.r, out |-> Append(prev.out, (prev.u - even * 2^w) * sign)]
  IN  [wnaf |-> [i \in 0..words |-> IF i = words THEN scan[words].u * sign ELSE scan[words].out[i+1]],
       skew |-> 2^bit, rest |-> scan[words].s]

\* Odd digits wnaf[0..WnafSizeBits(size, w)] of the scalar plus skew.  A
\* scalar is negated if that makes it short, and made odd by adding 1 or 2, so
\* that there is always a skew; -1 plus 2 would overflow, and is negated only.
wnaf_const(scalar, w, size) ==
  LET flip == scalar_is_high(scalar)
      bit == IF flip = scalar_is_even(scalar) THEN 1 ELSE 0
      not_neg_one == scalar_negate(scalar) # 1
      s == scalar_cond_negate(scalar_cadd_bit(scalar, bit, not_neg_one), flip)
      sign == IF flip THEN -1 ELSE 1
      global_sign == IF not_neg_one THEN sign ELSE -sign
      words == IF size = 0 THEN 1 ELSE WnafSizeBits(size, w)
      scan[word \in 0..words] ==
        IF word = 0 THEN [u |-> s % 2^w, s |-> s \div 2^w, out |-> <<>>]
        ELSE LET prev == scan[word-1]
                 sh == scalar_shr_int(prev.s, w)
                 even == IF sh.low % 2 = 0 THEN 1 ELSE 0
             IN  [u |-> sh.low + even, s |-> sh.r,
                  out |-> Append(prev.out, (prev.u - even * 2^w) * global_sign)]
  IN  [wnaf |-> [i \in 0..words |-> IF i = words THEN scan[words].u * global_sign
                                    ELSE scan[words].out[i+1]],
       skew |-> 2^bit, rest |-> scan[words].s]

\* The table is read whole: every entry is moved in if it is the one.
ConstTableGet(pre, k) ==
  LET abs == IF k < 0 THEN -k ELSE k
      e == FoldLeft(LAMBDA r, m : ge_set_xy(fe_cmov(r.x, pre[m].x, m - 1 = abs \div 2),
                                            fe_cmov(r.y, pre[m].y, m - 1 = abs \div 2)),
                    ge_set_xy(pre[1].x, pre[1].y), [m \in 1..Len(pre) |-> m])
  IN  [e EXCEPT !.y = fe_cmov(@, fe_negate(@, 1), k # abs)]

\* The digits from the top one on, over one table, or over both.
const_steps(table, w_1, w_lam, both, top) ==
  LET w == WINDOW_A - 1
      pre_a == [i \in 1..Len(table.r) |-> [table.r[i] EXCEPT !.y = fe_normalize_weak(@)]]
      pre_a_lam == [i \in 1..Len(pre_a) |-> ge_mul_lambda(pre_a[i])]
      with_lam(r, i) == IF both THEN gej_add_ge(r, ConstTableGet(pre_a_lam, w_lam.wnaf[i])) ELSE r
      doubled(r) == FoldLeft(LAMBDA s, j : gej_double(s), r, [j \in 1..w |-> j])
      r[i \in 0..top] ==
        IF i = top THEN with_lam(gej_set_ge(ConstTableGet(pre_a, w_1.wnaf[top])), top)
        ELSE with_lam(gej_add_ge(doubled(r[i+1]), ConstTableGet(pre_a, w_1.wnaf[i])), i)
  IN  [r[0] EXCEPT !.z = fe_mul(@, table.globalz)]

\* What the skew added comes off at the end: a or 2a.
const_unskewed(r, a, w_1, w_lam, both) ==
  LET a2 == ge_to_storage(ge_set_gej(gej_double_var(gej_set_ge(a)).r))
      correction(skew) == ge_neg(ge_from_storage(IF skew = 2 THEN a2 ELSE ge_to_storage(a)))
      once == gej_add_ge(r, correction(w_1.skew))
  IN  IF both THEN gej_add_ge(once, ge_mul_lambda(correction(w_lam.skew))) ELSE once

\* scalar * a, where the scalar has no more than size bits, or any number of
\* bits when size exceeds HalfBits.
ecmult_const(a, scalar, size) ==
  LET both == size > HalfBits
      rsize == IF both THEN HalfBits ELSE size
      w == WINDOW_A - 1
      q == scalar_split_lambda(scalar)
      w_1 == wnaf_const(IF both THEN q[1] ELSE scalar, w, rsize)
      w_lam == wnaf_const(q[2], w, HalfBits)
      table == ecmult_odd_multiples_table_globalz_windowa(gej_set_ge(a))
  IN  const_unskewed(const_steps(table, w_1, w_lam, both, WnafSizeBits(rsize, w)), a, w_1, w_lam, both)

-----------------------------------------------------------------------------
\* All entries in a sequence: row j is numsbase[j], and gbase[j] more and more often.
gen_rows(gbase, numsbase) ==
  LET p[j \in 0..(PrecN-1), i \in 0..(2^PrecB-1)] ==
        IF i = 0 THEN numsbase[j] ELSE gej_add_var(p[j, i-1], gbase[j]).r
  IN  [k \in 1..(PrecN * 2^PrecB) |-> p[(k - 1) \div 2^PrecB, (k - 1) % 2^PrecB]]

\* The rows of the table: row j holds U_j + i * 2^(PrecB * j) * G, and the U_j
\* cancel out.
ecmult_gen_context_prec ==
  LET gj == gej_set_ge(GeOf(Generator))
      nums == gej_add_ge_var(gej_set_ge(ge_set_xo_var(fe_set_int(NumsX), FALSE).r), GeOf(Generator)).r
      twice(p, k) == FoldLeft(LAMBDA s, j : gej_double_var(s).r, p, [j \in 1..k |-> j])
      gbase[j \in 0..(PrecN-1)] == IF j = 0 THEN gj ELSE twice(gbase[j-1], PrecB)
      numsbase[j \in 0..(PrecN-1)] ==
        LET next == gej_double_var(numsbase[j-1]).r
        IN  CASE j = 0 -> nums
              [] j > 0 /\ j = PrecN - 1 -> gej_add_var(gej_neg(next), nums).r
              [] OTHER -> next
      rows(prec) ==
        [j \in 0..(PrecN-1) |-> [i \in 0..(2^PrecB-1) |-> ge_to_storage(prec[j * 2^PrecB + i + 1])]]
  IN  rows(ge_set_all_gej_var(gen_rows(gbase, numsbase)))

\* gn * G for a context [prec, blind, initial].
ecmult_gen(ctx, gn) ==
  LET gnb == scalar_add(gn, ctx.blind)
  IN  FoldLeft(LAMBDA r, j :
                 gej_add_ge(r, ge_from_storage(ctx.prec[j][scalar_get_bits(gnb, j * PrecB, PrecB)])),
               ctx.initial, [j \in 1..PrecN |-> j - 1])

\* A mutant: the blinding scalar is not negated.
ecmult_gen_blind_SameSign(ctx, seeded, s, b) ==
  LET base == IF seeded THEN ctx
              ELSE [ctx EXCEPT !.initial = gej_neg(gej_set_ge(GeOf(Generator))), !.blind = 1]
      c == scalar_set_b32(b).r
      blind == IF c = 0 THEN 1 ELSE c
  IN  [base EXCEPT !.initial = ecmult_gen(base, blind), !.blind = blind]

\* Without a seed the blinding starts again from -G and 1.  The generator of
\* random bytes gives s, a field element or an overflow, and then b.
ecmult_gen_blind(ctx, seeded, s, b) ==
  LET base == IF seeded THEN ctx
              ELSE [ctx EXCEPT !.initial = gej_neg(gej_set_ge(GeOf(Generator))), !.blind = 1]
      scale == IF s >= P \/ s = 0 THEN One ELSE fe_set_int(s)
      c == scalar_set_b32(b).r
      blind == IF c = 0 THEN 1 ELSE c
      ready == [base EXCEPT !.initial = gej_rescale(@, scale)]
  IN  [ready EXCEPT !.initial = ecmult_gen(ready, blind), !.blind = scalar_negate(blind)]

=============================================================================
