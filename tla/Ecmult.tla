------------------------------- MODULE Ecmult -------------------------------
(***************************************************************************)
(* Multiples of points (ecmult_impl.h): Strauss' algorithm on the          *)
(* endomorphism and wNAF digits, over tables of odd multiples that share   *)
(* one z, and Pippenger's on buckets of points.  The contexts hold tables  *)
(* of the generator.                                                       *)
(***************************************************************************)
EXTENDS Group

LOCAL INSTANCE SequencesExt   \* FoldLeft, FoldRight

CONSTANTS
  WINDOW_A, WINDOW_G   \* widths of the windows, at least 2

ECMULT_TABLE_SIZE(w) == 2^(w - 2)

\* The odd multiples a, 3a, ..., computed where the double of a is affine,
\* with the ratios of their z coordinates.
OddMultiples(n, a, d) ==
  LET first == ge_set_gej_zinv(a, d.z)
      step[i \in 1..n] ==
        IF i = 1 THEN [r |-> [x |-> first.x, y |-> first.y, z |-> a.z, infinity |-> FALSE], rzr |-> d.z]
        ELSE gej_add_ge_var(step[i-1].r, ge_set_xy(d.x, d.y))
  IN  step

TableOf(n, step, d) ==
  [prej |-> [i \in 1..n |-> IF i = n THEN [step[i].r EXCEPT !.z = fe_mul(@, d.z)] ELSE step[i].r],
   zr |-> [i \in 1..n |-> step[i].rzr]]

ecmult_odd_multiples_table(n, a) ==
  LET d == gej_double_var(a).r
  IN  TableOf(n, OddMultiples(n, a, d), d)

OverOneZ(t) == ge_globalz_set_table_gej(t.prej, t.zr)

ecmult_odd_multiples_table_globalz_windowa(a) ==
  OverOneZ(ecmult_odd_multiples_table(ECMULT_TABLE_SIZE(WINDOW_A), a))

\* The same multiples as stored affine points.  Only the y coordinates and the
\* z ratios are kept on the way forth; the x coordinates are found on the way
\* back.
StoredForth(n, a, d) ==
  LET first == ge_set_gej_zinv(a, d.z)
      pj[i \in 1..n] ==
        IF i = 1 THEN [r |-> [x |-> first.x, y |-> first.y, z |-> a.z, infinity |-> FALSE], rzr |-> Broken]
        ELSE gej_add_ge_var([pj[i-1].r EXCEPT !.y = fe_normalize(@)], ge_set_xy(d.x, d.y))
  IN  pj

StoredBack(n, pj, d) ==
  LET zi_last == fe_inv(fe_mul(pj[n].r.z, d.z))
      dzi == fe_mul(zi_last, pj[n].r.z)
      dx_over_dz_squared == fe_mul(fe_sqr(dzi), d.x)
      rzr(i) == fe_normalize(pj[i+1].rzr)
      zi[i \in 1..n] == IF i = n THEN zi_last ELSE fe_mul(zi[i+1], rzr(i))
      entry(i) ==
        LET zi2 == fe_sqr(zi[i])
        IN  ge_set_xy(fe_add(fe_negate(fe_mul(rzr(i), zi2), 1), dx_over_dz_squared),
                      fe_mul(fe_normalize(pj[i].r.y), fe_mul(zi2, zi[i])))
  IN  [i \in 1..n |-> ge_to_storage(IF i = n THEN ge_set_gej_zinv(pj[n].r, zi_last) ELSE entry(i))]

ecmult_odd_multiples_table_storage_var(n, a) ==
  LET d == gej_double_var(a).r
  IN  StoredBack(n, StoredForth(n, a, d), d)

\* The entry of a table for an odd digit k, of either sign.
TableGet(pre, k) ==
  IF k > 0 THEN pre[(k - 1) \div 2 + 1]
  ELSE LET e == pre[(-k - 1) \div 2 + 1] IN [e EXCEPT !.y = fe_negate(@, 1)]

Loaded(pre) == [i \in 1..Len(pre) |-> ge_from_storage(pre[i])]

\* The tables of G and of 2^HalfBits G.
ecmult_context_build ==
  LET gj == gej_set_ge(GeOf(Generator))
      up[i \in 0..HalfBits] == IF i = 0 THEN gj ELSE gej_double_var(up[i-1]).r
      n == ECMULT_TABLE_SIZE(WINDOW_G)
  IN  [pre_g |-> ecmult_odd_multiples_table_storage_var(n, gj),
       pre_g_128 |-> ecmult_odd_multiples_table_storage_var(n, up[HalfBits])]

\* The digits wnaf[0..len-1], each 0 or odd, of the scalar or of its negative,
\* and the number of digits up to the last one set.
ecmult_wnaf(len, a, w) ==
  LET high == scalar_get_bits(a, ScalarBits - 1, 1) = 1
      s == IF high THEN scalar_negate(a) ELSE a
      sign == IF high THEN -1 ELSE 1
      scan[bit \in 0..len, carry \in 0..1] ==
        IF bit >= len THEN {}
        ELSE IF scalar_get_bits(s, bit, 1) = carry THEN scan[bit + 1, carry]
        ELSE LET now == IF w > len - bit THEN len - bit ELSE w
                 word == scalar_get_bits(s, bit, now) + carry
                 borrow == (word \div 2^(w-1)) % 2
             IN  {<<bit, sign * (word - borrow * 2^w)>>} \cup scan[bit + now, borrow]
      set == scan[0, 0]
      digit(i) == IF \E d \in set : d[1] = i THEN (CHOOSE d \in set : d[1] = i)[2] ELSE 0
  IN  [wnaf |-> [i \in 0..(len-1) |-> digit(i)],
       bits |-> IF set = {} THEN 0 ELSE (CHOOSE d \in set : \A e \in set : e[1] <= d[1])[1] + 1]

\* The tables of all points, brought to one z.
strauss_tables(a) ==
  LET size == ECMULT_TABLE_SIZE(WINDOW_A)
      table[np \in 1..Len(a)] ==
        IF np = 1 THEN ecmult_odd_multiples_table(size, a[1])
        ELSE LET t == ecmult_odd_multiples_table(size,
                        gej_rescale(a[np], fe_normalize(table[np-1].prej[size].z)))
             IN  [t EXCEPT !.zr[1] = fe_mul(@, a[np].z)]
      join(s, t) == [prej |-> s.prej \o t.prej, zr |-> s.zr \o t.zr]
  IN  IF a = <<>> THEN [globalz |-> One, r |-> <<>>]
      ELSE OverOneZ(FoldLeft(join, [prej |-> <<>>, zr |-> <<>>], table))

\* One digit of every table a step, the highest first; the table of G is affine,
\* and is added over the inverse of the common z.
strauss_steps(ctx, global, split, ng) ==
  LET no == Len(split)
      len == HalfBits + 1
      size == ECMULT_TABLE_SIZE(WINDOW_A)
      wnaf_1 == [np \in 1..no |-> ecmult_wnaf(len, split[np][1], WINDOW_A)]
      wnaf_lam == [np \in 1..no |-> ecmult_wnaf(len, split[np][2], WINDOW_A)]
      pre_a(np) == SubSeq(global.r, (np - 1) * size + 1, np * size)
      pre_a_lam(np) == [i \in 1..size |-> ge_mul_lambda(pre_a(np)[i])]
      g == IF ng = -1 THEN <<0, 0>> ELSE scalar_split_128(ng)
      wnaf_g == ecmult_wnaf(len, g[1], WINDOW_G)
      wnaf_g_128 == ecmult_wnaf(len, g[2], WINDOW_G)
      \* One table's part of a step.
      point(r, w, pre, i) ==
        IF i < w.bits /\ w.wnaf[i] # 0 THEN gej_add_ge_var(r, TableGet(pre, w.wnaf[i])).r ELSE r
      gen(r, w, pre, i) ==
        IF i < w.bits /\ w.wnaf[i] # 0
        THEN gej_add_zinv_var(r, TableGet(Loaded(pre), w.wnaf[i]), global.globalz) ELSE r
      points(r, i) ==
        FoldLeft(LAMBDA s, np : point(point(s, wnaf_1[np], pre_a(np), i), wnaf_lam[np], pre_a_lam(np), i),
                 r, [np \in 1..no |-> np])
      \* Digits len-1 down to i; the leading digits that are not set double
      \* infinity only.
      r[i \in 0..len] ==
        IF i = len THEN gej_set_infinity
        ELSE gen(gen(points(gej_double_var(r[i+1]).r, i), wnaf_g, ctx.pre_g, i),
                 wnaf_g_128, ctx.pre_g_128, i)
  IN  r[0]

\* The sum of na[i] * a[i], and of ng * G when ng is not -1.  Points whose
\* scalar is 0 and infinity are left out.
ecmult_strauss_wnaf(ctx, a, na, ng) ==
  LET used == SelectSeq([i \in 1..Len(a) |-> i], LAMBDA i : na[i] # 0 /\ ~a[i].infinity)
      split == [np \in 1..Len(used) |-> scalar_split_lambda(na[used[np]])]
      scaled(r, z) == IF r.infinity THEN r ELSE [r EXCEPT !.z = fe_mul(@, z)]
      sum(global) == scaled(strauss_steps(ctx, global, split, ng), global.globalz)
  IN  sum(strauss_tables([np \in 1..Len(used) |-> a[used[np]]]))

ecmult(ctx, a, na, ng) == ecmult_strauss_wnaf(ctx, <<a>>, <<na>>, ng)

-----------------------------------------------------------------------------
(* Pippenger's algorithm. *)

WnafSize(w) == (HalfBits + w - 1) \div w

\* Digits wnaf[0..WnafSize(w)-1], 0 or odd, of s + skew.
wnaf_fixed(s, w) ==
  LET size == WnafSize(w)
      last_w == HalfBits - (size - 1) * w
      val(pos) == scalar_get_bits(s, pos * w, IF pos = size - 1 THEN last_w ELSE w)
      skew == IF scalar_is_even(s) THEN 1 ELSE 0
      set == {pos \in 1..(size-1) : val(pos) # 0}
      max_pos == IF set = {} THEN 0 ELSE CHOOSE pos \in set : \A q \in set : q <= pos
      start == [pos \in 0..(size-1) |-> IF pos = 0 THEN scalar_get_bits(s, 0, w) + skew ELSE 0]
      \* A digit is made odd by a borrow from the digit below, and a 1 above a
      \* negative digit, or a -1 above a positive one, goes down as a whole.
      odd(d, pos) ==
        IF val(pos) % 2 = 0 THEN [d EXCEPT ![pos-1] = @ - 2^w, ![pos] = val(pos) + 1]
        ELSE [d EXCEPT ![pos] = val(pos)]
      cancel(d, pos) ==
        CASE pos >= 2 /\ d[pos-1] = 1 /\ d[pos-2] < 0 -> [d EXCEPT ![pos-2] = @ + 2^w, ![pos-1] = 0]
          [] pos >= 2 /\ d[pos-1] = -1 /\ d[pos-2] > 0 -> [d EXCEPT ![pos-2] = @ - 2^w, ![pos-1] = 0]
          [] OTHER -> d
      upto[pos \in 0..max_pos] == IF pos = 0 THEN start ELSE cancel(odd(upto[pos-1], pos), pos)
  IN  IF s = 0 THEN [wnaf |-> [pos \in 0..(size-1) |-> 0], skew |-> 0]
      ELSE [wnaf |-> upto[max_pos], skew |-> skew]

\* A mutant: a half that is negated keeps its point.
ecmult_endo_split_KeepsPoint(s, p) ==
  LET h == scalar_split_lambda(s)
      half(k, q) == IF scalar_is_high(k) THEN <<scalar_negate(k), q>> ELSE <<k, q>>
  IN  <<half(h[1], p), half(h[2], ge_mul_lambda(p))>>

\* Half of a multiple of a point by the endomorphism, with a short scalar.
ecmult_endo_split(s, p) ==
  LET h == scalar_split_lambda(s)
      half(k, q) == IF scalar_is_high(k) THEN <<scalar_negate(k), ge_neg(q)>> ELSE <<k, q>>
  IN  <<half(h[1], p), half(h[2], ge_mul_lambda(p))>>

ecmult_pippenger_wnaf(bucket_window, sc, pt) ==
  LET used == SelectSeq([i \in 1..Len(sc) |-> i], LAMBDA i : sc[i] # 0 /\ ~pt[i].infinity)
      w == bucket_window + 1
      n_wnaf == WnafSize(w)
      digits == [np \in 1..Len(used) |-> wnaf_fixed(sc[used[np]], w)]
      size == ECMULT_TABLE_SIZE(bucket_window + 2)
      put(b, idx, p) == [b EXCEPT ![idx] = gej_add_ge_var(@, p).r]
      \* The skew comes off in the last step.
      skewed(b, np, i) ==
        IF i = 0 /\ digits[np].skew = 1 THEN put(b, 0, ge_neg(pt[used[np]])) ELSE b
      point(b, np, i) ==
        LET n == digits[np].wnaf[i]
        IN  CASE n > 0 -> put(b, (n - 1) \div 2, pt[used[np]])
              [] n < 0 -> put(b, (-(n + 1)) \div 2, ge_neg(pt[used[np]]))
              [] OTHER -> b
      buckets(i) == FoldLeft(LAMBDA b, np : point(skewed(b, np, i), np, i),
                             [j \in 0..(size-1) |-> gej_set_infinity],
                             [np \in 1..Len(used) |-> np])
      doubled(r, k) == FoldLeft(LAMBDA s, j : gej_double_var(s).r, r, [j \in 1..k |-> j])
      \* bucket[0] + 3 bucket[1] + 5 bucket[2] + ...: every running sum goes in
      \* twice by the double that follows.
      gather(r, b) ==
        LET both(s, run) == [run |-> run, r |-> gej_add_var(s, run).r]
            last(s) == gej_add_var(gej_double_var(s.r).r, gej_add_var(s.run, b[0]).r).r
        IN  last(FoldLeft(LAMBDA s, j : both(s.r, gej_add_var(s.run, b[size - j]).r),
                          [run |-> gej_set_infinity, r |-> r], [j \in 1..(size-1) |-> j]))
      r[i \in 0..n_wnaf] ==
        IF i = n_wnaf THEN gej_set_infinity
        ELSE gather(doubled(r[i+1], bucket_window), buckets(i))
  IN  IF used = <<>> THEN gej_set_infinity ELSE r[0]

\* The part of pippenger_batch that is arithmetic: G and every point are split
\* in halves.
pippenger_sum(bucket_window, inp_g_sc, sc, pt) ==
  LET n == IF inp_g_sc = -1 THEN 0 ELSE 1
      halves == [i \in 1..(Len(sc) + n) |->
                  IF i <= n THEN ecmult_endo_split(inp_g_sc, GeOf(Generator))
                  ELSE ecmult_endo_split(sc[i-n], pt[i-n])]
      flat == [k \in 1..(2 * Len(halves)) |-> halves[(k + 1) \div 2][2 - (k % 2)]]
  IN  ecmult_pippenger_wnaf(bucket_window, [k \in 1..Len(flat) |-> flat[k][1]],
                            [k \in 1..Len(flat) |-> flat[k][2]])

=============================================================================
