------------------------------- MODULE Group -------------------------------
(***************************************************************************)
(* Points of libsecp256k1 (group_impl.h).  A ge is an affine point         *)
(* [x, y, infinity], a gej a Jacobian one [x, y, z, infinity], which       *)
(* stands for (x / z^2, y / z^3); the coordinates are field elements with  *)
(* their magnitudes.  An addition may also return the ratio rzr of the new *)
(* z to the old one.                                                       *)
(***************************************************************************)
EXTENDS Curve, Sequences

\* The coordinate of a normalized small value, and the curve's constant.
One == fe_set_int(1)
fe_const_b == fe_set_int(B)

ge_set_infinity == [x |-> fe_clear, y |-> fe_clear, infinity |-> TRUE]

gej_set_infinity == [x |-> fe_clear, y |-> fe_clear, z |-> fe_clear, infinity |-> TRUE]

ge_set_xy(x, y) == [x |-> x, y |-> y, infinity |-> FALSE]

gej_set_ge(a) == [x |-> a.x, y |-> a.y, z |-> One, infinity |-> a.infinity]

ge_neg(a) == [a EXCEPT !.y = fe_negate(fe_normalize_weak(a.y), 1)]

\* A mutant: the y coordinate is not brought to a small magnitude.
gej_neg_NoNormalize(a) == [a EXCEPT !.y = fe_negate(a.y, a.y.m)]

gej_neg(a) == [a EXCEPT !.y = fe_negate(fe_normalize_weak(a.y), 1)]

ge_set_gej_zinv(a, zi) ==
  LET zi2 == fe_sqr(zi)
  IN  [x |-> fe_mul(a.x, zi2), y |-> fe_mul(a.y, fe_mul(zi2, zi)), infinity |-> a.infinity]

\* Also for infinity, whose coordinates are all 0.
ge_set_gej(a) == ge_set_gej_zinv(a, fe_inv(a.z))

ge_set_gej_var(a) ==
  IF a.infinity THEN ge_set_infinity
  ELSE LET r == ge_set_gej_zinv(a, fe_inv(a.z)) IN ge_set_xy(r.x, r.y)

\* A mutant: the z of infinity, 0, is multiplied in too.
ge_set_all_gej_var_InfinityToo(a) ==
  LET finite == {i \in 1..Len(a) : ~a[i].infinity}
      product[i \in 1..Len(a)] == IF i = 1 THEN a[1].z ELSE fe_mul(product[i-1], a[i].z)
  IN  [i \in 1..Len(a) |->
        IF i \notin finite THEN ge_set_infinity
        ELSE ge_set_gej_zinv(a[i], IF i = 1 THEN fe_inv(a[1].z) ELSE fe_mul(product[i-1], fe_inv(product[i])))]

\* One inversion for a whole sequence: the destination's x coordinates first
\* hold the products of the z coordinates so far, then the inverses.
ge_set_all_gej_var(a) ==
  LET finite == {i \in 1..Len(a) : ~a[i].infinity}
      before(i) == CHOOSE j \in finite : j < i /\ \A k \in finite : k < i => k <= j
      first(i) == \A k \in finite : i <= k
      last == CHOOSE i \in finite : \A k \in finite : k <= i
      product[i \in finite] ==
        IF first(i) THEN a[i].z ELSE fe_mul(product[before(i)], a[i].z)
      after(i) == CHOOSE j \in finite : i < j /\ \A k \in finite : i < k => j <= k
      u[i \in finite] ==
        IF i = last THEN fe_inv(product[last]) ELSE fe_mul(u[after(i)], a[after(i)].z)
      zinv(i) == IF first(i) THEN u[i] ELSE fe_mul(product[before(i)], u[i])
  IN  [i \in 1..Len(a) |->
        IF a[i].infinity THEN ge_set_infinity ELSE ge_set_gej_zinv(a[i], zinv(i))]

\* All points of a table over the z of the last one, from the ratios zr.
ge_globalz_set_table_gej(a, zr) ==
  LET len == Len(a)
      zs[i \in 1..(len-1)] == IF i = len - 1 THEN zr[len] ELSE fe_mul(zs[i+1], zr[i+1])
  IN  [globalz |-> a[len].z,
       r |-> [i \in 1..len |->
               IF i = len THEN ge_set_xy(a[i].x, fe_normalize_weak(a[i].y))
               ELSE ge_set_gej_zinv(a[i], zs[i])]]

\* A mutant: the y that is found first is taken.
ge_set_xo_var_AnyY(x, odd) ==
  LET root == fe_sqrt(fe_add(fe_mul(x, fe_sqr(x)), fe_const_b))
  IN  [ok |-> root.ok, r |-> ge_set_xy(x, fe_normalize(root.r))]

\* The point with this x and an odd or even y, if there is one.
ge_set_xo_var(x, odd) ==
  LET root == fe_sqrt(fe_add(fe_mul(x, fe_sqr(x)), fe_const_b))
      y == fe_normalize(root.r)
  IN  IF ~root.ok THEN [ok |-> FALSE, r |-> ge_set_xy(x, root.r)]
      ELSE [ok |-> TRUE, r |-> ge_set_xy(x, IF fe_is_odd(y) # odd THEN fe_negate(y, 1) ELSE y)]

gej_eq_x_var(x, a) == fe_equal(fe_mul(fe_sqr(a.z), x), fe_normalize_weak(a.x))

ge_is_valid_var(a) ==
  /\ ~a.infinity
  /\ LET x3 == fe_add(fe_mul(fe_sqr(a.x), a.x), fe_const_b)
     IN  fe_equal(fe_sqr(a.y), fe_normalize_weak(x3))

gej_double(a) ==
  LET t1 == fe_mul_int(fe_sqr(a.x), 3)
      t2 == fe_sqr(t1)
      y2 == fe_mul_int(fe_sqr(a.y), 2)
      t4 == fe_mul_int(fe_sqr(y2), 2)
      t3 == fe_mul(y2, a.x)
      t5 == fe_add(fe_mul_int(t3, 6), fe_negate(t2, 1))
  IN  [infinity |-> a.infinity,
       z |-> fe_mul_int(fe_mul(a.z, a.y), 2),
       x |-> fe_add(fe_negate(fe_mul_int(t3, 4), 4), t2),
       y |-> fe_add(fe_mul(t1, t5), fe_negate(t4, 2))]

\* rzr is the ratio of the z coordinates.
gej_double_var(a) ==
  IF a.infinity THEN [r |-> gej_set_infinity, rzr |-> One]
  ELSE [r |-> gej_double(a), rzr |-> fe_mul_int(fe_normalize_weak(a.y), 2)]

\* A mutant: the sum of a point and its negative is not infinity.
AddTail_NoNegative(u1, s1, h, i, rzr, z, twice) ==
  IF fe_normalizes_to_zero(h) THEN twice
  ELSE LET h2 == fe_sqr(h)
           t == fe_mul(u1, h2)
           x == fe_add(fe_negate(fe_add(fe_mul_int(t, 2), fe_mul(h, h2)), 3), fe_sqr(i))
       IN  [r |-> [x |-> x, z |-> z, infinity |-> FALSE,
                   y |-> fe_add(fe_mul(fe_add(fe_negate(x, 5), t), i), fe_negate(fe_mul(fe_mul(h, h2), s1), 1))],
            rzr |-> rzr]

\* The end of the additions that are not constant time: h and i are the
\* differences of the x and of the y coordinates over a common z, z is the
\* new z, and twice is the sum if the points are the same.
AddTail(u1, s1, h, i, rzr, z, twice) ==
  LET h2 == fe_sqr(h)
      h3 == fe_mul(h, h2)
      t == fe_mul(u1, h2)
      x == fe_add(fe_negate(fe_add(fe_mul_int(t, 2), h3), 3), fe_sqr(i))
      y == fe_add(fe_mul(fe_add(fe_negate(x, 5), t), i), fe_negate(fe_mul(h3, s1), 1))
  IN  IF fe_normalizes_to_zero(h)
      THEN IF fe_normalizes_to_zero(i) THEN twice
           ELSE [r |-> gej_set_infinity, rzr |-> fe_set_int(0)]
      ELSE [r |-> [x |-> x, y |-> y, z |-> z, infinity |-> FALSE], rzr |-> rzr]

gej_add_var(a, b) ==
  LET z22 == fe_sqr(b.z)
      z12 == fe_sqr(a.z)
      u1 == fe_mul(a.x, z22)
      u2 == fe_mul(b.x, z12)
      s1 == fe_mul(fe_mul(a.y, z22), b.z)
      s2 == fe_mul(fe_mul(b.y, z12), a.z)
      h == fe_add(fe_negate(u1, 1), u2)
      i == fe_add(fe_negate(s1, 1), s2)
      rzr == fe_mul(h, b.z)
  IN  CASE a.infinity -> [r |-> b, rzr |-> Broken]
        [] ~a.infinity /\ b.infinity -> [r |-> a, rzr |-> One]
        [] OTHER -> AddTail(u1, s1, h, i, rzr, fe_mul(a.z, rzr), gej_double_var(a))

\* h and i of an affine b, for the z coordinate az of a.
Difference(a, az, b) ==
  LET z12 == fe_sqr(az)
      u1 == fe_normalize_weak(a.x)
      s1 == fe_normalize_weak(a.y)
      u2 == fe_mul(b.x, z12)
      s2 == fe_mul(fe_mul(b.y, z12), az)
  IN  [u1 |-> u1, s1 |-> s1,
       h |-> fe_add(fe_negate(u1, 1), u2), i |-> fe_add(fe_negate(s1, 1), s2)]

\* The sum of a and of a point that differs by d.
Moved(a, d) == AddTail(d.u1, d.s1, d.h, d.i, d.h, fe_mul(a.z, d.h), gej_double_var(a))

gej_add_ge_var(a, b) ==
  CASE a.infinity -> [r |-> gej_set_ge(b), rzr |-> Broken]
    [] ~a.infinity /\ b.infinity -> [r |-> a, rzr |-> One]
    [] OTHER -> Moved(a, Difference(a, a.z, b))

\* The sum of a and of (b.x, b.y, 1/bzinv).
gej_add_zinv_var(a, b, bzinv) ==
  CASE b.infinity -> a
    [] ~b.infinity /\ a.infinity -> gej_set_ge(ge_set_gej_zinv(b, bzinv))
    [] OTHER -> Moved(a, Difference(a, fe_mul(a.z, bzinv), b)).r

\* The end of the constant time addition, for the slope rr_alt over m_alt and the
\* sums t and m of the x and of the y coordinates; b when a is infinity.
ConstSum(a, b, t, m, rr_alt, m_alt, degenerate) ==
  LET m_alt2 == fe_sqr(m_alt)
      q == fe_negate(fe_mul(m_alt2, t), 1)
      n == fe_cmov(fe_sqr(m_alt2), m, degenerate)
      z == fe_mul(a.z, m_alt)
      x3 == fe_normalize_weak(fe_add(fe_sqr(rr_alt), q))
      y3 == fe_add(fe_mul(fe_add(fe_mul_int(x3, 2), q), rr_alt), n)
  IN  [x |-> fe_cmov(fe_mul_int(x3, 4), b.x, a.infinity),
       y |-> fe_cmov(fe_mul_int(fe_normalize_weak(fe_negate(y3, 3)), 4), b.y, a.infinity),
       z |-> fe_cmov(fe_mul_int(z, 2), One, a.infinity),
       infinity |-> fe_normalizes_to_zero(z) /\ ~a.infinity]

\* The constant time addition, whose formula is the same for a sum and for a
\* double.  When y1 = -y2 and x1 is x2 times a cube root of 1 it would divide
\* 0 by 0, and another slope is moved in.
gej_add_ge(a, b) ==
  LET zz == fe_sqr(a.z)
      u1 == fe_normalize_weak(a.x)
      u2 == fe_mul(b.x, zz)
      s1 == fe_normalize_weak(a.y)
      s2 == fe_mul(fe_mul(b.y, zz), a.z)
      t == fe_add(u1, u2)
      m == fe_add(s1, s2)
      neg_u2 == fe_negate(u2, 1)
      rr == fe_add(fe_sqr(t), fe_mul(u1, neg_u2))
      degenerate == fe_normalizes_to_zero(m) /\ fe_normalizes_to_zero(rr)
      rr_alt == fe_cmov(fe_mul_int(s1, 2), rr, ~degenerate)
      m_alt == fe_cmov(fe_add(neg_u2, u1), m, ~degenerate)
  IN  ConstSum(a, b, t, m, rr_alt, m_alt, degenerate)

gej_rescale(a, s) ==
  LET zz == fe_sqr(s)
  IN  [a EXCEPT !.x = fe_mul(@, zz), !.y = fe_mul(fe_mul(@, zz), s), !.z = fe_mul(@, s)]

\* Stored points are affine and never infinity.
ge_to_storage(a) ==
  IF a.infinity THEN <<-1, -1>>
  ELSE <<fe_to_storage(fe_normalize(a.x)), fe_to_storage(fe_normalize(a.y))>>

ge_from_storage(s) == ge_set_xy(fe_from_storage(s[1]), fe_from_storage(s[2]))

\* Beta, a cube root of 1, takes a point to Lambda times the point.
CONSTANT Beta

ge_mul_lambda(a) == [a EXCEPT !.x = fe_mul(@, fe_set_int(Beta))]

-----------------------------------------------------------------------------
\* The point of the curve that a ge or a gej stands for.
ValueOfGe(a) == IF a.infinity THEN Infinity ELSE <<a.x.v, a.y.v>>

ValueOf(a) ==
  LET zi == Inverse_of[a.z.v]
  IN  IF a.infinity THEN Infinity
      ELSE <<(a.x.v * zi * zi) % P, (((a.y.v * zi * zi) % P) * zi) % P>>

GeOf(p) == IF p = Infinity THEN ge_set_infinity ELSE ge_set_xy(fe_set_int(p[1]), fe_set_int(p[2]))

=============================================================================
