----------------------------- MODULE EcmultSums -----------------------------
(***************************************************************************)
(* The callers of the multiplications: verification (ecmult, and the sum   *)
(* of many multiples by either algorithm), signing and key generation      *)
(* (ecmult_gen, and context_randomize, which blinds its context again) and *)
(* key agreement (ecmult_const).  Each result is the point that the next   *)
(* call multiplies.                                                        *)
(***************************************************************************)
EXTENDS EcmultConst

CONSTANTS
  SomeScalars,   \* the scalars of a call
  Windows,       \* bucket windows of Pippenger's algorithm
  Random,        \* what the generator of random bytes returns
  MaxCalls       \* bound: calls of the multiplications

VARIABLES
  point,   \* the result of the last call, a gej
  times,   \* the multiple of the generator that it should be
  gen,     \* the context of ecmult_gen: prec, blind, initial
  calls    \* calls so far

multVars == <<point, times, gen, calls>>

ecmult_context == ecmult_context_build

MultInit ==
  /\ times \in SomeScalars
  /\ point = IF times = 0 THEN gej_set_infinity
             ELSE gej_rescale(gej_set_ge(GeOf(Times(times, Generator))), fe_set_int(times + 1))
  /\ gen = ecmult_gen_blind([prec |-> ecmult_gen_context_prec, blind |-> 0,
                             initial |-> gej_set_infinity], FALSE, 1, 1)
  /\ calls = 0

Called == calls < MaxCalls /\ calls' = calls + 1

Ecmult(na, ng) ==
  /\ Called
  /\ point' = ecmult(ecmult_context, point, na, ng)
  /\ times' = (times * na + (IF ng = -1 THEN 0 ELSE ng)) % Order
  /\ UNCHANGED gen

\* The second point is the generator times k.
EcmultStrauss(na, k, nb, ng) ==
  /\ Called
  /\ point' = ecmult_strauss_wnaf(ecmult_context, <<point, gej_rescale(gej_set_ge(GeOf(Times(k, Generator))), One)>>,
                                  <<na, nb>>, ng)
  /\ times' = (times * na + k * nb + (IF ng = -1 THEN 0 ELSE ng)) % Order
  /\ UNCHANGED gen

EcmultPippenger(w, na, k, nb, ng) ==
  /\ Called
  /\ point' = pippenger_sum(w, ng, <<na, nb>>, <<ge_set_gej_var(point), GeOf(Times(k, Generator))>>)
  /\ times' = (times * na + k * nb + (IF ng = -1 THEN 0 ELSE ng)) % Order
  /\ UNCHANGED gen

\* A secret times a point; a short one when its bits are given.
EcmultConst(k, size) ==
  /\ Called /\ ~point.infinity
  /\ size <= HalfBits => k < 2^size
  /\ point' = ecmult_const(ge_set_gej_var(point), k, size)
  /\ times' = (times * k) % Order
  /\ UNCHANGED gen

EcmultGen(k) ==
  /\ Called
  /\ point' = ecmult_gen(gen, k)
  /\ times' = k
  /\ UNCHANGED gen

ContextRandomize(seeded, s, b) ==
  /\ gen' = ecmult_gen_blind(gen, seeded, s, b)
  /\ UNCHANGED <<point, times, calls>>

\* The multiplications without the context of ecmult_gen, and those with it: a
\* multiplication of the first kind reads no context that changes.
PointNext ==
  \/ \E na \in SomeScalars, ng \in SomeScalars \cup {-1} : Ecmult(na, ng)
  \/ \E na, k, nb \in SomeScalars, ng \in {-1, 0, Order - 2} :
       \/ EcmultStrauss(na, k, nb, ng)
       \/ \E w \in Windows : EcmultPippenger(w, na, k, nb, ng)
  \/ \E k \in Scalars, size \in {HalfBits, ScalarBits} : EcmultConst(k, size)

GenNext ==
  \/ \E k \in Scalars : EcmultGen(k)
  \/ \E seeded \in BOOLEAN, s, b \in Random : ContextRandomize(seeded, s, b)

MultNext == PointNext \/ GenNext

MultSpec == MultInit /\ [][MultNext]_multVars

-----------------------------------------------------------------------------
\* Every algorithm computes the multiple, for all points and scalars, also 0,
\* infinity, and sums that pass through infinity or a double on their way.
MultiplesAreRight ==
  /\ ValueOf(point) = Times(times, Generator)
  /\ \A a \in {point.x, point.y, point.z} : fe_verify(a)

\* The blinding is undone by the starting point, whatever the order of
\* randomizations: a context that is blinded wrongly computes wrong keys.
BlindCancels ==
  /\ ValueOf(gen.initial) = Times(scalar_negate(gen.blind), Generator)
  /\ gen.blind # 0

\* What the digits of each notation of the scalar must be for the tables to
\* have them: odd, within the window, and worth the scalar
\* (ecmult_impl.h:377-427, 636-696; ecmult_const_impl.h:57-134).
DigitsAreRight ==
  LET value(d, n, w) == LET v[i \in 0..n] == IF i = n THEN 0 ELSE d[i] * 2^(w*i) + v[i+1] IN v[0]
      odd(d, bound) == d % 2 = 1 /\ d < bound /\ -bound < d
      halves == scalar_split_lambda(times)
      short(k) == IF scalar_is_high(k) THEN scalar_negate(k) ELSE k
  IN  /\ (halves[1] + halves[2] * Lambda) % Order = times
      /\ \A h \in {halves[1], halves[2]} :
           /\ short(h) < 2^HalfBits
           /\ LET e == ecmult_wnaf(HalfBits + 1, h, WINDOW_A)
              IN  /\ value(e.wnaf, HalfBits + 1, 1) % Order = h
                  /\ \A i \in DOMAIN e.wnaf : e.wnaf[i] = 0 \/ odd(e.wnaf[i], 2^(WINDOW_A-1))
           /\ \A w \in Windows :
                LET f == wnaf_fixed(short(h), w)
                IN  /\ value(f.wnaf, WnafSize(w), w) = short(h) + f.skew
                    /\ \A i \in DOMAIN f.wnaf : f.wnaf[i] = 0 \/ odd(f.wnaf[i], 2^w)
           /\ LET c == wnaf_const(h, WINDOW_A - 1, HalfBits)
                  n == WnafSizeBits(HalfBits, WINDOW_A - 1) + 1
              IN  /\ (value(c.wnaf, n, WINDOW_A - 1) - c.skew) % Order = h
                  /\ c.rest = 0
                  /\ \A i \in DOMAIN c.wnaf : odd(c.wnaf[i], 2^(WINDOW_A-1))

\* The multiplications of ecmult_impl.h, ecmult_const_impl.h and
\* ecmult_gen_impl.h: the right multiple, from digits that the tables have, and
\* under every blinding.
MultiplicationsCorrect == MultiplesAreRight /\ BlindCancels /\ DigitsAreRight

=============================================================================
