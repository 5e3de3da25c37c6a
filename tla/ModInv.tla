------------------------------- MODULE ModInv -------------------------------
(***************************************************************************)
(* Modular inversion by divsteps (modinv64_impl.h, modinv32_impl.h).  A    *)
(* number is a sequence of signed limbs of Bits bits in words of Bits + 2; *)
(* limbs 1..Len-1 of a result are in [0, 2^Bits) and the last one carries  *)
(* the sign.  Each library word is modelled at its width: 62 and 30 bits   *)
(* are parameters.  One machine runs an inversion of either file, constant *)
(* or variable time, one iteration a step.                                 *)
(***************************************************************************)
EXTENDS Integers, Sequences

CONSTANTS
  InvModulus,           \* an odd modulus: P or the group order
  InvOffset,            \* what its lowest limb is below 0: 0x1000003D1 for P
  Bits62, Limbs62,      \* 62 and 5
  Bits30, Limbs30,      \* 30 and 9
  Rounds62, Rounds30,   \* iterations of the constant time versions: 10 and 20
  VarRounds62, VarRounds30,   \* what the variable time versions never need: 12 and 25
  InvInputs             \* bound: numbers that are inverted

Build(n) == IF n = 62 THEN [bits |-> Bits62, limbs |-> Limbs62]
            ELSE [bits |-> Bits30, limbs |-> Limbs30]

\* The modulus and all inputs fit the limbs, with room for their doubles.
ASSUME InvAssumption ==
  /\ InvModulus \in Nat /\ InvModulus % 2 = 1 /\ InvModulus > 2
  /\ Bits62 > 3 /\ Bits30 > 0
  /\ \A n \in {62, 30} : 4 * InvModulus < 2^(Build(n).bits * Build(n).limbs)
  /\ InvOffset \in 0..(2^Bits62 - 1) /\ InvOffset < 2^Bits30
  /\ InvInputs \subseteq 0..(InvModulus - 1)

Unsigned(b, x) == x % 2^(b.bits + 2)
Signed(b, x) ==
  IF Unsigned(b, x) < 2^(b.bits + 1) THEN Unsigned(b, x) ELSE Unsigned(b, x) - 2^(b.bits + 2)

LimbsOf(b, v) == [i \in 1..b.limbs |-> (v \div 2^(b.bits * (i - 1))) % 2^b.bits]

\* The limbs of the modulus as the library has them: signed.
ModulusLimbs(b) == [LimbsOf(b, InvModulus + InvOffset) EXCEPT ![1] = @ - InvOffset]

ValueIn(b, l) ==
  LET v[i \in 1..Len(l)] == l[i] * 2^(b.bits * (i - 1)) + IF i = 1 THEN 0 ELSE v[i-1]
  IN  v[Len(l)]

\* Carry what exceeds Bits bits into the limb above, the last limb keeps all.
Propagate(b, l) ==
  LET sum[i \in 1..Len(l)] == l[i] + (IF i = 1 THEN 0 ELSE sum[i-1] \div 2^b.bits)
  IN  [i \in 1..Len(l) |-> IF i = Len(l) THEN sum[i] ELSE sum[i] % 2^b.bits]

\* Mutant: a number below -M is raised by M once only.
normalize_OneAdd(b, r, sign) ==
  LET m == ModulusLimbs(b)
      add(l) == [i \in 1..Len(l) |-> IF l[Len(l)] < 0 THEN l[i] + m[i] ELSE l[i]]
  IN  Propagate(b, [i \in 1..Len(r) |-> IF sign < 0 THEN -add(r)[i] ELSE add(r)[i]])

\* From (-2M, M) to [0, M), negated if sign is negative.
normalize(b, r, sign) ==
  LET m == ModulusLimbs(b)
      add(l) == [i \in 1..Len(l) |-> IF l[Len(l)] < 0 THEN l[i] + m[i] ELSE l[i]]
      negated(l) == [i \in 1..Len(l) |-> IF sign < 0 THEN -l[i] ELSE l[i]]
  IN  Propagate(b, add(Propagate(b, negated(add(r)))))

\* t * [d, e] without the lowest limb, which is 0: the sum of a product per
\* limb, carried upwards.
ShiftedProduct(b, s, x, t, y, more) ==
  LET l == Propagate(b, [i \in 1..Len(x) |-> s * x[i] + t * y[i] + more[i]] \o <<0>>)
  IN  [i \in 1..Len(x) |-> l[i+1]]

Zeros(l) == [i \in 1..Len(l) |-> 0]

update_fg(b, f, g, t) ==
  [f |-> ShiftedProduct(b, t.u, f, t.v, g, Zeros(f)), g |-> ShiftedProduct(b, t.q, f, t.r, g, Zeros(f))]

\* A multiple of the modulus makes the lowest limb 0.
update_de(b, d, e, t) ==
  LET m == ModulusLimbs(b)
      inverse == CHOOSE i \in 0..(2^b.bits - 1) : (i * InvModulus) % 2^b.bits = 1
      start(s, r) == (IF d[b.limbs] < 0 THEN s ELSE 0) + (IF e[b.limbs] < 0 THEN r ELSE 0)
      times(s, r) ==
        LET md == start(s, r) - ((inverse * (s * d[1] + r * e[1]) + start(s, r)) % 2^b.bits)
        IN  [i \in 1..b.limbs |-> md * m[i]]
  IN  [d |-> ShiftedProduct(b, t.u, d, t.v, e, times(t.u, t.v)),
       e |-> ShiftedProduct(b, t.q, d, t.r, e, times(t.q, t.r))]

\* The same of the file for words of 32 bits.
normalize_30(r, sign) == normalize(Build(30), r, sign)

update_fg_30(f, g, t) == update_fg(Build(30), f, g, t)

update_de_30(d, e, t) == update_de(Build(30), d, e, t)

\* The variable time versions take the limbs of f and g that are in use.
update_fg_var(b, f, g, len, t) == update_fg(b, SubSeq(f, 1, len), SubSeq(g, 1, len), t)

update_fg_30_var(f, g, len, t) == update_fg_30(SubSeq(f, 1, len), SubSeq(g, 1, len), t)

AsSigned(b, s) ==
  [u |-> Signed(b, s.u), v |-> Signed(b, s.v), q |-> Signed(b, s.q), r |-> Signed(b, s.r)]

\* One divstep on the lowest words, constant time.
Divstep(b, s) ==
  LET W(x) == Unsigned(b, x)
      odd == s.g % 2 = 1
      swap == s.zeta < 0 /\ odd
      plus(a, c) == IF odd THEN W(a + (IF s.zeta < 0 THEN -c ELSE c)) ELSE a
      g == plus(s.g, s.f)  q == plus(s.q, s.u)  r == plus(s.r, s.v)
      both(a, c) == IF swap THEN W(a + c) ELSE a
  IN  [zeta |-> (IF swap THEN -s.zeta - 1 ELSE s.zeta) - 1,
       f |-> both(s.f, g), g |-> g \div 2,
       u |-> W(2 * both(s.u, q)), v |-> W(2 * both(s.v, r)), q |-> q, r |-> r]

\* n divsteps from a multiple of the identity.
Divsteps(b, n, scale, zeta, f0, g0) ==
  LET s[i \in 0..n] ==
        IF i = 0 THEN [zeta |-> zeta, f |-> Unsigned(b, f0), g |-> Unsigned(b, g0),
                       u |-> scale, v |-> 0, q |-> 0, r |-> scale]
        ELSE Divstep(b, s[i-1])
  IN  [eta |-> s[n].zeta, t |-> AsSigned(b, s[n])]

\* Mutant: 58 steps of the 59.
divsteps_58(zeta, f0, g0) == Divsteps(Build(62), Bits62 - 4, 16, zeta, f0, g0)

\* 59 steps, scaled as if they were 62.
divsteps_59(zeta, f0, g0) == Divsteps(Build(62), Bits62 - 3, 8, zeta, f0, g0)

divsteps_30(zeta, f0, g0) == Divsteps(Build(30), Bits30, 1, zeta, f0, g0)

Min2(a, c) == IF a < c THEN a ELSE c

TrailingZeros(g, i) == CHOOSE z \in 0..i : (z = i \/ (g \div 2^z) % 2 = 1) /\ g % 2^z = 0

\* What times f must be added to g to clear its lowest bits, not more than
\* limit: up to 6 bits after a swap, up to 4 otherwise.
Multiplier62(f, g, limit, swapped) ==
  IF swapped THEN (f * g * ((f * f - 2) % 64)) % 2^Min2(limit, 6)
  ELSE LET w == f + (((f + 1) \div 4) % 2) * 8 IN (-w * g) % 2^Min2(limit, 4)

\* A table of the negated inverses of odd bytes clears up to 8 bits.
inv256 == [i \in 0..127 |-> CHOOSE w \in 0..255 : (w * (2 * i + 1) + 1) % 256 = 0]

Multiplier30(f, g, limit, swapped) == (g * inv256[(f \div 2) % 128]) % 2^Min2(limit, 8)

\* The variable time divsteps of build n: all zeros at the end of g are one
\* step, and s.i steps are left.
RECURSIVE DivstepsVar(_, _)
DivstepsVar(n, s) ==
  LET b == Build(n)
      W(x) == Unsigned(b, x)
      zeros == TrailingZeros(s.g, s.i)
      z == [s EXCEPT !.g = @ \div 2^zeros, !.u = W(@ * 2^zeros), !.v = W(@ * 2^zeros),
                     !.eta = @ - zeros, !.i = @ - zeros]
      swapped == z.eta < 0
      p == IF swapped
           THEN [z EXCEPT !.eta = -z.eta, !.f = z.g, !.g = W(-z.f), !.u = z.q, !.q = W(-z.u),
                          !.v = z.r, !.r = W(-z.v)]
           ELSE z
      limit == Min2(p.eta + 1, p.i)
      m == IF n = 62 THEN Multiplier62(p.f, p.g, limit, swapped)
           ELSE Multiplier30(p.f, p.g, limit, swapped)
  IN  IF z.i = 0 THEN [eta |-> z.eta, t |-> AsSigned(b, z)]
      ELSE DivstepsVar(n, [p EXCEPT !.g = W(@ + p.f * m), !.q = W(@ + p.u * m), !.r = W(@ + p.v * m)])

FirstVar(b, eta, f0, g0) ==
  [eta |-> eta, i |-> b.bits, f |-> Unsigned(b, f0), g |-> Unsigned(b, g0),
   u |-> 1, v |-> 0, q |-> 0, r |-> 1]

divsteps_62_var(eta, f0, g0) == DivstepsVar(62, FirstVar(Build(62), eta, f0, g0))

divsteps_30_var(eta, f0, g0) == DivstepsVar(30, FirstVar(Build(30), eta, f0, g0))

-----------------------------------------------------------------------------
VARIABLES
  inv   \* the inversion that runs: build, var, x, d, e, f, g, eta, len, i, job, r

Idle == [job |-> "idle"]

InvInit == inv = Idle

B == Build(inv.build)
Top(l) == l[inv.len]

BeginInverse(build, var, x) ==
  /\ inv.job = "idle"
  /\ LET b == Build(build)
     IN  inv' = [job |-> "loop", build |-> build, var |-> var, x |-> x,
                 d |-> LimbsOf(b, 0), e |-> LimbsOf(b, 1),
                 f |-> ModulusLimbs(b), g |-> LimbsOf(b, x),
                 eta |-> -1, len |-> b.limbs, i |-> 0, r |-> LimbsOf(b, 0)]

\* The constant time loops do a fixed number of rounds.
Round(build, steps(_, _, _)) ==
  LET s == steps(inv.eta, inv.f[1], inv.g[1])
      de == IF build = 62 THEN update_de(B, inv.d, inv.e, s.t) ELSE update_de_30(inv.d, inv.e, s.t)
      fg == IF build = 62 THEN update_fg(B, inv.f, inv.g, s.t) ELSE update_fg_30(inv.f, inv.g, s.t)
  IN  /\ inv.job = "loop" /\ inv.build = build /\ ~inv.var
      /\ inv.i < (IF build = 62 THEN Rounds62 ELSE Rounds30)
      /\ inv' = [inv EXCEPT !.eta = s.eta, !.d = de.d, !.e = de.e, !.f = fg.f, !.g = fg.g, !.i = @ + 1]

modinv64_round == Round(62, divsteps_59)
modinv32_round == Round(30, divsteps_30)

\* Mutant: a dropped last limb takes its sign with it.
Shrunk_NoSign(l, len) == l

\* When the last limbs of f and g only repeat their signs they are dropped and
\* the signs go to the limbs below.
Shrunk(l, len) ==
  [i \in 1..Len(l) |-> IF i = len - 1 /\ l[len] = -1 THEN l[i] - 2^B.bits ELSE l[i]]

\* The variable time loops work on the first len limbs of f and g, until g = 0.
VarRound(build, steps(_, _, _)) ==
  LET s == steps(inv.eta, inv.f[1], inv.g[1])
      de == IF build = 62 THEN update_de(B, inv.d, inv.e, s.t) ELSE update_de_30(inv.d, inv.e, s.t)
      fg == IF build = 62 THEN update_fg_var(B, inv.f, inv.g, inv.len, s.t)
            ELSE update_fg_30_var(inv.f, inv.g, inv.len, s.t)
      stop == \A i \in 1..inv.len : fg.g[i] = 0
      shrink == ~stop /\ inv.len > 1 /\ {fg.f[inv.len], fg.g[inv.len]} \subseteq {0, -1}
      cut(l) == IF shrink THEN SubSeq(Shrunk(l, inv.len), 1, inv.len - 1) ELSE l
  IN  /\ inv.job = "loop" /\ inv.build = build /\ inv.var
      /\ inv' = [inv EXCEPT !.eta = s.eta, !.d = de.d, !.e = de.e, !.f = cut(fg.f), !.g = cut(fg.g),
                            !.len = IF shrink THEN @ - 1 ELSE @, !.i = @ + 1,
                            !.job = IF stop THEN "stop" ELSE @]

modinv64_var_round == VarRound(62, divsteps_62_var)
modinv32_var_round == VarRound(30, divsteps_30_var)

\* d is the inverse up to the sign of f.
ReturnInverse ==
  /\ \/ inv.job = "stop"
     \/ inv.job = "loop" /\ ~inv.var /\ inv.i = IF inv.build = 62 THEN Rounds62 ELSE Rounds30
  /\ LET sign == Top(inv.f)
         r == IF inv.build = 62 THEN normalize(B, inv.d, sign) ELSE normalize_30(inv.d, sign)
     IN  inv' = [inv EXCEPT !.r = r, !.job = "returned"]

InvNext ==
  \/ \E build \in {62, 30}, var \in BOOLEAN, x \in InvInputs : BeginInverse(build, var, x)
  \/ modinv64_round \/ modinv32_round \/ modinv64_var_round \/ modinv32_var_round
  \/ ReturnInverse

InvSpec == InvInit /\ [][InvNext]_inv

-----------------------------------------------------------------------------
Val(l) == ValueIn(B, l)

\* Either file and either version returns the inverse in normalized limbs, and 0
\* for 0.
InverseIsRight ==
  inv.job = "returned" =>
    LET r == Val(inv.r)
    IN  /\ \A i \in 1..Len(inv.r) : inv.r[i] \in 0..(2^B.bits - 1)
        /\ r < InvModulus
        /\ IF inv.x = 0 THEN r = 0 ELSE (r * inv.x) % InvModulus = 1

\* Every round keeps d * x = f and e * x = g modulo the modulus, and the ranges
\* that update_de, update_fg and normalize verify on their way in and out:
\* the shortened f and g of the variable time versions still have their value.
RoundsKeepInverse ==
  inv.job \in {"loop", "stop"} =>
    LET M == InvModulus
    IN  /\ (Val(inv.d) * inv.x - Val(inv.f)) % M = 0
        /\ (Val(inv.e) * inv.x - Val(inv.g)) % M = 0
        /\ \A l \in {inv.d, inv.e} :
             /\ -2 * M < Val(l) /\ Val(l) < M
             /\ \A i \in 1..Len(l) : -(2^B.bits) < l[i] /\ l[i] < 2^B.bits
        /\ -M < Val(inv.f) /\ Val(inv.f) <= M
        /\ -M < Val(inv.g) /\ Val(inv.g) < M
        /\ inv.f[1] % 2 = 1

\* The rounds suffice for every number: a constant time loop ends with g = 0
\* and f = 1 or -1, and a variable time loop needs fewer than its assertion allows
\* (modinv64_impl.h:566).
RoundsSuffice ==
  /\ inv.job = "returned" =>
       Val(inv.g) = 0 /\ (inv.x # 0 => Val(inv.f) \in {1, -1})
  /\ (inv.job = "loop" /\ inv.var) => inv.i < IF inv.build = 62 THEN VarRounds62 ELSE VarRounds30

\* The inversions of modinv64_impl.h and modinv32_impl.h, in constant and in
\* variable time, are right, in every round and in as many rounds as they take.
InversionCorrect == InverseIsRight /\ RoundsKeepInverse /\ RoundsSuffice

=============================================================================
