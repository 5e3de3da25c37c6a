------------------------- MODULE Signatures_proofs -------------------------
(***************************************************************************)
(* What signatures, keys and batches of signatures keep, for every curve   *)
(* whose chord and tangent law is a group of prime order: a batch is       *)
(* accepted where its signatures are, keys stay together through every     *)
(* sequence of operations, and ECDSA verifies and recovers what it signed. *)
(* And what a hash is made of, however its data are cut into pieces, and   *)
(* what magnitudes the coordinates of points have.                         *)
(***************************************************************************)
EXTENDS PointSums, SchnorrBatch, EcKeys, Ecdsa, HashStream, SequenceTheorems, WellFoundedInduction, TLAPS

-----------------------------------------------------------------------------
(***************************************************************************)
(* Arithmetic and recursion.                                               *)
(***************************************************************************)

\* A set of naturals has a least element.
LEMMA LeastNumber ==
  ASSUME NEW S \in SUBSET Nat, S # {}
  PROVE  \E m \in S : \A n \in S : m <= n
<1>1. PICK m \in S : \A n \in S : <<n, m>> \notin OpToRel(<, Nat)
  BY NatLessThanWellFounded, WFMin
<1>2. ASSUME NEW n \in S PROVE m <= n
  <2>1. <<n, m>> \notin {ss \in Nat \X Nat : ss[1] < ss[2]}
    BY <1>1 DEF OpToRel
  <2> QED
    BY <2>1
<1> QED
  BY <1>2

\* What is true of 0, and of the next number after each, is true of them all.
LEMMA Stepwise ==
  ASSUME NEW S \in SUBSET Nat, NEW n \in Nat, 0 \in S, \A k \in 1..n : k - 1 \in S => k \in S
  PROVE  \A k \in 0..n : k \in S
<1> DEFINE Rest == {k \in 0..n : k \notin S}
<1>1. SUFFICES ASSUME Rest # {} PROVE FALSE
  OBVIOUS
<1>2. PICK k \in Rest : \A l \in Rest : k <= l
  <2>1. Rest \in SUBSET Nat
    OBVIOUS
  <2> HIDE DEF Rest
  <2> QED
    BY <1>1, <2>1, LeastNumber
<1>3. k # 0 /\ k \in 0..n
  BY <1>2
<1>4. k - 1 \in 0..n /\ ~(k <= k - 1)
  BY <1>3
<1>5. k - 1 \in S
  BY <1>2, <1>4
<1> QED
  BY <1>2, <1>3, <1>5

LEMMA DivMod ==
  ASSUME NEW a \in Int, NEW n \in Nat \ {0}
  PROVE  /\ a \div n \in Int
         /\ a % n \in 0..(n-1)
         /\ a = (a \div n) * n + (a % n)
  OBVIOUS

LEMMA Remainder ==
  ASSUME NEW q \in Int, NEW n \in Nat \ {0}, NEW r \in 0..(n-1), NEW a \in Int, a = q * n + r
  PROVE  a % n = r
<1>1. a \div n \in Int /\ a % n \in 0..(n-1) /\ a = (a \div n) * n + (a % n)
  BY DivMod
<1> DEFINE d == a \div n - q
           c == a % n
<1>2. d \in Int /\ c \in 0..(n-1)
  BY <1>1
<1>3. d * n = r - c
  <2>1. (a \div n) * n = d * n + q * n
    BY <1>1
  <2> QED
    BY <1>1, <2>1
<1> HIDE DEF d, c
<1>4. d * n < n /\ d * n > -n
  BY <1>2, <1>3
<1>5. d = 0
  <2>1. d >= 1 => d * n >= n
    BY <1>2
  <2>2. d <= -1 => d * n <= -n
    BY <1>2
  <2> QED
    BY <1>2, <1>4, <2>1, <2>2
<1>6. d * n = 0
  BY <1>5
<1>7. r = c
  BY <1>2, <1>3, <1>6
<1> QED
  BY <1>7 DEF c


LEMMA ModInt ==
  ASSUME NEW a \in Int, NEW n \in Nat \ {0}
  PROVE  a % n \in 0..(n-1) /\ a % n \in Nat
  OBVIOUS

LEMMA ModSmall ==
  ASSUME NEW n \in Nat \ {0}, NEW a \in 0..(n-1)
  PROVE  a % n = a
  OBVIOUS

\* A multiple of n more leaves the same remainder.
LEMMA ModPlus ==
  ASSUME NEW n \in Nat \ {0}, NEW a \in Int, NEW q \in Int
  PROVE  (a + q * n) % n = a % n
<1>1. a \div n \in Int /\ a % n \in 0..(n-1) /\ a = (a \div n) * n + (a % n)
  BY DivMod
<1> DEFINE d == a \div n
           r == a % n
<1>2. d \in Int /\ r \in 0..(n-1) /\ a = d * n + r
  BY <1>1
<1> HIDE DEF d, r
<1>3. a + q * n = (d + q) * n + r
  <2>1. (d + q) * n = d * n + q * n
    BY <1>2
  <2>2. d * n \in Int /\ q * n \in Int
    BY <1>2
  <2> QED
    BY <1>2, <2>1, <2>2
<1>4. a + q * n \in Int /\ d + q \in Int
  BY <1>2
<1>5. (a + q * n) % n = r
  BY <1>2, <1>3, <1>4, Remainder
<1> QED
  BY <1>5 DEF r

LEMMA ModAdd ==
  ASSUME NEW n \in Nat \ {0}, NEW a \in Int, NEW b \in Int
  PROVE  /\ (a + (b % n)) % n = (a + b) % n
         /\ ((a % n) + b) % n = (a + b) % n
<1>1. ASSUME NEW x \in Int, NEW y \in Int PROVE (x + (y % n)) % n = (x + y) % n
  <2> DEFINE d == y \div n
             r == y % n
  <2>1. d \in Int /\ r \in Int /\ y = d * n + r
    BY DivMod
  <2> HIDE DEF d, r
  <2>2. x + r \in Int /\ d * n \in Int /\ x + y = (x + r) + d * n
    BY <2>1
  <2>3. ((x + r) + d * n) % n = (x + r) % n
    BY <2>1, <2>2, ModPlus
  <2> QED
    BY <2>2, <2>3 DEF r
<1>2. (a + (b % n)) % n = (a + b) % n
  BY <1>1
<1>3. (b + (a % n)) % n = (b + a) % n
  BY <1>1
<1>4. b + (a % n) = (a % n) + b /\ b + a = a + b
  <2> DEFINE r == a % n
  <2>1. r \in Int
    BY ModInt
  <2> HIDE DEF r
  <2>2. b + r = r + b /\ b + a = a + b
    BY <2>1
  <2> QED
    BY <2>2 DEF r
<1> QED
  BY <1>2, <1>3, <1>4

LEMMA ModMul ==
  ASSUME NEW n \in Nat \ {0}, NEW a \in Int, NEW b \in Int
  PROVE  (a * (b % n)) % n = (a * b) % n
<1> DEFINE d == b \div n
           r == b % n
<1>1. d \in Int /\ r \in Int /\ b = d * n + r
  BY DivMod
<1> HIDE DEF d, r
<1>2. a * b = a * r + (a * d) * n
  <2>1. a * (d * n + r) = a * (d * n) + a * r
    BY <1>1
  <2>2. a * (d * n) = (a * d) * n
    BY <1>1
  <2>3. a * r \in Int /\ (a * d) * n \in Int
    BY <1>1
  <2> QED
    BY <1>1, <2>1, <2>2, <2>3
<1>3. a * r \in Int /\ a * d \in Int
  BY <1>1
<1>4. (a * r + (a * d) * n) % n = (a * r) % n
  BY <1>3, ModPlus
<1> QED
  BY <1>2, <1>4 DEF r

-----------------------------------------------------------------------------
(***************************************************************************)
(* The group.                                                              *)
(***************************************************************************)

LEMMA OrderType == Order \in Nat /\ Order > 3 /\ Order \in Nat \ {0}
  BY OrderAssumption

LEMMA Closed ==
  ASSUME NEW p \in Points, NEW q \in Points
  PROVE  Sum_of(p, q) \in Points /\ Sum_of(p, q) = Sum_of(q, p)
  BY GroupAssumption

LEMMA Associative ==
  ASSUME NEW p \in Points, NEW q \in Points, NEW t \in Points
  PROVE  Sum_of(Sum_of(p, q), t) = Sum_of(p, Sum_of(q, t))
  BY GroupAssumption

LEMMA Neutral ==
  /\ Infinity \in Points
  /\ \A p \in Points : Sum_of(Infinity, p) = p /\ Sum_of(p, Infinity) = p
<1>1. Infinity \in Points
  BY DEF Points
<1>2. ASSUME NEW p PROVE Sum_of(Infinity, p) = p
  BY DEF Sum_of
<1> QED
  BY <1>1, <1>2, Closed

\* What the terms of a sum make of the first n of them.
Adds(f, n, T) == f[0] = Infinity /\ \A k \in 1..n : f[k] = Sum_of(f[k-1], T[k])

LEMMA SumExists ==
  ASSUME NEW n \in Nat, NEW T \in [1..n -> Points]
  PROVE  \E f \in [0..n -> Points] : Adds(f, n, T)
<1> DEFINE S == {m \in 0..n : \E f \in [0..m -> Points] : Adds(f, m, T)}
<1>1. 0 \in S
  <2>1. [k \in 0..0 |-> Infinity] \in [0..0 -> Points] /\ Adds([k \in 0..0 |-> Infinity], 0, T)
    BY Neutral DEF Adds
  <2> QED
    BY <2>1
<1>2. ASSUME NEW m \in 1..n, m - 1 \in S PROVE m \in S
  <2>1. PICK g \in [0..(m-1) -> Points] : Adds(g, m - 1, T)
    BY <1>2
  <2> DEFINE f == [k \in 0..m |-> IF k = m THEN Sum_of(g[m-1], T[m]) ELSE g[k]]
  <2>2. m \in Nat /\ g[m-1] \in Points /\ T[m] \in Points
    OBVIOUS
  <2>3. Sum_of(g[m-1], T[m]) \in Points
    BY <2>2, Closed
  <2>4. f \in [0..m -> Points]
    BY <2>2, <2>3
  <2>5. f[0] = Infinity
    BY <2>1, <2>2 DEF Adds
  <2>6. ASSUME NEW k \in 1..m PROVE f[k] = Sum_of(f[k-1], T[k])
    <3>1. f[k-1] = g[k-1]
      BY <2>2
    <3>2. CASE k = m
      BY <2>2, <3>1, <3>2
    <3>3. CASE k # m
      <4>1. k \in 1..(m-1)
        BY <2>2, <3>3
      <4> QED
        BY <2>1, <2>2, <3>1, <3>3, <4>1 DEF Adds
    <3> QED
      BY <3>2, <3>3
  <2>7. Adds(f, m, T)
    BY <2>5, <2>6 DEF Adds
  <2> QED
    BY <2>4, <2>7
<1>3. S \in SUBSET Nat
  OBVIOUS
<1>4. (\A k \in 1..n : k - 1 \in S => k \in S)
  BY <1>2
<1>5. n \in S
  <2> HIDE DEF S
  <2>1. \A k \in 0..n : k \in S
    BY <1>1, <1>3, <1>4, Stepwise
  <2> QED
    BY <2>1
<1> QED
  BY <1>5

LEMMA SumUnique ==
  ASSUME NEW n \in Nat, NEW T, NEW f, NEW g, Adds(f, n, T), Adds(g, n, T)
  PROVE  \A k \in 0..n : f[k] = g[k]
<1> DEFINE S == {k \in 0..n : f[k] = g[k]}
<1>1. 0 \in S
  BY DEF Adds
<1>2. \A k \in 1..n : k - 1 \in S => k \in S
  BY DEF Adds
<1>3. S \in SUBSET Nat
  OBVIOUS
<1>4. \A k \in 0..n : k \in S
  <2> HIDE DEF S
  <2> QED
    BY <1>1, <1>2, <1>3, Stepwise
<1> QED
  BY <1>4

\* Times(k, p) is the sum of k terms p.
LEMMA MultiplesDef ==
  ASSUME NEW p \in Points
  PROVE  /\ Multiples[p] \in [0..(Order-1) -> Points]
         /\ Multiples[p][0] = Infinity
         /\ \A k \in 1..(Order-1) : Multiples[p][k] = Sum_of(Multiples[p][k-1], p)
<1> DEFINE n == Order - 1
           T == [k \in 1..n |-> p]
           rec(f) == [k \in 0..n |-> IF k = 0 THEN Infinity ELSE Sum_of(f[k-1], p)]
           m == Multiples[p]
<1>1. n \in Nat /\ T \in [1..n -> Points]
  BY OrderType
<1>2. PICK f \in [0..n -> Points] : Adds(f, n, T)
  <2> HIDE DEF n, T
  <2> QED
    BY <1>1, SumExists
<1>3. f = rec(f)
  <2>1. \A k \in 0..n : f[k] = IF k = 0 THEN Infinity ELSE Sum_of(f[k-1], p)
    BY <1>1, <1>2 DEF Adds
  <2> QED
    BY <2>1
<1>4. m = CHOOSE g : g = rec(g)
  BY DEF Multiples
<1>5. m = rec(m)
  BY <1>3, <1>4
<1> HIDE DEF m
<1>6. m[0] = Infinity /\ \A k \in 1..n : m[k] = Sum_of(m[k-1], p)
  BY <1>1, <1>5
<1>7. Adds(m, n, T)
  BY <1>6 DEF Adds
<1>8. \A k \in 0..n : f[k] = m[k]
  <2> HIDE DEF n, T
  <2> QED
    BY <1>1, <1>2, <1>7, SumUnique
<1>9. m = f
  BY <1>5, <1>8
<1> QED
  BY <1>6, <1>9 DEF m

LEMMA TimesTypes ==
  ASSUME NEW p \in Points, NEW k \in Int
  PROVE  Times(k, p) \in Points /\ Times(k % Order, p) = Times(k, p)
<1>1. k % Order \in 0..(Order-1)
  BY OrderType, ModInt
<1>2. (k % Order) % Order = k % Order
  BY <1>1, OrderType, ModSmall
<1>3. Multiples[p][k % Order] \in Points
  BY <1>1, MultiplesDef
<1> QED
  BY <1>2, <1>3 DEF Times

LEMMA TimesNone ==
  ASSUME NEW p \in Points
  PROVE  Times(0, p) = Infinity
<1>1. 0 % Order = 0
  BY OrderType, ModSmall
<1> QED
  BY <1>1, MultiplesDef DEF Times

LEMMA TimesNext ==
  ASSUME NEW p \in Points, NEW k \in Nat
  PROVE  Times(k + 1, p) = Sum_of(Times(k, p), p)
<1> DEFINE r == k % Order
<1>1. r \in 0..(Order-1)
  BY OrderType, ModInt
<1>2. Times(k, p) = Multiples[p][r]
  BY DEF Times
<1>3. (k + 1) % Order = (r + 1) % Order
  <2>1. k \in Int /\ 1 \in Int /\ Order \in Nat \ {0}
    BY OrderType
  <2>2. ((k % Order) + 1) % Order = (k + 1) % Order
    BY <2>1, ModAdd
  <2> QED
    BY <2>2
<1> HIDE DEF r
<1>4. CASE r = Order - 1
  <2>1. (r + 1) % Order = 0
    <3>1. r + 1 = 1 * Order + 0
      BY <1>4, OrderType
    <3>2. r + 1 \in Int /\ 0 \in 0..(Order-1)
      BY <1>1, OrderType
    <3> QED
      BY <3>1, <3>2, OrderType, Remainder
  <2>2. Times(k + 1, p) = Infinity
    BY <1>3, <2>1, MultiplesDef DEF Times
  <2>3. (Order - 1) % Order = Order - 1
    BY OrderType, ModSmall
  <2>4. Times(k, p) = Times(Order - 1, p)
    BY <1>2, <1>4, <2>3 DEF Times
  <2> QED
    BY <2>2, <2>4, GroupAssumption
<1>5. CASE r # Order - 1
  <2>1. r + 1 \in 1..(Order-1) /\ (r + 1) - 1 = r
    BY <1>1, <1>5, OrderType
  <2>2. (r + 1) % Order = r + 1
    <3>1. r + 1 \in 0..(Order-1)
      BY <2>1
    <3> QED
      BY <3>1, OrderType, ModSmall
  <2>3. Times(k + 1, p) = Multiples[p][r + 1]
    BY <1>3, <2>2 DEF Times
  <2>4. Multiples[p][r + 1] = Sum_of(Multiples[p][r], p)
    BY <2>1, MultiplesDef
  <2> QED
    BY <1>2, <2>3, <2>4
<1> QED
  BY <1>4, <1>5

LEMMA TimesOne ==
  ASSUME NEW p \in Points
  PROVE  Times(1, p) = p
<1>1. Times(0 + 1, p) = Sum_of(Times(0, p), p)
  BY TimesNext
<1> QED
  BY <1>1, TimesNone, Neutral

LEMMA TimesPlus ==
  ASSUME NEW p \in Points, NEW a \in Nat, NEW b \in Nat
  PROVE  Times(a + b, p) = Sum_of(Times(a, p), Times(b, p))
<1> DEFINE S == {k \in 0..b : Times(a + k, p) = Sum_of(Times(a, p), Times(k, p))}
<1>1. 0 \in S
  BY TimesNone, TimesTypes, Neutral
<1>2. ASSUME NEW k \in 1..b, k - 1 \in S PROVE k \in S
  <2> DEFINE l == k - 1
  <2>1. l \in Nat /\ k = l + 1 /\ a + k = (a + l) + 1 /\ a + l \in Nat
    OBVIOUS
  <2>2. Times(a + l, p) = Sum_of(Times(a, p), Times(l, p))
    BY <1>2
  <2> HIDE DEF l
  <2>3. Times(k, p) = Sum_of(Times(l, p), p)
    BY <2>1, TimesNext
  <2>4. Times(a + k, p) = Sum_of(Times(a + l, p), p)
    BY <2>1, TimesNext
  <2>5. Times(a, p) \in Points /\ Times(l, p) \in Points
    BY <2>1, TimesTypes
  <2>6. Times(a + k, p) = Sum_of(Times(a, p), Times(k, p))
    BY <2>2, <2>3, <2>4, <2>5, Associative
  <2> QED
    BY <2>6
<1>3. S \in SUBSET Nat /\ \A k \in 1..b : k - 1 \in S => k \in S
  BY <1>2
<1>4. \A k \in 0..b : k \in S
  <2> HIDE DEF S
  <2> QED
    BY <1>1, <1>3, Stepwise
<1> QED
  BY <1>4

LEMMA TimesTimes ==
  ASSUME NEW p \in Points, NEW a \in Nat, NEW b \in Nat
  PROVE  Times(a * b, p) = Times(a, Times(b, p))
<1> DEFINE t == Times(b, p)
           S == {k \in 0..a : Times(k * b, p) = Times(k, t)}
<1>1. t \in Points
  BY TimesTypes
<1>2. 0 \in S
  <2>1. 0 * b = 0
    OBVIOUS
  <2> QED
    BY <1>1, <2>1, TimesNone
<1>3. ASSUME NEW k \in 1..a, k - 1 \in S PROVE k \in S
  <2> DEFINE l == k - 1
  <2>1. l \in Nat /\ k = l + 1
    OBVIOUS
  <2>2. Times(l * b, p) = Times(l, t)
    BY <1>3
  <2> HIDE DEF l
  <2>3. k * b = l * b + b /\ l * b \in Nat
    BY <2>1
  <2>4. Times(l * b + b, p) = Sum_of(Times(l * b, p), t)
    BY <2>3, TimesPlus
  <2>5. Times(l + 1, t) = Sum_of(Times(l, t), t)
    BY <1>1, <2>1, TimesNext
  <2>6. Times(k * b, p) = Times(k, t)
    BY <2>1, <2>2, <2>3, <2>4, <2>5
  <2> QED
    BY <2>6
<1>4. S \in SUBSET Nat /\ \A k \in 1..a : k - 1 \in S => k \in S
  BY <1>3
<1>5. \A k \in 0..a : k \in S
  <2> HIDE DEF S
  <2> QED
    BY <1>2, <1>4, Stepwise
<1> QED
  BY <1>5

\* Sums may be taken in any order.
LEMMA Exchange ==
  ASSUME NEW p \in Points, NEW q \in Points, NEW t \in Points, NEW u \in Points
  PROVE  Sum_of(Sum_of(p, q), Sum_of(t, u)) = Sum_of(Sum_of(p, t), Sum_of(q, u))
<1>1. /\ Sum_of(t, u) \in Points /\ Sum_of(q, u) \in Points /\ Sum_of(q, t) \in Points
      /\ Sum_of(q, t) = Sum_of(t, q)
  BY Closed
<1>2. Sum_of(Sum_of(p, q), Sum_of(t, u)) = Sum_of(p, Sum_of(q, Sum_of(t, u)))
  BY <1>1, Associative
<1>3. Sum_of(q, Sum_of(t, u)) = Sum_of(Sum_of(q, t), u)
  BY Associative
<1>4. Sum_of(Sum_of(t, q), u) = Sum_of(t, Sum_of(q, u))
  BY Associative
<1>5. Sum_of(p, Sum_of(t, Sum_of(q, u))) = Sum_of(Sum_of(p, t), Sum_of(q, u))
  BY <1>1, Associative
<1> QED
  BY <1>1, <1>2, <1>3, <1>4, <1>5

LEMMA TimesSum ==
  ASSUME NEW p \in Points, NEW q \in Points, NEW a \in Nat
  PROVE  Times(a, Sum_of(p, q)) = Sum_of(Times(a, p), Times(a, q))
<1> DEFINE t == Sum_of(p, q)
           S == {k \in 0..a : Times(k, t) = Sum_of(Times(k, p), Times(k, q))}
<1>1. t \in Points
  BY Closed
<1>2. 0 \in S
  BY <1>1, TimesNone, Neutral
<1>3. ASSUME NEW k \in 1..a, k - 1 \in S PROVE k \in S
  <2> DEFINE l == k - 1
  <2>1. l \in Nat /\ k = l + 1
    OBVIOUS
  <2>2. Times(l, t) = Sum_of(Times(l, p), Times(l, q))
    BY <1>3
  <2> HIDE DEF l
  <2>3. /\ Times(k, t) = Sum_of(Times(l, t), t)
        /\ Times(k, p) = Sum_of(Times(l, p), p)
        /\ Times(k, q) = Sum_of(Times(l, q), q)
    BY <1>1, <2>1, TimesNext
  <2>4. Times(l, p) \in Points /\ Times(l, q) \in Points
    BY <2>1, TimesTypes
  <2>5. Sum_of(Sum_of(Times(l, p), Times(l, q)), Sum_of(p, q)) =
          Sum_of(Sum_of(Times(l, p), p), Sum_of(Times(l, q), q))
    BY <2>4, Exchange
  <2>6. Times(k, t) = Sum_of(Times(k, p), Times(k, q))
    BY <2>2, <2>3, <2>5
  <2> QED
    BY <2>6
<1>4. S \in SUBSET Nat /\ \A k \in 1..a : k - 1 \in S => k \in S
  BY <1>3
<1>5. \A k \in 0..a : k \in S
  <2> HIDE DEF S
  <2> QED
    BY <1>2, <1>4, Stepwise
<1> QED
  BY <1>5

LEMMA TimesInfinity ==
  ASSUME NEW a \in Nat
  PROVE  Times(a, Infinity) = Infinity
<1>1. Infinity \in Points /\ Times(0, Infinity) = Infinity
  BY Neutral, TimesNone
<1>2. Times(a * 0, Infinity) = Times(a, Times(0, Infinity))
  BY <1>1, TimesTimes
<1>3. a * 0 = 0
  OBVIOUS
<1> QED
  BY <1>1, <1>2, <1>3

\* The operations on scalars are those on multiples.
LEMMA ScalarTypes ==
  ASSUME NEW a \in Scalars, NEW b \in Scalars
  PROVE  /\ a \in Nat /\ scalar_add(a, b) \in Scalars
         /\ scalar_mul(a, b) \in Scalars /\ scalar_negate(a) \in Scalars
<1>1. a \in Nat /\ b \in Nat /\ a \in 0..(Order-1)
  BY OrderType DEF Scalars
<1>2. a + b \in Int /\ a * b \in Int
  BY <1>1
<1>3. (a + b) % Order \in 0..(Order-1) /\ (a * b) % Order \in 0..(Order-1)
  BY <1>2, OrderType, ModInt
<1>4. scalar_negate(a) \in 0..(Order-1)
  BY <1>1, OrderType DEF scalar_negate
<1> QED
  BY <1>1, <1>3, <1>4 DEF Scalars, scalar_add, scalar_mul

LEMMA ScalarInt ==
  ASSUME NEW a \in Scalars
  PROVE  a \in Nat /\ a \in Int /\ scalar_negate(a) \in Scalars /\ scalar_negate(a) \in Int
<1>1. scalar_negate(a) \in Scalars
  BY ScalarTypes
<1> QED
  BY <1>1, OrderType DEF Scalars

LEMMA TimesAdd ==
  ASSUME NEW p \in Points, NEW a \in Scalars, NEW b \in Scalars
  PROVE  Times(scalar_add(a, b), p) = Sum_of(Times(a, p), Times(b, p))
<1>1. a \in Nat /\ b \in Nat /\ a + b \in Int
  BY OrderType DEF Scalars
<1>2. Times((a + b) % Order, p) = Times(a + b, p)
  BY <1>1, TimesTypes
<1> QED
  BY <1>1, <1>2, TimesPlus DEF scalar_add

LEMMA TimesMul ==
  ASSUME NEW p \in Points, NEW a \in Scalars, NEW b \in Scalars
  PROVE  Times(scalar_mul(a, b), p) = Times(a, Times(b, p))
<1>1. a \in Nat /\ b \in Nat /\ a * b \in Int
  BY OrderType DEF Scalars
<1>2. Times((a * b) % Order, p) = Times(a * b, p)
  BY <1>1, TimesTypes
<1> QED
  BY <1>1, <1>2, TimesTimes DEF scalar_mul

LEMMA NegateAdd ==
  ASSUME NEW a \in Scalars
  PROVE  scalar_add(scalar_negate(a), a) = 0
<1>1. a \in 0..(Order-1)
  BY DEF Scalars
<1>2. CASE a = 0
  <2>1. (0 + 0) % Order = 0
    BY OrderType, ModSmall
  <2> QED
    BY <1>2, <2>1 DEF scalar_add, scalar_negate
<1>3. CASE a # 0
  <2>1. (Order - a) + a = 1 * Order + 0 /\ (Order - a) + a \in Int /\ 0 \in 0..(Order-1)
    BY <1>1, OrderType
  <2>2. ((Order - a) + a) % Order = 0
    BY <2>1, OrderType, Remainder
  <2> QED
    BY <1>3, <2>2 DEF scalar_add, scalar_negate
<1> QED
  BY <1>2, <1>3

LEMMA TimesNegate ==
  ASSUME NEW p \in Points, NEW a \in Scalars
  PROVE  /\ Sum_of(Times(scalar_negate(a), p), Times(a, p)) = Infinity
         /\ Sum_of(Times(a, p), Times(scalar_negate(a), p)) = Infinity
<1>1. scalar_negate(a) \in Scalars /\ a \in Int /\ scalar_negate(a) \in Int
  BY ScalarTypes DEF Scalars
<1>2. Times(scalar_add(scalar_negate(a), a), p) = Infinity
  BY NegateAdd, TimesNone
<1>3. Times(a, p) \in Points /\ Times(scalar_negate(a), p) \in Points
  BY <1>1, TimesTypes
<1> QED
  BY <1>1, <1>2, <1>3, TimesAdd, Closed

\* A point whose sum with another is infinity is its only inverse.
LEMMA OnlyInverse ==
  ASSUME NEW p \in Points, NEW q \in Points, NEW t \in Points,
         Sum_of(p, q) = Infinity, Sum_of(p, t) = Infinity
  PROVE  q = t
<1>1. Sum_of(q, p) = Infinity
  BY Closed
<1>2. Sum_of(Sum_of(q, p), t) = Sum_of(q, Sum_of(p, t))
  BY Associative
<1> QED
  BY <1>1, <1>2, Neutral

\* No multiple of a point other than infinity is infinity, unless it is a
\* multiple of the order.
LEMMA NoTorsion ==
  ASSUME NEW p \in Points, NEW a \in Scalars, a # 0, Times(a, p) = Infinity
  PROVE  p = Infinity
<1>1. a \in 1..(Order-1)
  BY DEF Scalars
<1>2. PICK b \in Scalars : (b * a) % Order = 1
  BY <1>1, OrderPrimeAssumption
<1>3. Times(scalar_mul(b, a), p) = Times(b, Times(a, p))
  BY TimesMul
<1>4. Times(b, Infinity) = Infinity
  BY <1>2, ScalarTypes, TimesInfinity
<1> QED
  BY <1>2, <1>3, <1>4, TimesOne DEF scalar_mul

\* Points that have one sum with a third are one.
LEMMA Cancel ==
  ASSUME NEW p \in Points, NEW q \in Points, NEW t \in Points, Sum_of(q, p) = Sum_of(t, p)
  PROVE  q = t
<1> DEFINE n == Times(Order - 1, p)
<1>1. n \in Points /\ Sum_of(n, p) = Infinity
  <2>1. Order - 1 \in Int
    BY OrderType
  <2> QED
    BY <2>1, TimesTypes, GroupAssumption
<1> HIDE DEF n
<1>2. Sum_of(p, n) = Infinity
  BY <1>1, Closed
<1>3. Sum_of(Sum_of(q, p), n) = Sum_of(q, Sum_of(p, n))
  BY <1>1, Associative
<1>4. Sum_of(Sum_of(t, p), n) = Sum_of(t, Sum_of(p, n))
  BY <1>1, Associative
<1> QED
  BY <1>2, <1>3, <1>4, Neutral

-----------------------------------------------------------------------------
(***************************************************************************)
(* Points and their coordinates.                                           *)
(***************************************************************************)

LEMMA PrimeType == P \in Nat /\ P > 3 /\ P \in Nat \ {0} /\ P % 2 = 1
<1>1. P \in Nat /\ P > 3 /\ P % 4 = 3
  BY FieldAssumption
<1>2. P = 4 * (P \div 4) + 3
  BY <1>1
<1>3. P % 2 = 1
  BY <1>1, <1>2
<1> QED
  BY <1>1, <1>3

\* P divides a product only if it divides a factor.
LEMMA PrimeFactor ==
  ASSUME NEW a \in Int, NEW b \in Int, (a * b) % P = 0, a % P # 0
  PROVE  b % P = 0
<1>1. a % P \in 1..(P-1)
  <2>1. a % P \in 0..(P-1)
    BY PrimeType, ModInt
  <2> QED
    BY <2>1
<1>2. PICK w \in 1..(P-1) : ((a % P) * w) % P = 1
  BY <1>1, FieldPrimeAssumption
<1>3. w \in Int /\ w * a \in Int /\ a * b \in Int
  BY <1>2
<1>4. (w * a) % P = 1
  <2> DEFINE v == a % P
  <2>1. (w * v) % P = (w * a) % P
    BY <1>3, PrimeType, ModMul
  <2>2. v \in Int
    BY <1>1
  <2>3. (v * w) % P = 1
    BY <1>2
  <2> HIDE DEF v
  <2>4. v * w = w * v
    BY <1>3, <2>2
  <2> QED
    BY <2>1, <2>3, <2>4
<1>5. (b * (w * a)) % P = b % P
  <2>1. (b * ((w * a) % P)) % P = (b * (w * a)) % P
    BY <1>3, PrimeType, ModMul
  <2>2. b * 1 = b
    OBVIOUS
  <2> QED
    BY <1>4, <2>1, <2>2
<1>6. (w * (a * b)) % P = 0
  <2>1. (w * ((a * b) % P)) % P = (w * (a * b)) % P
    BY <1>3, PrimeType, ModMul
  <2>2. w * 0 = 0
    BY <1>3
  <2>3. 0 % P = 0
    BY PrimeType, ModSmall
  <2> QED
    BY <2>1, <2>2, <2>3
<1>7. b * (w * a) = w * (a * b)
  BY <1>3
<1> QED
  BY <1>5, <1>6, <1>7

\* A square has no roots but y and P - y.
LEMMA SquareRoots ==
  ASSUME NEW y \in 0..(P-1), NEW z \in 0..(P-1), (y * y) % P = (z * z) % P
  PROVE  y = z \/ y + z = P
<1> DEFINE d == y - z
           t == y + z
<1>1. P \in Nat \ {0} /\ y \in Int /\ z \in Int /\ d \in Int /\ t \in Int
  BY PrimeType
<1>2. (d * t) % P = 0
  <2> DEFINE q1 == (y * y) \div P
             q2 == (z * z) \div P
             r == (y * y) % P
  <2>1. y * y \in Int /\ z * z \in Int
    BY <1>1
  <2>2. q1 \in Int /\ q2 \in Int /\ r \in 0..(P-1) /\ y * y = q1 * P + r /\ z * z = q2 * P + r
    BY <1>1, <2>1, DivMod
  <2>3. d * t = y * y - z * z
    BY <1>1
  <2> HIDE DEF q1, q2, r, d, t
  <2>4. y * y - z * z = (q1 - q2) * P + 0
    <3>1. (q1 - q2) * P = q1 * P - q2 * P
      BY <1>1, <2>2
    <3> DEFINE m1 == q1 * P
               m2 == q2 * P
               y2 == y * y
               z2 == z * z
    <3>2. m1 \in Int /\ m2 \in Int /\ r \in Int /\ y2 = m1 + r /\ z2 = m2 + r
      BY <1>1, <2>2
    <3>3. (q1 - q2) * P = m1 - m2
      BY <3>1
    <3> HIDE DEF m1, m2, y2, z2
    <3>4. y2 - z2 = (m1 - m2) + 0
      BY <3>2
    <3> QED
      BY <3>3, <3>4 DEF y2, z2
  <2>5. d * t \in Int /\ q1 - q2 \in Int /\ 0 \in 0..(P-1)
    BY <1>1, <2>2
  <2> QED
    BY <1>1, <2>3, <2>4, <2>5, Remainder
<1>3. CASE d % P = 0
  <2>1. d \div P \in Int /\ d = (d \div P) * P + (d % P)
    BY <1>1, DivMod
  <2> DEFINE q == d \div P
  <2>2. q \in Int /\ d = q * P
    BY <1>1, <1>3, <2>1
  <2>3. d < P /\ d > -P
    BY <1>1
  <2> HIDE DEF q, d
  <2>4. ~(q >= 1)
    <3>1. q >= 1 => q * P >= P
      BY <1>1, <2>2
    <3> QED
      BY <1>1, <2>2, <2>3, <3>1
  <2>5. ~(q <= -1)
    <3>1. q <= -1 => q * P <= -P
      BY <1>1, <2>2
    <3> QED
      BY <1>1, <2>2, <2>3, <3>1
  <2>6. q = 0
    BY <2>2, <2>4, <2>5
  <2>7. d = 0
    BY <1>1, <2>2, <2>6
  <2> QED
    BY <1>1, <2>7 DEF d
<1>4. CASE d % P # 0
  <2>1. t % P = 0
    <3> HIDE DEF d, t
    <3> QED
      BY <1>1, <1>2, <1>4, PrimeFactor
  <2>2. t \div P \in Int /\ t = (t \div P) * P + (t % P)
    BY <1>1, DivMod
  <2> DEFINE q == t \div P
  <2>3. q \in Int /\ t = q * P
    BY <1>1, <2>1, <2>2
  <2>4. t >= 0 /\ t < 2 * P
    BY <1>1
  <2> HIDE DEF q, t
  <2>5. ~(q >= 2)
    <3>1. q >= 2 => q * P >= 2 * P
      BY <1>1, <2>3
    <3> QED
      BY <1>1, <2>3, <2>4, <3>1
  <2>6. ~(q <= -1)
    <3>1. q <= -1 => q * P <= -P
      BY <1>1, <2>3
    <3> QED
      BY <1>1, <2>3, <2>4, <3>1
  <2>7. q = 0 \/ q = 1
    BY <2>3, <2>5, <2>6
  <2>8. t = 0 \/ t = P
    BY <1>1, <2>3, <2>7
  <2> QED
    BY <1>1, <2>8 DEF t
<1> QED
  BY <1>3, <1>4

LEMMA AffineTypes ==
  ASSUME NEW p \in Affine
  PROVE  /\ p \in Points /\ p # Infinity
         /\ p[1] \in 0..(P-1) /\ p[2] \in 1..(P-1)
         /\ p = <<p[1], p[2]>>
         /\ p[1] \in 0..MaxBytes
         /\ (p[2] * p[2]) % P = (p[1] * p[1] * p[1] + B) % P
<1>1. /\ p \in (0..(P-1)) \X (0..(P-1))
      /\ (p[2] * p[2]) % P = (p[1] * p[1] * p[1] + B) % P
  BY DEF Affine
<1>2. p[1] \in 0..(P-1) /\ p[2] \in 0..(P-1) /\ p = <<p[1], p[2]>>
  BY <1>1
<1>3. p # Infinity
  BY <1>2 DEF Infinity
<1>4. p[2] # 0
  BY CurveAssumption
<1>5. p[2] \in 1..(P-1) /\ p[1] \in 0..MaxBytes
  BY <1>2, <1>4, PrimeType, BytesAssumption
<1> QED
  BY <1>1, <1>2, <1>3, <1>5 DEF Points

LEMMA PointIsAffine ==
  ASSUME NEW p \in Points, p # Infinity
  PROVE  p \in Affine
  BY DEF Points

\* There are two points of one x, if there is any.
LEMMA SameX ==
  ASSUME NEW p \in Affine, NEW q \in Affine, p[1] = q[1]
  PROVE  p = q \/ p[2] + q[2] = P
<1>1. /\ p[2] \in 0..(P-1) /\ q[2] \in 0..(P-1)
      /\ p = <<p[1], p[2]>> /\ q = <<q[1], q[2]>>
      /\ (p[2] * p[2]) % P = (q[2] * q[2]) % P
  BY AffineTypes
<1>2. p[2] = q[2] \/ p[2] + q[2] = P
  BY <1>1, SquareRoots
<1> QED
  BY <1>1, <1>2

\* A point is told by its x and the parity of its y.
LEMMA SameParity ==
  ASSUME NEW p \in Affine, NEW q \in Affine, p[1] = q[1], HasOddY(p) <=> HasOddY(q)
  PROVE  p = q
<1>1. p = q \/ p[2] + q[2] = P
  BY SameX
<1>2. p[2] + q[2] # P
  <2> DEFINE y == p[2]  z == q[2]
  <2>1. y \in 1..(P-1) /\ z \in 1..(P-1)
    BY AffineTypes
  <2>2. y % 2 = 1 <=> z % 2 = 1
    BY DEF HasOddY
  <2> HIDE DEF y, z
  <2>3. y + z # P
    BY <2>1, <2>2, PrimeType
  <2> QED
    BY <2>3 DEF y, z
<1> QED
  BY <1>1, <1>2

LEMMA NegativePoint ==
  ASSUME NEW p \in Affine
  PROVE  /\ Negative(p) \in Affine
         /\ Negative(p)[1] = p[1] /\ Negative(p)[2] = P - p[2]
         /\ HasOddY(Negative(p)) <=> ~HasOddY(p)
         /\ Sum_of(p, Negative(p)) = Infinity
<1> DEFINE x == p[1]
           y == p[2]
           z == P - y
<1>1. /\ p \in Points /\ p # Infinity /\ p = <<x, y>>
      /\ x \in 0..(P-1) /\ y \in 1..(P-1)
      /\ (y * y) % P = (x * x * x + B) % P
  BY AffineTypes
<1>2. z \in 1..(P-1) /\ P \in Nat \ {0} /\ y \in Int /\ z \in Int
  BY <1>1, PrimeType
<1>3. z % P = z
  <2>1. z \in 0..(P-1)
    BY <1>2
  <2> HIDE DEF z
  <2> QED
    BY <1>2, <2>1, ModSmall
<1>4. Negative(p) = <<x, z>>
  BY <1>1, <1>3 DEF Negative
<1>5. (z * z) % P = (y * y) % P
  <2>1. z * z = y * y + (P - 2 * y) * P
    BY <1>2
  <2>2. y * y \in Int /\ P - 2 * y \in Int
    BY <1>2
  <2> QED
    BY <1>2, <2>1, <2>2, ModPlus
<1>6. <<x, z>> \in Affine
  BY <1>1, <1>2, <1>5 DEF Affine
<1>7. z % 2 = 1 <=> ~(y % 2 = 1)
  BY <1>2, PrimeType
<1>8. Sum_of(p, Negative(p)) = Infinity
  <2>1. Negative(p) # Infinity
    BY <1>4 DEF Infinity
  <2> QED
    BY <1>1, <2>1 DEF Sum_of
<1> QED
  BY <1>4, <1>6, <1>7, <1>8 DEF HasOddY

\* x lifted is the point with this x and an even y.
LEMMA LiftTypes ==
  ASSUME NEW x \in 0..MaxBytes
  PROVE  /\ LiftX(x) \in Points
         /\ LiftX(x) # Infinity => LiftX(x) \in Affine /\ LiftX(x)[1] = x /\ ~HasOddY(LiftX(x))
<1>1. CASE \E p \in Affine : p[1] = x /\ ~HasOddY(p)
  <2>1. LiftX(x) = CHOOSE p \in Affine : p[1] = x /\ ~HasOddY(p)
    BY <1>1 DEF LiftX, Lifted
  <2>2. LiftX(x) \in Affine /\ LiftX(x)[1] = x /\ ~HasOddY(LiftX(x))
    BY <1>1, <2>1
  <2> QED
    BY <2>2, AffineTypes
<1>2. CASE ~ \E p \in Affine : p[1] = x /\ ~HasOddY(p)
  <2>1. LiftX(x) = Infinity
    BY <1>2 DEF LiftX, Lifted
  <2> QED
    BY <2>1, Neutral
<1> QED
  BY <1>1, <1>2

LEMMA LiftOf ==
  ASSUME NEW p \in Affine
  PROVE  /\ LiftX(p[1]) \in Affine /\ LiftX(p[1]) # Infinity
         /\ LiftX(p[1]) = IF HasOddY(p) THEN Negative(p) ELSE p
<1> DEFINE even == IF HasOddY(p) THEN Negative(p) ELSE p
           x == p[1]
<1>1. even \in Affine /\ even[1] = x /\ ~HasOddY(even)
  BY NegativePoint
<1>2. x \in 0..MaxBytes
  BY AffineTypes
<1> HIDE DEF even, x
<1>3. LiftX(x) \in Affine /\ LiftX(x)[1] = x /\ ~HasOddY(LiftX(x))
  BY <1>1, <1>2 DEF LiftX, Lifted
<1>4. LiftX(x) = even
  <2>1. LiftX(x) = even \/ LiftX(x)[2] + even[2] = P
    BY <1>1, <1>3, SameX
  <2>2. LiftX(x)[2] + even[2] # P
    <3> DEFINE a == LiftX(x)[2]
               b == even[2]
    <3>1. a \in 1..(P-1) /\ b \in 1..(P-1)
      BY <1>1, <1>3, AffineTypes
    <3>2. a % 2 # 1 /\ b % 2 # 1
      BY <1>1, <1>3 DEF HasOddY
    <3> HIDE DEF a, b
    <3>3. a + b # P
      BY <3>1, <3>2, PrimeType
    <3> QED
      BY <3>3 DEF a, b
  <2> QED
    BY <2>1, <2>2
<1> QED
  BY <1>3, <1>4, AffineTypes DEF even, x

LEMMA GeneratorTypes == Generator \in Affine /\ Generator \in Points /\ Generator # Infinity
  BY CurveAssumption, AffineTypes

\* A multiple that is not infinity of a point, and of the negative scalar.
LEMMA TimesNegative ==
  ASSUME NEW p \in Points, NEW k \in Scalars, Times(k, p) \in Affine
  PROVE  Times(scalar_negate(k), p) = Negative(Times(k, p))
<1> DEFINE q == Times(k, p)
<1>1. q \in Points /\ Negative(q) \in Points /\ Sum_of(q, Negative(q)) = Infinity
  BY NegativePoint, AffineTypes
<1>2. scalar_negate(k) \in Scalars /\ scalar_negate(k) \in Int
  BY ScalarTypes DEF Scalars
<1>3. Times(scalar_negate(k), p) \in Points /\ Sum_of(q, Times(scalar_negate(k), p)) = Infinity
  BY <1>2, TimesTypes, TimesNegate
<1> HIDE DEF q
<1> QED
  BY <1>1, <1>3, OnlyInverse DEF q

LEMMA PublicKeyTypes ==
  ASSUME NEW k \in 1..(Order-1)
  PROVE  /\ k \in Scalars /\ k # 0
         /\ Times(k, Generator) \in Affine
         /\ PublicKey(k) = Times(k, Generator)
<1>1. k \in Scalars /\ k # 0 /\ k \in Int
  BY OrderType DEF Scalars
<1>2. Times(k, Generator) \in Points
  BY <1>1, GeneratorTypes, TimesTypes
<1>3. Times(k, Generator) # Infinity
  BY <1>1, GeneratorTypes, NoTorsion
<1> QED
  BY <1>1, <1>2, <1>3, PointIsAffine DEF PublicKey

\* A secret whose point has an odd y is negated: then it is that of the
\* lifted x.
LEMMA EvenSecret ==
  ASSUME NEW k \in 1..(Order-1)
  PROVE  LET q == Times(k, Generator)
             e == IF HasOddY(q) THEN scalar_negate(k) ELSE k
         IN  /\ e \in Scalars /\ Times(e, Generator) = LiftX(q[1])
             /\ LiftX(q[1]) \in Affine /\ q[1] \in 0..MaxBytes
<1> DEFINE q == Times(k, Generator)
<1>1. k \in Scalars /\ q \in Affine
  BY PublicKeyTypes
<1>2. scalar_negate(k) \in Scalars /\ Times(scalar_negate(k), Generator) = Negative(q)
  BY <1>1, ScalarTypes, GeneratorTypes, TimesNegative
<1>3. LiftX(q[1]) = IF HasOddY(q) THEN Negative(q) ELSE q
  BY <1>1, LiftOf
<1>4. LiftX(q[1]) \in Affine /\ q[1] \in 0..MaxBytes
  BY <1>1, LiftOf, AffineTypes
<1> QED
  BY <1>1, <1>2, <1>3, <1>4

-----------------------------------------------------------------------------
(***************************************************************************)
(* Schnorr signatures.                                                     *)
(***************************************************************************)

\* Bytes as a scalar.
LEMMA SetB32 ==
  ASSUME NEW v \in Nat
  PROVE  /\ scalar_set_b32(v).r \in Scalars
         /\ scalar_set_b32(v).overflow = (v >= Order)
         /\ v < Order => scalar_set_b32(v).r = v /\ v \in Scalars
<1>1. v % Order \in 0..(Order-1)
  BY OrderType, ModInt
<1>2. v < Order => v % Order = v /\ v \in 0..(Order-1)
  BY OrderType, ModSmall
<1> QED
  BY <1>1, <1>2 DEF scalar_set_b32, Scalars

\* Keys of which there is a point, and what may be in a batch.
XOnly == {x \in 0..MaxBytes : LiftX(x) # Infinity}
Item == [sig : Signature, msg : Messages, pk : XOnly]

SPart(t) == scalar_set_b32(t.sig.s).r
ChallengeOf(t) == schnorrsig_challenge(t.sig.r, t.msg, t.pk)

\* R + e * P: what s * G is if the signature is valid.
Expected(t) == Sum_of(LiftX(t.sig.r), Times(ChallengeOf(t), LiftX(t.pk)))

\* By how much the signature misses.
Defect(t) == Sum_of(Expected(t), Times(scalar_negate(SPart(t)), Generator))

LEMMA ItemTypes ==
  ASSUME NEW t \in Item
  PROVE  /\ t.sig.r \in 0..MaxBytes /\ t.sig.s \in Nat
         /\ t.msg \in Messages /\ t.pk \in 0..MaxBytes
         /\ SPart(t) \in Scalars /\ ChallengeOf(t) \in Scalars
         /\ LiftX(t.sig.r) \in Points /\ LiftX(t.pk) \in Affine /\ LiftX(t.pk) \in Points
         /\ Expected(t) \in Points /\ Defect(t) \in Points
<1>1. /\ t.sig.r \in 0..MaxBytes /\ t.sig.s \in 0..MaxBytes
      /\ t.msg \in Messages /\ t.pk \in 0..MaxBytes /\ LiftX(t.pk) # Infinity
  BY DEF Item, Signature, XOnly
<1>2. t.sig.s \in Nat
  BY <1>1, BytesAssumption
<1>3. Challenge(t.sig.r, t.pk, t.msg) \in Nat
  BY <1>1, ChallengeAssumption
<1>4. SPart(t) \in Scalars /\ ChallengeOf(t) \in Scalars
  BY <1>2, <1>3, SetB32 DEF SPart, ChallengeOf, schnorrsig_challenge
<1>5. LiftX(t.sig.r) \in Points /\ LiftX(t.pk) \in Affine /\ LiftX(t.pk) \in Points
  BY <1>1, LiftTypes
<1>6. Times(ChallengeOf(t), LiftX(t.pk)) \in Points
  BY <1>4, <1>5, ScalarInt, TimesTypes
<1>7. Expected(t) \in Points
  BY <1>5, <1>6, Closed DEF Expected
<1>8. Times(scalar_negate(SPart(t)), Generator) \in Points
  <2>1. scalar_negate(SPart(t)) \in Int
    BY <1>4, ScalarInt
  <2> QED
    BY <2>1, GeneratorTypes, TimesTypes
<1>9. Defect(t) \in Points
  BY <1>7, <1>8, Closed DEF Defect
<1> QED
  BY <1>1, <1>2, <1>4, <1>5, <1>7, <1>9

\* No defect: s * G is what it should be.
LEMMA NoDefect ==
  ASSUME NEW t \in Item
  PROVE  Defect(t) = Infinity <=> Times(SPart(t), Generator) = Expected(t)
<1> DEFINE e == Expected(t)
           g == Times(SPart(t), Generator)
           n == Times(scalar_negate(SPart(t)), Generator)
<1>1. e \in Points /\ SPart(t) \in Scalars
  BY ItemTypes
<1>2. g \in Points /\ n \in Points /\ Sum_of(g, n) = Infinity
  <2>1. SPart(t) \in Int /\ scalar_negate(SPart(t)) \in Int
    BY <1>1, ScalarInt
  <2> QED
    BY <1>1, <2>1, GeneratorTypes, TimesTypes, TimesNegate
<1>3. Defect(t) = Sum_of(e, n)
  BY DEF Defect
<1> HIDE DEF e, g, n
<1>4. Sum_of(e, n) = Infinity => e = g
  BY <1>1, <1>2, Cancel
<1> QED
  BY <1>2, <1>3, <1>4 DEF e, g

\* What schnorrsig_verify says of a signature.
LEMMA ValidItem ==
  ASSUME NEW t \in Item
  PROVE  Valid(t) <=> t.sig.s < Order /\ LiftX(t.sig.r) # Infinity /\ Defect(t) = Infinity
<1> DEFINE e == ChallengeOf(t)
           q == LiftX(t.pk)
           lift == LiftX(t.sig.r)
           g == Times(t.sig.s, Generator)
           a == Times(e, q)
           n == Times(scalar_negate(e), q)
           r == Sum_of(g, n)
<1>1. /\ t.sig.r \in 0..MaxBytes /\ t.sig.s \in Nat /\ e \in Scalars
      /\ lift \in Points /\ q \in Points /\ q \in Affine
  BY ItemTypes
<1>2. /\ g \in Points /\ a \in Points /\ n \in Points
      /\ Sum_of(n, a) = Infinity /\ Sum_of(a, n) = Infinity
  <2>1. e \in Int /\ scalar_negate(e) \in Int /\ t.sig.s \in Int
    BY <1>1, ScalarInt
  <2> QED
    BY <1>1, <2>1, GeneratorTypes, TimesTypes, TimesNegate
<1>3. r \in Points
  BY <1>2, Closed
<1>4. Expected(t) = Sum_of(lift, a)
  BY DEF Expected
<1>5. t.sig.s < Order => SPart(t) = t.sig.s
  BY <1>1, SetB32 DEF SPart
<1>6. Valid(t) <=>
        /\ t.sig.r < P /\ t.sig.s < Order
        /\ r # Infinity /\ ~HasOddY(r) /\ r[1] = t.sig.r
  <2>1. scalar_set_b32(t.sig.s).overflow = (t.sig.s >= Order)
    BY <1>1, SetB32
  <2>2. t.sig.s >= Order <=> ~(t.sig.s < Order)
    BY <1>1, OrderType
  <2>3. q # Infinity
    BY <1>1, AffineTypes
  <2> QED
    BY <2>1, <2>2, <2>3 DEF Valid, schnorrsig_verify, ChallengeOf
<1> HIDE DEF lift, r, g, a, n, q
<1>7. ASSUME Valid(t) PROVE t.sig.s < Order /\ lift # Infinity /\ Defect(t) = Infinity
  <2>1. r \in Affine /\ ~HasOddY(r) /\ r[1] = t.sig.r /\ t.sig.s < Order
    BY <1>3, <1>6, <1>7, PointIsAffine
  <2>2. lift = r /\ lift # Infinity
    BY <2>1, LiftOf DEF lift
  <2>3. Sum_of(r, a) = g
    <3>1. Sum_of(Sum_of(g, n), a) = Sum_of(g, Sum_of(n, a))
      BY <1>2, Associative
    <3> QED
      BY <1>2, <3>1, Neutral DEF r
  <2>4. Times(SPart(t), Generator) = Expected(t)
    BY <1>4, <1>5, <2>1, <2>2, <2>3 DEF g
  <2> QED
    BY <2>1, <2>2, <2>4, NoDefect
<1>8. ASSUME t.sig.s < Order, lift # Infinity, Defect(t) = Infinity PROVE Valid(t)
  <2>1. g = Sum_of(lift, a)
    BY <1>4, <1>5, <1>8, NoDefect DEF g
  <2>2. r = lift
    <3>1. Sum_of(Sum_of(lift, a), n) = Sum_of(lift, Sum_of(a, n))
      BY <1>1, <1>2, Associative
    <3> QED
      BY <1>1, <1>2, <2>1, <3>1, Neutral DEF r
  <2>3. lift \in Affine /\ lift[1] = t.sig.r /\ ~HasOddY(lift)
    BY <1>1, <1>8, LiftTypes DEF lift
  <2>4. t.sig.r < P
    <3>1. lift[1] \in 0..(P-1)
      BY <2>3, AffineTypes
    <3> QED
      BY <2>3, <3>1, PrimeType
  <2> QED
    BY <1>6, <1>8, <2>2, <2>3, <2>4
<1> QED
  BY <1>7, <1>8 DEF lift

LEMMA KeyOfItem ==
  ASSUME NEW k \in 1..(Order-1)
  PROVE  PublicKey(k)[1] \in XOnly
<1>1. PublicKey(k) = Times(k, Generator) /\ Times(k, Generator) \in Affine
  BY PublicKeyTypes
<1> QED
  BY <1>1, LiftOf, AffineTypes DEF XOnly

\* schnorrsig_verify accepts what schnorrsig_sign makes, for every key, nonce and message
\* (modules/schnorrsig/main_impl.h:127-237): the secret key and the nonce are
\* negated exactly if their points are not the ones that their x stand for.
THEOREM SignedIsValid ==
  ASSUME NEW k \in 1..(Order-1), NEW nonce \in Nat, NEW m \in Messages,
         schnorrsig_sign(k, m, nonce, TRUE).ret
  PROVE  LET made == schnorrsig_sign(k, m, nonce, TRUE).sig
             x == PublicKey(k)[1]
         IN  /\ [sig |-> made, msg |-> m, pk |-> x] \in Item
             /\ schnorrsig_verify(made, m, x)
<1> DEFINE x == PublicKey(k)[1]
           sk == IF HasOddY(PublicKey(k)) THEN scalar_negate(k) ELSE k
           k0 == scalar_set_b32(nonce).r
           r == Times(k0, Generator)
           k_even == IF HasOddY(r) THEN scalar_negate(k0) ELSE k0
           e == schnorrsig_challenge(r[1], m, x)
           made == [r |-> r[1], s |-> scalar_add(scalar_mul(e, sk), k_even)]
           t == [sig |-> made, msg |-> m, pk |-> x]
<1>1. k0 \in 1..(Order-1)
  <2>1. k0 \in Scalars
    BY SetB32
  <2>2. k0 # 0
    BY DEF schnorrsig_sign
  <2> QED
    BY <2>1, <2>2, OrderType DEF Scalars
<1>2. schnorrsig_sign(k, m, nonce, TRUE).sig = made
  BY <1>1 DEF schnorrsig_sign
<1>3. sk \in Scalars /\ Times(sk, Generator) = LiftX(x) /\ LiftX(x) \in Affine /\ x \in 0..MaxBytes
  BY PublicKeyTypes, EvenSecret
<1>4. /\ k_even \in Scalars /\ Times(k_even, Generator) = LiftX(r[1])
      /\ LiftX(r[1]) \in Affine /\ r[1] \in 0..MaxBytes
  <2> HIDE DEF k0
  <2> QED
    BY <1>1, EvenSecret
<1> HIDE DEF x, sk, k0, r, k_even
<1>5. e \in Scalars
  <2>1. Challenge(r[1], x, m) \in Nat
    BY <1>3, <1>4, ChallengeAssumption
  <2> QED
    BY <2>1, SetB32 DEF schnorrsig_challenge
<1> HIDE DEF e
<1>6. made.s \in Scalars /\ scalar_mul(e, sk) \in Scalars
  BY <1>3, <1>4, <1>5, ScalarTypes
<1>7. made.s \in 0..MaxBytes /\ made.s \in Nat /\ made.s < Order
  BY <1>6, OrderType, BytesAssumption DEF Scalars
<1>8. x \in XOnly
  BY KeyOfItem DEF x
<1>9. t \in Item
  BY <1>4, <1>7, <1>8 DEF Item, Signature
<1>10. SPart(t) = made.s
  BY <1>7, SetB32 DEF SPart
<1>11. Times(made.s, Generator) = Sum_of(Times(e, LiftX(x)), LiftX(r[1]))
  <2>1. Times(scalar_mul(e, sk), Generator) = Times(e, LiftX(x))
    BY <1>3, <1>5, GeneratorTypes, TimesMul
  <2> QED
    BY <1>4, <1>6, <2>1, GeneratorTypes, TimesAdd
<1>12. ChallengeOf(t) = e
  BY DEF ChallengeOf, e
<1>13. Expected(t) = Sum_of(LiftX(r[1]), Times(e, LiftX(x)))
  BY <1>12 DEF Expected
<1>14. Times(e, LiftX(x)) \in Points /\ LiftX(r[1]) \in Points
  BY <1>3, <1>4, <1>5, ScalarInt, TimesTypes, AffineTypes
<1>15. Defect(t) = Infinity
  BY <1>9, <1>10, <1>11, <1>13, <1>14, NoDefect, Closed
<1>16. Valid(t)
  BY <1>4, <1>7, <1>9, <1>15, ValidItem, AffineTypes
<1> QED
  BY <1>2, <1>9, <1>16 DEF Valid, x

-----------------------------------------------------------------------------
(***************************************************************************)
(* Batches.                                                                *)
(***************************************************************************)

\* The sum of the first terms of a sequence of points.
PartialSums(T, n) ==
  LET f[k \in 0..n] == IF k = 0 THEN Infinity ELSE Sum_of(f[k-1], T[k]) IN f

LEMMA SumsDef ==
  ASSUME NEW n \in Nat, NEW T \in [1..n -> Points]
  PROVE  PartialSums(T, n) \in [0..n -> Points] /\ Adds(PartialSums(T, n), n, T)
<1> DEFINE rec(f) == [k \in 0..n |-> IF k = 0 THEN Infinity ELSE Sum_of(f[k-1], T[k])]
           m == PartialSums(T, n)
<1>1. PICK f \in [0..n -> Points] : Adds(f, n, T)
  BY SumExists
<1>2. f = rec(f)
  <2>1. \A k \in 0..n : f[k] = IF k = 0 THEN Infinity ELSE Sum_of(f[k-1], T[k])
    BY <1>1 DEF Adds
  <2> QED
    BY <2>1
<1>3. m = CHOOSE g : g = rec(g)
  BY DEF PartialSums
<1>4. m = rec(m)
  BY <1>2, <1>3
<1> HIDE DEF m
<1>5. m[0] = Infinity /\ \A k \in 1..n : m[k] = Sum_of(m[k-1], T[k])
  BY <1>4
<1>6. Adds(m, n, T)
  BY <1>5 DEF Adds
<1>7. \A k \in 0..n : f[k] = m[k]
  BY <1>1, <1>6, SumUnique
<1>8. m = f
  BY <1>4, <1>7
<1> QED
  BY <1>6, <1>8 DEF m

\* A sum of sums.
LEMMA SumOfSums ==
  ASSUME NEW n \in Nat, NEW T \in [1..n -> Points], NEW U \in [1..n -> Points], NEW W \in [1..n -> Points],
         \A k \in 1..n : T[k] = Sum_of(U[k], W[k])
  PROVE  \A k \in 0..n : PartialSums(T, n)[k] = Sum_of(PartialSums(U, n)[k], PartialSums(W, n)[k])
<1> DEFINE f == PartialSums(T, n)
           g == PartialSums(U, n)
           h == PartialSums(W, n)
           S == {k \in 0..n : f[k] = Sum_of(g[k], h[k])}
<1>1. /\ f \in [0..n -> Points] /\ g \in [0..n -> Points] /\ h \in [0..n -> Points]
      /\ Adds(f, n, T) /\ Adds(g, n, U) /\ Adds(h, n, W)
  BY SumsDef
<1> HIDE DEF f, g, h
<1>2. 0 \in S
  BY <1>1, Neutral DEF Adds
<1>3. ASSUME NEW k \in 1..n, k - 1 \in S PROVE k \in S
  <2>1. f[k-1] = Sum_of(g[k-1], h[k-1])
    BY <1>3
  <2>2. g[k-1] \in Points /\ h[k-1] \in Points /\ U[k] \in Points /\ W[k] \in Points
    BY <1>1
  <2>3. f[k] = Sum_of(f[k-1], T[k]) /\ g[k] = Sum_of(g[k-1], U[k]) /\ h[k] = Sum_of(h[k-1], W[k])
    BY <1>1 DEF Adds
  <2>4. Sum_of(Sum_of(g[k-1], h[k-1]), Sum_of(U[k], W[k])) =
          Sum_of(Sum_of(g[k-1], U[k]), Sum_of(h[k-1], W[k]))
    BY <2>2, Exchange
  <2>5. f[k] = Sum_of(g[k], h[k])
    BY <2>1, <2>3, <2>4
  <2> QED
    BY <2>5
<1>4. S \in SUBSET Nat /\ \A k \in 1..n : k - 1 \in S => k \in S
  BY <1>3
<1>5. \A k \in 0..n : k \in S
  <2> HIDE DEF S
  <2> QED
    BY <1>2, <1>4, Stepwise
<1> QED
  BY <1>5 DEF f, g, h

\* A sum all terms of which but one are infinity is that one.
LEMMA SumOfOne ==
  ASSUME NEW n \in Nat, NEW T \in [1..n -> Points], NEW one \in 1..n,
         \A k \in 1..n : k # one => T[k] = Infinity
  PROVE  PartialSums(T, n)[n] = T[one]
<1> DEFINE f == PartialSums(T, n)
           S == {k \in 0..n : f[k] = IF k < one THEN Infinity ELSE T[one]}
<1>1. f \in [0..n -> Points] /\ Adds(f, n, T)
  BY SumsDef
<1> HIDE DEF f
<1>2. 0 \in S
  BY <1>1 DEF Adds
<1>3. ASSUME NEW k \in 1..n, k - 1 \in S PROVE k \in S
  <2>1. f[k] = Sum_of(f[k-1], T[k]) /\ f[k-1] = IF k - 1 < one THEN Infinity ELSE T[one]
    BY <1>1, <1>3 DEF Adds
  <2>2. T[k] \in Points /\ T[one] \in Points
    OBVIOUS
  <2>3. CASE k = one
    BY <2>1, <2>2, <2>3, Neutral
  <2>4. CASE k < one
    <3>1. k - 1 < one /\ T[k] = Infinity /\ k \in 0..n
      BY <2>4
    <3>2. f[k] = Infinity
      BY <2>1, <3>1, Neutral
    <3> QED
      BY <2>4, <3>1, <3>2
  <2>5. CASE k > one
    <3>1. ~(k - 1 < one) /\ ~(k < one) /\ T[k] = Infinity /\ k \in 0..n
      BY <2>5
    <3>2. f[k] = T[one]
      BY <2>1, <2>2, <3>1, Neutral
    <3> QED
      BY <3>1, <3>2
  <2> QED
    BY <2>3, <2>4, <2>5
<1>4. S \in SUBSET Nat /\ \A k \in 1..n : k - 1 \in S => k \in S
  BY <1>3
<1>5. \A k \in 0..n : k \in S
  <2> HIDE DEF S
  <2> QED
    BY <1>2, <1>4, Stepwise
<1>6. f[n] = T[one]
  BY <1>5
<1> QED
  BY <1>6 DEF f

LEMMA SumOfNone ==
  ASSUME NEW n \in Nat, NEW T \in [1..n -> Points], \A k \in 1..n : T[k] = Infinity
  PROVE  PartialSums(T, n)[n] = Infinity
<1> DEFINE f == PartialSums(T, n)
           S == {k \in 0..n : f[k] = Infinity}
<1>1. f \in [0..n -> Points] /\ Adds(f, n, T)
  BY SumsDef
<1> HIDE DEF f
<1>2. 0 \in S
  BY <1>1 DEF Adds
<1>3. \A k \in 1..n : k - 1 \in S => k \in S
  BY <1>1, Neutral DEF Adds
<1>4. S \in SUBSET Nat
  OBVIOUS
<1>5. \A k \in 0..n : k \in S
  <2> HIDE DEF S
  <2> QED
    BY <1>2, <1>3, <1>4, Stepwise
<1> QED
  BY <1>5 DEF f

\* The randomizers after so many calls of the generator, and that of the kth
\* signature.
CacheAt(st, q) == IF q = 0 THEN FirstCache ELSE NextRandomizers(st[q])
Rand(st, k) == CacheAt(st, k \div 2)[(k - 1) % 2]

\* What the kth signature adds to the sum of the s parts, times G, ...
STerm(sg, st, k) == Times(scalar_mul(SPart(sg[k]), Rand(st, k)), Generator)
\* ... and to the sum of the points, with an even index and with an odd one.
RTerm(sg, st, k) == Times(Rand(st, k), LiftX(sg[k].sig.r))
ETerm(sg, st, k) == Times(scalar_mul(ChallengeOf(sg[k]), Rand(st, k)), LiftX(sg[k].pk))

STerms(sg, st) == [k \in 1..Len(sg) |-> STerm(sg, st, k)]
PTerms(sg, st) == [k \in 1..Len(sg) |-> Sum_of(RTerm(sg, st, k), ETerm(sg, st, k))]
DTerms(sg, st) == [k \in 1..Len(sg) |-> Times(Rand(st, k), Defect(sg[k]))]

\* A batch and a stream of randomizers for it.
Batch(sg, st) == sg \in Seq(Item) /\ Len(sg) <= MaxSigs /\ st \in Streams

LEMMA RandTypes ==
  ASSUME NEW st \in Streams, NEW k \in 1..MaxSigs
  PROVE  CacheAt(st, k \div 2) \in [0..1 -> Scalars] /\ Rand(st, k) \in Scalars
<1>1. MaxSigs \in Nat /\ k \in Nat
  BY BatchAssumption
<1>2. k \div 2 \in 0..(MaxSigs \div 2)
  BY <1>1
<1>3. CacheAt(st, k \div 2) \in [0..1 -> Scalars]
  <2>1. CASE k \div 2 = 0
    <3>1. 0 \in Scalars /\ 1 \in Scalars
      BY OrderType DEF Scalars
    <3> QED
      BY <2>1, <3>1 DEF CacheAt, FirstCache
  <2>2. CASE k \div 2 # 0
    <3>1. k \div 2 \in 1..(MaxSigs \div 2)
      BY <1>2, <2>2
    <3>2. NextRandomizers(st[k \div 2]) \in [0..1 -> Scalars]
      BY <3>1, BatchAssumption
    <3> QED
      BY <2>2, <3>2 DEF CacheAt
  <2> QED
    BY <2>1, <2>2
<1>4. (k - 1) % 2 \in 0..1
  BY <1>1
<1> QED
  BY <1>3, <1>4 DEF Rand

LEMMA MulCommutes ==
  ASSUME NEW a \in Scalars, NEW b \in Scalars
  PROVE  scalar_mul(a, b) = scalar_mul(b, a)
<1>1. a \in Nat /\ b \in Nat
  BY ScalarInt
<1>2. a * b = b * a
  BY <1>1
<1> QED
  BY <1>2 DEF scalar_mul

LEMMA BatchItem ==
  ASSUME NEW sg, NEW st, Batch(sg, st), NEW k \in 1..Len(sg)
  PROVE  /\ sg[k] \in Item /\ k \in 1..MaxSigs /\ st \in Streams /\ Rand(st, k) \in Scalars
         /\ Len(sg) \in Nat
<1>1. sg[k] \in Item /\ st \in Streams /\ Len(sg) \in Nat /\ Len(sg) <= MaxSigs
  BY DEF Batch
<1>2. MaxSigs \in Nat
  BY BatchAssumption
<1>3. k \in 1..MaxSigs
  BY <1>1, <1>2
<1> QED
  BY <1>1, <1>3, RandTypes

LEMMA TermTypes ==
  ASSUME NEW sg, NEW st, Batch(sg, st), NEW k \in 1..Len(sg)
  PROVE  /\ STerm(sg, st, k) \in Points
         /\ RTerm(sg, st, k) \in Points
         /\ ETerm(sg, st, k) \in Points
         /\ Times(Rand(st, k), Defect(sg[k])) \in Points
<1> DEFINE a == Rand(st, k)
           t == sg[k]
<1>1. t \in Item /\ a \in Scalars
  BY BatchItem
<1> HIDE DEF a, t
<1>2. /\ SPart(t) \in Scalars /\ ChallengeOf(t) \in Scalars
      /\ LiftX(t.sig.r) \in Points /\ LiftX(t.pk) \in Points /\ Defect(t) \in Points
  BY <1>1, ItemTypes
<1>3. scalar_mul(SPart(t), a) \in Int /\ scalar_mul(ChallengeOf(t), a) \in Int /\ a \in Int
  BY <1>1, <1>2, ScalarTypes, ScalarInt
<1>4. /\ Times(scalar_mul(SPart(t), a), Generator) \in Points
      /\ Times(a, LiftX(t.sig.r)) \in Points
      /\ Times(scalar_mul(ChallengeOf(t), a), LiftX(t.pk)) \in Points
      /\ Times(a, Defect(t)) \in Points
  BY <1>2, <1>3, GeneratorTypes, TimesTypes
<1> QED
  BY <1>4 DEF STerm, RTerm, ETerm, a, t

LEMMA TermsTypes ==
  ASSUME NEW sg, NEW st, Batch(sg, st)
  PROVE  /\ Len(sg) \in Nat
         /\ STerms(sg, st) \in [1..Len(sg) -> Points]
         /\ PTerms(sg, st) \in [1..Len(sg) -> Points]
         /\ DTerms(sg, st) \in [1..Len(sg) -> Points]
<1>1. Len(sg) \in Nat
  BY DEF Batch
<1>2. STerms(sg, st) \in [1..Len(sg) -> Points]
  BY TermTypes DEF STerms
<1>3. PTerms(sg, st) \in [1..Len(sg) -> Points]
  BY TermTypes, Closed DEF PTerms
<1>4. DTerms(sg, st) \in [1..Len(sg) -> Points]
  BY TermTypes DEF DTerms
<1> QED
  BY <1>1, <1>2, <1>3, <1>4

\* A signature adds as much to the one sum as to the other but for its defect.
LEMMA TermSplit ==
  ASSUME NEW sg, NEW st, Batch(sg, st), NEW k \in 1..Len(sg)
  PROVE  Sum_of(RTerm(sg, st, k), ETerm(sg, st, k)) =
           Sum_of(Times(Rand(st, k), Defect(sg[k])), STerm(sg, st, k))
<1> DEFINE a == Rand(st, k)
           t == sg[k]
           e == ChallengeOf(t)
           sp == SPart(t)
           lift == LiftX(t.sig.r)
           q == LiftX(t.pk)
           x == Expected(t)
           g == Times(sp, Generator)
           n == Times(scalar_negate(sp), Generator)
<1>1. /\ t \in Item /\ a \in Scalars
  BY BatchItem
<1>2. /\ sp \in Scalars /\ e \in Scalars /\ lift \in Points /\ q \in Points
      /\ x \in Points /\ Defect(t) \in Points
  BY <1>1, ItemTypes
<1>3. RTerm(sg, st, k) = Times(a, lift)
  BY DEF RTerm
<1>4. ETerm(sg, st, k) = Times(scalar_mul(e, a), q)
  BY DEF ETerm
<1>5. STerm(sg, st, k) = Times(scalar_mul(sp, a), Generator)
  BY DEF STerm
<1>6. x = Sum_of(lift, Times(e, q))
  BY DEF Expected
<1>7. Defect(t) = Sum_of(x, n)
  BY DEF Defect
<1> HIDE DEF a, e, sp, lift, q, x, t
<1>8. a \in Nat /\ Times(e, q) \in Points
  BY <1>1, <1>2, ScalarInt, TimesTypes
<1>9. g \in Points /\ n \in Points /\ Sum_of(n, g) = Infinity
  <2>1. sp \in Int /\ scalar_negate(sp) \in Int
    BY <1>2, ScalarInt
  <2> QED
    BY <1>2, <2>1, GeneratorTypes, TimesTypes, TimesNegate
<1>10. Sum_of(RTerm(sg, st, k), ETerm(sg, st, k)) = Times(a, x)
  <2>1. Times(scalar_mul(e, a), q) = Times(a, Times(e, q))
    BY <1>1, <1>2, MulCommutes, TimesMul
  <2>2. Times(a, x) = Sum_of(Times(a, lift), Times(a, Times(e, q)))
    BY <1>2, <1>6, <1>8, TimesSum
  <2> QED
    BY <1>3, <1>4, <2>1, <2>2
<1>11. STerm(sg, st, k) = Times(a, g)
  BY <1>1, <1>2, <1>5, MulCommutes, GeneratorTypes, TimesMul
<1> HIDE DEF g, n
<1>12. /\ Times(a, Defect(t)) = Sum_of(Times(a, x), Times(a, n))
       /\ Times(a, x) \in Points /\ Times(a, n) \in Points /\ Times(a, g) \in Points
  <2>1. a \in Int
    BY <1>8
  <2> QED
    BY <1>2, <1>7, <1>8, <1>9, <2>1, TimesSum, TimesTypes, SMTT(30)
<1>13. Sum_of(Times(a, n), Times(a, g)) = Infinity
  <2>1. Times(a, Sum_of(n, g)) = Sum_of(Times(a, n), Times(a, g))
    BY <1>8, <1>9, TimesSum
  <2> QED
    BY <1>8, <1>9, <2>1, TimesInfinity
<1>14. Sum_of(Sum_of(Times(a, x), Times(a, n)), Times(a, g)) = Times(a, x)
  BY <1>12, <1>13, Associative, Neutral
<1>15. Sum_of(Times(a, Defect(t)), Times(a, g)) = Times(a, x)
  BY <1>12, <1>14
<1> QED
  BY <1>10, <1>11, <1>15 DEF a, t

\* The sums of the s parts, of the points, and of the defects, after m of the
\* signatures.
SSum(sg, st, m) == PartialSums(STerms(sg, st), Len(sg))[m]
PSum(sg, st, m) == PartialSums(PTerms(sg, st), Len(sg))[m]
DSum(sg, st, m) == PartialSums(DTerms(sg, st), Len(sg))[m]

\* The sum of the points after m calls of the callback.
PointsAt(sg, st, m) ==
  IF m % 2 = 0 THEN PSum(sg, st, m \div 2)
  ELSE Sum_of(PSum(sg, st, m \div 2), RTerm(sg, st, m \div 2 + 1))

NoOverflow(sg, m) == \A k \in 1..m : sg[k].sig.s < Order
AllLifted(sg, m) == \A k \in 1..m : LiftX(sg[k].sig.r) # Infinity

\* What a batch is accepted for: the defects, each times its randomizer, sum
\* up to infinity.
Accepted(sg, st) ==
  NoOverflow(sg, Len(sg)) /\ AllLifted(sg, Len(sg)) /\ DSum(sg, st, Len(sg)) = Infinity

LEMMA SumTypes ==
  ASSUME NEW sg, NEW st, Batch(sg, st)
  PROVE  /\ SSum(sg, st, 0) = Infinity /\ PSum(sg, st, 0) = Infinity
         /\ \A m \in 0..Len(sg) :
              SSum(sg, st, m) \in Points /\ PSum(sg, st, m) \in Points /\ DSum(sg, st, m) \in Points
         /\ \A m \in 1..Len(sg) :
              /\ SSum(sg, st, m) = Sum_of(SSum(sg, st, m - 1), STerm(sg, st, m))
              /\ PSum(sg, st, m) =
                   Sum_of(PSum(sg, st, m - 1), Sum_of(RTerm(sg, st, m), ETerm(sg, st, m)))
<1> DEFINE n == Len(sg)
           f == PartialSums(STerms(sg, st), n)
           g == PartialSums(PTerms(sg, st), n)
           h == PartialSums(DTerms(sg, st), n)
<1>1. /\ f \in [0..n -> Points] /\ Adds(f, n, STerms(sg, st))
      /\ g \in [0..n -> Points] /\ Adds(g, n, PTerms(sg, st))
      /\ h \in [0..n -> Points]
  BY TermsTypes, SumsDef
<1>2. \A m \in 1..n :
        /\ STerms(sg, st)[m] = STerm(sg, st, m)
        /\ PTerms(sg, st)[m] = Sum_of(RTerm(sg, st, m), ETerm(sg, st, m))
  BY DEF STerms, PTerms
<1>3. \A m : SSum(sg, st, m) = f[m] /\ PSum(sg, st, m) = g[m] /\ DSum(sg, st, m) = h[m]
  BY DEF SSum, PSum, DSum
<1> HIDE DEF f, g, h
<1>4. n \in Nat
  BY TermsTypes
<1>5. SSum(sg, st, 0) = Infinity /\ PSum(sg, st, 0) = Infinity
  BY <1>1, <1>3 DEF Adds
<1>6. \A m \in 0..n :
        SSum(sg, st, m) \in Points /\ PSum(sg, st, m) \in Points /\ DSum(sg, st, m) \in Points
  BY <1>1, <1>3
<1>7. ASSUME NEW m \in 1..n
      PROVE  /\ SSum(sg, st, m) = Sum_of(SSum(sg, st, m - 1), STerm(sg, st, m))
             /\ PSum(sg, st, m) =
                  Sum_of(PSum(sg, st, m - 1), Sum_of(RTerm(sg, st, m), ETerm(sg, st, m)))
  <2>1. f[m] = Sum_of(f[m-1], STerms(sg, st)[m]) /\ g[m] = Sum_of(g[m-1], PTerms(sg, st)[m])
    BY <1>1 DEF Adds
  <2> QED
    BY <1>2, <1>3, <2>1
<1> QED
  BY <1>5, <1>6, <1>7

LEMMA SumSplit ==
  ASSUME NEW sg, NEW st, Batch(sg, st)
  PROVE  PSum(sg, st, Len(sg)) = Sum_of(DSum(sg, st, Len(sg)), SSum(sg, st, Len(sg)))
<1> DEFINE n == Len(sg)
           a == PTerms(sg, st)
           b == DTerms(sg, st)
           c == STerms(sg, st)
<1>1. n \in Nat /\ a \in [1..n -> Points] /\ b \in [1..n -> Points] /\ c \in [1..n -> Points]
  BY TermsTypes
<1>2. \A k \in 1..n : a[k] = Sum_of(b[k], c[k])
  BY TermSplit DEF PTerms, DTerms, STerms
<1> HIDE DEF n, a, b, c
<1>3. \A k \in 0..n : PartialSums(a, n)[k] = Sum_of(PartialSums(b, n)[k], PartialSums(c, n)[k])
  BY <1>1, <1>2, SumOfSums
<1>4. PartialSums(a, n)[n] = Sum_of(PartialSums(b, n)[n], PartialSums(c, n)[n])
  BY <1>1, <1>3
<1> QED
  BY <1>4 DEF PSum, DSum, SSum, n, a, b, c

\* The two loops use the same randomizer for the same signature: the one that
\* goes over the s parts ...
LEMMA CacheOfSums ==
  ASSUME NEW st, NEW m \in Nat
  PROVE  LET c == IF m % 2 = 1 THEN NextRandomizers(st[m \div 2 + 1]) ELSE CacheAt(st, m \div 2)
         IN  c = CacheAt(st, (m + 1) \div 2) /\ c[m % 2] = Rand(st, m + 1)
<1> DEFINE c == IF m % 2 = 1 THEN NextRandomizers(st[m \div 2 + 1]) ELSE CacheAt(st, m \div 2)
<1>1. c = CacheAt(st, (m + 1) \div 2)
  <2>1. m % 2 = 1 => (m + 1) \div 2 = m \div 2 + 1 /\ m \div 2 + 1 # 0
    OBVIOUS
  <2>2. m % 2 # 1 => (m + 1) \div 2 = m \div 2
    OBVIOUS
  <2>3. CASE m % 2 = 1
    BY <2>1, <2>3 DEF CacheAt
  <2>4. CASE m % 2 # 1
    BY <2>2, <2>4
  <2> QED
    BY <2>3, <2>4
<1>2. (m + 1) - 1 = m
  OBVIOUS
<1> QED
  BY <1>1, <1>2 DEF Rand

\* ... and the callback.
LEMMA CacheOfPoints ==
  ASSUME NEW st, NEW m \in Nat
  PROVE  LET c == IF m % 4 = 2 THEN NextRandomizers(st[m \div 4 + 1]) ELSE CacheAt(st, (m + 1) \div 4)
         IN  c = CacheAt(st, (m + 2) \div 4) /\ c[(m \div 2) % 2] = Rand(st, m \div 2 + 1)
<1> DEFINE c == IF m % 4 = 2 THEN NextRandomizers(st[m \div 4 + 1]) ELSE CacheAt(st, (m + 1) \div 4)
<1>1. c = CacheAt(st, (m + 2) \div 4)
  <2>1. m % 4 = 2 => (m + 2) \div 4 = m \div 4 + 1 /\ m \div 4 + 1 # 0
    OBVIOUS
  <2>2. m % 4 # 2 => (m + 2) \div 4 = (m + 1) \div 4
    OBVIOUS
  <2>3. CASE m % 4 = 2
    BY <2>1, <2>3 DEF CacheAt
  <2>4. CASE m % 4 # 2
    BY <2>2, <2>4
  <2> QED
    BY <2>3, <2>4
<1>2. (m \div 2 + 1) - 1 = m \div 2 /\ (m \div 2 + 1) \div 2 = (m + 2) \div 4
  OBVIOUS
<1> QED
  BY <1>1, <1>2 DEF Rand

-----------------------------------------------------------------------------
(***************************************************************************)
(* The inductive invariant of a batch: each loop is as far as its index    *)
(* says, and the answers are those of the defects.                         *)
(***************************************************************************)

Jobs == {"verify_batch", "aggrate_sign", "aggrate_verify"}

BatchTypes ==
  /\ Batch(sigs, stream)
  /\ job \in Jobs \cup {"collect", "points", "done"}
  /\ verdict \in [Jobs -> {"none", "yes", "no"}]

CollectInv == job = "collect" => verdict = NoVerdict /\ agg = -1

SumsInv ==
  job \in {"verify_batch", "aggrate_sign"} =>
    /\ i \in 0..Len(sigs) /\ cache = CacheAt(stream, i \div 2)
    /\ NoOverflow(sigs, i)
    /\ s \in Scalars /\ Times(s, Generator) = SSum(sigs, stream, i)
    /\ rj = Infinity

PointsInv ==
  job \in {"points", "aggrate_verify"} =>
    /\ i \in 0..(2 * Len(sigs)) /\ cache = CacheAt(stream, (i + 1) \div 4)
    /\ NoOverflow(sigs, Len(sigs)) /\ AllLifted(sigs, (i + 1) \div 2)
    /\ s \in Scalars /\ Sum_of(Times(s, Generator), SSum(sigs, stream, Len(sigs))) = Infinity
    /\ rj = PointsAt(sigs, stream, i)

AggregateInv ==
  agg # -1 =>
    /\ NoOverflow(sigs, Len(sigs))
    /\ agg \in Scalars /\ Times(agg, Generator) = SSum(sigs, stream, Len(sigs))

VerdictInv ==
  /\ \A what \in {"verify_batch", "aggrate_verify"} :
       /\ verdict[what] = "yes" => Accepted(sigs, stream)
       /\ verdict[what] = "no" => ~Accepted(sigs, stream)
  /\ verdict["aggrate_sign"] = "no" => ~NoOverflow(sigs, Len(sigs))

BatchInv == BatchTypes /\ CollectInv /\ SumsInv /\ PointsInv /\ AggregateInv /\ VerdictInv

\* An answer that ends the work on a batch.
LEMMA AnswerKeepsInv ==
  ASSUME BatchInv, NEW what \in Jobs, NEW yes \in BOOLEAN,
         job' = "done", verdict' = [verdict EXCEPT ![what] = IF yes THEN "yes" ELSE "no"],
         UNCHANGED <<sigs, stream>>, AggregateInv',
         what = "aggrate_sign" => (~yes => ~NoOverflow(sigs, Len(sigs))),
         what # "aggrate_sign" => (yes <=> Accepted(sigs, stream))
  PROVE  BatchInv'
<1>1. /\ verdict \in [Jobs -> {"none", "yes", "no"}]
      /\ Batch(sigs, stream)
  BY DEF BatchInv, BatchTypes
<1>2. verdict' \in [Jobs -> {"none", "yes", "no"}]
  BY <1>1
<1>3. BatchTypes'
  BY <1>1, <1>2 DEF BatchTypes
<1>4. VerdictInv'
  <2>1. \A w \in Jobs : verdict'[w] = IF w = what THEN (IF yes THEN "yes" ELSE "no") ELSE verdict[w]
    BY <1>1
  <2>2. VerdictInv
    BY DEF BatchInv
  <2> QED
    BY <2>1, <2>2 DEF VerdictInv, Jobs
<1>5. CollectInv' /\ SumsInv' /\ PointsInv'
  BY DEF CollectInv, SumsInv, PointsInv
<1> QED
  BY <1>3, <1>4, <1>5 DEF BatchInv

LEMMA InitBatchInv == BatchInit => BatchInv
<1> SUFFICES ASSUME BatchInit PROVE BatchInv
  OBVIOUS
<1> USE DEF BatchInit
<1>1. BatchTypes
  <2>1. <<>> \in Seq(Item) /\ Len(<<>>) = 0
    OBVIOUS
  <2>2. 0 <= MaxSigs
    BY BatchAssumption
  <2> QED
    BY <2>1, <2>2 DEF BatchTypes, Batch, NoVerdict, Jobs
<1>2. VerdictInv
  BY DEF VerdictInv, NoVerdict
<1> QED
  BY <1>1, <1>2 DEF BatchInv, CollectInv, SumsInv, PointsInv, AggregateInv

LEMMA IncludeInv ==
  ASSUME BatchInv, NEW t \in Item, Include(t)
  PROVE  BatchInv'
<1>1. /\ job = "collect" /\ Len(sigs) < MaxSigs /\ sigs' = Append(sigs, t)
      /\ UNCHANGED <<job, agg, stream, cache, i, s, rj, verdict>>
  BY DEF Include
<1>2. /\ Batch(sigs, stream) /\ verdict = NoVerdict /\ agg = -1 /\ MaxSigs \in Nat
      /\ verdict \in [Jobs -> {"none", "yes", "no"}]
  BY <1>1, BatchAssumption DEF BatchInv, BatchTypes, CollectInv
<1>3. Batch(sigs', stream')
  <2>1. sigs \in Seq(Item) /\ Len(sigs) \in Nat /\ stream \in Streams
    BY <1>2 DEF Batch
  <2>2. sigs' \in Seq(Item) /\ Len(sigs') = Len(sigs) + 1
    BY <1>1, <2>1
  <2> QED
    BY <1>1, <1>2, <2>1, <2>2 DEF Batch
<1>4. BatchTypes'
  BY <1>1, <1>2, <1>3 DEF BatchTypes
<1> QED
  BY <1>1, <1>2, <1>4
  DEF BatchInv, CollectInv, SumsInv, PointsInv, AggregateInv, VerdictInv, NoVerdict

LEMMA SignedInv ==
  ASSUME BatchInv, NEW k \in Keys, NEW nonce \in Nonces, NEW m \in Messages, Signed(k, nonce, m)
  PROVE  BatchInv'
<1>1. k \in 1..(Order-1) /\ nonce \in Nat
  BY BatchAssumption
<1> DEFINE made == schnorrsig_sign(k, m, nonce, TRUE)
           t == [sig |-> made.sig, msg |-> m, pk |-> PublicKey(k)[1]]
<1>2. made.ret /\ Include(t)
  BY DEF Signed
<1>3. t \in Item
  BY <1>1, <1>2, SignedIsValid
<1> HIDE DEF t
<1> QED
  BY <1>2, <1>3, IncludeInv

LEMMA ForgedInv ==
  ASSUME BatchInv, NEW k \in Keys, NEW forged \in ForgedSigs, NEW m \in Messages, Forged(k, forged, m)
  PROVE  BatchInv'
<1> DEFINE t == [sig |-> forged, msg |-> m, pk |-> PublicKey(k)[1]]
<1>1. forged \in Signature /\ k \in 1..(Order-1)
  BY BatchAssumption
<1>2. PublicKey(k)[1] \in XOnly
  BY <1>1, KeyOfItem
<1>3. t \in Item
  BY <1>1, <1>2 DEF Item
<1>4. Include(t)
  BY DEF Forged
<1> HIDE DEF t
<1> QED
  BY <1>3, <1>4, IncludeInv

LEMMA StartInv ==
  ASSUME BatchInv, NEW what \in Jobs, Start(what)
  PROVE  BatchInv'
<1>2. BatchTypes /\ Batch(sigs, stream) /\ AggregateInv /\ VerdictInv
  BY DEF BatchInv, BatchTypes
<1>0. what = "aggrate_verify" => ~scalar_set_b32(agg).overflow
  <2> SUFFICES ASSUME what = "aggrate_verify" PROVE ~scalar_set_b32(agg).overflow
    OBVIOUS
  <2>1. agg \in Scalars
    BY <1>2 DEF AggregateInv, Start
  <2>2. agg \in Nat /\ agg < Order /\ Order \in Nat
    BY <2>1, OrderType DEF Scalars
  <2>3. scalar_set_b32(agg).overflow = (agg >= Order)
    BY <2>2, SetB32
  <2>4. ~(agg >= Order)
    BY <2>2
  <2> QED
    BY <2>3, <2>4
<1>1. /\ what = "aggrate_verify" => agg # -1
      /\ job' = what /\ cache' = FirstCache /\ i' = 0 /\ rj' = Infinity
      /\ UNCHANGED <<sigs, agg, stream, verdict>>
      /\ s' = IF what = "aggrate_verify" THEN scalar_negate(scalar_set_b32(agg).r) ELSE 0
  BY <1>0 DEF Start
<1>3. SSum(sigs, stream, 0) = Infinity /\ PSum(sigs, stream, 0) = Infinity
  BY <1>2, SumTypes
<1>4. Len(sigs) \in Nat
  BY <1>2 DEF Batch
<1>5. FirstCache = CacheAt(stream, 0)
  BY DEF CacheAt
<1>6. BatchTypes' /\ CollectInv' /\ AggregateInv' /\ VerdictInv'
  BY <1>1, <1>2 DEF BatchTypes, CollectInv, AggregateInv, VerdictInv, Jobs
<1>7. SumsInv'
  <2> SUFFICES ASSUME what # "aggrate_verify" PROVE SumsInv'
    BY <1>1 DEF SumsInv
  <2>1. s' = 0 /\ 0 \in Scalars
    BY <1>1, OrderType DEF Scalars
  <2>2. Times(0, Generator) = Infinity
    BY GeneratorTypes, TimesNone
  <2>3. 0 \div 2 = 0 /\ 0 \in 0..Len(sigs)
    BY <1>4
  <2>4. NoOverflow(sigs, 0)
    BY DEF NoOverflow
  <2> QED
    BY <1>1, <1>3, <1>5, <2>1, <2>2, <2>3, <2>4 DEF SumsInv
<1>8. PointsInv'
  <2> SUFFICES ASSUME what = "aggrate_verify" PROVE PointsInv'
    BY <1>1 DEF PointsInv, Jobs
  <2>1. /\ NoOverflow(sigs, Len(sigs))
        /\ agg \in Scalars /\ Times(agg, Generator) = SSum(sigs, stream, Len(sigs))
    BY <1>1, <1>2 DEF AggregateInv
  <2>2. scalar_set_b32(agg).r = agg
    <3>1. agg \in Nat /\ agg < Order
      BY <2>1, OrderType DEF Scalars
    <3> QED
      BY <3>1, SetB32
  <2>3. s' \in Scalars /\ Sum_of(Times(s', Generator), SSum(sigs, stream, Len(sigs))) = Infinity
    BY <1>1, <2>1, <2>2, ScalarInt, GeneratorTypes, TimesNegate
  <2>4. (0 + 1) \div 4 = 0 /\ (0 + 1) \div 2 = 0 /\ 0 \in 0..(2 * Len(sigs)) /\ 0 % 2 = 0 /\ 0 \div 2 = 0
    BY <1>4
  <2>5. AllLifted(sigs, 0)
    BY DEF AllLifted
  <2>6. PointsAt(sigs, stream, 0) = Infinity
    BY <1>3, <2>4 DEF PointsAt
  <2> QED
    BY <1>1, <1>5, <2>1, <2>3, <2>4, <2>5, <2>6 DEF PointsInv
<1> QED
  BY <1>6, <1>7, <1>8 DEF BatchInv

LEMMA SumSInv ==
  ASSUME BatchInv, SumS
  PROVE  BatchInv'
<1> DEFINE c == IF i % 2 = 1 THEN NextRandomizers(stream[i \div 2 + 1]) ELSE cache
           k == i + 1
           t == sigs[k]
<1>1. /\ job \in {"verify_batch", "aggrate_sign"} /\ i < Len(sigs)
      /\ UNCHANGED <<sigs, agg, stream, rj>>
  BY DEF SumS
<1>2. /\ BatchTypes /\ Batch(sigs, stream) /\ SumsInv /\ AggregateInv /\ VerdictInv
  BY DEF BatchInv, BatchTypes
<1>3. /\ i \in 0..Len(sigs) /\ cache = CacheAt(stream, i \div 2)
      /\ NoOverflow(sigs, i)
      /\ s \in Scalars /\ Times(s, Generator) = SSum(sigs, stream, i)
      /\ rj = Infinity
  BY <1>1, <1>2 DEF SumsInv
<1>4. /\ Len(sigs) \in Nat /\ i \in Nat /\ k \in 1..Len(sigs) /\ k \in Nat /\ k - 1 = i
      /\ i < Len(sigs)
  BY <1>1, <1>2, <1>3 DEF Batch
<1>5. t \in Item /\ Rand(stream, k) \in Scalars
  BY <1>2, <1>4, BatchItem
<1>6. c = CacheAt(stream, k \div 2) /\ c[i % 2] = Rand(stream, k)
  BY <1>3, <1>4, CacheOfSums
<1>7. scalar_set_b32(t.sig.s).overflow = (t.sig.s >= Order) /\ SPart(t) \in Scalars /\ t.sig.s \in Nat
  BY <1>5, ItemTypes, SetB32
<1>8. AggregateInv'
  BY <1>1, <1>2 DEF AggregateInv
<1>9. CASE t.sig.s >= Order
  <2>1. Answer(job, FALSE)
    BY <1>7, <1>9 DEF SumS
  <2>2. job' = "done" /\ verdict' = [verdict EXCEPT ![job] = IF FALSE THEN "yes" ELSE "no"]
    BY <2>1 DEF Answer
  <2>3. ~NoOverflow(sigs, Len(sigs))
    <3>1. ~(t.sig.s < Order)
      BY <1>7, <1>9, OrderType
    <3> QED
      BY <1>4, <3>1 DEF NoOverflow
  <2>4. job \in Jobs /\ ~Accepted(sigs, stream)
    BY <1>1, <2>3 DEF Jobs, Accepted
  <2> QED
    BY <1>1, <1>8, <2>2, <2>3, <2>4, AnswerKeepsInv
<1>10. CASE ~(t.sig.s >= Order)
  <2>1. /\ cache' = c
        /\ s' = scalar_add(s, scalar_mul(SPart(t), c[i % 2]))
        /\ i' = k
        /\ UNCHANGED <<job, verdict>>
    BY <1>7, <1>10 DEF SumS, SPart
  <2>2. t.sig.s < Order
    BY <1>7, <1>10, OrderType
  <2> HIDE DEF c, t
  <2>3. scalar_mul(SPart(t), Rand(stream, k)) \in Scalars /\ s' \in Scalars
    BY <1>3, <1>5, <1>6, <1>7, <2>1, ScalarTypes
  <2>4. Times(s', Generator) = Sum_of(Times(s, Generator), STerm(sigs, stream, k))
    <3>1. STerm(sigs, stream, k) = Times(scalar_mul(SPart(t), Rand(stream, k)), Generator)
      BY DEF STerm, t
    <3> QED
      BY <1>3, <1>6, <2>1, <2>3, <3>1, GeneratorTypes, TimesAdd
  <2>5. SSum(sigs, stream, k) = Sum_of(SSum(sigs, stream, i), STerm(sigs, stream, k))
    BY <1>2, <1>4, SumTypes
  <2>6. NoOverflow(sigs, k)
    <3>1. \A l \in 1..k : l = k \/ l \in 1..i
      BY <1>4
    <3> QED
      BY <1>3, <2>2, <3>1 DEF NoOverflow, t
  <2>7. SumsInv'
    <3>1. k \in 0..Len(sigs)
      BY <1>4
    <3> HIDE DEF k
    <3> QED
      BY <1>1, <1>3, <1>6, <2>1, <2>3, <2>4, <2>5, <2>6, <3>1 DEF SumsInv
  <2>8. BatchTypes' /\ CollectInv' /\ PointsInv' /\ VerdictInv'
    BY <1>1, <1>2, <2>1 DEF BatchTypes, CollectInv, PointsInv, VerdictInv
  <2> QED
    BY <1>8, <2>7, <2>8 DEF BatchInv
<1> QED
  BY <1>9, <1>10

LEMMA SumPointsInv ==
  ASSUME BatchInv, SumPoints
  PROVE  BatchInv'
<1>1. /\ job = "verify_batch" /\ i = Len(sigs)
      /\ job' = "points" /\ s' = scalar_negate(s)
      /\ cache' = FirstCache /\ i' = 0
      /\ UNCHANGED <<sigs, agg, stream, rj, verdict>>
  BY DEF SumPoints
<1>2. /\ BatchTypes /\ Batch(sigs, stream) /\ SumsInv /\ AggregateInv /\ VerdictInv
  BY DEF BatchInv, BatchTypes
<1>3. /\ NoOverflow(sigs, Len(sigs))
      /\ s \in Scalars /\ Times(s, Generator) = SSum(sigs, stream, Len(sigs))
      /\ rj = Infinity
  BY <1>1, <1>2 DEF SumsInv
<1>4. s' \in Scalars /\ Sum_of(Times(s', Generator), SSum(sigs, stream, Len(sigs))) = Infinity
  BY <1>1, <1>3, ScalarInt, GeneratorTypes, TimesNegate
<1>5. /\ (0 + 1) \div 4 = 0 /\ (0 + 1) \div 2 = 0 /\ 0 \in 0..(2 * Len(sigs))
      /\ 0 % 2 = 0 /\ 0 \div 2 = 0
  <2>1. Len(sigs) \in Nat
    BY <1>2 DEF Batch
  <2> QED
    BY <2>1
<1>6. PointsAt(sigs, stream, 0) = Infinity /\ AllLifted(sigs, 0) /\ FirstCache = CacheAt(stream, 0)
  BY <1>2, <1>5, SumTypes DEF PointsAt, AllLifted, CacheAt
<1>7. PointsInv'
  BY <1>1, <1>3, <1>4, <1>5, <1>6 DEF PointsInv
<1>8. BatchTypes' /\ CollectInv' /\ SumsInv' /\ AggregateInv' /\ VerdictInv'
  BY <1>1, <1>2 DEF BatchTypes, CollectInv, SumsInv, AggregateInv, VerdictInv
<1> QED
  BY <1>7, <1>8 DEF BatchInv

LEMMA AggregateDoneInv ==
  ASSUME BatchInv, AggregateDone
  PROVE  BatchInv'
<1>1. /\ job = "aggrate_sign" /\ i = Len(sigs) /\ agg' = s
      /\ job' = "done" /\ verdict' = [verdict EXCEPT !["aggrate_sign"] = IF TRUE THEN "yes" ELSE "no"]
      /\ UNCHANGED <<sigs, stream>>
  BY DEF AggregateDone, Answer
<1>2. /\ NoOverflow(sigs, Len(sigs))
      /\ s \in Scalars /\ Times(s, Generator) = SSum(sigs, stream, Len(sigs))
  BY <1>1 DEF BatchInv, SumsInv
<1>3. AggregateInv'
  BY <1>1, <1>2 DEF AggregateInv
<1>4. "aggrate_sign" \in Jobs
  BY DEF Jobs
<1> QED
  BY <1>1, <1>3, <1>4, AnswerKeepsInv

LEMMA AskedTypes ==
  ASSUME job \in {"points", "aggrate_verify"}
  PROVE  Asked \in Jobs /\ Asked # "aggrate_sign"
  BY DEF Asked, Jobs

LEMMA CallbackInv ==
  ASSUME BatchInv, EcmultCallback
  PROVE  BatchInv'
<1> DEFINE c == IF i % 4 = 2 THEN NextRandomizers(stream[i \div 4 + 1]) ELSE cache
           k == i \div 2 + 1
           t == sigs[k]
           a == Rand(stream, k)
           term == CallbackTerm(sigs, i, c)
           n == Len(sigs)
<1>1. /\ job \in {"points", "aggrate_verify"} /\ i < 2 * n
      /\ UNCHANGED <<sigs, agg, stream, s>>
  BY DEF EcmultCallback
<1>2. /\ BatchTypes /\ Batch(sigs, stream) /\ PointsInv /\ AggregateInv /\ VerdictInv
  BY DEF BatchInv, BatchTypes
<1>3. /\ i \in 0..(2 * n) /\ cache = CacheAt(stream, (i + 1) \div 4)
      /\ NoOverflow(sigs, n) /\ AllLifted(sigs, (i + 1) \div 2)
      /\ s \in Scalars /\ Sum_of(Times(s, Generator), SSum(sigs, stream, n)) = Infinity
      /\ rj = PointsAt(sigs, stream, i)
  BY <1>1, <1>2 DEF PointsInv
<1>4. n \in Nat /\ i \in Nat /\ i < 2 * n
  BY <1>1, <1>2, <1>3 DEF Batch
<1> HIDE DEF n
<1>5. /\ k \in 1..n /\ k - 1 = i \div 2 /\ i \div 2 \in 0..n
      /\ i + 1 \in 0..(2 * n) /\ ((i + 1) + 1) \div 4 = (i + 2) \div 4
      /\ ((i + 1) + 1) \div 2 = k
  BY <1>4
<1>6. t \in Item /\ a \in Scalars
  BY <1>2, <1>5, BatchItem DEF n
<1>7. c = CacheAt(stream, (i + 2) \div 4) /\ c[(i \div 2) % 2] = a
  BY <1>3, <1>4, CacheOfPoints
<1>8. AggregateInv'
  BY <1>1, <1>2 DEF AggregateInv
<1>9. term = IF i % 2 = 0
             THEN [ok |-> LiftX(t.sig.r) # Infinity, sc |-> a, pt |-> LiftX(t.sig.r)]
             ELSE [ok |-> TRUE, sc |-> scalar_mul(ChallengeOf(t), a), pt |-> LiftX(t.pk)]
  BY <1>7 DEF CallbackTerm, ChallengeOf
<1>10. /\ cache' = c
       /\ IF term.ok THEN /\ rj' = Sum_of(rj, Times(term.sc, term.pt))
                          /\ i' = i + 1
                          /\ UNCHANGED <<job, verdict>>
          ELSE Answer(Asked, FALSE) /\ UNCHANGED <<rj, i>>
  BY DEF EcmultCallback
<1> HIDE DEF term, c
<1>11. CASE ~term.ok
  <2>1. job' = "done" /\ verdict' = [verdict EXCEPT ![Asked] = IF FALSE THEN "yes" ELSE "no"]
    BY <1>10, <1>11 DEF Answer
  <2>2. LiftX(t.sig.r) = Infinity
    BY <1>9, <1>11
  <2>3. ~Accepted(sigs, stream)
    BY <1>5, <2>2 DEF Accepted, AllLifted, n
  <2> QED
    BY <1>1, <1>8, <2>1, <2>3, AskedTypes, AnswerKeepsInv
<1>12. CASE term.ok
  <2>1. /\ rj' = Sum_of(rj, Times(term.sc, term.pt)) /\ i' = i + 1
        /\ UNCHANGED <<job, verdict>>
    BY <1>10, <1>12
  <2>2. /\ PSum(sigs, stream, k - 1) \in Points
        /\ RTerm(sigs, stream, k) \in Points /\ ETerm(sigs, stream, k) \in Points
        /\ PSum(sigs, stream, k) =
             Sum_of(PSum(sigs, stream, k - 1), Sum_of(RTerm(sigs, stream, k), ETerm(sigs, stream, k)))
    <3>1. k - 1 \in 0..Len(sigs) /\ k \in 1..Len(sigs)
      BY <1>5 DEF n
    <3> HIDE DEF k
    <3> QED
      BY <1>2, <3>1, SumTypes, TermTypes
  <2>3. rj' = PointsAt(sigs, stream, i + 1) /\ AllLifted(sigs, k)
    <3>1. CASE i % 2 = 0
      <4>1. (i + 1) % 2 # 0 /\ (i + 1) \div 2 = i \div 2
        BY <1>4, <3>1
      <4>2. term.sc = a /\ term.pt = LiftX(t.sig.r) /\ LiftX(t.sig.r) # Infinity
        BY <1>9, <1>12, <3>1
      <4>3. rj = PSum(sigs, stream, k - 1)
        BY <1>3, <1>5, <3>1 DEF PointsAt
      <4>4. Times(term.sc, term.pt) = RTerm(sigs, stream, k)
        BY <4>2 DEF RTerm
      <4>5. PointsAt(sigs, stream, i + 1) = Sum_of(PSum(sigs, stream, k - 1), RTerm(sigs, stream, k))
        BY <1>5, <4>1 DEF PointsAt
      <4>6. AllLifted(sigs, k)
        <5>1. \A l \in 1..k : l = k \/ l \in 1..((i + 1) \div 2)
          BY <1>5, <4>1
        <5> QED
          BY <1>3, <4>2, <5>1 DEF AllLifted
      <4> QED
        BY <2>1, <4>3, <4>4, <4>5, <4>6
    <3>2. CASE i % 2 # 0
      <4>1. (i + 1) % 2 = 0 /\ (i + 1) \div 2 = k
        BY <1>4, <3>2
      <4>2. term.sc = scalar_mul(ChallengeOf(t), a) /\ term.pt = LiftX(t.pk)
        BY <1>9, <3>2
      <4>3. rj = Sum_of(PSum(sigs, stream, k - 1), RTerm(sigs, stream, k))
        BY <1>3, <1>5, <3>2 DEF PointsAt
      <4>4. Times(term.sc, term.pt) = ETerm(sigs, stream, k)
        BY <4>2 DEF ETerm
      <4>5. PointsAt(sigs, stream, i + 1) = PSum(sigs, stream, k)
        BY <4>1 DEF PointsAt
      <4>6. rj' = PSum(sigs, stream, k)
        BY <2>1, <2>2, <4>3, <4>4, Associative
      <4> QED
        BY <1>3, <4>1, <4>5, <4>6
    <3> QED
      BY <3>1, <3>2
  <2>4. PointsInv'
    <3> DEFINE j == i + 1
    <3>1. /\ j \in 0..(2 * n) /\ (j + 1) \div 4 = (i + 2) \div 4 /\ (j + 1) \div 2 = k /\ i' = j
          /\ rj' = PointsAt(sigs, stream, j)
      BY <1>5, <2>1, <2>3
    <3> HIDE DEF j, k
    <3> QED
      BY <1>1, <1>3, <1>7, <1>10, <2>1, <2>3, <3>1 DEF PointsInv, n
  <2>5. BatchTypes' /\ CollectInv' /\ SumsInv' /\ VerdictInv'
    BY <1>1, <1>2, <2>1 DEF BatchTypes, CollectInv, SumsInv, VerdictInv
  <2> QED
    BY <1>8, <2>4, <2>5 DEF BatchInv
<1> QED
  BY <1>11, <1>12

LEMMA MultiDoneInv ==
  ASSUME BatchInv, MultiDone
  PROVE  BatchInv'
<1> DEFINE n == Len(sigs)
           d == DSum(sigs, stream, n)
           u == SSum(sigs, stream, n)
           g == Times(s, Generator)
           yes == Sum_of(rj, g) = Infinity
<1>1. /\ job \in {"points", "aggrate_verify"} /\ i = 2 * n
      /\ Answer(Asked, yes)
      /\ UNCHANGED <<sigs, agg, stream>>
  BY DEF MultiDone
<1>2. Batch(sigs, stream) /\ PointsInv /\ AggregateInv
  BY DEF BatchInv, BatchTypes
<1>3. /\ NoOverflow(sigs, n) /\ AllLifted(sigs, (i + 1) \div 2)
      /\ s \in Scalars /\ Sum_of(g, u) = Infinity /\ rj = PointsAt(sigs, stream, i)
  BY <1>1, <1>2 DEF PointsInv
<1>4. n \in Nat /\ n \in 0..n
  BY <1>2 DEF Batch
<1>5. (i + 1) \div 2 = n /\ i % 2 = 0 /\ i \div 2 = n
  <2> HIDE DEF n
  <2> QED
    BY <1>1, <1>4
<1>6. rj = Sum_of(d, u)
  BY <1>2, <1>3, <1>5, SumSplit DEF PointsAt
<1>7. d \in Points /\ u \in Points
  BY <1>2, <1>4, SumTypes
<1>8. g \in Points
  BY <1>3, ScalarInt, GeneratorTypes, TimesTypes
<1>9. Accepted(sigs, stream) <=> d = Infinity
  BY <1>3, <1>5 DEF Accepted
<1> HIDE DEF d, u, g
<1>10. Sum_of(rj, g) = d
  <2>1. Sum_of(u, g) = Infinity
    BY <1>3, <1>7, <1>8, Closed
  <2>2. Sum_of(Sum_of(d, u), g) = Sum_of(d, Sum_of(u, g))
    BY <1>7, <1>8, Associative
  <2> QED
    BY <1>6, <1>7, <2>1, <2>2, Neutral
<1>11. yes <=> Accepted(sigs, stream)
  BY <1>9, <1>10
<1>12. AggregateInv'
  BY <1>1, <1>2 DEF AggregateInv
<1>13. job' = "done" /\ verdict' = [verdict EXCEPT ![Asked] = IF yes THEN "yes" ELSE "no"]
  BY <1>1 DEF Answer
<1>14. yes \in BOOLEAN
  OBVIOUS
<1> HIDE DEF yes
<1> QED
  BY <1>1, <1>11, <1>12, <1>13, <1>14, AskedTypes, AnswerKeepsInv

LEMMA BatchStep == BatchInv /\ [BatchNext]_batchVars => BatchInv'
<1> SUFFICES ASSUME BatchInv, [BatchNext]_batchVars PROVE BatchInv'
  OBVIOUS
<1>1. ASSUME NEW k \in Keys, NEW nonce \in Nonces, NEW m \in Messages, Signed(k, nonce, m)
      PROVE  BatchInv'
  BY <1>1, SignedInv
<1>2. ASSUME NEW k \in Keys, NEW forged \in ForgedSigs, NEW m \in Messages, Forged(k, forged, m)
      PROVE  BatchInv'
  BY <1>2, ForgedInv
<1>3. ASSUME NEW what \in Jobs, Start(what) PROVE BatchInv'
  BY <1>3, StartInv
<1>4. CASE SumS
  BY <1>4, SumSInv
<1>5. CASE SumPoints
  BY <1>5, SumPointsInv
<1>6. CASE AggregateDone
  BY <1>6, AggregateDoneInv
<1>7. CASE EcmultCallback
  BY <1>7, CallbackInv
<1>8. CASE MultiDone
  BY <1>8, MultiDoneInv
<1>9. CASE UNCHANGED batchVars
  BY <1>9
  DEF batchVars, BatchInv, BatchTypes, CollectInv, SumsInv, PointsInv, AggregateInv, VerdictInv
<1> QED
  BY <1>1, <1>2, <1>3, <1>4, <1>5, <1>6, <1>7, <1>8, <1>9 DEF BatchNext, Jobs

LEMMA BatchInvariant == BatchSpec => []BatchInv
<1>1. BatchInit => BatchInv
  BY InitBatchInv
<1>2. BatchInv /\ [BatchNext]_batchVars => BatchInv'
  BY BatchStep
<1> QED
  BY <1>1, <1>2, PTL DEF BatchSpec

\* The variables of a batch keep their types: signatures of public keys that
\* are on the curve, and an answer of each job
\* (modules/schnorrsig/main_impl.h:443-596).
THEOREM BatchTypesKept == BatchSpec => []BatchTypes
<1>1. BatchInv => BatchTypes
  BY DEF BatchInv
<1> QED
  BY <1>1, BatchInvariant, PTL

\* A batch of valid signatures has no defect.
LEMMA ValidAreAccepted ==
  ASSUME NEW sg, NEW st, Batch(sg, st), \A k \in 1..Len(sg) : Valid(sg[k])
  PROVE  Accepted(sg, st)
<1>1. \A k \in 1..Len(sg) :
        /\ sg[k] \in Item
        /\ sg[k].sig.s < Order /\ LiftX(sg[k].sig.r) # Infinity /\ Defect(sg[k]) = Infinity
        /\ Rand(st, k) \in Nat
  BY BatchItem, ValidItem, ScalarInt
<1>2. \A k \in 1..Len(sg) : DTerms(sg, st)[k] = Infinity
  BY <1>1, TimesInfinity DEF DTerms
<1>3. Len(sg) \in Nat /\ DTerms(sg, st) \in [1..Len(sg) -> Points]
  BY TermsTypes
<1>4. PartialSums(DTerms(sg, st), Len(sg))[Len(sg)] = Infinity
  BY <1>2, <1>3, SumOfNone
<1> QED
  BY <1>1, <1>4 DEF Accepted, NoOverflow, AllLifted, DSum

\* One invalid signature among valid ones has one, unless its randomizer is 0.
LEMMA OneInvalid ==
  ASSUME NEW sg, NEW st, Batch(sg, st), NEW one \in 1..Len(sg), ~Valid(sg[one]),
         \A k \in 1..Len(sg) : k # one => Valid(sg[k]),
         Rand(st, one) # 0
  PROVE  ~Accepted(sg, st)
<1> SUFFICES ASSUME Accepted(sg, st) PROVE FALSE
  OBVIOUS
<1>1. \A k \in 1..Len(sg) : k # one => Defect(sg[k]) = Infinity /\ Rand(st, k) \in Nat
  BY BatchItem, ValidItem, ScalarInt
<1>2. \A k \in 1..Len(sg) : k # one => DTerms(sg, st)[k] = Infinity
  BY <1>1, TimesInfinity DEF DTerms
<1>3. Len(sg) \in Nat /\ DTerms(sg, st) \in [1..Len(sg) -> Points]
  BY TermsTypes
<1>4. PartialSums(DTerms(sg, st), Len(sg))[Len(sg)] = DTerms(sg, st)[one]
  BY <1>2, <1>3, SumOfOne
<1>5. Times(Rand(st, one), Defect(sg[one])) = Infinity
  BY <1>4 DEF Accepted, DSum, DTerms
<1>6. sg[one] \in Item /\ Rand(st, one) \in Scalars
  BY BatchItem
<1>7. Defect(sg[one]) = Infinity
  BY <1>5, <1>6, ItemTypes, NoTorsion
<1>8. sg[one].sig.s < Order /\ LiftX(sg[one].sig.r) # Infinity
  BY DEF Accepted, NoOverflow, AllLifted
<1> QED
  BY <1>6, <1>7, <1>8, ValidItem

LEMMA RandomizerIsRand ==
  ASSUME NEW k \in Nat \ {0}
  PROVE  RandomizerOf(k) = Rand(stream, k)
<1>1. CASE k = 1
  <2>1. 1 \div 2 = 0 /\ (1 - 1) % 2 = 0
    OBVIOUS
  <2>2. Rand(stream, 1) = FirstCache[0]
    BY <2>1 DEF Rand, CacheAt
  <2> QED
    BY <1>1, <2>2 DEF RandomizerOf, FirstCache
<1>2. CASE k # 1
  <2>1. k \div 2 # 0
    BY <1>2
  <2> QED
    BY <1>2, <2>1 DEF Rand, CacheAt, RandomizerOf
<1> QED
  BY <1>1, <1>2

\* Whatever signatures are in a batch, and whatever its seed is: valid ones
\* are accepted, an invalid one among valid ones is refused unless its
\* randomizer is 0, and the aggregate of signatures of one message is accepted
\* exactly if the batch is (modules/schnorrsig/main_impl.h:443-596).
THEOREM BatchCorrect == BatchSpec => []BatchSaysWhatItsSignaturesSay
<1> SUFFICES BatchInv => BatchSaysWhatItsSignaturesSay
  BY BatchInvariant, PTL
<1> SUFFICES ASSUME BatchInv PROVE BatchSaysWhatItsSignaturesSay
  OBVIOUS
<1>1. /\ Batch(sigs, stream) /\ VerdictInv
      /\ verdict \in [Jobs -> {"none", "yes", "no"}]
      /\ DOMAIN verdict = Jobs
  BY DEF BatchInv, BatchTypes
<1>2. ValidBatchAccepted
  <2> SUFFICES ASSUME Invalid = {}, NEW what \in Jobs PROVE verdict[what] # "no"
    BY <1>1 DEF ValidBatchAccepted
  <2>1. \A k \in 1..Len(sigs) : Valid(sigs[k])
    BY DEF Invalid
  <2>2. Accepted(sigs, stream)
    BY <1>1, <2>1, ValidAreAccepted
  <2> QED
    BY <1>1, <2>2 DEF VerdictInv, Jobs, Accepted
<1>3. OneInvalidRefused
  <2> SUFFICES ASSUME NEW k \in 1..Len(sigs), Invalid = {k}, RandomizerOf(k) # 0
               PROVE  verdict["verify_batch"] # "yes" /\ verdict["aggrate_verify"] # "yes"
    BY DEF OneInvalidRefused
  <2>1. ~Valid(sigs[k]) /\ \A l \in 1..Len(sigs) : l # k => Valid(sigs[l])
    BY DEF Invalid
  <2>2. Rand(stream, k) # 0
    BY RandomizerIsRand
  <2>3. ~Accepted(sigs, stream)
    BY <1>1, <2>1, <2>2, OneInvalid
  <2> QED
    BY <1>1, <2>3 DEF VerdictInv
<1>4. AggregateIsBatch
  BY <1>1 DEF AggregateIsBatch, VerdictInv, Jobs
<1> QED
  BY <1>2, <1>3, <1>4 DEF BatchSaysWhatItsSignaturesSay

-----------------------------------------------------------------------------
(***************************************************************************)
(* Keys.  What an operation makes of a secret key, and what of a public    *)
(* one, belong together.                                                   *)
(***************************************************************************)

LEMMA Seckey ==
  ASSUME NEW k \in Nat
  PROVE  /\ scalar_set_b32_seckey(k).ok <=> k \in 1..(Order-1)
         /\ k \in 1..(Order-1) => scalar_set_b32_seckey(k).r = k
         /\ k % Order \in Scalars
<1>1. k < Order => k % Order = k
  <2>1. k < Order => k \in 0..(Order-1)
    BY OrderType
  <2> QED
    BY <2>1, OrderType, ModSmall
<1>2. k % Order \in Scalars
  BY OrderType, ModInt DEF Scalars
<1>3. scalar_set_b32_seckey(k).ok <=> k < Order /\ k % Order # 0
  BY DEF scalar_set_b32_seckey
<1>4. scalar_set_b32_seckey(k).r = k % Order
  BY DEF scalar_set_b32_seckey
<1>5. k \in 1..(Order-1) <=> k < Order /\ k # 0
  BY OrderType
<1> QED
  BY <1>1, <1>2, <1>3, <1>4, <1>5

LEMMA Created ==
  ASSUME NEW k \in Nat
  PROVE  /\ k \in 1..(Order-1) => ec_pubkey_create(k) = Times(k, Generator) /\ ec_pubkey_create(k) \in Affine
         /\ k \notin 1..(Order-1) => ec_pubkey_create(k) = NoKey
         /\ ec_pubkey_create(k) \in Points
         /\ ec_pubkey_create(k) # NoKey <=> k \in 1..(Order-1)
<1>1. k \in 1..(Order-1) => ec_pubkey_create(k) = Times(k, Generator) /\ ec_pubkey_create(k) \in Affine
  BY Seckey, PublicKeyTypes DEF ec_pubkey_create
<1>2. k \notin 1..(Order-1) => ec_pubkey_create(k) = NoKey
  BY Seckey DEF ec_pubkey_create
<1> QED
  BY <1>1, <1>2, AffineTypes, Neutral DEF NoKey

LEMMA NonZero ==
  ASSUME NEW a \in Scalars, a # 0
  PROVE  a \in 1..(Order-1)
  BY OrderType DEF Scalars

SecretOp(op, sk) ==
  CASE op[1] = "negate" -> ec_seckey_negate(sk)
    [] op[1] = "tweak_add" -> ec_seckey_tweak_add(sk, op[2])
    [] OTHER -> ec_seckey_tweak_mul(sk, op[2])

PublicOp(op, p) ==
  CASE op[1] = "negate" -> ec_pubkey_negate(p)
    [] op[1] = "tweak_add" -> ec_pubkey_tweak_add(p, op[2])
    [] OTHER -> ec_pubkey_tweak_mul(p, op[2])

LEMMA NegateTogether ==
  ASSUME NEW k \in Nat
  PROVE  /\ ec_seckey_negate(k) \in Nat
         /\ ec_pubkey_create(ec_seckey_negate(k)) = ec_pubkey_negate(ec_pubkey_create(k))
<1>1. CASE k \in 1..(Order-1)
  <2> DEFINE q == Times(k, Generator)
  <2>1. k \in Scalars /\ k # 0 /\ q \in Affine /\ q # Infinity /\ ec_pubkey_create(k) = q
    BY <1>1, PublicKeyTypes, Created, AffineTypes
  <2>2. ec_seckey_negate(k) = Order - k /\ scalar_negate(k) = Order - k
    BY <1>1, <2>1, Seckey DEF ec_seckey_negate, scalar_negate
  <2>3. Order - k \in 1..(Order-1) /\ Order - k \in Nat
    BY <1>1, OrderType
  <2>4. Times(Order - k, Generator) = Negative(q)
    BY <2>1, <2>2, GeneratorTypes, TimesNegative
  <2>5. ec_pubkey_create(Order - k) = Negative(q)
    BY <2>3, <2>4, Created
  <2> QED
    BY <2>1, <2>2, <2>3, <2>5 DEF ec_pubkey_negate, NoKey
<1>2. CASE k \notin 1..(Order-1)
  <2>1. ec_seckey_negate(k) = 0
    BY <1>2, Seckey DEF ec_seckey_negate, scalar_negate
  <2>2. ec_pubkey_create(k) = NoKey
    BY <1>2, Created
  <2>3. ec_pubkey_create(0) = NoKey
    <3>1. 0 \in Nat /\ 0 \notin 1..(Order-1)
      BY OrderType
    <3> QED
      BY <3>1, Created
  <2> QED
    BY <2>1, <2>2, <2>3 DEF ec_pubkey_negate
<1> QED
  BY <1>1, <1>2

\* The sum of a secret and a tweak is 0 exactly if that of their points is
\* infinity.
LEMMA TweakAddHelpers ==
  ASSUME NEW k \in Scalars, NEW tw \in Nat
  PROVE  LET h == seckey_tweak_add_helper(k, tw)
             q == pubkey_tweak_add_helper(Times(k, Generator), tw)
         IN  /\ h.ret => h.sec \in 1..(Order-1) /\ q = Times(h.sec, Generator) /\ q \in Affine
             /\ ~h.ret => q = NoKey
             /\ h.ret \in BOOLEAN
<1> DEFINE term == scalar_set_b32(tw).r
           total == scalar_add(k, term)
           q == pubkey_tweak_add_helper(Times(k, Generator), tw)
           over == scalar_set_b32(tw).overflow
           h == seckey_tweak_add_helper(k, tw)
<1>1. term \in Scalars /\ total \in Scalars /\ over \in BOOLEAN
  <2>1. term \in Scalars /\ over = (tw >= Order)
    BY SetB32
  <2>2. (tw >= Order) \in BOOLEAN
    BY OrderType
  <2> HIDE DEF term
  <2> QED
    BY <2>1, <2>2, ScalarTypes
<1>2. h = [ret |-> ~over /\ total # 0, sec |-> total]
  BY DEF seckey_tweak_add_helper
<1>3. Times(total, Generator) = Sum_of(Times(k, Generator), Times(term, Generator))
  BY <1>1, GeneratorTypes, TimesAdd
<1>4. q = IF over THEN NoKey ELSE Times(total, Generator)
  BY <1>3 DEF pubkey_tweak_add_helper
<1> HIDE DEF term, total, q, over, h
<1>5. CASE total = 0
  <2>1. q = NoKey /\ ~h.ret /\ h.ret \in BOOLEAN
    BY <1>1, <1>2, <1>4, <1>5, GeneratorTypes, TimesNone DEF NoKey
  <2> QED
    BY <2>1 DEF q, h
<1>6. CASE total # 0
  <2>1. total \in 1..(Order-1)
    BY <1>1, <1>6, NonZero
  <2>2. Times(total, Generator) \in Affine
    BY <2>1, PublicKeyTypes
  <2>3. CASE over
    <3>1. q = NoKey /\ ~h.ret /\ h.ret \in BOOLEAN
      BY <1>2, <1>4, <2>3
    <3> QED
      BY <3>1 DEF q, h
  <2>4. CASE ~over
    <3>1. q = Times(total, Generator) /\ h.ret /\ h.ret \in BOOLEAN /\ h.sec = total
      BY <1>2, <1>4, <1>6, <2>4
    <3> QED
      BY <2>1, <2>2, <3>1 DEF q, h
  <2> QED
    BY <2>3, <2>4
<1> QED
  BY <1>5, <1>6

LEMMA AddTogether ==
  ASSUME NEW k \in Nat, NEW tw \in Nat
  PROVE  /\ ec_seckey_tweak_add(k, tw) \in Nat
         /\ ec_pubkey_create(ec_seckey_tweak_add(k, tw)) = ec_pubkey_tweak_add(ec_pubkey_create(k), tw)
<1>1. 0 \in Nat /\ ec_pubkey_create(0) = NoKey
  <2>1. 0 \in Nat /\ 0 \notin 1..(Order-1)
    BY OrderType
  <2> QED
    BY <2>1, Created
<1>2. CASE k \in 1..(Order-1)
  <2> DEFINE q == Times(k, Generator)
             h == seckey_tweak_add_helper(k, tw)
  <2>1. k \in Scalars /\ q # NoKey /\ ec_pubkey_create(k) = q
    BY <1>2, PublicKeyTypes, Created, AffineTypes DEF NoKey
  <2>2. ec_seckey_tweak_add(k, tw) = IF h.ret THEN h.sec ELSE 0
    BY <1>2, Seckey DEF ec_seckey_tweak_add, NoSecret
  <2>3. ec_pubkey_tweak_add(q, tw) = pubkey_tweak_add_helper(q, tw)
    BY <2>1 DEF ec_pubkey_tweak_add
  <2>4. /\ h.ret => h.sec \in 1..(Order-1) /\ pubkey_tweak_add_helper(q, tw) = Times(h.sec, Generator)
        /\ ~h.ret => pubkey_tweak_add_helper(q, tw) = NoKey
        /\ h.ret \in BOOLEAN
    BY <2>1, TweakAddHelpers
  <2> HIDE DEF h, q
  <2>5. CASE h.ret
    <3>1. h.sec \in 1..(Order-1) /\ h.sec \in Nat
      BY <2>4, <2>5, OrderType
    <3>2. ec_pubkey_create(h.sec) = Times(h.sec, Generator)
      BY <3>1, Created
    <3> QED
      BY <2>1, <2>2, <2>3, <2>4, <2>5, <3>1, <3>2
  <2>6. CASE ~h.ret
    BY <1>1, <2>1, <2>2, <2>3, <2>4, <2>6
  <2> QED
    BY <2>5, <2>6
<1>3. CASE k \notin 1..(Order-1)
  <2>1. ec_seckey_tweak_add(k, tw) = 0
    BY <1>3, Seckey DEF ec_seckey_tweak_add, NoSecret
  <2>2. ec_pubkey_create(k) = NoKey
    BY <1>3, Created
  <2> QED
    BY <1>1, <2>1, <2>2 DEF ec_pubkey_tweak_add
<1> QED
  BY <1>2, <1>3

LEMMA MulTogether ==
  ASSUME NEW k \in Nat, NEW tw \in Nat
  PROVE  /\ ec_seckey_tweak_mul(k, tw) \in Nat
         /\ ec_pubkey_create(ec_seckey_tweak_mul(k, tw)) = ec_pubkey_tweak_mul(ec_pubkey_create(k), tw)
<1> DEFINE f == scalar_set_b32(tw).r
           over == scalar_set_b32(tw).overflow
           good == ~over /\ f # 0
<1>1. 0 \in Nat /\ ec_pubkey_create(0) = NoKey
  <2>1. 0 \in Nat /\ 0 \notin 1..(Order-1)
    BY OrderType
  <2> QED
    BY <2>1, Created
<1>2. f \in Scalars
  BY SetB32
<1>3. CASE k \in 1..(Order-1) /\ good
  <2> DEFINE q == Times(k, Generator)
             m == scalar_mul(k, f)
  <2>1. k \in Scalars /\ q \in Affine /\ q \in Points /\ q # NoKey /\ ec_pubkey_create(k) = q
    BY <1>3, PublicKeyTypes, Created, AffineTypes DEF NoKey
  <2>2. ec_seckey_tweak_mul(k, tw) = m
    BY <1>3, Seckey DEF ec_seckey_tweak_mul
  <2>3. ec_pubkey_tweak_mul(q, tw) = Times(f, q)
    BY <1>3, <2>1 DEF ec_pubkey_tweak_mul
  <2> HIDE DEF f
  <2>4. m \in Scalars /\ Times(m, Generator) = Times(f, q)
    BY <1>2, <2>1, ScalarTypes, MulCommutes, GeneratorTypes, TimesMul
  <2>5. Times(f, q) # Infinity
    BY <1>2, <1>3, <2>1, NoTorsion DEF NoKey
  <2>6. m # 0
    BY <2>4, <2>5, GeneratorTypes, TimesNone
  <2>7. m \in 1..(Order-1) /\ m \in Nat
    BY <2>4, <2>6, NonZero, ScalarInt
  <2>8. ec_pubkey_create(m) = Times(m, Generator)
    BY <2>7, Created
  <2> QED
    BY <2>1, <2>2, <2>3, <2>4, <2>7, <2>8
<1>4. CASE k \notin 1..(Order-1)
  <2>1. ec_seckey_tweak_mul(k, tw) = 0 /\ ec_pubkey_create(k) = NoKey
    BY <1>4, Seckey, Created DEF ec_seckey_tweak_mul, NoSecret
  <2> QED
    BY <1>1, <2>1 DEF ec_pubkey_tweak_mul
<1>5. CASE ~good
  <2>1. ec_seckey_tweak_mul(k, tw) = 0
    BY <1>5 DEF ec_seckey_tweak_mul, NoSecret
  <2>2. ec_pubkey_tweak_mul(ec_pubkey_create(k), tw) = NoKey
    BY <1>5 DEF ec_pubkey_tweak_mul
  <2> QED
    BY <1>1, <2>1, <2>2
<1> QED
  BY <1>3, <1>4, <1>5

\* Every operation on a secret key makes of its public key the public key of
\* the result, the failing ones too (secp256k1.c:622-759).
THEOREM OperationsTogether ==
  ASSUME NEW op \in Operations, NEW k \in Nat
  PROVE  /\ SecretOp(op, k) \in Nat
         /\ ec_pubkey_create(SecretOp(op, k)) = PublicOp(op, ec_pubkey_create(k))
<1>1. op[2] \in Nat /\ op[1] \in {"negate", "tweak_add", "tweak_mul"}
  <2>1. Tweaks \subseteq Nat
    BY KeysAssumption, BytesAssumption
  <2>2. CASE op = <<"negate", 0>>
    BY <2>2
  <2>3. CASE op \in {"tweak_add", "tweak_mul"} \X Tweaks
    BY <2>1, <2>3
  <2> QED
    BY <2>2, <2>3 DEF Operations
<1>2. CASE op[1] = "negate"
  BY <1>2, NegateTogether DEF SecretOp, PublicOp
<1>3. CASE op[1] = "tweak_add"
  BY <1>1, <1>3, AddTogether DEF SecretOp, PublicOp
<1>4. CASE op[1] = "tweak_mul"
  BY <1>1, <1>4, MulTogether DEF SecretOp, PublicOp
<1> QED
  BY <1>1, <1>2, <1>3, <1>4

\* A key pair whose halves belong together.
GoodPair(pr) == pr.sk \in 1..(Order-1) /\ pr = [sk |-> pr.sk, pk |-> Times(pr.sk, Generator)]

LEMMA GoodPairTypes ==
  ASSUME NEW pr, GoodPair(pr)
  PROVE  /\ pr.sk \in Nat /\ pr.sk \in 1..(Order-1) /\ pr.sk \in Scalars
         /\ pr.pk = Times(pr.sk, Generator)
         /\ pr.pk \in Affine /\ pr.pk \in Points /\ pr.pk # NoKey
         /\ pr # NoPair /\ keypair_create(pr.sk) = pr
<1>1. /\ pr.sk \in Nat /\ pr.sk \in 1..(Order-1) /\ pr.sk \in Scalars
      /\ pr.pk = Times(pr.sk, Generator) /\ pr.pk \in Affine
  BY PublicKeyTypes, OrderType DEF GoodPair
<1>2. pr.pk \in Points /\ pr.pk # NoKey
  BY <1>1, AffineTypes DEF NoKey
<1>3. NoPair.pk = NoKey
  BY DEF NoPair
<1>4. keypair_create(pr.sk) = pr
  BY <1>1, Seckey DEF keypair_create, GoodPair, PublicKey
<1> QED
  BY <1>1, <1>2, <1>3, <1>4

LEMMA CreatedPair ==
  ASSUME NEW k \in Nat
  PROVE  keypair_create(k) = NoPair \/ GoodPair(keypair_create(k))
<1>1. CASE k \in 1..(Order-1)
  BY <1>1, Seckey DEF keypair_create, GoodPair, PublicKey
<1>2. CASE k \notin 1..(Order-1)
  BY <1>2, Seckey DEF keypair_create
<1> QED
  BY <1>1, <1>2

\* A tweak of a pair is that of its x-only key, and fails with it.
LEMMA TweakedPair ==
  ASSUME NEW pr, GoodPair(pr), NEW tw \in Nat
  PROVE  LET q == xonly_pubkey_from_pubkey(pr.pk).pk
             made == keypair_xonly_tweak_add(pr, tw)
         IN  /\ q \in Affine
             /\ made = NoPair \/ GoodPair(made)
             /\ ec_pubkey_tweak_add(q, tw) = made.pk
<1> DEFINE p == pr.pk
           q == xonly_pubkey_from_pubkey(p).pk
           even == extrakeys_ge_even_y(p)
           sk == IF even.parity = 1 THEN scalar_negate(pr.sk) ELSE pr.sk
           h == seckey_tweak_add_helper(sk, tw)
           pk == pubkey_tweak_add_helper(even.pk, tw)
           made == keypair_xonly_tweak_add(pr, tw)
<1>1. /\ pr.sk \in Nat /\ pr.sk \in 1..(Order-1) /\ pr.sk \in Scalars
      /\ p = Times(pr.sk, Generator) /\ p \in Affine /\ p # NoKey
  BY GoodPairTypes
<1>2. q = even.pk
  BY <1>1 DEF xonly_pubkey_from_pubkey
<1>3. even = IF HasOddY(p) THEN [pk |-> Negative(p), parity |-> 1] ELSE [pk |-> p, parity |-> 0]
  BY DEF extrakeys_ge_even_y
<1>4. scalar_set_b32_seckey(pr.sk).ok
  BY <1>1, Seckey
<1>5. made = IF h.ret /\ pk # NoKey THEN [sk |-> h.sec, pk |-> pk] ELSE NoPair
  BY <1>1, <1>4 DEF keypair_xonly_tweak_add
<1>6. sk \in Scalars /\ even.pk = Times(sk, Generator) /\ even.pk \in Affine
  <2>1. Times(scalar_negate(pr.sk), Generator) = Negative(p) /\ scalar_negate(pr.sk) \in Scalars
    BY <1>1, GeneratorTypes, TimesNegative, ScalarInt
  <2>2. CASE HasOddY(p)
    BY <1>1, <1>3, <2>1, <2>2, NegativePoint
  <2>3. CASE ~HasOddY(p)
    BY <1>1, <1>3, <2>3
  <2> QED
    BY <2>2, <2>3
<1>7. q # NoKey
  BY <1>2, <1>6, AffineTypes DEF NoKey
<1>8. ec_pubkey_tweak_add(q, tw) = pk
  BY <1>2, <1>7 DEF ec_pubkey_tweak_add
<1> HIDE DEF sk, even, q, made, p
<1>9. /\ h.ret => h.sec \in 1..(Order-1) /\ pk = Times(h.sec, Generator) /\ pk \in Affine
      /\ ~h.ret => pk = NoKey
      /\ h.ret \in BOOLEAN
  BY <1>6, TweakAddHelpers
<1> HIDE DEF h, pk
<1>10. (made = NoPair \/ GoodPair(made)) /\ made.pk = pk
  <2>1. CASE h.ret
    <3>1. pk # NoKey /\ pk = Times(h.sec, Generator) /\ h.sec \in 1..(Order-1)
      BY <1>9, <2>1, AffineTypes DEF NoKey
    <3>2. made = [sk |-> h.sec, pk |-> pk]
      BY <1>5, <2>1, <3>1
    <3>3. made.sk = h.sec /\ made.pk = pk
      BY <3>2
    <3> QED
      BY <3>1, <3>2, <3>3 DEF GoodPair
  <2>2. CASE ~h.ret
    BY <1>5, <1>9, <2>2 DEF NoPair
  <2> QED
    BY <2>1, <2>2
<1> QED
  BY <1>2, <1>6, <1>8, <1>10 DEF q, made, p

-----------------------------------------------------------------------------
(***************************************************************************)
(* The bytes of keys.                                                      *)
(***************************************************************************)

Bytes ==
  [size : {33}, tag : KeyTags, x : 0..MaxBytes, y : {0}]
    \cup [size : {65}, tag : KeyTags, x : SomeX, y : SomeY]

LEMMA Tags ==
  /\ TagOf.even = 2 /\ TagOf.odd = 3 /\ TagOf.uncompressed = 4
  /\ TagOf.hybrid_even = 6 /\ TagOf.hybrid_odd = 7
  BY DEF TagOf

\* What the bytes are of that a key was parsed from.
ParsedFrom(k, bytes) ==
  LET again == ec_pubkey_serialize(k, bytes.size = 33)
  IN  /\ k \in Affine
      /\ [again EXCEPT !.tag = 0] = [bytes EXCEPT !.tag = 0]
      /\ bytes.tag \in {TagOf.hybrid_even, TagOf.hybrid_odd} \/ again = bytes
      /\ bytes.tag # TagOf.uncompressed => HasOddY(k) = (bytes.tag % 2 = 1)

LEMMA ParseCorrect ==
  ASSUME NEW bytes \in Bytes, eckey_pubkey_parse(bytes) # NoKey
  PROVE  ParsedFrom(eckey_pubkey_parse(bytes), bytes)
<1> DEFINE k == eckey_pubkey_parse(bytes)
<1> USE Tags
<1>1. CASE bytes \in [size : {33}, tag : KeyTags, x : 0..MaxBytes, y : {0}]
  <2> DEFINE lift == LiftX(bytes.x)
  <2>1. /\ bytes.size = 33 /\ bytes.x \in 0..MaxBytes /\ bytes.y = 0
        /\ bytes = [size |-> 33, tag |-> bytes.tag, x |-> bytes.x, y |-> 0]
    BY <1>1
  <2>2. bytes.tag \in {2, 3}
    BY <2>1 DEF eckey_pubkey_parse
  <2>3. k = IF bytes.tag = 3 THEN Negative(lift) ELSE lift
    BY <2>1, <2>2 DEF eckey_pubkey_parse
  <2>4. lift # Infinity
    BY <2>3 DEF Negative, NoKey
  <2>5. lift \in Affine /\ lift[1] = bytes.x /\ ~HasOddY(lift)
    BY <2>1, <2>4, LiftTypes
  <2> HIDE DEF lift, k
  <2>6. k \in Affine /\ k[1] = bytes.x /\ (HasOddY(k) <=> bytes.tag = 3)
    BY <2>2, <2>3, <2>5, NegativePoint
  <2>7. k # NoKey
    BY <2>6, AffineTypes DEF NoKey
  <2>8. ec_pubkey_serialize(k, bytes.size = 33) = bytes
    <3>1. ec_pubkey_serialize(k, TRUE) =
            [size |-> 33, tag |-> IF HasOddY(k) THEN 3 ELSE 2, x |-> k[1], y |-> 0]
      BY <2>7 DEF ec_pubkey_serialize
    <3>2. (IF HasOddY(k) THEN 3 ELSE 2) = bytes.tag
      BY <2>2, <2>6
    <3> QED
      BY <2>1, <2>6, <3>1, <3>2
  <2>9. HasOddY(k) = (bytes.tag % 2 = 1)
    BY <2>2, <2>6 DEF HasOddY
  <2> QED
    BY <2>6, <2>8, <2>9 DEF ParsedFrom, k
<1>2. CASE bytes \in [size : {65}, tag : KeyTags, x : SomeX, y : SomeY]
  <2> DEFINE whole == <<bytes.x, bytes.y>>
  <2>1. /\ bytes.size = 65 /\ bytes.tag \in KeyTags
        /\ bytes = [size |-> 65, tag |-> bytes.tag, x |-> bytes.x, y |-> bytes.y]
    BY <1>2
  <2>2. /\ bytes.tag \in {6, 7} \/ bytes.tag = 4
        /\ bytes.tag \in {6, 7} => HasOddY(whole) = (bytes.tag = 7)
        /\ whole \in Affine /\ k = whole
    BY <2>1 DEF eckey_pubkey_parse
  <2>3. k[1] = bytes.x /\ k[2] = bytes.y /\ k # NoKey
    BY <2>2, AffineTypes DEF NoKey
  <2>4. k \in Affine
    BY <2>2
  <2> HIDE DEF k
  <2>5. ec_pubkey_serialize(k, bytes.size = 33) = [size |-> 65, tag |-> 4, x |-> bytes.x, y |-> bytes.y]
    <3>1. ec_pubkey_serialize(k, FALSE) = [size |-> 65, tag |-> 4, x |-> k[1], y |-> k[2]]
      BY <2>3 DEF ec_pubkey_serialize
    <3>2. (bytes.size = 33) = FALSE
      BY <2>1
    <3> QED
      BY <2>3, <3>1, <3>2
  <2>6. bytes.tag # 4 => HasOddY(k) = (bytes.tag % 2 = 1)
    <3>1. 6 % 2 = 0 /\ 7 % 2 = 1
      OBVIOUS
    <3>2. HasOddY(k) \in BOOLEAN
      BY DEF HasOddY
    <3>3. CASE bytes.tag = 6
      BY <2>2, <3>1, <3>2, <3>3
    <3>4. CASE bytes.tag = 7
      BY <2>2, <3>1, <3>2, <3>4
    <3> QED
      BY <2>2, <3>3, <3>4
  <2>7. [ec_pubkey_serialize(k, bytes.size = 33) EXCEPT !.tag = 0] = [bytes EXCEPT !.tag = 0]
    BY <2>1, <2>5
  <2>8. bytes.tag \in {6, 7} \/ ec_pubkey_serialize(k, bytes.size = 33) = bytes
    BY <2>1, <2>2, <2>5
  <2> QED
    BY <2>4, <2>6, <2>7, <2>8 DEF ParsedFrom, k
<1> QED
  BY <1>1, <1>2 DEF Bytes

\* A key is parsed from both its serializations.
LEMMA SerializeParse ==
  ASSUME NEW k \in Affine, NEW compressed \in BOOLEAN
  PROVE  eckey_pubkey_parse(ec_pubkey_serialize(k, compressed)) = k
<1> USE Tags
<1>1. k # NoKey /\ k[1] \in 0..(P-1) /\ k[2] \in 1..(P-1) /\ k = <<k[1], k[2]>> /\ P \in Nat
  BY AffineTypes, PrimeType DEF NoKey
<1>2. CASE compressed
  <2> DEFINE bytes == ec_pubkey_serialize(k, compressed)
  <2>1. bytes = [size |-> 33, tag |-> IF HasOddY(k) THEN 3 ELSE 2, x |-> k[1], y |-> 0]
    BY <1>1, <1>2 DEF ec_pubkey_serialize
  <2>2. bytes.size = 33 /\ bytes.x = k[1] /\ bytes.tag = IF HasOddY(k) THEN 3 ELSE 2
    BY <2>1
  <2> HIDE DEF bytes
  <2>3. eckey_pubkey_parse(bytes) = IF HasOddY(k) THEN Negative(LiftX(k[1])) ELSE LiftX(k[1])
    BY <2>2 DEF eckey_pubkey_parse
  <2>4. CASE HasOddY(k)
    <3>1. LiftX(k[1]) = Negative(k)
      BY <2>4, LiftOf
    <3>2. Negative(Negative(k)) = k
      <4> DEFINE q == Negative(k)
      <4>1. q \in Affine /\ q[1] = k[1] /\ q[2] = P - k[2]
        BY NegativePoint
      <4> HIDE DEF q
      <4>2. Negative(q) \in Affine /\ Negative(q)[1] = q[1] /\ Negative(q)[2] = P - q[2]
        BY <4>1, NegativePoint
      <4>3. P - (P - k[2]) = k[2]
        BY <1>1
      <4>4. Negative(q) = <<Negative(q)[1], Negative(q)[2]>>
        BY <4>2, AffineTypes
      <4> QED
        BY <1>1, <4>1, <4>2, <4>3, <4>4 DEF q
    <3> QED
      BY <2>3, <2>4, <3>1, <3>2 DEF bytes
  <2>5. CASE ~HasOddY(k)
    <3>1. LiftX(k[1]) = k
      BY <2>5, LiftOf
    <3> QED
      BY <2>3, <2>5, <3>1 DEF bytes
  <2> QED
    BY <2>4, <2>5
<1>3. CASE ~compressed
  <2> DEFINE bytes == ec_pubkey_serialize(k, compressed)
  <2>1. bytes = [size |-> 65, tag |-> 4, x |-> k[1], y |-> k[2]]
    BY <1>1, <1>3 DEF ec_pubkey_serialize
  <2>2. bytes.size = 65 /\ bytes.x = k[1] /\ bytes.y = k[2] /\ bytes.tag = 4
    BY <2>1
  <2>3. bytes.x < P /\ bytes.y < P
    BY <1>1, <2>2
  <2> HIDE DEF bytes
  <2>4. eckey_pubkey_parse(bytes) = <<k[1], k[2]>>
    BY <1>1, <2>2, <2>3 DEF eckey_pubkey_parse
  <2> QED
    BY <1>1, <2>4 DEF bytes
<1> QED
  BY <1>2, <1>3

\* The order of keys is one, and tells all of them apart.
LEMMA CmpCorrect ==
  ASSUME NEW p \in Points, NEW q \in Points
  PROVE  /\ ec_pubkey_cmp(p, q) = -ec_pubkey_cmp(q, p)
         /\ ec_pubkey_cmp(p, q) = 0 <=> p = q
<1> DEFINE tagof(k) == IF k = NoKey THEN 0 ELSE IF HasOddY(k) THEN 3 ELSE 2
           xof(k) == IF k = NoKey THEN 0 ELSE k[1]
           a == tagof(p)  b == tagof(q)  c == xof(p)  d == xof(q)
<1>1. ASSUME NEW k \in Points
      PROVE  /\ tagof(k) \in {0, 2, 3} /\ xof(k) \in Nat
             /\ ec_pubkey_serialize(k, TRUE).tag = tagof(k)
             /\ ec_pubkey_serialize(k, TRUE).x = xof(k)
  <2>1. CASE k = NoKey
    BY <2>1 DEF ec_pubkey_serialize
  <2>2. CASE k # NoKey
    <3>1. k[1] \in Nat
      BY <2>2, PointIsAffine, AffineTypes DEF NoKey
    <3> QED
      BY <2>2, <3>1, Tags DEF ec_pubkey_serialize
  <2> QED
    BY <2>1, <2>2
<1>2. a \in Nat /\ b \in Nat /\ c \in Nat /\ d \in Nat
  BY <1>1
<1>3. ec_pubkey_cmp(p, q) = CASE a < b \/ (a = b /\ c < d) -> -1
                              [] a = b /\ c = d -> 0
                              [] OTHER -> 1
  BY <1>1 DEF ec_pubkey_cmp
<1>4. ec_pubkey_cmp(q, p) = CASE b < a \/ (b = a /\ d < c) -> -1
                              [] b = a /\ d = c -> 0
                              [] OTHER -> 1
  BY <1>1 DEF ec_pubkey_cmp
<1>5. a = b /\ c = d => p = q
  <2> SUFFICES ASSUME a = b, c = d PROVE p = q
    OBVIOUS
  <2>1. CASE p = NoKey \/ q = NoKey
    BY <2>1
  <2>2. CASE p # NoKey /\ q # NoKey
    <3>1. p \in Affine /\ q \in Affine /\ p[1] = q[1]
      BY <2>2, PointIsAffine DEF NoKey
    <3>2. HasOddY(p) = HasOddY(q)
      BY <2>2 DEF HasOddY
    <3> QED
      BY <3>1, <3>2, SameParity
  <2> QED
    BY <2>1, <2>2
<1>6. p = q => a = b /\ c = d
  OBVIOUS
<1> HIDE DEF a, b, c, d
<1>7. ec_pubkey_cmp(p, q) = 0 <=> a = b /\ c = d
  BY <1>2, <1>3
<1>8. ec_pubkey_cmp(p, q) = -ec_pubkey_cmp(q, p)
  BY <1>2, <1>3, <1>4
<1> QED
  BY <1>5, <1>6, <1>7, <1>8

-----------------------------------------------------------------------------
(***************************************************************************)
(* The inductive invariant of keys: the operations that the public key has *)
(* still to catch up with lead it to that of the secret key.               *)
(***************************************************************************)

\* The public keys that it goes through.
Leads(f, ops, p, q) ==
  /\ f \in [0..Len(ops) -> Points] /\ f[0] = p /\ f[Len(ops)] = q
  /\ \A k \in 1..Len(ops) : f[k] = PublicOp(ops[k], f[k-1])

KeyTypes == sec \in Nat /\ todo \in Seq(Operations)

TodoInv == \E f : Leads(f, todo, pub, ec_pubkey_create(sec))

PairInv == pair = NoPair \/ GoodPair(pair)

InternalInv ==
  \A it \in internal :
    it[1] \in Affine /\ it[2] \in Tweaks /\ ec_pubkey_tweak_add(it[1], it[2]) = pair.pk

GotInv == got = NotReceived \/ \E bytes \in Bytes : got = [in |-> bytes, key |-> eckey_pubkey_parse(bytes)]

KeysInv == KeyTypes /\ TodoInv /\ PairInv /\ InternalInv /\ GotInv

LEMMA SecretBytesTypes == SecretBytes \subseteq Nat /\ Tweaks \subseteq Nat
  BY KeysAssumption, BytesAssumption

LEMMA InitKeysInv == KeysInit => KeysInv
<1> SUFFICES ASSUME KeysInit PROVE KeysInv
  OBVIOUS
<1>1. sec \in Nat /\ pub = ec_pubkey_create(sec) /\ todo = <<>>
  BY SecretBytesTypes DEF KeysInit
<1>2. KeyTypes
  BY <1>1 DEF KeyTypes
<1>3. TodoInv
  <2> DEFINE f == [k \in 0..0 |-> pub]
  <2>1. pub \in Points
    BY <1>1, Created
  <2>2. Leads(f, todo, pub, ec_pubkey_create(sec))
    BY <1>1, <2>1 DEF Leads
  <2> QED
    BY <2>2 DEF TodoInv
<1>4. PairInv /\ InternalInv /\ GotInv
  BY DEF KeysInit, PairInv, InternalInv, GotInv
<1> QED
  BY <1>2, <1>3, <1>4 DEF KeysInv

LEMMA OnSecretInv ==
  ASSUME KeysInv, NEW op \in Operations, OnSecret(op)
  PROVE  KeysInv'
<1>1. /\ sec' = SecretOp(op, sec) /\ todo' = Append(todo, op)
      /\ UNCHANGED <<pub, pair, internal, got>>
  BY DEF OnSecret, SecretOp
<1>2. sec \in Nat /\ todo \in Seq(Operations)
  BY DEF KeysInv, KeyTypes
<1>3. sec' \in Nat /\ ec_pubkey_create(sec') = PublicOp(op, ec_pubkey_create(sec))
  BY <1>1, <1>2, OperationsTogether
<1>4. /\ todo' \in Seq(Operations) /\ Len(todo) \in Nat /\ Len(todo') = Len(todo) + 1
      /\ \A k \in 1..Len(todo) : todo'[k] = todo[k]
      /\ todo'[Len(todo) + 1] = op
  BY <1>1, <1>2
<1>5. PICK f : Leads(f, todo, pub, ec_pubkey_create(sec))
  BY DEF KeysInv, TodoInv
<1> DEFINE n == Len(todo)
           q == ec_pubkey_create(sec')
           g == [k \in 0..(n+1) |-> IF k = n + 1 THEN q ELSE f[k]]
<1>6. q \in Points
  BY <1>3, Created
<1>7. Leads(g, todo', pub, q)
  <2>1. n \in Nat /\ Len(todo') = n + 1
    BY <1>4
  <2>2. /\ f \in [0..n -> Points] /\ f[0] = pub /\ f[n] = ec_pubkey_create(sec)
        /\ \A k \in 1..n : f[k] = PublicOp(todo[k], f[k-1])
    BY <1>5 DEF Leads
  <2> HIDE DEF n, q
  <2>3. g \in [0..(n+1) -> Points]
    BY <1>6, <2>1, <2>2
  <2>4. g[0] = pub /\ g[n+1] = q
    BY <2>1, <2>2
  <2>5. ASSUME NEW k \in 1..(n+1) PROVE g[k] = PublicOp(todo'[k], g[k-1])
    <3>1. g[k-1] = f[k-1]
      BY <2>1
    <3>2. CASE k = n + 1
      <4>1. g[k] = q /\ f[k-1] = ec_pubkey_create(sec) /\ todo'[k] = op
        BY <1>4, <2>1, <2>2, <3>2 DEF n
      <4> QED
        BY <1>3, <3>1, <4>1 DEF q
    <3>3. CASE k # n + 1
      <4>1. k \in 1..n /\ g[k] = f[k] /\ todo'[k] = todo[k]
        BY <1>4, <2>1, <3>3 DEF n
      <4> QED
        BY <2>2, <3>1, <4>1
    <3> QED
      BY <3>2, <3>3
  <2> HIDE DEF g
  <2> QED
    BY <2>1, <2>3, <2>4, <2>5 DEF Leads
<1>8. TodoInv'
  BY <1>1, <1>7 DEF TodoInv
<1>9. KeyTypes' /\ PairInv' /\ InternalInv' /\ GotInv'
  BY <1>1, <1>3, <1>4 DEF KeysInv, KeyTypes, PairInv, InternalInv, GotInv
<1> QED
  BY <1>8, <1>9 DEF KeysInv

LEMMA OnPublicInv ==
  ASSUME KeysInv, OnPublic
  PROVE  KeysInv'
<1>1. /\ todo # <<>> /\ pub' = PublicOp(Head(todo), pub) /\ todo' = Tail(todo)
      /\ UNCHANGED <<sec, pair, internal, got>>
  BY DEF OnPublic, PublicOp
<1>2. sec \in Nat /\ todo \in Seq(Operations)
  BY DEF KeysInv, KeyTypes
<1> DEFINE n == Len(todo) - 1
           q == ec_pubkey_create(sec)
<1>3. /\ todo' \in Seq(Operations) /\ n \in Nat /\ Len(todo) = n + 1 /\ Len(todo') = n
      /\ \A k \in 1..n : todo'[k] = todo[k+1]
      /\ Head(todo) = todo[1]
  BY <1>1, <1>2
<1>4. PICK f : Leads(f, todo, pub, q)
  BY DEF KeysInv, TodoInv
<1> DEFINE g == [k \in 0..n |-> f[k+1]]
<1>5. Leads(g, todo', pub', q)
  <2>1. /\ f \in [0..(n+1) -> Points] /\ f[0] = pub /\ f[n+1] = q
        /\ \A k \in 1..(n+1) : f[k] = PublicOp(todo[k], f[k-1])
    BY <1>3, <1>4 DEF Leads
  <2> HIDE DEF n, q
  <2>2. g \in [0..n -> Points]
    BY <1>3, <2>1
  <2>3. g[0] = pub'
    <3>1. f[1] = PublicOp(todo[1], f[1-1]) /\ g[0] = f[1]
      BY <1>3, <2>1
    <3> QED
      BY <1>1, <1>3, <2>1, <3>1
  <2>4. g[n] = q
    BY <1>3, <2>1
  <2>5. ASSUME NEW k \in 1..n PROVE g[k] = PublicOp(todo'[k], g[k-1])
    <3> DEFINE l == k + 1
    <3>1. l \in 1..(n+1) /\ g[k] = f[l] /\ g[k-1] = f[l-1] /\ todo'[k] = todo[l]
      BY <1>3
    <3> HIDE DEF l, g
    <3> QED
      BY <2>1, <3>1
  <2> HIDE DEF g
  <2> QED
    BY <1>3, <2>2, <2>3, <2>4, <2>5 DEF Leads
<1>6. TodoInv'
  BY <1>1, <1>5 DEF TodoInv
<1>7. KeyTypes' /\ PairInv' /\ InternalInv' /\ GotInv'
  BY <1>1, <1>2, <1>3 DEF KeysInv, KeyTypes, PairInv, InternalInv, GotInv
<1> QED
  BY <1>6, <1>7 DEF KeysInv

LEMMA CreatePairInv ==
  ASSUME KeysInv, NEW sk \in SecretBytes, CreatePair(sk)
  PROVE  KeysInv'
<1>1. pair' = keypair_create(sk) /\ internal' = {} /\ UNCHANGED <<sec, pub, todo, got>>
  BY DEF CreatePair
<1>2. PairInv'
  BY <1>1, SecretBytesTypes, CreatedPair DEF PairInv
<1> QED
  BY <1>1, <1>2 DEF KeysInv, KeyTypes, TodoInv, InternalInv, GotInv

LEMMA TweakPairInv ==
  ASSUME KeysInv, NEW tw \in Tweaks, TweakPair(tw)
  PROVE  KeysInv'
<1> DEFINE q == xonly_pubkey_from_pubkey(pair.pk).pk
<1>1. /\ pair # NoPair /\ pair' = keypair_xonly_tweak_add(pair, tw)
      /\ internal' = {<<q, tw>>}
      /\ UNCHANGED <<sec, pub, todo, got>>
  BY DEF TweakPair
<1>2. GoodPair(pair) /\ tw \in Nat
  BY <1>1, SecretBytesTypes DEF KeysInv, PairInv
<1>3. /\ q \in Affine
      /\ pair' = NoPair \/ GoodPair(pair')
      /\ ec_pubkey_tweak_add(q, tw) = pair'.pk
  BY <1>1, <1>2, TweakedPair
<1> HIDE DEF q
<1>4. InternalInv'
  BY <1>1, <1>3 DEF InternalInv
<1> QED
  BY <1>1, <1>3, <1>4 DEF KeysInv, KeyTypes, TodoInv, PairInv, GotInv

LEMMA ReceiveInv ==
  ASSUME KeysInv, NEW bytes \in Bytes, Receive(bytes)
  PROVE  KeysInv'
<1>1. got' = [in |-> bytes, key |-> eckey_pubkey_parse(bytes)] /\ UNCHANGED <<sec, pub, todo, pair, internal>>
  BY DEF Receive
<1>2. GotInv'
  BY <1>1 DEF GotInv
<1> QED
  BY <1>1, <1>2 DEF KeysInv, KeyTypes, TodoInv, PairInv, InternalInv

LEMMA KeysStep == KeysInv /\ [KeysNext]_keyVars => KeysInv'
<1> SUFFICES ASSUME KeysInv, [KeysNext]_keyVars PROVE KeysInv'
  OBVIOUS
<1>1. ASSUME NEW op \in Operations, OnSecret(op) PROVE KeysInv'
  BY <1>1, OnSecretInv
<1>2. ASSUME OnPublic PROVE KeysInv'
  BY <1>2, OnPublicInv
<1>3. ASSUME NEW sk \in SecretBytes, CreatePair(sk) PROVE KeysInv'
  BY <1>3, CreatePairInv
<1>4. ASSUME NEW tw \in Tweaks, TweakPair(tw) PROVE KeysInv'
  BY <1>4, TweakPairInv
<1>5. ASSUME NEW x \in 0..MaxBytes, NEW t \in KeyTags, Receive([size |-> 33, tag |-> t, x |-> x, y |-> 0])
      PROVE  KeysInv'
  <2>1. [size |-> 33, tag |-> t, x |-> x, y |-> 0] \in Bytes
    BY DEF Bytes
  <2> QED
    BY <1>5, <2>1, ReceiveInv
<1>6. ASSUME NEW x \in SomeX, NEW y \in SomeY, NEW t \in KeyTags,
             Receive([size |-> 65, tag |-> t, x |-> x, y |-> y])
      PROVE  KeysInv'
  <2>1. [size |-> 65, tag |-> t, x |-> x, y |-> y] \in Bytes
    BY DEF Bytes
  <2> QED
    BY <1>6, <2>1, ReceiveInv
<1>7. CASE UNCHANGED keyVars
  BY <1>7 DEF keyVars, KeysInv, KeyTypes, TodoInv, PairInv, InternalInv, GotInv
<1> QED
  BY <1>1, <1>2, <1>3, <1>4, <1>5, <1>6, <1>7 DEF KeysNext

LEMMA KeysInvariant == KeysSpec => []KeysInv
<1>1. KeysInit => KeysInv
  BY InitKeysInv
<1>2. KeysInv /\ [KeysNext]_keyVars => KeysInv'
  BY KeysStep
<1> QED
  BY <1>1, <1>2, PTL DEF KeysSpec

\* The keys that the two sides hold at any time are points.
LEMMA PubTypes ==
  ASSUME KeysInv
  PROVE  pub \in Points /\ sec \in Nat /\ (todo = <<>> => pub = ec_pubkey_create(sec))
<1>1. PICK f : Leads(f, todo, pub, ec_pubkey_create(sec))
  BY DEF KeysInv, TodoInv
<1>2. Len(todo) \in Nat /\ sec \in Nat /\ (todo = <<>> => Len(todo) = 0)
  BY DEF KeysInv, KeyTypes
<1> QED
  BY <1>1, <1>2 DEF Leads

LEMMA PairFacts ==
  ASSUME KeysInv
  PROVE  PairBelongsTogether
<1>1. CASE pair = NoPair
  <2>1. scalar_set_b32_seckey(0).ok = FALSE /\ NoPair.sk = 0
    <3>1. 0 \in Nat /\ 0 \notin 1..(Order-1)
      OBVIOUS
    <3> QED
      BY <3>1, Seckey DEF NoPair, NoSecret, scalar_set_b32_seckey
  <2>2. pair = keypair_create(pair.sk)
    BY <1>1, <2>1 DEF keypair_create
  <2> QED
    BY <1>1, <2>2 DEF PairBelongsTogether
<1>2. CASE GoodPair(pair)
  <2>1. /\ pair.sk \in 1..(Order-1) /\ keypair_create(pair.sk) = pair
        /\ pair.pk = PublicKey(pair.sk)
    BY <1>2, GoodPairTypes, PublicKeyTypes
  <2>2. ASSUME NEW m \in Messages, NEW nonce \in 0..MaxBytes,
               schnorrsig_sign(pair.sk, m, nonce, TRUE).ret
        PROVE  schnorrsig_verify(schnorrsig_sign(pair.sk, m, nonce, TRUE).sig, m, pair.pk[1])
    <3>1. nonce \in Nat
      BY BytesAssumption
    <3> QED
      BY <2>1, <2>2, <3>1, SignedIsValid
  <2> QED
    BY <2>1, <2>2 DEF PairBelongsTogether
<1> QED
  BY <1>1, <1>2 DEF KeysInv, PairInv

LEMMA TweakChecked ==
  ASSUME KeysInv
  PROVE  OnlyTheTweakedKey
<1> SUFFICES ASSUME NEW it \in internal, NEW x \in 0..MaxBytes, NEW parity \in 0..1
             PROVE  xonly_pubkey_tweak_add_check(x, parity, it[1], it[2]) <=>
                      /\ pair # NoPair
                      /\ x = pair.pk[1] /\ parity = xonly_pubkey_from_pubkey(pair.pk).parity
  BY DEF OnlyTheTweakedKey
<1>1. xonly_pubkey_tweak_add(it[1], it[2]) = pair.pk
  BY DEF KeysInv, InternalInv, xonly_pubkey_tweak_add
<1>2. pair = NoPair <=> pair.pk = NoKey
  BY GoodPairTypes DEF KeysInv, PairInv, NoPair
<1>3. xonly_pubkey_tweak_add_check(x, parity, it[1], it[2]) <=>
        pair.pk # NoKey /\ pair.pk[1] = x /\ HasOddY(pair.pk) = (parity = 1)
  BY <1>1 DEF xonly_pubkey_tweak_add_check
<1>4. pair.pk # NoKey => xonly_pubkey_from_pubkey(pair.pk).parity = IF HasOddY(pair.pk) THEN 1 ELSE 0
  BY DEF xonly_pubkey_from_pubkey, extrakeys_ge_even_y
<1>5. HasOddY(pair.pk) \in BOOLEAN
  BY DEF HasOddY
<1> QED
  BY <1>2, <1>3, <1>4, <1>5

LEMMA SharedSecret ==
  ASSUME KeysInv
  PROVE  PartiesAgree
<1> SUFFICES ASSUME todo = <<>>, pub # NoKey, pair # NoPair
             PROVE  /\ ecdh(pub, pair.sk) = ecdh(pair.pk, sec) /\ ecdh(pub, pair.sk).ret
                    /\ ec_pubkey_combine(pub, pair.pk) = PublicKey(scalar_add(sec, pair.sk))
  BY DEF PartiesAgree
<1>1. sec \in 1..(Order-1) /\ pub = Times(sec, Generator)
  BY PubTypes, Created
<1>2. sec \in Scalars /\ sec # 0 /\ sec \in Nat /\ sec < Order
  BY <1>1, OrderType, PublicKeyTypes
<1>3. /\ pair.sk \in Scalars /\ pair.sk \in Nat /\ pair.sk # 0 /\ pair.sk < Order
      /\ pair.pk = Times(pair.sk, Generator)
  BY GoodPairTypes, OrderType DEF KeysInv, PairInv
<1>4. ASSUME NEW k \in Scalars, k # 0, k < Order, NEW q
      PROVE  ecdh(q, k) = [ret |-> TRUE, pt |-> Times(k, q)]
  <2>1. k \in Nat
    BY <1>4, ScalarInt
  <2>2. scalar_set_b32(k).r = k
    BY <1>4, <2>1, SetB32
  <2>3. scalar_set_b32(k).overflow = (k >= Order)
    BY <2>1, SetB32
  <2>4. ~(k >= Order)
    BY <1>4, <2>1, OrderType
  <2>5. ~scalar_set_b32(k).overflow
    BY <2>3, <2>4
  <2> QED
    BY <1>4, <2>2, <2>5 DEF ecdh
<1>5. Times(pair.sk, pub) = Times(sec, pair.pk)
  <2>1. Times(scalar_mul(pair.sk, sec), Generator) = Times(pair.sk, pub)
    BY <1>1, <1>2, <1>3, GeneratorTypes, TimesMul
  <2>2. Times(scalar_mul(sec, pair.sk), Generator) = Times(sec, pair.pk)
    BY <1>1, <1>2, <1>3, GeneratorTypes, TimesMul
  <2>3. scalar_mul(sec, pair.sk) = scalar_mul(pair.sk, sec)
    BY <1>2, <1>3, MulCommutes
  <2> QED
    BY <2>1, <2>2, <2>3
<1>6. ec_pubkey_combine(pub, pair.pk) = PublicKey(scalar_add(sec, pair.sk))
  BY <1>1, <1>2, <1>3, GeneratorTypes, TimesAdd DEF ec_pubkey_combine, PublicKey
<1>7. ecdh(pub, pair.sk) = [ret |-> TRUE, pt |-> Times(pair.sk, pub)]
  BY <1>3, <1>4
<1>8. ecdh(pair.pk, sec) = [ret |-> TRUE, pt |-> Times(sec, pair.pk)]
  BY <1>2, <1>4
<1> QED
  BY <1>5, <1>6, <1>7, <1>8

LEMMA ReceivedKeys ==
  ASSUME KeysInv
  PROVE  BytesAreOneKey
<1>1. got.key # NoKey => ParsedFrom(got.key, got.in)
  <2>1. CASE got = NotReceived
    BY <2>1 DEF NotReceived
  <2>2. ASSUME NEW bytes \in Bytes, got = [in |-> bytes, key |-> eckey_pubkey_parse(bytes)]
        PROVE  got.key # NoKey => ParsedFrom(got.key, got.in)
    BY <2>2, ParseCorrect
  <2> QED
    BY <2>1, <2>2 DEF KeysInv, GotInv
<1>2. got.key \in Points
  BY <1>1, AffineTypes, Neutral DEF ParsedFrom, NoKey
<1>3. pub \in Points
  BY PubTypes
<1>4. ASSUME NEW c \in BOOLEAN, pub # NoKey
      PROVE  eckey_pubkey_parse(ec_pubkey_serialize(pub, c)) = pub
  <2>1. pub \in Affine
    BY <1>3, <1>4, PointIsAffine DEF NoKey
  <2> QED
    BY <2>1, SerializeParse
<1>5. ec_pubkey_cmp(pub, got.key) = -ec_pubkey_cmp(got.key, pub)
  BY <1>2, <1>3, CmpCorrect
<1>6. ec_pubkey_cmp(pub, got.key) = 0 <=> pub = got.key
  BY <1>2, <1>3, CmpCorrect
<1> QED
  BY <1>1, <1>4, <1>5, <1>6 DEF BytesAreOneKey, ParsedFrom

\* Secret keys, public keys, key pairs and their bytes stay together through
\* every sequence of operations, for every group of prime order and every
\* number of operations (secp256k1.c:622-791, extrakeys/main_impl.h:117-285,
\* ecdh/main_impl.h:29-69, eckey_impl.h:17-53).
THEOREM KeysCorrect == KeysSpec => []KeysBelongTogether
<1>1. KeysInv => KeysBelongTogether
  <2> SUFFICES ASSUME KeysInv PROVE KeysBelongTogether
    OBVIOUS
  <2>1. SidesInStep
    BY PubTypes DEF SidesInStep
  <2> QED
    BY <2>1, PairFacts, TweakChecked, SharedSecret, ReceivedKeys DEF KeysBelongTogether
<1> QED
  BY <1>1, KeysInvariant, PTL

-----------------------------------------------------------------------------
(***************************************************************************)
(* ECDSA: a signature is valid for a key if and only if the point of its   *)
(* nonce, times s, is r times the key and the hash times the generator.    *)
(***************************************************************************)

LEMMA ScalarInverse ==
  ASSUME NEW a \in Scalars, a # 0
  PROVE  scalar_inverse(a) \in Scalars /\ scalar_mul(scalar_inverse(a), a) = 1
<1>1. \E b \in Scalars : (b * a) % Order = 1
  BY NonZero, OrderPrimeAssumption
<1>2. scalar_inverse(a) = CHOOSE b \in Scalars : (b * a) % Order = 1
  BY DEF scalar_inverse
<1> QED
  BY <1>1, <1>2 DEF scalar_mul

LEMMA TimesScalar ==
  ASSUME NEW a \in Scalars, NEW p \in Points
  PROVE  Times(a, p) \in Points
  BY ScalarInt, TimesTypes

LEMMA TimesCommute ==
  ASSUME NEW a \in Scalars, NEW b \in Scalars, NEW p \in Points
  PROVE  Times(a, Times(b, p)) = Times(b, Times(a, p))
<1>1. Times(scalar_mul(a, b), p) = Times(a, Times(b, p))
  BY TimesMul
<1>2. Times(scalar_mul(b, a), p) = Times(b, Times(a, p))
  BY TimesMul
<1> QED
  BY <1>1, <1>2, MulCommutes

LEMMA InverseTimes ==
  ASSUME NEW a \in Scalars, a # 0, NEW p \in Points
  PROVE  /\ Times(scalar_inverse(a), Times(a, p)) = p
         /\ Times(a, Times(scalar_inverse(a), p)) = p
<1>1. scalar_inverse(a) \in Scalars /\ scalar_mul(scalar_inverse(a), a) = 1
  BY ScalarInverse
<1>2. Times(scalar_mul(scalar_inverse(a), a), p) = Times(scalar_inverse(a), Times(a, p))
  BY <1>1, TimesMul
<1> QED
  BY <1>1, <1>2, TimesOne, TimesCommute

LEMMA TimesInjective ==
  ASSUME NEW a \in Scalars, a # 0, NEW p \in Points, NEW q \in Points, Times(a, p) = Times(a, q)
  PROVE  p = q
  BY InverseTimes

LEMMA TimesNegatives ==
  ASSUME NEW a \in Scalars, NEW p \in Affine
  PROVE  Times(scalar_negate(a), Negative(p)) = Times(a, p)
<1> DEFINE n == Negative(p)
<1>1. n \in Points /\ p \in Points /\ Sum_of(p, n) = Infinity
  BY NegativePoint, AffineTypes
<1> HIDE DEF n
<1>2. a \in Nat /\ scalar_negate(a) \in Scalars
  BY ScalarInt
<1>3. Times(a, n) \in Points /\ Times(a, p) \in Points /\ Times(scalar_negate(a), n) \in Points
  BY <1>1, <1>2, TimesScalar
<1>4. Sum_of(Times(a, n), Times(scalar_negate(a), n)) = Infinity
  BY <1>1, TimesNegate
<1>5. Sum_of(Times(a, n), Times(a, p)) = Infinity
  <2>1. Times(a, Sum_of(p, n)) = Sum_of(Times(a, p), Times(a, n))
    BY <1>1, <1>2, TimesSum
  <2> QED
    BY <1>1, <1>2, <1>3, <2>1, TimesInfinity, Closed
<1> QED
  BY <1>3, <1>4, <1>5, OnlyInverse DEF n

-----------------------------------------------------------------------------
EcdsaSig == [r : Scalars, s : Scalars, recid : 0..3]

\* What s times the point of the nonce has to be.
Target(g, m, q) == Sum_of(Times(g.r, q), Times(m, Generator))

\* The coordinates that r is made of.
IsX(g, x) == x = g.r \/ (g.r < P_minus_order /\ x = g.r + Order)

LEMMA SigTypes ==
  ASSUME NEW g \in EcdsaSig
  PROVE  g.r \in Scalars /\ g.s \in Scalars /\ g.recid \in 0..3 /\ g.r \in 0..(Order-1)
  BY DEF EcdsaSig, Scalars

LEMMA TargetTypes ==
  ASSUME NEW g \in EcdsaSig, NEW m \in Scalars, NEW q \in Points
  PROVE  /\ Target(g, m, q) \in Points
         /\ Times(g.r, q) \in Points /\ Times(m, Generator) \in Points
<1>1. Times(g.r, q) \in Points /\ Times(m, Generator) \in Points
  BY SigTypes, GeneratorTypes, TimesScalar
<1> QED
  BY <1>1, Closed DEF Target

\* The multiple that the verifier computes is the target over s.
LEMMA VerifierPoint ==
  ASSUME NEW g \in EcdsaSig, NEW m \in Scalars, NEW q \in Points, g.s # 0
  PROVE  LET sn == scalar_inverse(g.s)
             pr == Sum_of(Times(scalar_mul(sn, g.r), q), Times(scalar_mul(sn, m), Generator))
         IN  pr \in Points /\ Times(g.s, pr) = Target(g, m, q)
<1> DEFINE sn == scalar_inverse(g.s)
           pr == Sum_of(Times(scalar_mul(sn, g.r), q), Times(scalar_mul(sn, m), Generator))
<1>1. g.r \in Scalars /\ g.s \in Scalars /\ sn \in Scalars /\ sn \in Nat
  BY SigTypes, ScalarInverse, ScalarInt
<1> HIDE DEF sn
<1>2. Times(scalar_mul(sn, g.r), q) = Times(sn, Times(g.r, q))
  BY <1>1, TimesMul
<1>3. Times(scalar_mul(sn, m), Generator) = Times(sn, Times(m, Generator))
  BY <1>1, GeneratorTypes, TimesMul
<1>4. pr = Times(sn, Target(g, m, q))
  BY <1>1, <1>2, <1>3, TargetTypes, TimesSum DEF Target
<1>5. pr \in Points
  BY <1>1, <1>4, TargetTypes, TimesScalar
<1>6. Times(g.s, pr) = Target(g, m, q)
  BY <1>1, <1>4, TargetTypes, InverseTimes DEF sn
<1> QED
  BY <1>5, <1>6 DEF sn

LEMMA VerifyIff ==
  ASSUME NEW g \in EcdsaSig, NEW m \in Scalars, NEW q \in Points
  PROVE  ecdsa_sig_verify(g, q, m) <=>
           /\ g.r # 0 /\ g.s # 0
           /\ \E p \in Affine : Times(g.s, p) = Target(g, m, q) /\ IsX(g, p[1])
<1> DEFINE sn == scalar_inverse(g.s)
           pr == Sum_of(Times(scalar_mul(sn, g.r), q), Times(scalar_mul(sn, m), Generator))
<1>1. ecdsa_sig_verify(g, q, m) <=> g.r # 0 /\ g.s # 0 /\ pr # Infinity /\ IsX(g, pr[1])
  BY DEF ecdsa_sig_verify, IsX
<1>2. g.s # 0 => pr \in Points /\ Times(g.s, pr) = Target(g, m, q)
  BY VerifierPoint
<1> HIDE DEF pr
<1>3. g.s \in Scalars
  BY SigTypes
<1>4. ASSUME g.s # 0, pr # Infinity, IsX(g, pr[1])
      PROVE  \E p \in Affine : Times(g.s, p) = Target(g, m, q) /\ IsX(g, p[1])
  BY <1>2, <1>4, PointIsAffine
<1>5. ASSUME g.s # 0, NEW p \in Affine, Times(g.s, p) = Target(g, m, q), IsX(g, p[1])
      PROVE  pr # Infinity /\ IsX(g, pr[1])
  <2>1. p \in Points /\ p # Infinity
    BY AffineTypes
  <2>2. p = pr
    BY <1>2, <1>3, <1>5, <2>1, TimesInjective
  <2> QED
    BY <1>5, <2>1, <2>2
<1> QED
  BY <1>1, <1>4, <1>5

-----------------------------------------------------------------------------
(***************************************************************************)
(* Recovery: recid names one of the at most four points of the nonce, and  *)
(* each of them leads to one key.                                          *)
(***************************************************************************)

XOf(g) == IF g.recid >= 2 THEN g.r + Order ELSE g.r

Candidate(g) == IF g.recid % 2 = 1 THEN Negative(LiftX(XOf(g))) ELSE LiftX(XOf(g))

Usable(g) ==
  /\ g.r # 0 /\ g.s # 0
  /\ g.recid >= 2 => g.r < P_minus_order
  /\ LiftX(XOf(g)) # Infinity

LEMMA XTypes ==
  ASSUME NEW g \in EcdsaSig
  PROVE  /\ XOf(g) \in Nat
         /\ (g.recid >= 2 => g.r < P_minus_order) => XOf(g) \in 0..MaxBytes /\ IsX(g, XOf(g))
<1> DEFINE r == g.r
           id == g.recid
           x == XOf(g)
<1>1. /\ r \in 0..(Order-1) /\ id \in 0..3 /\ Order \in Nat /\ P \in Nat /\ MaxBytes \in Nat
      /\ P - 1 <= MaxBytes /\ Order - 1 <= MaxBytes
  BY SigTypes, OrderType, PrimeType, BytesAssumption
<1>2. x = IF id >= 2 THEN r + Order ELSE r
  BY DEF XOf
<1>3. IsX(g, x) <=> x = r \/ (r < P - Order /\ x = r + Order)
  BY DEF IsX, P_minus_order
<1> HIDE DEF r, id, x
<1>4. x \in Nat
  BY <1>1, <1>2
<1>5. (id >= 2 => r < P - Order) => x \in 0..MaxBytes
  BY <1>1, <1>2
<1>6. (id >= 2 => r < P - Order) => IsX(g, x)
  BY <1>2, <1>3
<1> QED
  BY <1>4, <1>5, <1>6 DEF r, id, x, P_minus_order

LEMMA CandidateTypes ==
  ASSUME NEW g \in EcdsaSig, Usable(g)
  PROVE  /\ Candidate(g) \in Affine /\ Candidate(g)[1] = XOf(g)
         /\ HasOddY(Candidate(g)) <=> g.recid % 2 = 1
         /\ IsX(g, Candidate(g)[1])
<1> DEFINE even == LiftX(XOf(g))
<1>1. XOf(g) \in 0..MaxBytes /\ IsX(g, XOf(g)) /\ even # Infinity
  BY XTypes DEF Usable
<1>2. even \in Affine /\ even[1] = XOf(g) /\ ~HasOddY(even)
  BY <1>1, LiftTypes
<1> HIDE DEF even
<1>3. Negative(even) \in Affine /\ Negative(even)[1] = XOf(g) /\ HasOddY(Negative(even))
  BY <1>2, NegativePoint
<1>4. Candidate(g) = IF g.recid % 2 = 1 THEN Negative(even) ELSE even
  BY DEF Candidate, even
<1> QED
  BY <1>1, <1>2, <1>3, <1>4

\* Every point with such an x is the candidate of one recid.
LEMMA CandidateOf ==
  ASSUME NEW g \in EcdsaSig, g.r # 0, g.s # 0, NEW p \in Affine, p[1] = XOf(g),
         g.recid >= 2 => g.r < P_minus_order, HasOddY(p) <=> g.recid % 2 = 1
  PROVE  Usable(g) /\ Candidate(g) = p
<1>1. LiftX(XOf(g)) # Infinity
  BY LiftOf
<1>2. Usable(g)
  BY <1>1 DEF Usable
<1> QED
  BY <1>2, CandidateTypes, SameParity

With(g, recid) == [g EXCEPT !.recid = recid]

LEMMA WithTypes ==
  ASSUME NEW g \in EcdsaSig, NEW recid \in 0..3
  PROVE  /\ With(g, recid) \in EcdsaSig
         /\ With(g, recid).r = g.r /\ With(g, recid).s = g.s /\ With(g, recid).recid = recid
         /\ \A m, q : Target(With(g, recid), m, q) = Target(g, m, q)
         /\ \A x : IsX(With(g, recid), x) <=> IsX(g, x)
  BY DEF With, EcdsaSig, Target, IsX

LEMMA SomeCandidate ==
  ASSUME NEW g \in EcdsaSig, g.r # 0, g.s # 0, NEW p \in Affine, IsX(g, p[1])
  PROVE  \E recid \in 0..3 : Usable(With(g, recid)) /\ Candidate(With(g, recid)) = p
<1> DEFINE high == IF p[1] = g.r THEN 0 ELSE 2
           odd == IF HasOddY(p) THEN 1 ELSE 0
           id == high + odd
           h == With(g, id)
<1>1. high \in {0, 2} /\ odd \in {0, 1}
  OBVIOUS
<1>2. (high = 0 <=> p[1] = g.r) /\ (odd = 1 <=> HasOddY(p))
  OBVIOUS
<1> HIDE DEF high, odd
<1>3. id \in 0..3 /\ (id >= 2 <=> high = 2) /\ (id % 2 = 1 <=> odd = 1)
  BY <1>1
<1>4. h \in EcdsaSig /\ h.r = g.r /\ h.s = g.s /\ h.recid = id
  BY <1>3, WithTypes
<1> HIDE DEF id, h
<1>5. h.recid >= 2 => h.r < P_minus_order /\ p[1] = g.r + Order
  BY <1>1, <1>2, <1>3, <1>4 DEF IsX
<1>6. h.recid < 2 => p[1] = g.r
  BY <1>1, <1>2, <1>3, <1>4
<1>7. p[1] = XOf(h)
  BY <1>3, <1>4, <1>5, <1>6 DEF XOf
<1>8. HasOddY(p) <=> h.recid % 2 = 1
  BY <1>2, <1>3, <1>4
<1>9. Usable(h) /\ Candidate(h) = p
  BY <1>4, <1>5, <1>7, <1>8, CandidateOf
<1> QED
  BY <1>3, <1>9 DEF h

LEMMA CandidatesDiffer ==
  ASSUME NEW g \in EcdsaSig, NEW a \in 0..3, NEW b \in 0..3, a # b,
         Usable(With(g, a)), Usable(With(g, b))
  PROVE  Candidate(With(g, a)) # Candidate(With(g, b))
<1> SUFFICES ASSUME Candidate(With(g, a)) = Candidate(With(g, b)) PROVE FALSE
  OBVIOUS
<1>1. /\ With(g, a) \in EcdsaSig /\ With(g, a).r = g.r /\ With(g, a).recid = a
      /\ With(g, b) \in EcdsaSig /\ With(g, b).r = g.r /\ With(g, b).recid = b
  BY WithTypes
<1>2. XOf(With(g, a)) = XOf(With(g, b)) /\ (a % 2 = 1 <=> b % 2 = 1)
  BY <1>1, CandidateTypes
<1>3. XOf(With(g, a)) = IF a >= 2 THEN g.r + Order ELSE g.r
  BY <1>1 DEF XOf
<1>4. XOf(With(g, b)) = IF b >= 2 THEN g.r + Order ELSE g.r
  BY <1>1 DEF XOf
<1>5. g.r \in Int /\ Order \in Nat \ {0}
  BY SigTypes, OrderType
<1>6. a >= 2 <=> b >= 2
  <2> DEFINE r == g.r
             high == r + Order
  <2>1. high # r
    BY <1>5
  <2>2. (IF a >= 2 THEN high ELSE r) = (IF b >= 2 THEN high ELSE r)
    BY <1>2, <1>3, <1>4
  <2> HIDE DEF r, high
  <2> QED
    BY <2>1, <2>2
<1> QED
  BY <1>2, <1>6

\* The recovered key is the only one whose target is that of the candidate.
LEMMA RecoverIff ==
  ASSUME NEW g \in EcdsaSig, NEW m \in Scalars
  PROVE  /\ ~Usable(g) => ecdsa_sig_recover(g, m) = NoKey
         /\ ecdsa_sig_recover(g, m) \in Points
         /\ Usable(g) =>
              \A q \in Points :
                q = ecdsa_sig_recover(g, m) <=> Target(g, m, q) = Times(g.s, Candidate(g))
<1> DEFINE rn == scalar_inverse(g.r)
           c == Candidate(g)
           q0 == Times(scalar_mul(rn, g.s), c)
           v == scalar_mul(rn, m)
           q1 == Times(scalar_negate(v), Generator)
<1>1. ~Usable(g) => ecdsa_sig_recover(g, m) = NoKey
  <2>1. ~(g.recid >= 2 => g.r < P_minus_order) => g.recid >= 2 /\ g.r >= P_minus_order
    BY SigTypes, OrderType, PrimeType DEF P_minus_order
  <2> QED
    BY <2>1 DEF Usable, ecdsa_sig_recover, XOf
<1>2. Usable(g) => ecdsa_sig_recover(g, m) = Sum_of(q0, q1)
  <2>1. (g.recid >= 2 => g.r < P_minus_order) => ~(g.recid >= 2 /\ g.r >= P_minus_order)
    BY SigTypes, OrderType, PrimeType DEF P_minus_order
  <2> QED
    BY <2>1 DEF Usable, ecdsa_sig_recover, XOf, Candidate
<1>3. ASSUME Usable(g)
      PROVE  /\ Sum_of(q0, q1) \in Points
             /\ Target(g, m, Sum_of(q0, q1)) = Times(g.s, c)
  <2>1. c \in Points /\ g.r # 0 /\ g.r \in Scalars /\ g.s \in Scalars /\ g.r \in Nat
    BY <1>3, CandidateTypes, AffineTypes, SigTypes, ScalarInt DEF Usable
  <2>2. rn \in Scalars
    BY <2>1, ScalarInverse
  <2>3. Times(g.r, Times(rn, Times(g.s, c))) = Times(g.s, c)
    BY <2>1, TimesScalar, InverseTimes
  <2>4. Times(g.r, Times(rn, Times(m, Generator))) = Times(m, Generator)
    BY <2>1, GeneratorTypes, TimesScalar, InverseTimes
  <2> HIDE DEF rn, c
  <2>5. v \in Scalars /\ q0 = Times(rn, Times(g.s, c))
    BY <2>1, <2>2, ScalarTypes, TimesMul
  <2>6. Times(v, Generator) = Times(rn, Times(m, Generator))
    BY <2>2, GeneratorTypes, TimesMul
  <2> HIDE DEF v
  <2>7. /\ q1 \in Points /\ Times(v, Generator) \in Points
        /\ Sum_of(q1, Times(v, Generator)) = Infinity
    BY <2>5, GeneratorTypes, ScalarInt, TimesScalar, TimesNegate
  <2>8. q0 \in Points /\ Sum_of(q0, q1) \in Points
    BY <2>1, <2>2, <2>5, <2>7, TimesScalar, Closed
  <2> HIDE DEF q0, q1
  <2>9. Times(g.r, q0) = Times(g.s, c)
    BY <2>3, <2>5
  <2>10. Times(g.r, Times(v, Generator)) = Times(m, Generator)
    BY <2>4, <2>6
  <2>11. Sum_of(Times(g.r, q1), Times(m, Generator)) = Infinity
    <3>1. Times(g.r, Sum_of(q1, Times(v, Generator))) =
            Sum_of(Times(g.r, q1), Times(g.r, Times(v, Generator)))
      BY <2>1, <2>7, TimesSum
    <3> QED
      BY <2>1, <2>7, <2>10, <3>1, TimesInfinity
  <2>12. Times(g.r, Sum_of(q0, q1)) = Sum_of(Times(g.r, q0), Times(g.r, q1))
    BY <2>1, <2>7, <2>8, TimesSum
  <2>13. /\ Times(g.r, q0) \in Points /\ Times(g.r, q1) \in Points
         /\ Times(m, Generator) \in Points
    BY <2>1, <2>7, <2>8, GeneratorTypes, TimesScalar
  <2>14. Target(g, m, Sum_of(q0, q1)) =
           Sum_of(Times(g.r, q0), Sum_of(Times(g.r, q1), Times(m, Generator)))
    BY <2>12, <2>13, Associative DEF Target
  <2> QED
    BY <2>8, <2>9, <2>11, <2>13, <2>14, Neutral
<1>4. ASSUME Usable(g), NEW q \in Points, NEW t \in Points, Target(g, m, q) = Target(g, m, t)
      PROVE  q = t
  <2>1. g.r # 0 /\ g.r \in Scalars
    BY <1>4, SigTypes DEF Usable
  <2>2. Times(g.r, q) = Times(g.r, t)
    BY <1>4, TargetTypes, Cancel DEF Target
  <2> QED
    BY <2>1, <2>2, TimesInjective
<1> HIDE DEF q0, q1
<1> QED
  BY <1>1, <1>2, <1>3, <1>4, Neutral DEF NoKey

-----------------------------------------------------------------------------
LEMMA RecoveredCorrect ==
  ASSUME NEW g \in EcdsaSig, NEW m \in Scalars
  PROVE  /\ {ecdsa_sig_recover(With(g, recid), m) : recid \in 0..3} \ {NoKey}
              = {q \in Affine : ecdsa_sig_verify(g, q, m)}
         /\ \A a, b \in 0..3 : a # b =>
              \/ ecdsa_sig_recover(With(g, a), m) = NoKey
              \/ ecdsa_sig_recover(With(g, a), m) # ecdsa_sig_recover(With(g, b), m)
<1> DEFINE rec(id) == ecdsa_sig_recover(With(g, id), m)
<1>1. ASSUME NEW a \in 0..3, rec(a) # NoKey
      PROVE  /\ Usable(With(g, a)) /\ rec(a) \in Affine
             /\ Target(g, m, rec(a)) = Times(g.s, Candidate(With(g, a)))
  <2>1. With(g, a) \in EcdsaSig /\ Usable(With(g, a)) /\ rec(a) \in Points
    BY <1>1, WithTypes, RecoverIff
  <2>2. Target(With(g, a), m, rec(a)) = Times(With(g, a).s, Candidate(With(g, a)))
    BY <2>1, RecoverIff
  <2> QED
    BY <1>1, <2>1, <2>2, WithTypes, PointIsAffine DEF NoKey
<1>2. ASSUME NEW a \in 0..3, rec(a) # NoKey
      PROVE  ecdsa_sig_verify(g, rec(a), m)
  <2> DEFINE h == With(g, a)
             q == rec(a)
  <2>1. /\ h \in EcdsaSig /\ h.r = g.r /\ h.s = g.s
        /\ Usable(h) /\ q \in Affine /\ Target(g, m, q) = Times(g.s, Candidate(h))
    BY <1>1, <1>2, WithTypes
  <2>2. q \in Points
    BY <2>1, AffineTypes
  <2>3. Candidate(h) \in Affine /\ IsX(h, Candidate(h)[1])
    BY <2>1, CandidateTypes
  <2>4. IsX(g, Candidate(h)[1])
    BY <2>3, WithTypes
  <2>5. g.r # 0 /\ g.s # 0
    BY <2>1 DEF Usable
  <2> HIDE DEF h, q
  <2> QED
    BY <2>1, <2>2, <2>3, <2>4, <2>5, VerifyIff DEF q
<1>3. ASSUME NEW q \in Affine, ecdsa_sig_verify(g, q, m)
      PROVE  \E a \in 0..3 : rec(a) = q /\ rec(a) # NoKey
  <2>1. q \in Points /\ q # NoKey
    BY AffineTypes DEF NoKey
  <2>2. /\ g.r # 0 /\ g.s # 0
        /\ \E p \in Affine : Times(g.s, p) = Target(g, m, q) /\ IsX(g, p[1])
    BY <1>3, <2>1, VerifyIff
  <2>3. PICK p \in Affine : Times(g.s, p) = Target(g, m, q) /\ IsX(g, p[1])
    BY <2>2
  <2>4. PICK a \in 0..3 : Usable(With(g, a)) /\ Candidate(With(g, a)) = p
    BY <2>2, <2>3, SomeCandidate
  <2>5. With(g, a) \in EcdsaSig /\ With(g, a).s = g.s
    BY WithTypes
  <2>6. Target(With(g, a), m, q) = Target(g, m, q)
    BY WithTypes
  <2>7. Target(With(g, a), m, q) = Times(With(g, a).s, Candidate(With(g, a)))
    BY <2>3, <2>4, <2>5, <2>6
  <2>8. q = rec(a)
    BY <2>1, <2>4, <2>5, <2>7, RecoverIff
  <2> QED
    BY <2>1, <2>8
<1>4. ASSUME NEW a \in 0..3, NEW b \in 0..3, a # b, rec(a) # NoKey, rec(a) = rec(b)
      PROVE  FALSE
  <2> DEFINE c == Candidate(With(g, a))
             d == Candidate(With(g, b))
  <2>1. Usable(With(g, a)) /\ Usable(With(g, b)) /\ Times(g.s, c) = Times(g.s, d)
    BY <1>1, <1>4
  <2>2. With(g, a) \in EcdsaSig /\ With(g, b) \in EcdsaSig /\ With(g, a).s = g.s
    BY WithTypes
  <2>3. g.s \in Scalars /\ g.s # 0
    BY <2>1, <2>2, SigTypes DEF Usable
  <2>4. c \in Points /\ d \in Points
    BY <2>1, <2>2, CandidateTypes, AffineTypes
  <2>5. c # d
    BY <1>4, <2>1, CandidatesDiffer
  <2> HIDE DEF c, d
  <2> QED
    BY <2>1, <2>3, <2>4, <2>5, TimesInjective
<1>5. {rec(id) : id \in 0..3} \ {NoKey} = {q \in Affine : ecdsa_sig_verify(g, q, m)}
  <2> HIDE DEF rec
  <2> QED
    BY <1>1, <1>2, <1>3
<1> QED
  BY <1>4, <1>5

\* The negative of s, with the negative of the point.
WithNegative(g) == [g EXCEPT !.s = scalar_negate(@)]

LEMMA NegativeTypes ==
  ASSUME NEW g \in EcdsaSig
  PROVE  /\ WithNegative(g) \in EcdsaSig
         /\ WithNegative(g).r = g.r /\ WithNegative(g).s = scalar_negate(g.s)
         /\ \A m, q : Target(WithNegative(g), m, q) = Target(g, m, q)
         /\ \A x : IsX(WithNegative(g), x) <=> IsX(g, x)
<1>1. scalar_negate(g.s) \in Scalars
  BY SigTypes, ScalarInt
<1>2. WithNegative(g) = [r |-> g.r, s |-> scalar_negate(g.s), recid |-> g.recid]
  BY DEF WithNegative, EcdsaSig
<1>3. WithNegative(g).r = g.r /\ WithNegative(g).s = scalar_negate(g.s)
  BY <1>2
<1>4. WithNegative(g) \in EcdsaSig
  BY <1>1, <1>2, SigTypes DEF EcdsaSig
<1> QED
  BY <1>3, <1>4 DEF Target, IsX

\* Of a scalar and its negative one is high.
LEMMA OneIsHigh ==
  ASSUME NEW a \in Scalars, a # 0
  PROVE  /\ scalar_is_high(scalar_negate(a)) <=> ~scalar_is_high(a)
         /\ scalar_negate(scalar_negate(a)) = a /\ scalar_negate(a) # 0
         /\ scalar_negate(a) # a
<1>1. a \in 1..(Order-1) /\ Order \in Nat /\ Order % 2 = 1
  BY NonZero, OrderAssumption
<1>2. scalar_negate(a) = Order - a /\ Order - a # 0 /\ Order - (Order - a) = a
  BY <1>1 DEF scalar_negate
<1>3. scalar_negate(Order - a) = Order - (Order - a)
  BY <1>2 DEF scalar_negate
<1> DEFINE h == Order \div 2
<1>4. h \in Nat /\ Order = 2 * h + 1
  BY <1>1
<1>5. scalar_is_high(a) <=> a > h
  BY DEF scalar_is_high
<1>6. scalar_is_high(Order - a) <=> Order - a > h
  BY DEF scalar_is_high
<1> HIDE DEF h
<1>7. (Order - a > h <=> ~(a > h)) /\ Order - a # a
  BY <1>1, <1>4
<1> QED
  BY <1>2, <1>3, <1>5, <1>6, <1>7

LEMMA NegativeVerified ==
  ASSUME NEW g \in EcdsaSig, NEW m \in Scalars, NEW q \in Points, ecdsa_sig_verify(g, q, m)
  PROVE  ecdsa_sig_verify(WithNegative(g), q, m)
<1>1. g.r # 0 /\ g.s # 0 /\ \E p \in Affine : Times(g.s, p) = Target(g, m, q) /\ IsX(g, p[1])
  BY VerifyIff
<1>2. PICK p \in Affine : Times(g.s, p) = Target(g, m, q) /\ IsX(g, p[1])
  BY <1>1
<1> DEFINE h == WithNegative(g)
<1>3. h \in EcdsaSig /\ h.r = g.r /\ h.s = scalar_negate(g.s) /\ g.s \in Scalars
  BY NegativeTypes, SigTypes
<1>4. Target(h, m, q) = Target(g, m, q) /\ (IsX(h, p[1]) <=> IsX(g, p[1]))
  BY NegativeTypes
<1>5. Times(scalar_negate(g.s), Negative(p)) = Times(g.s, p)
  BY <1>3, TimesNegatives
<1>6. Negative(p) \in Affine /\ Negative(p)[1] = p[1]
  BY NegativePoint
<1>7. h.s # 0
  BY <1>1, <1>3, OneIsHigh
<1> HIDE DEF h
<1>8. \E t \in Affine : Times(h.s, t) = Target(h, m, q) /\ IsX(h, t[1])
  BY <1>2, <1>3, <1>4, <1>5, <1>6
<1>9. ecdsa_sig_verify(h, q, m)
  BY <1>1, <1>3, <1>7, <1>8, VerifyIff
<1> QED
  BY <1>9 DEF h

\* A signature and its negative are valid for the same keys.
LEMMA NegativeIff ==
  ASSUME NEW g \in EcdsaSig, NEW m \in Scalars, NEW q \in Points
  PROVE  ecdsa_sig_verify(g, q, m) <=> ecdsa_sig_verify(WithNegative(g), q, m)
<1>1. CASE g.s = 0
  <2>1. WithNegative(g) = g
    BY <1>1 DEF WithNegative, EcdsaSig, scalar_negate
  <2> QED
    BY <2>1
<1>2. CASE g.s # 0
  <2>1. scalar_negate(scalar_negate(g.s)) = g.s
    BY <1>2, SigTypes, OneIsHigh
  <2>2. WithNegative(WithNegative(g)) = g
    BY <2>1 DEF WithNegative, EcdsaSig
  <2>3. WithNegative(g) \in EcdsaSig
    BY NegativeTypes
  <2>4. ecdsa_sig_verify(WithNegative(g), q, m) => ecdsa_sig_verify(g, q, m)
    BY <2>2, <2>3, NegativeVerified
  <2> QED
    BY <2>4, NegativeVerified
<1> QED
  BY <1>1, <1>2

-----------------------------------------------------------------------------
(***************************************************************************)
(* Signing: s times the nonce is the hash plus r times the secret key, so  *)
(* that the point of the nonce is the candidate of recid.                  *)
(***************************************************************************)

\* What is made of a nonce, before s is made low.
SOf(k, m, n) ==
  scalar_mul(scalar_inverse(n),
             scalar_add(scalar_mul(scalar_set_b32(Times(n, Generator)[1]).r, k), m))

LEMMA SOfTimes ==
  ASSUME NEW k \in 1..(Order-1), NEW n \in 1..(Order-1), NEW m \in Scalars
  PROVE  LET q == Times(n, Generator)
             r == scalar_set_b32(q[1]).r
         IN  /\ q \in Affine /\ r \in Scalars /\ SOf(k, m, n) \in Scalars
             /\ Times(SOf(k, m, n), q) = Sum_of(Times(r, PublicKey(k)), Times(m, Generator))
<1> DEFINE q == Times(n, Generator)
           r == scalar_set_b32(q[1]).r
           z == scalar_add(scalar_mul(r, k), m)
           w == scalar_inverse(n)
<1>1. /\ q \in Affine /\ q \in Points /\ q[1] \in Nat
      /\ k \in Scalars /\ n \in Scalars /\ n # 0 /\ PublicKey(k) = Times(k, Generator)
  BY PublicKeyTypes, AffineTypes
<1>2. r \in Scalars
  BY <1>1, SetB32
<1>3. w \in Scalars
  BY <1>1, ScalarInverse
<1>4. Times(w, Times(n, Times(z, Generator))) = Times(z, Generator)
  <2>1. z \in Scalars
    BY <1>1, <1>2, ScalarTypes
  <2> HIDE DEF z
  <2> QED
    BY <1>1, <2>1, GeneratorTypes, TimesScalar, InverseTimes
<1> HIDE DEF r, w
<1>5. scalar_mul(r, k) \in Scalars /\ z \in Scalars
  BY <1>1, <1>2, ScalarTypes
<1>6. Times(z, Generator) = Sum_of(Times(r, PublicKey(k)), Times(m, Generator))
  <2>1. Times(z, Generator) = Sum_of(Times(scalar_mul(r, k), Generator), Times(m, Generator))
    BY <1>5, GeneratorTypes, TimesAdd
  <2> QED
    BY <1>1, <1>2, <2>1, GeneratorTypes, TimesMul
<1> HIDE DEF z
<1>7. SOf(k, m, n) = scalar_mul(w, z) /\ SOf(k, m, n) \in Scalars
  BY <1>3, <1>5, ScalarTypes DEF SOf, w, z, r
<1>8. Times(scalar_mul(w, z), q) = Times(w, Times(z, q))
  BY <1>1, <1>3, <1>5, TimesMul
<1>9. Times(z, q) = Times(n, Times(z, Generator))
  BY <1>1, <1>5, GeneratorTypes, TimesCommute
<1> QED
  BY <1>1, <1>2, <1>4, <1>6, <1>7, <1>8, <1>9 DEF r

\* The signature, its candidate and its target.
LEMMA SignedSig ==
  ASSUME NEW k \in 1..(Order-1), NEW n \in 1..(Order-1), NEW m \in Scalars,
         ecdsa_sig_sign(k, m, n).ret
  PROVE  LET g == ecdsa_sig_sign(k, m, n).sig
         IN  /\ g \in EcdsaSig /\ Usable(g) /\ ~scalar_is_high(g.s)
             /\ Target(g, m, PublicKey(k)) = Times(g.s, Candidate(g))
<1> DEFINE q == Times(n, Generator)
           x == q[1]
           r == scalar_set_b32(x).r
           over == scalar_set_b32(x).overflow
           s0 == SOf(k, m, n)
           high == scalar_is_high(s0)
           odd == IF HasOddY(q) THEN 1 ELSE 0
           s1 == scalar_cond_negate(s0, high)
           id == (IF over THEN 2 ELSE 0) + (IF high THEN 1 - odd ELSE odd)
           g == ecdsa_sig_sign(k, m, n).sig
           p == IF high THEN Negative(q) ELSE q
<1>1. g = [r |-> r, s |-> s1, recid |-> id] /\ r # 0 /\ s0 # 0
  BY DEF ecdsa_sig_sign, SOf
<1>2. /\ q \in Affine /\ r \in Scalars /\ s0 \in Scalars
      /\ Times(s0, q) = Sum_of(Times(r, PublicKey(k)), Times(m, Generator))
  BY SOfTimes
<1>3. x \in 0..(P-1) /\ x \in Nat
  BY <1>2, AffineTypes
<1>4. s1 \in Scalars /\ s1 # 0 /\ ~scalar_is_high(s1) /\ Times(s1, p) = Times(s0, q)
  <2> HIDE DEF s0, q
  <2>1. CASE high
    BY <1>1, <1>2, <2>1, ScalarInt, OneIsHigh, TimesNegatives DEF scalar_cond_negate
  <2>2. CASE ~high
    BY <1>1, <1>2, <2>2 DEF scalar_cond_negate
  <2> QED
    BY <2>1, <2>2
<1>5. p \in Affine /\ p[1] = x /\ (HasOddY(p) <=> IF high THEN odd = 0 ELSE odd = 1)
  <2>1. HasOddY(q) <=> odd = 1
    OBVIOUS
  <2>2. odd \in {0, 1}
    OBVIOUS
  <2> HIDE DEF odd
  <2>3. CASE high
    BY <1>2, <2>1, <2>2, <2>3, NegativePoint
  <2>4. CASE ~high
    BY <1>2, <2>1, <2>4
  <2> QED
    BY <2>3, <2>4
<1>6. over <=> x >= Order
  <2>1. scalar_set_b32(x).overflow = (x >= Order)
    BY <1>3, SetB32
  <2> QED
    BY <2>1
<1>7. /\ over => x = r + Order /\ r < P_minus_order
      /\ ~over => x = r
  <2>1. Order \in Nat \ {0} /\ P \in Nat /\ P < 2 * Order
    BY OrderType, PrimeType, EcdsaAssumption
  <2>2. r = x % Order
    BY DEF scalar_set_b32
  <2>3. ASSUME over PROVE x = r + Order
    <3>1. x - Order \in 0..(Order-1) /\ x = 1 * Order + (x - Order) /\ x \in Int
      BY <1>3, <1>6, <2>1, <2>3
    <3> HIDE DEF x
    <3>2. x % Order = x - Order
      <4> DEFINE rest == x - Order
      <4>1. 1 \in Int /\ Order \in Nat \ {0} /\ rest \in 0..(Order-1) /\ x \in Int /\ x = 1 * Order + rest
        BY <2>1, <3>1
      <4> HIDE DEF rest
      <4>2. x % Order = rest
        BY <4>1, Remainder
      <4> QED
        BY <4>2 DEF rest
    <3> QED
      BY <1>3, <2>1, <2>2, <3>2
  <2>4. ASSUME ~over PROVE x = r
    <3>1. x < Order
      BY <1>3, <1>6, <2>1, <2>4
    <3> QED
      BY <1>3, <3>1, SetB32
  <2>5. r \in Nat
    BY <1>2, ScalarInt
  <2>6. x = r + Order => r < P - Order
    <3> HIDE DEF x, r
    <3> QED
      BY <1>3, <2>1, <2>5
  <2> QED
    BY <2>3, <2>4, <2>6 DEF P_minus_order
<1> HIDE DEF s0, x, q, p
<1>8. over \in BOOLEAN /\ high \in BOOLEAN /\ odd \in {0, 1}
  BY <1>6 DEF scalar_set_b32, scalar_is_high
<1> HIDE DEF over, high, odd
<1>9. /\ id \in 0..3 /\ (id >= 2 <=> over)
      /\ id % 2 = 1 <=> IF high THEN odd = 0 ELSE odd = 1
  <2> DEFINE low == IF high THEN 1 - odd ELSE odd
  <2>1. low \in {0, 1} /\ (low = 1 <=> IF high THEN odd = 0 ELSE odd = 1)
    BY <1>8
  <2> HIDE DEF low
  <2>2. (IF over THEN 2 ELSE 0) + low \in 0..3
    BY <1>8, <2>1
  <2>3. (IF over THEN 2 ELSE 0) + low >= 2 <=> over
    BY <1>8, <2>1
  <2>4. ((IF over THEN 2 ELSE 0) + low) % 2 = 1 <=> low = 1
    BY <1>8, <2>1
  <2> QED
    BY <2>1, <2>2, <2>3, <2>4 DEF low
<1> HIDE DEF id, s1, r
<1>10. g \in EcdsaSig /\ g.r = r /\ g.s = s1 /\ g.recid = id
  BY <1>1, <1>2, <1>4, <1>9 DEF EcdsaSig
<1> HIDE DEF g
<1>11. p[1] = XOf(g)
  BY <1>5, <1>7, <1>9, <1>10 DEF XOf
<1>12. g.r # 0 /\ g.s # 0 /\ (g.recid >= 2 => g.r < P_minus_order) /\ (HasOddY(p) <=> g.recid % 2 = 1)
  BY <1>1, <1>4, <1>5, <1>7, <1>9, <1>10
<1>13. Usable(g) /\ Candidate(g) = p
  BY <1>5, <1>10, <1>11, <1>12, CandidateOf
<1>14. Target(g, m, PublicKey(k)) = Times(g.s, p)
  BY <1>2, <1>4, <1>10 DEF Target
<1> QED
  BY <1>4, <1>10, <1>13, <1>14 DEF g

\* What a valid key signs is verified with its public key, and leads back to it.
LEMMA SignedCorrect ==
  ASSUME NEW k \in 1..(Order-1), NEW n \in 1..(Order-1), NEW h \in Nat,
         ecdsa_sig_sign(k, scalar_set_b32(h).r, n).ret
  PROVE  LET g == ecdsa_sig_sign(k, scalar_set_b32(h).r, n).sig
         IN  ecdsa_verify(g, h, PublicKey(k)) /\ ecdsa_recover(g, h) = PublicKey(k)
<1> DEFINE m == scalar_set_b32(h).r
           g == ecdsa_sig_sign(k, m, n).sig
           q == PublicKey(k)
<1>1. m \in Scalars
  BY SetB32
<1>2. q \in Affine
  BY PublicKeyTypes
<1>3. q \in Points /\ q # NoKey
  BY <1>2, AffineTypes DEF NoKey
<1>4. /\ g \in EcdsaSig /\ Usable(g) /\ ~scalar_is_high(g.s)
      /\ Target(g, m, q) = Times(g.s, Candidate(g))
  BY <1>1, SignedSig
<1> HIDE DEF m, g, q
<1>5. q = ecdsa_sig_recover(g, m)
  BY <1>1, <1>3, <1>4, RecoverIff
<1>6. ecdsa_sig_verify(g, q, m)
  <2>1. g.r # 0 /\ g.s # 0
    BY <1>4 DEF Usable
  <2>2. Candidate(g) \in Affine /\ IsX(g, Candidate(g)[1])
    BY <1>4, CandidateTypes
  <2> QED
    BY <1>1, <1>3, <1>4, <2>1, <2>2, VerifyIff
<1> QED
  BY <1>3, <1>4, <1>5, <1>6 DEF ecdsa_verify, ecdsa_recover, m, g, q

-----------------------------------------------------------------------------
(***************************************************************************)
(* The invariant of ECDSA: numbers that were parsed are scalars, and what  *)
(* was signed is verified.                                                 *)
(***************************************************************************)

EcdsaTypes ==
  /\ step \in {"start", "nonce", "done", "parsed"}
  /\ key \in Nat /\ msg \in Nat
  /\ step = "parsed" => sig \in EcdsaSig

EcdsaInv == EcdsaTypes /\ SignedIsVerified

LEMMA NonceInv ==
  ASSUME EcdsaInv, NEW n \in NonceBytes, Nonce(n)
  PROVE  EcdsaInv'
<1> DEFINE non == scalar_set_b32_seckey(n)
           made == ecdsa_sig_sign(Sec, scalar_set_b32(msg).r, non.r)
<1>1. step = "nonce" /\ UNCHANGED <<key, msg>> /\ key \in Nat /\ msg \in Nat /\ n \in Nat
  BY EcdsaAssumption DEF Nonce, EcdsaInv, EcdsaTypes
<1>2. CASE ~non.ok \/ ~made.ret
  <2>1. step' = "nonce"
    BY <1>1, <1>2 DEF Nonce
  <2> QED
    BY <1>1, <2>1 DEF EcdsaInv, EcdsaTypes, SignedIsVerified
<1>3. CASE non.ok /\ made.ret
  <2>1. step' = "done" /\ ok' = SecValid /\ sig' = IF SecValid THEN made.sig ELSE ZeroSig
    BY <1>3 DEF Nonce
  <2>2. SecValid =>
          /\ ecdsa_verify(made.sig, msg, PublicKey(key))
          /\ ecdsa_recover(made.sig, msg) = PublicKey(key)
    <3>1. ASSUME SecValid PROVE key \in 1..(Order-1) /\ Sec = key
      BY <1>1, <3>1, Seckey DEF SecValid, Sec
    <3>2. n \in 1..(Order-1) /\ non.r = n
      BY <1>1, <1>3, Seckey
    <3> QED
      BY <1>1, <1>3, <3>1, <3>2, SignedCorrect
  <2> HIDE DEF made
  <2>3. EcdsaTypes'
    BY <1>1, <2>1 DEF EcdsaTypes
  <2>4. SignedIsVerified'
    BY <1>1, <2>1, <2>2 DEF SignedIsVerified
  <2> QED
    BY <2>3, <2>4 DEF EcdsaInv
<1> QED
  BY <1>2, <1>3

LEMMA ParseCompactInv ==
  ASSUME EcdsaInv, NEW v \in SigBytes, NEW w \in SigBytes, NEW id \in 0..3, ParseCompact(v, w, id)
  PROVE  EcdsaInv'
<1> DEFINE rr == scalar_set_b32(v)
           ss == scalar_set_b32(w)
           ret == ~rr.overflow /\ ~ss.overflow
<1>1. /\ step' = "parsed" /\ UNCHANGED <<key, msg>>
      /\ sig' = IF ret THEN [r |-> rr.r, s |-> ss.r, recid |-> id] ELSE ZeroSig
  BY DEF ParseCompact
<1>2. v \in Nat /\ w \in Nat
  BY EcdsaAssumption
<1>3. rr.r \in Scalars /\ ss.r \in Scalars
  BY <1>2, SetB32
<1>4. ZeroSig \in EcdsaSig
  BY OrderType DEF ZeroSig, EcdsaSig, Scalars
<1> HIDE DEF rr, ss, ret
<1>5. sig' \in EcdsaSig
  BY <1>1, <1>3, <1>4 DEF EcdsaSig
<1> QED
  BY <1>1, <1>5 DEF EcdsaInv, EcdsaTypes, SignedIsVerified

LEMMA EcdsaStep == EcdsaInv /\ [EcdsaNext]_ecdsaVars => EcdsaInv'
<1> SUFFICES ASSUME EcdsaInv, [EcdsaNext]_ecdsaVars PROVE EcdsaInv'
  OBVIOUS
<1>1. ASSUME NEW k \in SignKeys, SignInner(k) PROVE EcdsaInv'
  <2>1. step' = "nonce" /\ key' = k /\ UNCHANGED <<msg, sig, ok>> /\ k \in Nat
    BY <1>1, EcdsaAssumption DEF SignInner
  <2> QED
    BY <2>1 DEF EcdsaInv, EcdsaTypes, SignedIsVerified
<1>2. ASSUME NEW n \in NonceBytes, Nonce(n) PROVE EcdsaInv'
  BY <1>2, NonceInv
<1>3. ASSUME NonceFails PROVE EcdsaInv'
  BY <1>3 DEF NonceFails, EcdsaInv, EcdsaTypes, SignedIsVerified
<1>4. ASSUME NEW v \in SigBytes, NEW w \in SigBytes, NEW id \in 0..3, ParseCompact(v, w, id)
      PROVE  EcdsaInv'
  BY <1>4, ParseCompactInv
<1>5. CASE UNCHANGED ecdsaVars
  BY <1>5 DEF ecdsaVars, EcdsaInv, EcdsaTypes, SignedIsVerified
<1> QED
  BY <1>1, <1>2, <1>3, <1>4, <1>5 DEF EcdsaNext

LEMMA EcdsaInvariant == EcdsaSpec => []EcdsaInv
<1>1. EcdsaInit => EcdsaInv
  <2>1. EcdsaInit => msg \in Nat
    BY EcdsaAssumption DEF EcdsaInit
  <2> QED
    BY <2>1 DEF EcdsaInit, EcdsaInv, EcdsaTypes, SignedIsVerified
<1>2. EcdsaInv /\ [EcdsaNext]_ecdsaVars => EcdsaInv'
  BY EcdsaStep
<1> QED
  BY <1>1, <1>2, PTL DEF EcdsaSpec

LEMMA OneOfTwoCorrect ==
  ASSUME NEW g \in EcdsaSig, NEW h \in Nat, g.s # 0
  PROVE  LET other == WithNegative(g)
             low == ecdsa_signature_normalize(g)
             m == scalar_set_b32(h).r
         IN  /\ low = ecdsa_signature_normalize(other) /\ ~scalar_is_high(low.s)
             /\ \A q \in Affine :
                  /\ ecdsa_verify(g, h, q) <=> ecdsa_sig_verify(g, q, m) /\ low = g
                  /\ ecdsa_sig_verify(g, q, m) = ecdsa_verify(low, h, q)
<1> DEFINE other == WithNegative(g)
           low == ecdsa_signature_normalize(g)
           m == scalar_set_b32(h).r
           high == scalar_is_high(g.s)
<1>1. /\ scalar_is_high(scalar_negate(g.s)) <=> ~high
      /\ scalar_negate(scalar_negate(g.s)) = g.s /\ scalar_negate(g.s) # g.s
  BY SigTypes, OneIsHigh
<1>2. other \in EcdsaSig /\ other.s = scalar_negate(g.s)
  BY NegativeTypes
<1>3. WithNegative(other) = g
  BY <1>1, <1>2 DEF WithNegative, EcdsaSig
<1>4. low = IF high THEN other ELSE g
  BY DEF ecdsa_signature_normalize, WithNegative, EcdsaSig
<1>5. ecdsa_signature_normalize(other) = IF high THEN other ELSE g
  <2>1. ecdsa_signature_normalize(other) = IF scalar_is_high(other.s) THEN WithNegative(other) ELSE other
    BY <1>2 DEF ecdsa_signature_normalize, WithNegative, EcdsaSig
  <2> QED
    BY <1>1, <1>2, <1>3, <2>1
<1>6. other # g
  BY <1>1, <1>2
<1>7. m \in Scalars
  BY SetB32
<1> HIDE DEF other, m, high, low
<1>8. ~scalar_is_high(low.s)
  BY <1>1, <1>2, <1>4 DEF high
<1>9. ASSUME NEW q \in Affine
      PROVE  /\ ecdsa_verify(g, h, q) <=> ecdsa_sig_verify(g, q, m) /\ low = g
             /\ ecdsa_sig_verify(g, q, m) = ecdsa_verify(low, h, q)
  <2>1. q \in Points /\ q # NoKey
    BY AffineTypes DEF NoKey
  <2>2. ecdsa_verify(g, h, q) <=> ~high /\ ecdsa_sig_verify(g, q, m)
    BY <2>1 DEF ecdsa_verify, m, high
  <2>3. ecdsa_verify(low, h, q) <=> ecdsa_sig_verify(low, q, m)
    BY <1>8, <2>1 DEF ecdsa_verify, m
  <2>4. ecdsa_sig_verify(g, q, m) <=> ecdsa_sig_verify(low, q, m)
    BY <1>4, <1>7, <2>1, NegativeIff DEF other
  <2>5. ecdsa_sig_verify(g, q, m) \in BOOLEAN /\ ecdsa_verify(low, h, q) \in BOOLEAN
    BY DEF ecdsa_sig_verify, ecdsa_verify
  <2>6. low = g <=> ~high
    BY <1>4, <1>6
  <2> QED
    BY <2>2, <2>3, <2>4, <2>5, <2>6
<1> QED
  BY <1>4, <1>5, <1>8, <1>9 DEF other, low, m

\* Signing, normalization, verification and recovery agree on every signature,
\* for every group of prime order over a field less than twice as large
\* (secp256k1.c:437-565, ecdsa_impl.h:207-310, recovery/main_impl.h:87-122).
THEOREM EcdsaCorrect == EcdsaSpec => []SignaturesCorrect
<1>1. EcdsaInv => SignaturesCorrect
  <2> SUFFICES ASSUME EcdsaInv PROVE SignaturesCorrect
    OBVIOUS
  <2>1. RecoveredAreVerified
    <3> SUFFICES ASSUME step = "parsed" PROVE RecoveredAreVerified
      BY DEF RecoveredAreVerified
    <3>1. sig \in EcdsaSig /\ scalar_set_b32(msg).r \in Scalars
      BY SetB32 DEF EcdsaInv, EcdsaTypes
    <3> QED
      BY <3>1, RecoveredCorrect DEF RecoveredAreVerified, With
  <2>2. OneOfTwo
    <3> SUFFICES ASSUME step = "parsed", sig.s # 0 PROVE OneOfTwo
      BY DEF OneOfTwo
    <3>1. sig \in EcdsaSig /\ msg \in Nat
      BY DEF EcdsaInv, EcdsaTypes
    <3> QED
      BY <3>1, OneOfTwoCorrect DEF OneOfTwo, WithNegative
  <2> QED
    BY <2>1, <2>2 DEF EcdsaInv, SignaturesCorrect
<1> QED
  BY <1>1, EcdsaInvariant, PTL

-----------------------------------------------------------------------------
(***************************************************************************)
(* The hash of a challenge: what a stream holds after it was given the     *)
(* first n bytes of some data.                                             *)
(***************************************************************************)

LEMMA Quotient ==
  ASSUME NEW q \in Int, NEW n \in Nat \ {0}, NEW r \in 0..(n-1), NEW a \in Int, a = q * n + r
  PROVE  a \div n = q /\ a % n = r
<1>1. a \div n \in Int /\ a % n \in 0..(n-1) /\ a = (a \div n) * n + (a % n)
  BY DivMod
<1>2. a % n = r
  BY Remainder
<1> DEFINE d == a \div n - q
<1>3. d \in Int /\ d * n = 0
  <2>1. (a \div n) * n = q * n
    BY <1>1, <1>2
  <2> QED
    BY <1>1, <2>1
<1> HIDE DEF d
<1>4. d = 0
  BY <1>3
<1> QED
  BY <1>1, <1>2, <1>4 DEF d

Symbols ==
  {Byte(k) : k \in Nat} \cup {Marker, ZeroByte} \cup {Count(p[1], p[2], p[3]) : p \in Nat \X Nat \X Nat}

HashBlocks == [1..HashBlock -> Symbols]

Stream == [Nat -> Symbols]

Holds(h, E, n) ==
  LET whole == n \div HashBlock
  IN  /\ h.bytes = n
      /\ h.s \in Seq(HashBlocks) /\ Len(h.s) = whole
      /\ \A j \in 1..whole, k \in 1..HashBlock : h.s[j][k] = E[(j - 1) * HashBlock + k]
      /\ h.buf \in HashBlocks
      /\ \A k \in 1..(n % HashBlock) : h.buf[k] = E[whole * HashBlock + k]

LEMMA HashTypes ==
  /\ HashBlock \in Nat \ {0} /\ CountBytes \in Nat \ {0} /\ CountBytes < HashBlock
  /\ CountWord \in Nat \ {0}
  BY HashAssumption

LEMMA FilledCorrect ==
  ASSUME NEW buf \in HashBlocks, NEW offset \in Nat, NEW d \in Seq(Symbols), offset + Len(d) <= HashBlock
  PROVE  /\ Filled(buf, offset, d) \in HashBlocks
         /\ \A k \in 1..offset : Filled(buf, offset, d)[k] = buf[k]
         /\ \A k \in 1..Len(d) : Filled(buf, offset, d)[offset + k] = d[k]
<1> DEFINE f == Filled(buf, offset, d)
           n == Len(d)
<1>1. n \in Nat /\ HashBlock \in Nat /\ \A k \in 1..n : d[k] \in Symbols
  BY HashTypes
<1>2. f = [k \in 1..HashBlock |-> IF k \in (offset + 1)..(offset + n) THEN d[k - offset] ELSE buf[k]]
  BY DEF Filled
<1> HIDE DEF n
<1>3. ASSUME NEW k \in 1..HashBlock PROVE f[k] \in Symbols
  <2>1. k \in (offset + 1)..(offset + n) => k - offset \in 1..n
    BY <1>1
  <2>2. buf[k] \in Symbols
    BY DEF HashBlocks
  <2> QED
    BY <1>1, <1>2, <2>1, <2>2
<1>4. f \in HashBlocks
  BY <1>2, <1>3 DEF HashBlocks
<1>5. ASSUME NEW k \in 1..offset PROVE f[k] = buf[k]
  BY <1>1, <1>2, <1>5 DEF n
<1>6. ASSUME NEW k \in 1..n PROVE f[offset + k] = d[k]
  <2>1. offset + k \in 1..HashBlock /\ offset + k \in (offset + 1)..(offset + n) /\ (offset + k) - offset = k
    BY <1>1 DEF n
  <2> QED
    BY <1>2, <2>1
<1> QED
  BY <1>4, <1>5, <1>6 DEF n

-----------------------------------------------------------------------------
(* The loop of sha256_write. *)

Room(h) == HashBlock - (h.bytes % HashBlock)

Turns(h, data) == IF Len(data) < Room(h) THEN 0 ELSE 1 + (Len(data) - Room(h)) \div HashBlock

Used(h, k) == IF k = 0 THEN 0 ELSE Room(h) + (k - 1) * HashBlock

Offset(h, k) == IF k = 0 THEN h.bytes % HashBlock ELSE 0

Piece(h, data, k) == SubSeq(data, Used(h, k - 1) + 1, Used(h, k))

TurnOf(h, data, k, t) ==
  LET buf == Filled(t.buf, IF k = 1 THEN h.bytes % HashBlock ELSE 0, Piece(h, data, k))
  IN  [s |-> Append(t.s, buf), buf |-> buf]

IsTurn(f, h, data, n) ==
  f = [k \in 0..n |-> IF k = 0 THEN [s |-> h.s, buf |-> h.buf] ELSE TurnOf(h, data, k, f[k-1])]

LEMMA TurnExists ==
  ASSUME NEW h, NEW data, NEW n \in Nat
  PROVE  \E f : IsTurn(f, h, data, n)
<1> DEFINE S == {m \in 0..n : \E f : IsTurn(f, h, data, m)}
<1>1. 0 \in S
  <2> DEFINE f == [k \in 0..0 |-> [s |-> h.s, buf |-> h.buf]]
  <2>1. IsTurn(f, h, data, 0)
    BY DEF IsTurn
  <2> QED
    BY <2>1
<1>2. ASSUME NEW m \in 1..n, m - 1 \in S PROVE m \in S
  <2>1. PICK g : IsTurn(g, h, data, m - 1)
    BY <1>2
  <2> DEFINE f == [k \in 0..m |-> IF k = m THEN TurnOf(h, data, m, g[m-1]) ELSE g[k]]
  <2>2. g = [k \in 0..(m-1) |-> IF k = 0 THEN [s |-> h.s, buf |-> h.buf] ELSE TurnOf(h, data, k, g[k-1])]
    BY <2>1 DEF IsTurn
  <2>3. ASSUME NEW k \in 0..m
        PROVE  f[k] = IF k = 0 THEN [s |-> h.s, buf |-> h.buf] ELSE TurnOf(h, data, k, f[k-1])
    <3>1. CASE k = m
      <4>1. f[k-1] = g[m-1] /\ k # 0
        BY <3>1
      <4> QED
        BY <3>1, <4>1
    <3>2. CASE k # m
      <4>1. k \in 0..(m-1) /\ f[k] = g[k]
        BY <3>2
      <4>2. k # 0 => f[k-1] = g[k-1]
        BY <3>2
      <4> HIDE DEF f
      <4>3. g[k] = IF k = 0 THEN [s |-> h.s, buf |-> h.buf] ELSE TurnOf(h, data, k, g[k-1])
        BY <2>2, <4>1
      <4> QED
        BY <4>1, <4>2, <4>3
    <3> QED
      BY <3>1, <3>2
  <2>4. f = [k \in 0..m |-> f[k]]
    OBVIOUS
  <2>5. IsTurn(f, h, data, m)
    <3> HIDE DEF f
    <3> QED
      BY <2>3, <2>4 DEF IsTurn
  <2> QED
    BY <2>5
<1>3. S \in SUBSET Nat /\ \A k \in 1..n : k - 1 \in S => k \in S
  BY <1>2
<1>4. n \in S
  <2> HIDE DEF S
  <2> QED
    BY <1>1, <1>3, Stepwise
<1> QED
  BY <1>4

\* The turns of the loop, and what is left for the buffer.
LEMMA WriteDef ==
  ASSUME NEW h, NEW data, Turns(h, data) \in Nat
  PROVE  \E f : /\ IsTurn(f, h, data, Turns(h, data))
                /\ sha256_write(h, data) =
                     [s |-> f[Turns(h, data)].s, bytes |-> h.bytes + Len(data),
                      buf |-> Filled(f[Turns(h, data)].buf, Offset(h, Turns(h, data)),
                                     SubSeq(data, Used(h, Turns(h, data)) + 1, Len(data)))]
<1> DEFINE n == Turns(h, data)
           rec(f) == [k \in 0..n |-> IF k = 0 THEN [s |-> h.s, buf |-> h.buf] ELSE TurnOf(h, data, k, f[k-1])]
           t == CHOOSE f : f = rec(f)
<1>1. \E f : f = rec(f)
  <2>1. n \in Nat
    OBVIOUS
  <2> HIDE DEF n
  <2>2. PICK f : IsTurn(f, h, data, n)
    BY <2>1, TurnExists
  <2>3. f = rec(f)
    BY <2>2 DEF IsTurn
  <2> QED
    BY <2>3
<1>2. t = rec(t)
  BY <1>1
<1>3. IsTurn(t, h, data, n)
  BY <1>2 DEF IsTurn
<1>4. sha256_write(h, data) =
        [s |-> t[n].s, bytes |-> h.bytes + Len(data),
         buf |-> Filled(t[n].buf, Offset(h, n), SubSeq(data, Used(h, n) + 1, Len(data)))]
  BY DEF sha256_write, Turns, Room, Used, Offset, Piece, TurnOf
<1> QED
  BY <1>3, <1>4

-----------------------------------------------------------------------------
\* Where the turns begin and end.
LEMMA TurnPlaces ==
  ASSUME NEW h, NEW n \in Nat, h.bytes = n, NEW data \in Seq(Symbols)
  PROVE  LET w == n \div HashBlock
             turns == Turns(h, data)
             len == Len(data)
         IN  /\ turns \in Nat /\ w \in Nat /\ len \in Nat
             /\ n % HashBlock \in 0..(HashBlock-1)
             /\ \A k \in 0..turns :
                  /\ Used(h, k) \in 0..len /\ Offset(h, k) \in 0..(HashBlock-1)
                  /\ n + Used(h, k) = (w + k) * HashBlock + Offset(h, k)
                  /\ k # turns => Offset(h, k) + (Used(h, k + 1) - Used(h, k)) = HashBlock
             /\ Offset(h, turns) + (len - Used(h, turns)) \in 0..(HashBlock-1)
<1> DEFINE w == n \div HashBlock
           b == n % HashBlock
           len == Len(data)
           turns == Turns(h, data)
<1>1. HashBlock \in Nat \ {0} /\ n \in Int /\ len \in Nat
  BY HashTypes
<1>2. w \in Int /\ b \in 0..(HashBlock-1) /\ n = w * HashBlock + b
  BY <1>1, DivMod
<1> HIDE DEF w, b, len
<1>3. w \in Nat
  <2>1. w <= -1 => w * HashBlock <= -HashBlock
    BY <1>1, <1>2
  <2> QED
    BY <1>1, <1>2, <2>1
<1>4. Room(h) = HashBlock - b
  BY DEF Room, b
<1> DEFINE room == HashBlock - b
           q == (len - room) \div HashBlock
           rest == (len - room) % HashBlock
<1>5. turns = IF len < room THEN 0 ELSE 1 + q
  BY <1>4 DEF Turns, len
<1>6. room \in 1..HashBlock
  BY <1>1, <1>2
<1>7. q \in Int /\ rest \in 0..(HashBlock-1) /\ len - room = q * HashBlock + rest
  <2>1. len - room \in Int
    BY <1>1, <1>6
  <2> HIDE DEF room
  <2> QED
    BY <1>1, <2>1, DivMod
<1> HIDE DEF room, q, rest, turns
<1>8. len >= room => q \in Nat
  <2>1. q <= -1 => q * HashBlock <= -HashBlock
    BY <1>1, <1>7
  <2> QED
    BY <1>1, <1>6, <1>7, <2>1
<1>9. turns \in Nat
  BY <1>1, <1>5, <1>6, <1>8
<1>10. ASSUME NEW k PROVE Used(h, k) = IF k = 0 THEN 0 ELSE room + (k - 1) * HashBlock
  BY <1>4 DEF Used, room
<1>11. ASSUME NEW k PROVE Offset(h, k) = IF k = 0 THEN b ELSE 0
  BY DEF Offset, b
<1>12. ASSUME NEW k \in 0..turns
       PROVE  /\ Used(h, k) \in 0..len /\ Offset(h, k) \in 0..(HashBlock-1)
              /\ n + Used(h, k) = (w + k) * HashBlock + Offset(h, k)
              /\ k # turns => Offset(h, k) + (Used(h, k + 1) - Used(h, k)) = HashBlock
  <2>1. CASE k = 0
    <3>1. Used(h, k) = 0 /\ Offset(h, k) = b /\ w + k = w
      BY <1>3, <1>10, <1>11, <2>1
    <3>2. Used(h, k + 1) = room
      <4>1. Used(h, 1) = room + (1 - 1) * HashBlock
        BY <1>10
      <4>2. (1 - 1) * HashBlock = 0
        BY <1>1
      <4> QED
        BY <1>6, <2>1, <4>1, <4>2
    <3>3. b + room = HashBlock
      BY <1>1, <1>2 DEF room
    <3>4. Used(h, k) \in 0..len /\ Offset(h, k) \in 0..(HashBlock-1)
      BY <1>1, <1>2, <3>1
    <3>5. n + Used(h, k) = (w + k) * HashBlock + Offset(h, k)
      <4>1. n + 0 = w * HashBlock + b
        BY <1>1, <1>2
      <4> QED
        BY <3>1, <4>1
    <3>6. Offset(h, k) + (Used(h, k + 1) - Used(h, k)) = HashBlock
      <4>1. b + (room - 0) = HashBlock
        BY <1>6, <3>3
      <4> QED
        BY <3>1, <3>2, <4>1
    <3> QED
      BY <3>4, <3>5, <3>6
  <2>2. CASE k # 0
    <3> DEFINE m == (k - 1) * HashBlock
               m1 == k * HashBlock
    <3>1. k \in Nat /\ k - 1 \in Nat /\ len >= room /\ k - 1 <= q
      BY <1>1, <1>5, <1>6, <1>8, <1>9, <2>2
    <3>2. m \in Nat /\ m1 = m + HashBlock
      BY <1>1, <3>1
    <3>3. m <= q * HashBlock
      BY <1>1, <1>7, <3>1
    <3>4. Used(h, k) = room + m /\ Offset(h, k) = 0
      BY <1>10, <1>11, <2>2
    <3>5. Used(h, k + 1) = room + m1
      <4>1. k + 1 # 0 /\ (k + 1) - 1 = k
        BY <3>1
      <4> QED
        BY <1>10, <4>1
    <3>6. (w + k) * HashBlock = w * HashBlock + m1
      BY <1>1, <1>3, <3>1
    <3> DEFINE u == w * HashBlock
               v == q * HashBlock
    <3>7. u \in Nat /\ v \in Int
      BY <1>1, <1>3, <1>7
    <3>8. (w + k) * HashBlock = u + m1 /\ n = u + b /\ len - room = v + rest /\ m <= v
      BY <1>2, <1>7, <3>3, <3>6
    <3> HIDE DEF m, m1, u, v
    <3>9. room + m \in 0..len
      BY <1>1, <1>6, <1>7, <3>2, <3>7, <3>8
    <3>10. n + (room + m) = u + m1
      BY <1>1, <1>2, <3>2, <3>7, <3>8 DEF room
    <3>11. 0 + ((room + m1) - (room + m)) = HashBlock
      BY <1>1, <1>6, <3>2
    <3>12. (w + k) * HashBlock + 0 = u + m1
      BY <3>2, <3>7, <3>8
    <3> QED
      BY <1>1, <3>4, <3>5, <3>9, <3>10, <3>11, <3>12
  <2> QED
    BY <2>1, <2>2
<1>13. Offset(h, turns) + (len - Used(h, turns)) \in 0..(HashBlock-1)
  <2>1. CASE turns = 0
    <3>1. len < room /\ Used(h, turns) = 0 /\ Offset(h, turns) = b
      BY <1>1, <1>5, <1>6, <1>8, <1>10, <1>11, <2>1
    <3> QED
      BY <1>1, <1>2, <3>1 DEF room
  <2>2. CASE turns # 0
    <3>1. turns - 1 = q /\ len >= room
      BY <1>1, <1>5, <1>6, <1>7, <1>8, <2>2
    <3>2. Used(h, turns) = room + q * HashBlock /\ Offset(h, turns) = 0
      BY <1>10, <1>11, <2>2, <3>1
    <3> DEFINE v == q * HashBlock
    <3>3. v \in Int /\ len - room = v + rest
      BY <1>1, <1>7
    <3> HIDE DEF v
    <3>4. 0 + (len - (room + v)) = rest
      BY <1>1, <1>6, <1>7, <3>3
    <3> QED
      BY <1>7, <3>2, <3>4 DEF v
  <2> QED
    BY <2>1, <2>2
<1> QED
  BY <1>1, <1>2, <1>3, <1>9, <1>12, <1>13 DEF w, b, len, turns

\* A turn of the loop holds the blocks that the data reach, and the part of
\* the buffer that a turn has not yet filled.
TurnHolds(t, h, E, n, k) ==
  LET w == n \div HashBlock
  IN  /\ t.s \in Seq(HashBlocks) /\ Len(t.s) = w + k
      /\ \A j \in 1..(w + k), m \in 1..HashBlock : t.s[j][m] = E[(j - 1) * HashBlock + m]
      /\ t.buf \in HashBlocks
      /\ \A m \in 1..Offset(h, k) : t.buf[m] = E[(w + k) * HashBlock + m]

\* The first n bytes are those of a stream from a place on.
Follows(bytes, E, base, n) == \A m \in 1..n : bytes[m] = E[base + m]

\* Bytes put after the ones that the buffer holds.
LEMMA FilledHolds ==
  ASSUME NEW buf \in HashBlocks, NEW E, NEW base \in Int, NEW offset \in Nat,
         Follows(buf, E, base, offset),
         NEW data \in Seq(Symbols), NEW n \in Int, Follows(data, E, n, Len(data)),
         NEW from \in 0..Len(data), NEW to \in from..Len(data), n + from = base + offset, offset + (to - from) <= HashBlock
  PROVE  LET b == Filled(buf, offset, SubSeq(data, from + 1, to))
         IN  /\ b \in HashBlocks
             /\ Follows(b, E, base, offset + (to - from))
<1> DEFINE d == SubSeq(data, from + 1, to)
           b == Filled(buf, offset, d)
           len == Len(data)
<1>1. len \in Nat /\ from \in Nat /\ to \in Nat /\ from <= to /\ to <= len
  OBVIOUS
<1>2. \A x \in (from + 1)..to : data[x] \in Symbols
  BY <1>1
<1>3. /\ d \in Seq(Symbols) /\ Len(d) = to - from
      /\ \A x \in 1..(to - from) : d[x] = data[from + x]
  <2>1. from + 1 \in Int /\ to \in Int
    BY <1>1
  <2>2. /\ d \in Seq(Symbols)
        /\ Len(d) = IF from + 1 <= to THEN to - (from + 1) + 1 ELSE 0
        /\ \A x \in 1..(to - (from + 1) + 1) : d[x] = data[(from + 1) + x - 1]
    BY <1>2, <2>1, SubSeqProperties
  <2>3. to - (from + 1) + 1 = to - from /\ \A x \in Int : (from + 1) + x - 1 = from + x
    BY <1>1
  <2> HIDE DEF d
  <2>4. Len(d) = to - from
    BY <1>1, <2>2
  <2> QED
    BY <2>2, <2>3, <2>4
<1> HIDE DEF d
<1>4. /\ b \in HashBlocks
      /\ \A m \in 1..offset : b[m] = buf[m]
      /\ \A x \in 1..Len(d) : b[offset + x] = d[x]
  BY <1>3, FilledCorrect
<1> HIDE DEF b
<1>5. ASSUME NEW m \in 1..(offset + (to - from)) PROVE b[m] = E[base + m]
  <2>1. CASE m <= offset
    <3>1. m \in 1..offset
      BY <1>1, <2>1
    <3>2. b[m] = buf[m]
      BY <1>4, <3>1
    <3>3. buf[m] = E[base + m]
      BY <3>1 DEF Follows
    <3> QED
      BY <3>2, <3>3
  <2>2. CASE m > offset
    <3> DEFINE x == m - offset
    <3>1. x \in 1..(to - from) /\ m = offset + x /\ x \in Int
      BY <1>1, <2>2
    <3>2. from + x \in 1..len
      BY <1>1, <3>1
    <3>3. n + (from + x) = base + m
      BY <1>1, <3>1
    <3> HIDE DEF x, len
    <3>4. b[m] = d[x] /\ d[x] = data[from + x]
      BY <1>3, <1>4, <3>1
    <3>5. data[from + x] = E[n + (from + x)]
      BY <3>2 DEF len, Follows
    <3> QED
      BY <3>3, <3>4, <3>5
  <2> QED
    BY <1>1, <2>1, <2>2
<1> QED
  BY <1>4, <1>5 DEF b, d, Follows

LEMMA TurnsHold ==
  ASSUME NEW h, NEW n \in Nat, NEW E, Holds(h, E, n), NEW data \in Seq(Symbols),
         Follows(data, E, n, Len(data)),
         NEW f, IsTurn(f, h, data, Turns(h, data))
  PROVE  \A k \in 0..Turns(h, data) : TurnHolds(f[k], h, E, n, k)
<1> DEFINE w == n \div HashBlock
           turns == Turns(h, data)
           S == {k \in 0..turns : TurnHolds(f[k], h, E, n, k)}
<1>1. h.bytes = n
  BY DEF Holds
<1>2. /\ turns \in Nat /\ w \in Nat /\ Len(data) \in Nat
      /\ \A k \in 0..turns :
           /\ Used(h, k) \in 0..Len(data) /\ Offset(h, k) \in 0..(HashBlock-1)
           /\ n + Used(h, k) = (w + k) * HashBlock + Offset(h, k)
           /\ k # turns => Offset(h, k) + (Used(h, k + 1) - Used(h, k)) = HashBlock
  BY <1>1, TurnPlaces
<1>3. f = [k \in 0..turns |-> IF k = 0 THEN [s |-> h.s, buf |-> h.buf] ELSE TurnOf(h, data, k, f[k-1])]
  BY DEF IsTurn
<1>4. HashBlock \in Nat \ {0}
  BY HashTypes
<1> HIDE DEF turns
<1>5. 0 \in S
  <2>1. f[0] = [s |-> h.s, buf |-> h.buf]
    BY <1>2, <1>3
  <2>2. Offset(h, 0) = n % HashBlock /\ w + 0 = w
    BY <1>1, <1>2 DEF Offset
  <2>3. TurnHolds(f[0], h, E, n, 0)
    BY <2>1, <2>2 DEF Holds, TurnHolds
  <2> QED
    BY <1>2, <2>3
<1>6. ASSUME NEW k \in 1..turns, k - 1 \in S PROVE k \in S
  <2> DEFINE t == f[k-1]
             off == Offset(h, k - 1)
             from == Used(h, k - 1)
             to == Used(h, k)
             piece == Piece(h, data, k)
             b == Filled(t.buf, off, piece)
             base == (w + (k - 1)) * HashBlock
  <2>1. k \in Nat /\ k # 0 /\ k - 1 \in 0..turns /\ k \in 0..turns /\ k - 1 # turns /\ (k - 1) + 1 = k
    BY <1>2
  <2>2. f[k] = [s |-> Append(t.s, b), buf |-> b]
    <3>1. f[k] = TurnOf(h, data, k, f[k-1])
      BY <1>3, <2>1
    <3>2. (IF k = 1 THEN h.bytes % HashBlock ELSE 0) = off
      BY <2>1 DEF Offset
    <3> QED
      BY <3>1, <3>2 DEF TurnOf
  <2>3. /\ from \in 0..Len(data) /\ to \in 0..Len(data) /\ off \in 0..(HashBlock-1)
        /\ n + from = base + off /\ off + (to - from) = HashBlock
    BY <1>2, <2>1
  <2>4. /\ t.s \in Seq(HashBlocks) /\ Len(t.s) = w + (k - 1) /\ t.buf \in HashBlocks
        /\ \A j \in 1..(w + (k - 1)), m \in 1..HashBlock : t.s[j][m] = E[(j - 1) * HashBlock + m]
        /\ \A m \in 1..off : t.buf[m] = E[base + m]
    BY <1>6 DEF TurnHolds
  <2>5. base \in Int
    <3> HIDE DEF w
    <3> QED
      BY <1>2, <1>4, <2>1
  <2>6. piece = SubSeq(data, from + 1, to)
    BY DEF Piece
  <2> HIDE DEF t, off, from, to, piece, base
  <2>7. off \in Nat /\ from <= to /\ to \in from..Len(data) /\ off + (to - from) <= HashBlock
    BY <1>2, <1>4, <2>3
  <2>8. b \in HashBlocks /\ \A m \in 1..(off + (to - from)) : b[m] = E[base + m]
    <3> DEFINE bb == Filled(t.buf, off, SubSeq(data, from + 1, to))
    <3>1. b = bb
      BY <2>6
    <3>2. t.buf \in HashBlocks /\ Follows(t.buf, E, base, off)
      BY <2>4 DEF Follows
    <3>3. n + from = base + off /\ n \in Int
      BY <2>3
    <3>4. bb \in HashBlocks /\ Follows(bb, E, base, off + (to - from))
      BY <2>3, <2>5, <2>7, <3>2, <3>3, FilledHolds
    <3> HIDE DEF bb, b
    <3> QED
      BY <3>1, <3>4 DEF Follows
  <2> HIDE DEF b
  <2>9. \A m \in 1..HashBlock : b[m] = E[base + m]
    BY <2>3, <2>8
  <2>10. /\ f[k].s \in Seq(HashBlocks) /\ Len(f[k].s) = w + k
         /\ \A j \in 1..(w + (k - 1)) : f[k].s[j] = t.s[j]
         /\ f[k].s[w + k] = b
    <3>1. f[k].s = Append(t.s, b)
      BY <2>2
    <3>2. /\ Append(t.s, b) \in Seq(HashBlocks) /\ Len(Append(t.s, b)) = Len(t.s) + 1
          /\ \A j \in 1..Len(t.s) : Append(t.s, b)[j] = t.s[j]
          /\ Append(t.s, b)[Len(t.s) + 1] = b
      BY <2>4, <2>8, AppendProperties
    <3>3. Len(t.s) + 1 = w + k
      BY <1>2, <2>1, <2>4
    <3> QED
      BY <2>4, <3>1, <3>2, <3>3
  <2>11. ASSUME NEW j \in 1..(w + k), NEW m \in 1..HashBlock
         PROVE  f[k].s[j][m] = E[(j - 1) * HashBlock + m]
    <3>1. CASE j = w + k
      <4>1. j - 1 = w + (k - 1)
        BY <1>2, <2>1, <3>1
      <4> QED
        BY <2>9, <2>10, <3>1, <4>1 DEF base
    <3>2. CASE j # w + k
      <4> HIDE DEF w
      <4>1. j \in 1..(w + (k - 1))
        BY <1>2, <2>1, <3>2
      <4> QED
        BY <2>4, <2>10, <4>1
    <3> QED
      BY <3>1, <3>2
  <2>12. f[k].buf \in HashBlocks /\ Offset(h, k) = 0
    BY <2>1, <2>2, <2>8 DEF Offset
  <2>13. TurnHolds(f[k], h, E, n, k)
    BY <2>10, <2>11, <2>12 DEF TurnHolds
  <2> QED
    BY <2>1, <2>13
<1>7. S \in SUBSET Nat /\ \A k \in 1..turns : k - 1 \in S => k \in S
  BY <1>2, <1>6
<1>8. \A k \in 0..turns : k \in S
  <2> HIDE DEF S
  <2> QED
    BY <1>2, <1>5, <1>7, Stepwise
<1> QED
  BY <1>8 DEF turns

LEMMA WriteHolds ==
  ASSUME NEW h, NEW n \in Nat, NEW E, Holds(h, E, n), NEW data \in Seq(Symbols), Follows(data, E, n, Len(data))
  PROVE  Holds(sha256_write(h, data), E, n + Len(data))
<1> DEFINE w == n \div HashBlock
           turns == Turns(h, data)
           len == Len(data)
           used == Used(h, turns)
           off == Offset(h, turns)
           r == off + (len - used)
           base == (w + turns) * HashBlock
           out == sha256_write(h, data)
<1>1. h.bytes = n
  BY DEF Holds
<1>2. /\ turns \in Nat /\ w \in Nat /\ len \in Nat
      /\ used \in 0..len /\ off \in 0..(HashBlock-1)
      /\ n + used = base + off /\ r \in 0..(HashBlock-1)
  <2>1. /\ turns \in Nat /\ w \in Nat /\ len \in Nat
        /\ \A k \in 0..turns :
             /\ Used(h, k) \in 0..len /\ Offset(h, k) \in 0..(HashBlock-1)
             /\ n + Used(h, k) = (w + k) * HashBlock + Offset(h, k)
        /\ r \in 0..(HashBlock-1)
    BY <1>1, TurnPlaces
  <2>2. turns \in 0..turns
    BY <2>1
  <2> QED
    BY <2>1, <2>2
<1>3. PICK f : /\ IsTurn(f, h, data, turns)
               /\ out = [s |-> f[turns].s, bytes |-> h.bytes + len,
                         buf |-> Filled(f[turns].buf, off, SubSeq(data, used + 1, len))]
  BY <1>2, WriteDef
<1>4. TurnHolds(f[turns], h, E, n, turns)
  <2>1. turns \in 0..turns
    BY <1>2
  <2> QED
    BY <1>3, <2>1, TurnsHold
<1>5. HashBlock \in Nat \ {0}
  BY HashTypes
<1>6. base \in Int
  BY <1>2, <1>5
<1>7. /\ f[turns].s \in Seq(HashBlocks) /\ Len(f[turns].s) = w + turns
      /\ \A j \in 1..(w + turns), m \in 1..HashBlock : f[turns].s[j][m] = E[(j - 1) * HashBlock + m]
      /\ f[turns].buf \in HashBlocks /\ Follows(f[turns].buf, E, base, off)
  BY <1>4 DEF TurnHolds, Follows
<1>8. n + len = base + r
  <2> HIDE DEF base, w, turns, used, off, len
  <2> QED
    BY <1>2, <1>5, <1>6
<1> HIDE DEF turns, used, off, out
<1>9. /\ Filled(f[turns].buf, off, SubSeq(data, used + 1, len)) \in HashBlocks
      /\ Follows(Filled(f[turns].buf, off, SubSeq(data, used + 1, len)), E, base, r)
  <2>1. used \in 0..Len(data) /\ Len(data) \in used..Len(data) /\ off \in Nat /\ n \in Int
    BY <1>2, <1>5
  <2>2. off + (Len(data) - used) <= HashBlock /\ n + used = base + off
    BY <1>2, <1>5
  <2> HIDE DEF base
  <2> QED
    BY <1>6, <1>7, <2>1, <2>2, FilledHolds
<1>10. (n + len) \div HashBlock = w + turns /\ (n + len) % HashBlock = r
  <2>1. w + turns \in Int /\ n + len \in Int
    BY <1>2
  <2> DEFINE q == w + turns
             a == n + len
  <2>2. a = q * HashBlock + r /\ r \in 0..(HashBlock-1)
    BY <1>2, <1>8
  <2>3. a \in Int /\ q \in Int
    BY <2>1
  <2> HIDE DEF a, q, r
  <2>4. a \div HashBlock = q /\ a % HashBlock = r
    BY <1>5, <2>2, <2>3, Quotient
  <2> QED
    BY <2>4 DEF a, q
<1>11. /\ out.bytes = n + len /\ out.s = f[turns].s
       /\ out.buf = Filled(f[turns].buf, off, SubSeq(data, used + 1, len))
  BY <1>1, <1>3
<1>12. Follows(out.buf, E, base, r) /\ out.buf \in HashBlocks
  BY <1>9, <1>11
<1> HIDE DEF w, r, len
<1>13. Holds(out, E, n + len)
  BY <1>7, <1>10, <1>11, <1>12 DEF Holds, Follows, base
<1> QED
  BY <1>13 DEF out, len

LEMMA Initialized ==
  ASSUME NEW E
  PROVE  Holds(sha256_initialize, E, 0)
<1>1. 0 \div HashBlock = 0 /\ 0 % HashBlock = 0
  <2>1. HashBlock \in Nat \ {0} /\ 0 \in 0..(HashBlock-1) /\ 0 = 0 * HashBlock + 0
    BY HashTypes
  <2> QED
    BY <2>1, Quotient
<1>2. Blank \in HashBlocks
  BY DEF Blank, HashBlocks, Symbols
<1>3. <<>> \in Seq(HashBlocks) /\ Len(<<>>) = 0
  BY EmptySeq
<1> QED
  BY <1>1, <1>2, <1>3 DEF Holds, sha256_initialize

\* A place in the blocks, and the block and byte that it is.
LEMMA PlaceOf ==
  ASSUME NEW x \in Nat \ {0}
  PROVE  LET j == ((x - 1) \div HashBlock) + 1
             k == ((x - 1) % HashBlock) + 1
         IN  /\ j \in Nat \ {0} /\ k \in 1..HashBlock /\ x = (j - 1) * HashBlock + k
             /\ \A w \in Nat : x <= w * HashBlock => j <= w
<1> DEFINE q == (x - 1) \div HashBlock
           r == (x - 1) % HashBlock
<1>1. HashBlock \in Nat \ {0}
  BY HashTypes
<1>2. q \in Int /\ r \in 0..(HashBlock-1) /\ x - 1 = q * HashBlock + r
  <2>1. x - 1 \in Int
    OBVIOUS
  <2> QED
    BY <1>1, <2>1, DivMod
<1> HIDE DEF q, r
<1>3. q \in Nat
  <2>1. q <= -1 => q * HashBlock <= -HashBlock
    BY <1>1, <1>2
  <2>2. q * HashBlock \in Int
    BY <1>1, <1>2
  <2> QED
    BY <1>1, <1>2, <2>1, <2>2
<1>4. ASSUME NEW w \in Nat, x <= w * HashBlock PROVE q + 1 <= w
  <2>1. q >= w => q * HashBlock >= w * HashBlock
    BY <1>1, <1>3
  <2>2. q * HashBlock \in Int /\ w * HashBlock \in Int
    BY <1>1, <1>2
  <2> QED
    BY <1>2, <1>3, <1>4, <2>1, <2>2
<1>5. x = ((q + 1) - 1) * HashBlock + (r + 1)
  <2>1. q * HashBlock \in Int /\ (q + 1) - 1 = q
    BY <1>1, <1>2
  <2> QED
    BY <1>2, <2>1
<1>6. q + 1 \in Nat \ {0} /\ r + 1 \in 1..HashBlock
  BY <1>1, <1>2, <1>3
<1> QED
  BY <1>4, <1>5, <1>6 DEF q, r

LEMMA AtHolds ==
  ASSUME NEW h, NEW n \in Nat, NEW E, Holds(h, E, n), NEW x \in 1..((n \div HashBlock) * HashBlock)
  PROVE  h.s[((x - 1) \div HashBlock) + 1][((x - 1) % HashBlock) + 1] = E[x]
<1> DEFINE w == n \div HashBlock
           j == ((x - 1) \div HashBlock) + 1
           k == ((x - 1) % HashBlock) + 1
<1>1. HashBlock \in Nat \ {0} /\ w \in Int /\ n % HashBlock \in 0..(HashBlock-1) /\ n = w * HashBlock + (n % HashBlock)
  BY HashTypes, DivMod
<1> HIDE DEF w
<1>2. w \in Nat /\ w * HashBlock \in Nat
  <2>1. w <= -1 => w * HashBlock <= -HashBlock
    BY <1>1
  <2>2. w * HashBlock \in Int
    BY <1>1
  <2> QED
    BY <1>1, <2>1, <2>2
<1>3. x \in Nat \ {0} /\ x <= w * HashBlock
  BY <1>2 DEF w
<1>4. j \in 1..w /\ k \in 1..HashBlock /\ x = (j - 1) * HashBlock + k
  <2>1. /\ j \in Nat \ {0} /\ k \in 1..HashBlock /\ x = (j - 1) * HashBlock + k
        /\ \A u \in Nat : x <= u * HashBlock => j <= u
    BY <1>3, PlaceOf
  <2> HIDE DEF j, k
  <2> QED
    BY <1>2, <1>3, <2>1
<1>5. \A a \in 1..w, b \in 1..HashBlock : h.s[a][b] = E[(a - 1) * HashBlock + b]
  BY DEF Holds, w
<1> HIDE DEF j, k
<1>6. h.s[j][k] = E[x]
  BY <1>4, <1>5
<1> QED
  BY <1>6 DEF j, k

-----------------------------------------------------------------------------
(* The end of the data. *)

DataBytes == [k \in Nat |-> Byte(k)]

\* What finalize makes of n bytes of data.
Ended(n, zeros, high, low) ==
  [k \in Nat |-> IF k <= n THEN Byte(k)
                 ELSE IF k = n + 1 THEN Marker
                 ELSE IF k <= n + 1 + zeros THEN ZeroByte
                 ELSE Count(high, low, k - (n + 1 + zeros))]

High(n) == n \div (CountWord \div 8)

Low(n) == (n * 8) % CountWord

Zeros(n) == (2 * HashBlock - CountBytes - 1 - (n % HashBlock)) % HashBlock

LEMMA CountOfBits ==
  ASSUME NEW n \in Nat
  PROVE  High(n) \in Nat /\ Low(n) \in Nat /\ High(n) * CountWord + Low(n) = n * 8
<1> DEFINE c == CountWord \div 8
           hi == n \div c
           r == n % c
<1>1. CountWord \in Nat \ {0} /\ c \in Nat \ {0} /\ CountWord = c * 8
  <2>1. CountWord \in Nat \ {0} /\ CountWord % 8 = 0 /\ 8 \in Nat \ {0}
    BY HashAssumption
  <2>2. c \in Int /\ CountWord = c * 8 + (CountWord % 8)
    BY <2>1, DivMod
  <2> HIDE DEF c
  <2> QED
    BY <2>1, <2>2
<1> HIDE DEF c
<1>2. hi \in Int /\ r \in 0..(c-1) /\ n = hi * c + r
  BY <1>1, DivMod
<1> HIDE DEF hi, r
<1>3. hi \in Nat
  <2>1. hi <= -1 => hi * c <= -c
    BY <1>1, <1>2
  <2>2. hi * c \in Int
    BY <1>1, <1>2
  <2> QED
    BY <1>1, <1>2, <2>1, <2>2
<1>4. n * 8 = hi * CountWord + 8 * r
  <2>1. hi * (c * 8) = (hi * c) * 8
    BY <1>1, <1>2
  <2>2. hi * c \in Int
    BY <1>1, <1>2
  <2> QED
    BY <1>1, <1>2, <2>1, <2>2
<1>5. (n * 8) % CountWord = 8 * r
  <2>1. 8 * r \in 0..(CountWord-1) /\ n * 8 \in Int
    BY <1>1, <1>2
  <2> DEFINE a == n * 8
             r8 == 8 * r
  <2>2. a \in Int /\ r8 \in 0..(CountWord-1) /\ a = hi * CountWord + r8 /\ hi \in Int
        /\ CountWord \in Nat \ {0}
    BY <1>1, <1>2, <1>4, <2>1
  <2> HIDE DEF a, r8
  <2>3. a % CountWord = r8
    BY <2>2, Remainder
  <2> QED
    BY <2>3 DEF a, r8
<1>6. High(n) = hi /\ Low(n) = 8 * r
  BY <1>5 DEF High, Low, hi, c
<1> QED
  BY <1>1, <1>2, <1>3, <1>4, <1>6

\* The zeros, and the blocks that the data, the mark and the count fill.
LEMMA ZerosFill ==
  ASSUME NEW n \in Nat
  PROVE  /\ Zeros(n) \in 0..(HashBlock-1)
         /\ \E m \in Nat \ {0} : n + 1 + Zeros(n) + CountBytes = m * HashBlock
<1> DEFINE w == n \div HashBlock
           b == n % HashBlock
           c == 2 * HashBlock - CountBytes - 1 - b
           q == c \div HashBlock
           z == c % HashBlock
<1>1. HashBlock \in Nat \ {0} /\ CountBytes \in 1..(HashBlock-1)
  BY HashAssumption, HashTypes
<1>2. w \in Int /\ b \in 0..(HashBlock-1) /\ n = w * HashBlock + b
  BY <1>1, DivMod
<1> HIDE DEF w, b
<1>3. c \in 1..(2 * HashBlock - 1)
  BY <1>1, <1>2
<1>4. q \in Int /\ z \in 0..(HashBlock-1) /\ c = q * HashBlock + z
  <2>1. c \in Int
    BY <1>3
  <2> HIDE DEF c
  <2> QED
    BY <1>1, <2>1, DivMod
<1> HIDE DEF q, z
<1>5. w \in Nat
  <2>1. w <= -1 => w * HashBlock <= -HashBlock
    BY <1>1, <1>2
  <2>2. w * HashBlock \in Int
    BY <1>1, <1>2
  <2> QED
    BY <1>1, <1>2, <2>1, <2>2
<1>6. q <= 1
  <2>1. q >= 2 => q * HashBlock >= 2 * HashBlock
    BY <1>1, <1>4
  <2>2. q * HashBlock \in Int
    BY <1>1, <1>4
  <2> QED
    BY <1>1, <1>3, <1>4, <2>1, <2>2
<1>7. n + 1 + z + CountBytes = (w + 2 - q) * HashBlock
  <2>1. (w + 2 - q) * HashBlock = w * HashBlock + 2 * HashBlock - q * HashBlock
    BY <1>1, <1>2, <1>4
  <2> DEFINE wh == w * HashBlock
             qh == q * HashBlock
  <2>2. wh \in Int /\ qh \in Int /\ n = wh + b /\ c = qh + z
    BY <1>1, <1>2, <1>4
  <2> HIDE DEF wh, qh
  <2>3. n + 1 + z + CountBytes = wh + 2 * HashBlock - qh
    BY <1>1, <1>2, <1>4, <2>2
  <2> QED
    BY <2>1, <2>3 DEF wh, qh
<1>8. w + 2 - q \in Nat \ {0}
  BY <1>4, <1>5, <1>6
<1>9. Zeros(n) = z
  BY DEF Zeros, z, b
<1> QED
  BY <1>4, <1>7, <1>8, <1>9

LEMMA HoldsSame ==
  ASSUME NEW h, NEW n \in Nat, NEW E, NEW F, Holds(h, E, n), \A k \in 1..n : E[k] = F[k]
  PROVE  Holds(h, F, n)
<1> DEFINE w == n \div HashBlock
           b == n % HashBlock
<1>1. HashBlock \in Nat \ {0}
  BY HashTypes
<1>2. w \in Int /\ b \in 0..(HashBlock-1) /\ n = w * HashBlock + b
  BY <1>1, DivMod
<1> DEFINE wh == w * HashBlock
<1>3. wh \in Int /\ n = wh + b
  BY <1>1, <1>2
<1>4. /\ h.bytes = n
      /\ h.s \in Seq(HashBlocks) /\ Len(h.s) = w
      /\ \A j \in 1..w, k \in 1..HashBlock : h.s[j][k] = E[(j - 1) * HashBlock + k]
      /\ h.buf \in HashBlocks
      /\ \A k \in 1..b : h.buf[k] = E[wh + k]
  BY DEF Holds
<1> HIDE DEF w, b
<1>5. ASSUME NEW j \in 1..w, NEW k \in 1..HashBlock
      PROVE  h.s[j][k] = F[(j - 1) * HashBlock + k]
  <2> DEFINE jh == (j - 1) * HashBlock
  <2>1. jh >= 0 /\ jh \in Int /\ j \in Int
    BY <1>1, <1>2
  <2>2. jh <= wh - HashBlock
    <3>1. (j - 1) * HashBlock <= (w - 1) * HashBlock
      BY <1>1, <1>2
    <3>2. (w - 1) * HashBlock = wh - HashBlock
      BY <1>1, <1>2
    <3> QED
      BY <3>1, <3>2
  <2> HIDE DEF jh, wh
  <2>3. jh + k \in 1..n
    BY <1>1, <1>2, <1>3, <2>1, <2>2
  <2> QED
    BY <1>4, <2>3 DEF jh
<1>6. ASSUME NEW k \in 1..b PROVE h.buf[k] = F[wh + k]
  <2>1. wh >= 0
    <3>1. w <= -1 => w * HashBlock <= -HashBlock
      BY <1>1, <1>2
    <3>2. w >= 0 => w * HashBlock >= 0
      BY <1>1, <1>2
    <3> QED
      BY <1>1, <1>2, <1>3, <3>1, <3>2
  <2> HIDE DEF wh
  <2>2. wh + k \in 1..n
    BY <1>2, <1>3, <2>1
  <2> QED
    BY <1>4, <2>2
<1> QED
  BY <1>4, <1>5, <1>6 DEF Holds, w, b

LEMMA FinalizeHolds ==
  ASSUME NEW h, NEW n \in Nat, Holds(h, DataBytes, n)
  PROVE  Holds(sha256_finalize(h), Ended(n, Zeros(n), High(n), Low(n)), n + 1 + Zeros(n) + CountBytes)
<1> DEFINE z == Zeros(n)
           hi == High(n)
           lo == Low(n)
           E == Ended(n, z, hi, lo)
           zeros == [k \in 1..z |-> ZeroByte]
           mark == <<Marker>> \o zeros
           counts == [k \in 1..CountBytes |-> Count(hi, lo, k)]
           padded == sha256_write(h, mark)
           n1 == n + (1 + z)
<1>1. HashBlock \in Nat \ {0} /\ CountBytes \in Nat \ {0}
  BY HashTypes
<1>2. z \in Nat
  BY <1>1, ZerosFill
<1>3. hi \in Nat /\ lo \in Nat
  BY CountOfBits
<1>4. h.bytes = n
  BY DEF Holds
<1>5. sha256_finalize(h) = sha256_write(padded, counts)
  BY <1>4 DEF sha256_finalize, Zeros, High, Low
<1> HIDE DEF z, hi, lo
<1>6. E = [k \in Nat |-> IF k <= n THEN Byte(k) ELSE IF k = n + 1 THEN Marker
                         ELSE IF k <= n + 1 + z THEN ZeroByte ELSE Count(hi, lo, k - (n + 1 + z))]
  BY DEF Ended
<1> HIDE DEF E
<1>7. Holds(h, E, n)
  <2>1. \A k \in 1..n : DataBytes[k] = E[k]
    BY <1>6 DEF DataBytes
  <2> QED
    BY <2>1, HoldsSame
<1>8. ZeroByte \in Symbols /\ Marker \in Symbols /\ \A k \in Nat : Count(hi, lo, k) \in Symbols
  <2>1. ASSUME NEW k \in Nat PROVE Count(hi, lo, k) \in Symbols
    <3> DEFINE p == <<hi, lo, k>>
    <3>1. p \in Nat \X Nat \X Nat /\ p[1] = hi /\ p[2] = lo /\ p[3] = k
      BY <1>3
    <3> HIDE DEF p
    <3> QED
      BY <3>1 DEF Symbols
  <2> QED
    BY <2>1 DEF Symbols
<1>9. /\ mark \in Seq(Symbols) /\ Len(mark) = 1 + z
      /\ mark[1] = Marker /\ \A m \in 2..(1 + z) : mark[m] = ZeroByte
  <2>1. zeros \in Seq(Symbols) /\ Len(zeros) = z /\ \A k \in 1..z : zeros[k] = ZeroByte
    BY <1>2, <1>8
  <2>2. <<Marker>> \in Seq(Symbols) /\ Len(<<Marker>>) = 1 /\ <<Marker>>[1] = Marker
    BY <1>8
  <2> HIDE DEF zeros
  <2>3. /\ mark \in Seq(Symbols) /\ Len(mark) = Len(<<Marker>>) + Len(zeros)
        /\ \A k \in 1..(Len(<<Marker>>) + Len(zeros)) :
             mark[k] = IF k <= Len(<<Marker>>) THEN <<Marker>>[k] ELSE zeros[k - Len(<<Marker>>)]
    BY <2>1, <2>2, ConcatProperties
  <2> HIDE DEF mark
  <2>4. \A k \in 1..(1 + z) : mark[k] = IF k <= 1 THEN Marker ELSE zeros[k - 1]
    BY <2>1, <2>2, <2>3
  <2>5. mark[1] = Marker
    BY <1>2, <2>4
  <2>6. ASSUME NEW m \in 2..(1 + z) PROVE mark[m] = ZeroByte
    <3>1. m \in 1..(1 + z) /\ ~(m <= 1) /\ m - 1 \in 1..z
      BY <1>2
    <3> QED
      BY <2>1, <2>4, <3>1
  <2> QED
    BY <2>1, <2>2, <2>3, <2>5, <2>6
<1> HIDE DEF zeros, mark
<1>10. Follows(mark, E, n, Len(mark))
  <2>1. ASSUME NEW m \in 1..(1 + z) PROVE mark[m] = E[n + m]
    <3>1. CASE m = 1
      <4>1. E[n + 1] = Marker
        BY <1>6
      <4> QED
        BY <1>9, <3>1, <4>1
    <3>2. CASE m # 1
      <4>1. m \in 2..(1 + z) /\ n + m \in Nat /\ ~(n + m <= n) /\ n + m # n + 1 /\ n + m <= n + 1 + z
        BY <1>2, <3>2
      <4>2. E[n + m] = ZeroByte
        BY <1>6, <4>1
      <4> QED
        BY <1>9, <4>1, <4>2
    <3> QED
      BY <3>1, <3>2
  <2> QED
    BY <1>9, <2>1 DEF Follows
<1>11. n1 \in Nat /\ Holds(padded, E, n1)
  <2>1. Holds(padded, E, n + Len(mark))
    BY <1>7, <1>9, <1>10, WriteHolds
  <2> QED
    BY <1>2, <1>9, <2>1
<1>12. counts \in Seq(Symbols) /\ Len(counts) = CountBytes /\ \A k \in 1..CountBytes : counts[k] = Count(hi, lo, k)
  BY <1>1, <1>8
<1> HIDE DEF counts, padded
<1>13. Follows(counts, E, n1, Len(counts))
  <2>1. ASSUME NEW m \in 1..CountBytes PROVE counts[m] = E[n1 + m]
    <3>1. /\ n1 + m \in Nat /\ ~(n1 + m <= n) /\ n1 + m # n + 1 /\ ~(n1 + m <= n + 1 + z)
          /\ (n1 + m) - (n + 1 + z) = m
      BY <1>1, <1>2
    <3> HIDE DEF n1
    <3>2. E[n1 + m] = Count(hi, lo, (n1 + m) - (n + 1 + z))
      BY <1>6, <3>1
    <3> QED
      BY <1>12, <3>1, <3>2
  <2> QED
    BY <1>12, <2>1 DEF Follows
<1>14. Holds(sha256_write(padded, counts), E, n1 + CountBytes)
  <2> HIDE DEF n1
  <2>1. Holds(sha256_write(padded, counts), E, n1 + Len(counts))
    BY <1>11, <1>12, <1>13, WriteHolds
  <2> QED
    BY <1>12, <2>1
<1>15. n1 + CountBytes = n + 1 + z + CountBytes
  BY <1>1, <1>2
<1> QED
  BY <1>5, <1>14, <1>15 DEF E, z, hi, lo

\* The blocks of a whole hash: the data, a 1 bit, the fewest zeros, the count.
EndsRightly(blocks, n) ==
  LET at(x) == blocks[((x - 1) \div HashBlock) + 1][((x - 1) % HashBlock) + 1]
      end == Len(blocks) * HashBlock
      bits == at(end)
  IN  /\ \A x \in 1..n : at(x) = Byte(x)
      /\ at(n + 1) = Marker
      /\ end - CountBytes - n - 1 \in 0..(HashBlock - 1)
      /\ \A x \in (n + 2)..(end - CountBytes) : at(x) = ZeroByte
      /\ \A k \in 1..CountBytes : at(end - CountBytes + k) = Count(bits[2], bits[3], k)
      /\ bits[2] * CountWord + bits[3] = n * 8

LEMMA FinalizeCorrect ==
  ASSUME NEW h, NEW n \in Nat, Holds(h, DataBytes, n)
  PROVE  sha256_finalize(h).s # <<>> /\ EndsRightly(sha256_finalize(h).s, n)
<1> DEFINE z == Zeros(n)
           hi == High(n)
           lo == Low(n)
           E == Ended(n, z, hi, lo)
           out == sha256_finalize(h)
           total == n + 1 + z + CountBytes
           blocks == out.s
           at(x) == blocks[((x - 1) \div HashBlock) + 1][((x - 1) % HashBlock) + 1]
           end == Len(blocks) * HashBlock
<1>1. HashBlock \in Nat \ {0} /\ CountBytes \in Nat \ {0}
  BY HashTypes
<1>2. Holds(out, E, total)
  BY FinalizeHolds
<1>3. z \in 0..(HashBlock-1) /\ \E m \in Nat \ {0} : total = m * HashBlock
  BY ZerosFill
<1>4. PICK m \in Nat \ {0} : total = m * HashBlock
  BY <1>3
<1>5. E = [k \in Nat |-> IF k <= n THEN Byte(k) ELSE IF k = n + 1 THEN Marker
                         ELSE IF k <= n + 1 + z THEN ZeroByte ELSE Count(hi, lo, k - (n + 1 + z))]
  BY DEF Ended
<1>6. hi * CountWord + lo = n * 8
  BY CountOfBits
<1> HIDE DEF z, hi, lo, E, out
<1>7. total \in Nat
  BY <1>1, <1>3
<1>8. total \div HashBlock = m
  <2>1. total = m * HashBlock + 0 /\ 0 \in 0..(HashBlock-1) /\ total \in Int /\ m \in Int
    BY <1>1, <1>4, <1>7
  <2> HIDE DEF total
  <2> QED
    BY <1>1, <2>1, Quotient
<1>9. Len(blocks) = m /\ end = total
  BY <1>2, <1>4, <1>8 DEF Holds
<1>10. ASSUME NEW x \in 1..total PROVE at(x) = E[x]
  <2>1. x \in 1..((total \div HashBlock) * HashBlock)
    BY <1>4, <1>8
  <2> HIDE DEF total
  <2> QED
    BY <1>2, <1>7, <2>1, AtHolds
<1> HIDE DEF at, end
<1>11. blocks # <<>>
  <2>1. Len(<<>>) = 0
    BY EmptySeq
  <2> QED
    BY <1>9, <2>1
<1>12. ASSUME NEW x \in 1..n PROVE at(x) = Byte(x)
  <2>1. x \in 1..total /\ x \in Nat /\ x <= n
    BY <1>1, <1>3
  <2> QED
    BY <1>5, <1>10, <2>1
<1>13. at(n + 1) = Marker
  <2>1. n + 1 \in 1..total /\ n + 1 \in Nat /\ ~(n + 1 <= n)
    BY <1>1, <1>3
  <2> QED
    BY <1>5, <1>10, <2>1
<1>14. end - CountBytes - n - 1 = z
  BY <1>1, <1>3, <1>9
<1>15. ASSUME NEW x \in (n + 2)..(end - CountBytes) PROVE at(x) = ZeroByte
  <2>1. x \in 1..total /\ x \in Nat /\ ~(x <= n) /\ x # n + 1 /\ x <= n + 1 + z
    BY <1>1, <1>3, <1>9
  <2> QED
    BY <1>5, <1>10, <2>1
<1>16. ASSUME NEW k \in 1..CountBytes PROVE at(end - CountBytes + k) = Count(hi, lo, k)
  <2> DEFINE x == end - CountBytes + k
  <2>1. /\ x \in 1..total /\ x \in Nat /\ ~(x <= n) /\ x # n + 1 /\ ~(x <= n + 1 + z)
        /\ x - (n + 1 + z) = k
    BY <1>1, <1>3, <1>9
  <2> HIDE DEF x
  <2>2. at(x) = E[x] /\ E[x] = Count(hi, lo, x - (n + 1 + z))
    BY <1>5, <1>10, <2>1
  <2> QED
    BY <2>1, <2>2 DEF x
<1>17. at(end)[2] = hi /\ at(end)[3] = lo
  <2>1. at(end - CountBytes + CountBytes) = Count(hi, lo, CountBytes)
    BY <1>1, <1>16
  <2>2. end - CountBytes + CountBytes = end
    BY <1>1, <1>7, <1>9
  <2>3. at(end) = Count(hi, lo, CountBytes)
    BY <2>1, <2>2
  <2> QED
    BY <2>3 DEF Count
<1> QED
  BY <1>3, <1>6, <1>11, <1>12, <1>13, <1>14, <1>15, <1>16, <1>17 DEF EndsRightly, at, end, out

-----------------------------------------------------------------------------
(* The stream: what was given is held until it is finalized. *)

HashInv ==
  /\ given \in Nat
  /\ final = <<>> => Holds(hash, DataBytes, given)
  /\ final # <<>> => EndsRightly(final, given)

\* Bytes of the data, in order.
LEMMA PieceFollows ==
  ASSUME NEW n \in Nat, NEW len \in Nat
  PROVE  LET data == [k \in 1..len |-> Byte(n + k)]
         IN  data \in Seq(Symbols) /\ Len(data) = len /\ Follows(data, DataBytes, n, Len(data))
<1> DEFINE data == [k \in 1..len |-> Byte(n + k)]
<1>1. \A k \in 1..len : Byte(n + k) \in Symbols
  BY DEF Symbols
<1>2. data \in Seq(Symbols) /\ Len(data) = len /\ \A k \in 1..len : data[k] = Byte(n + k)
  BY <1>1
<1> HIDE DEF data
<1>3. \A k \in 1..len : data[k] = DataBytes[n + k]
  BY <1>2 DEF DataBytes
<1>4. Follows(data, DataBytes, n, Len(data))
  BY <1>2, <1>3 DEF Follows
<1> QED
  BY <1>2, <1>4 DEF data

LEMMA TaggedHolds == Holds(sha256_tagged, DataBytes, HashBlock)
<1> DEFINE data == [k \in 1..HashBlock |-> Byte(k)]
           data0 == [k \in 1..HashBlock |-> Byte(0 + k)]
<1>1. HashBlock \in Nat
  BY HashTypes
<1>2. data = data0
  OBVIOUS
<1>3. data0 \in Seq(Symbols) /\ Len(data0) = HashBlock /\ Follows(data0, DataBytes, 0, Len(data0))
  BY <1>1, PieceFollows
<1> HIDE DEF data, data0
<1>4. Holds(sha256_write(sha256_initialize, data), DataBytes, 0 + Len(data))
  BY <1>2, <1>3, Initialized, WriteHolds
<1>5. 0 + Len(data) = HashBlock
  BY <1>1, <1>2, <1>3
<1> QED
  BY <1>4, <1>5 DEF sha256_tagged, data

LEMMA HashStep == HashInv /\ [HashNext]_hashVars => HashInv'
<1> SUFFICES ASSUME HashInv, [HashNext]_hashVars PROVE HashInv'
  OBVIOUS
<1>1. ASSUME NEW len \in 0..MaxPiece, Write(len) PROVE HashInv'
  <2> DEFINE data == [k \in 1..len |-> Byte(given + k)]
  <2>1. given \in Nat /\ len \in Nat /\ final = <<>> /\ Holds(hash, DataBytes, given)
    BY <1>1, HashAssumption DEF HashInv, Write
  <2>2. hash' = sha256_write(hash, data) /\ given' = given + len /\ final' = final
    BY <1>1 DEF Write
  <2>3. data \in Seq(Symbols) /\ Len(data) = len /\ Follows(data, DataBytes, given, Len(data))
    BY <2>1, PieceFollows
  <2> HIDE DEF data
  <2>4. Holds(hash', DataBytes, given + Len(data))
    BY <2>1, <2>2, <2>3, WriteHolds
  <2>5. given' \in Nat /\ given' = given + Len(data)
    BY <2>1, <2>2, <2>3
  <2>6. Holds(hash', DataBytes, given')
    BY <2>4, <2>5
  <2> QED
    BY <2>1, <2>2, <2>5, <2>6 DEF HashInv
<1>2. ASSUME Finalize PROVE HashInv'
  <2>1. given \in Nat /\ Holds(hash, DataBytes, given)
    BY <1>2 DEF HashInv, Finalize
  <2>2. final' = sha256_finalize(hash).s /\ given' = given
    BY <1>2 DEF Finalize
  <2>3. final' # <<>> /\ EndsRightly(final', given')
    BY <2>1, <2>2, FinalizeCorrect
  <2> QED
    BY <2>1, <2>2, <2>3 DEF HashInv
<1>3. CASE UNCHANGED hashVars
  BY <1>3 DEF HashInv, hashVars
<1> QED
  BY <1>1, <1>2, <1>3 DEF HashNext

\* However the data were cut into pieces, and whatever an earlier block left
\* in the buffer, the blocks are the data, a 1 bit, the fewest zeros and the
\* count, for every length of block, of count and of data
\* (secp256k1_sha256_write and _finalize, hash_impl.h:126-165).
THEOREM HashCorrect == HashSpec => []SplitDoesNotMatter
<1>1. HashInit => HashInv
  <2> SUFFICES ASSUME HashInit PROVE HashInv
    OBVIOUS
  <2>1. Holds(sha256_initialize, DataBytes, 0) /\ Holds(sha256_tagged, DataBytes, HashBlock)
    BY Initialized, TaggedHolds
  <2>2. sha256_initialize.bytes = 0 /\ sha256_tagged.bytes = HashBlock
    BY <2>1 DEF Holds
  <2>3. HashBlock \in Nat
    BY HashTypes
  <2>4. final = <<>> /\ given = hash.bytes
    BY DEF HashInit
  <2>5. CASE hash = sha256_initialize
    BY <2>1, <2>2, <2>4, <2>5 DEF HashInv
  <2>6. CASE hash = sha256_tagged
    BY <2>1, <2>2, <2>3, <2>4, <2>6 DEF HashInv
  <2> QED
    BY <2>5, <2>6 DEF HashInit
<1>2. HashInv /\ [HashNext]_hashVars => HashInv'
  BY HashStep
<1>3. HashInv => SplitDoesNotMatter
  <2> SUFFICES ASSUME HashInv PROVE SplitDoesNotMatter
    OBVIOUS
  <2>1. CASE final = <<>>
    <3> DEFINE w == given \div HashBlock
    <3>1. given \in Nat /\ Holds(hash, DataBytes, given)
      BY <2>1 DEF HashInv
    <3>2. /\ Len(hash.s) = w
          /\ \A k \in 1..(given % HashBlock) : hash.buf[k] = DataBytes[w * HashBlock + k]
      BY <3>1 DEF Holds
    <3>3. w * HashBlock \in Nat
      <4>1. /\ HashBlock \in Nat \ {0} /\ w \in Int
            /\ given % HashBlock \in 0..(HashBlock-1) /\ given = w * HashBlock + (given % HashBlock)
        BY <3>1, HashTypes, DivMod
      <4> HIDE DEF w
      <4>2. w <= -1 => w * HashBlock <= -HashBlock
        BY <4>1
      <4>3. w * HashBlock \in Int
        BY <4>1
      <4>4. w >= 0
        BY <3>1, <4>1, <4>2, <4>3
      <4> QED
        BY <4>1, <4>4
    <3>4. ASSUME NEW x \in 1..(w * HashBlock)
          PROVE  hash.s[((x - 1) \div HashBlock) + 1][((x - 1) % HashBlock) + 1] = Byte(x)
      <4>1. DataBytes[x] = Byte(x)
        BY <3>3 DEF DataBytes
      <4> QED
        BY <3>1, <4>1, AtHolds
    <3>5. ASSUME NEW k \in 1..(given % HashBlock) PROVE hash.buf[k] = Byte(w * HashBlock + k)
      <4>1. k \in Nat
        BY <3>1, HashTypes
      <4>2. w * HashBlock + k \in Nat
        BY <3>3, <4>1
      <4> QED
        BY <3>2, <4>2 DEF DataBytes
    <3> QED
      BY <2>1, <3>2, <3>4, <3>5 DEF SplitDoesNotMatter
  <2>2. CASE final # <<>>
    BY <2>2 DEF HashInv, SplitDoesNotMatter, EndsRightly
  <2> QED
    BY <2>1, <2>2
<1> QED
  BY <1>1, <1>2, <1>3, PTL DEF HashSpec

-----------------------------------------------------------------------------
(***************************************************************************)
(* Magnitudes of the coordinates of points.                                *)
(***************************************************************************)

\* A field element of a magnitude of at most k.
FeOf(k) == [v : 0..(P-1), m : 0..k, n : BOOLEAN]

Gej == [x : FeOf(8), y : FeOf(8), z : FeOf(8), infinity : BOOLEAN]

Ge == [x : FeOf(1), y : FeOf(1), infinity : BOOLEAN]

LEMMA FeTypes ==
  ASSUME NEW k \in Nat, NEW a \in FeOf(k)
  PROVE  a.v \in 0..(P-1) /\ a.v \in Int /\ a.m \in 0..k /\ a.m \in Nat /\ a.n \in BOOLEAN
  BY PrimeType DEF FeOf

LEMMA MoreFits ==
  ASSUME NEW j \in Nat, NEW a \in FeOf(j), NEW k \in Nat, j <= k
  PROVE  a \in FeOf(k)
  BY DEF FeOf

LEMMA WeakFits ==
  ASSUME NEW v \in Int, NEW k \in Nat, NEW m \in 0..k
  PROVE  Weak(v, m) \in FeOf(k)
<1>1. v % P \in 0..(P-1)
  BY PrimeType, DivMod
<1> QED
  BY <1>1 DEF Weak, FeOf

LEMMA SetIntFits ==
  /\ \A v \in Int : fe_set_int(v) \in FeOf(1)
  /\ One \in FeOf(1) /\ fe_clear \in FeOf(0)
<1>1. ASSUME NEW v \in Int PROVE fe_set_int(v) \in FeOf(1)
  <2>1. v % P \in 0..(P-1)
    BY PrimeType, DivMod
  <2> QED
    BY <2>1 DEF fe_set_int, FeOf
<1>2. One \in FeOf(1)
  BY <1>1 DEF One
<1>3. fe_clear \in FeOf(0)
  BY PrimeType DEF fe_clear, FeOf
<1> QED
  BY <1>1, <1>2, <1>3

\* What the operations of the field make of magnitudes, where a factor may have
\* one of 8.
Factor8 == MulMagnitude >= 8

LEMMA Room8 == Factor8 => MulMagnitude \in Nat /\ MaxMagnitude \in Nat /\ MulMagnitude >= 8 /\ MaxMagnitude >= 8
  BY FieldAssumption DEF Factor8

LEMMA MulFits ==
  ASSUME Factor8, NEW a \in FeOf(8), NEW b \in FeOf(8)
  PROVE  fe_mul(a, b) \in FeOf(1)
<1>1. a.v * b.v \in Int /\ a.m <= MulMagnitude /\ b.m <= MulMagnitude
  <2>1. a.v \in Int /\ b.v \in Int /\ a.m \in 0..8 /\ b.m \in 0..8
    BY FeTypes
  <2> QED
    BY <2>1, Room8
<1>2. Weak(a.v * b.v, 1) \in FeOf(1)
  BY <1>1, WeakFits
<1> QED
  BY <1>1, <1>2 DEF fe_mul

LEMMA SqrFits ==
  ASSUME Factor8, NEW a \in FeOf(8)
  PROVE  fe_sqr(a) \in FeOf(1)
<1>1. fe_sqr(a) = fe_mul(a, a)
  BY DEF fe_sqr, fe_mul
<1> QED
  BY <1>1, MulFits

LEMMA NormalizeFits ==
  ASSUME Factor8, NEW a \in FeOf(8)
  PROVE  fe_verify(a) /\ fe_normalize_weak(a) \in FeOf(1)
<1>1. a.m \in 0..8
  BY FeTypes
<1>2. fe_verify(a)
  BY <1>1, Room8 DEF fe_verify
<1> QED
  BY <1>2 DEF fe_normalize_weak, FeOf

LEMMA NegateFits ==
  ASSUME Factor8, NEW m \in 0..7, NEW a \in FeOf(m)
  PROVE  fe_negate(a, m) \in FeOf(m + 1)
<1>1. P - a.v \in Int /\ a.m <= m /\ m + 1 <= MaxMagnitude
  <2>1. a.v \in Int /\ a.m \in 0..m
    BY FeTypes
  <2> QED
    BY <2>1, PrimeType, Room8
<1>2. Weak(P - a.v, m + 1) \in FeOf(m + 1)
  BY <1>1, WeakFits
<1> QED
  BY <1>1, <1>2 DEF fe_negate

LEMMA AddFits ==
  ASSUME Factor8, NEW j \in 0..8, NEW k \in 0..(8-j), NEW a \in FeOf(j), NEW b \in FeOf(k)
  PROVE  fe_add(a, b) \in FeOf(j + k)
<1>1. a.v + b.v \in Int /\ a.m + b.m \in 0..(j + k) /\ a.m + b.m <= MaxMagnitude
  <2>1. a.v \in Int /\ b.v \in Int /\ a.m \in 0..j /\ b.m \in 0..k
    BY FeTypes
  <2> QED
    BY <2>1, Room8
<1>2. Weak(a.v + b.v, a.m + b.m) \in FeOf(j + k)
  BY <1>1, WeakFits
<1> QED
  BY <1>1, <1>2 DEF fe_add

LEMMA MulIntFits ==
  ASSUME Factor8, NEW a \in FeOf(1), NEW k \in 0..8
  PROVE  fe_mul_int(a, k) \in FeOf(k)
<1>1. a.v \in Int /\ a.m \in 0..1
  BY FeTypes
<1>2. a.v * k \in Int /\ a.m * k \in 0..k /\ a.m * k <= MaxMagnitude
  <2>1. a.m = 0 \/ a.m = 1
    BY <1>1
  <2>2. a.m * k = 0 \/ a.m * k = k
    BY <2>1
  <2>3. a.v * k \in Int
    BY <1>1
  <2> QED
    BY <2>2, <2>3, Room8
<1>3. Weak(a.v * k, a.m * k) \in FeOf(k)
  BY <1>2, WeakFits
<1> QED
  BY <1>2, <1>3 DEF fe_mul_int

LEMMA CmovFits ==
  ASSUME Factor8, NEW k \in 0..8, NEW a \in FeOf(k), NEW b \in FeOf(k), NEW flag
  PROVE  fe_cmov(a, b, flag) \in FeOf(k)
<1>1. a \in FeOf(8) /\ b \in FeOf(8)
  BY MoreFits
<1>2. fe_verify(a) /\ fe_verify(b)
  BY <1>1, NormalizeFits
<1> QED
  BY <1>2 DEF fe_cmov

LEMMA InvFits ==
  ASSUME Factor8, NEW a \in FeOf(8)
  PROVE  fe_inv(a) \in FeOf(1)
<1>1. a.v \in 0..(P-1) /\ fe_verify(a)
  BY FeTypes, NormalizeFits
<1>2. Inverse_of[a.v] \in 0..(P-1)
  <2>1. CASE a.v = 0
    BY <1>1, <2>1, PrimeType DEF Inverse_of
  <2>2. CASE a.v # 0
    <3>1. a.v \in 1..(P-1)
      BY <1>1, <2>2, PrimeType
    <3>2. \E w \in 1..(P-1) : (a.v * w) % P = 1
      BY <3>1, FieldPrimeAssumption
    <3> DEFINE w == CHOOSE u \in 1..(P-1) : (a.v * u) % P = 1
    <3>3. w \in 1..(P-1)
      BY <3>2
    <3>4. Inverse_of[a.v] = w
      BY <1>1, <2>2 DEF Inverse_of
    <3> HIDE DEF w
    <3> QED
      BY <3>3, <3>4, PrimeType
  <2> QED
    BY <2>1, <2>2
<1> QED
  BY <1>1, <1>2 DEF fe_inv, FeOf

-----------------------------------------------------------------------------
(* The operations on points. *)

LEMMA ConstantPoints ==
  /\ gej_set_infinity \in Gej
  /\ \A q \in Points : GeOf(q) \in Ge
  /\ \A a \in Ge : gej_set_ge(a) \in Gej
<1>1. fe_clear \in FeOf(8) /\ fe_clear \in FeOf(1) /\ One \in FeOf(8)
  BY SetIntFits, MoreFits
<1>2. gej_set_infinity \in Gej
  BY <1>1 DEF gej_set_infinity, Gej
<1>3. ASSUME NEW q \in Points PROVE GeOf(q) \in Ge
  <2>1. CASE q = Infinity
    BY <1>1, <2>1 DEF GeOf, ge_set_infinity, Ge
  <2>2. CASE q # Infinity
    <3>1. q \in Affine
      BY <2>2 DEF Points
    <3>2. q[1] \in Int /\ q[2] \in Int
      BY <3>1, AffineTypes, PrimeType
    <3>3. fe_set_int(q[1]) \in FeOf(1) /\ fe_set_int(q[2]) \in FeOf(1)
      BY <3>2, SetIntFits
    <3> QED
      BY <2>2, <3>3 DEF GeOf, ge_set_xy, Ge
  <2> QED
    BY <2>1, <2>2
<1>4. ASSUME NEW a \in Ge PROVE gej_set_ge(a) \in Gej
  <2>1. a.x \in FeOf(1) /\ a.y \in FeOf(1) /\ a.infinity \in BOOLEAN
    BY DEF Ge
  <2>2. a.x \in FeOf(8) /\ a.y \in FeOf(8)
    BY <2>1, MoreFits
  <2> QED
    BY <1>1, <2>1, <2>2 DEF gej_set_ge, Gej
<1> QED
  BY <1>2, <1>3, <1>4

LEMMA GejParts ==
  ASSUME NEW a \in Gej
  PROVE  a.x \in FeOf(8) /\ a.y \in FeOf(8) /\ a.z \in FeOf(8) /\ a.infinity \in BOOLEAN
  BY DEF Gej

LEMMA GeParts ==
  ASSUME NEW a \in Ge
  PROVE  a.x \in FeOf(8) /\ a.y \in FeOf(8) /\ a.x \in FeOf(1) /\ a.y \in FeOf(1) /\ a.infinity \in BOOLEAN
<1>1. a.x \in FeOf(1) /\ a.y \in FeOf(1) /\ a.infinity \in BOOLEAN
  BY DEF Ge
<1> QED
  BY <1>1, MoreFits

\* A factor and a product may be factors.
LEMMA Factors ==
  ASSUME Factor8, NEW a \in FeOf(8), NEW b \in FeOf(8)
  PROVE  /\ fe_mul(a, b) \in FeOf(1) /\ fe_mul(a, b) \in FeOf(8)
         /\ fe_sqr(a) \in FeOf(1) /\ fe_sqr(a) \in FeOf(8)
<1>1. fe_mul(a, b) \in FeOf(1) /\ fe_sqr(a) \in FeOf(1)
  BY MulFits, SqrFits
<1> QED
  BY <1>1, MoreFits

LEMMA ZinvFits ==
  ASSUME Factor8, NEW x \in FeOf(8), NEW y \in FeOf(8), NEW zi \in FeOf(8), NEW b \in BOOLEAN,
         NEW a, a.x = x, a.y = y, a.infinity = b
  PROVE  ge_set_gej_zinv(a, zi) \in Ge
<1> DEFINE zi2 == fe_sqr(zi)
           zi3 == fe_mul(zi2, zi)
<1>1. zi2 \in FeOf(8)
  BY Factors
<1>2. zi3 \in FeOf(8)
  BY <1>1, Factors
<1> HIDE DEF zi2, zi3
<1>3. fe_mul(x, zi2) \in FeOf(1) /\ fe_mul(y, zi3) \in FeOf(1)
  BY <1>1, <1>2, Factors
<1>4. ge_set_gej_zinv(a, zi) = [x |-> fe_mul(x, zi2), y |-> fe_mul(y, zi3), infinity |-> b]
  BY DEF ge_set_gej_zinv, zi2, zi3
<1> QED
  BY <1>3, <1>4 DEF Ge

LEMMA RescaleFits ==
  ASSUME Factor8, NEW a \in Gej, NEW v \in Int
  PROVE  gej_rescale(a, fe_set_int(v)) \in Gej
<1> DEFINE f == fe_set_int(v)
           zz == fe_sqr(f)
<1>1. f \in FeOf(8)
  BY SetIntFits, MoreFits
<1>2. a.x \in FeOf(8) /\ a.y \in FeOf(8) /\ a.z \in FeOf(8)
  BY GejParts
<1> HIDE DEF f
<1>3. zz \in FeOf(8)
  BY <1>1, Factors
<1> HIDE DEF zz
<1>4. fe_mul(a.x, zz) \in FeOf(8) /\ fe_mul(a.y, zz) \in FeOf(8) /\ fe_mul(a.z, f) \in FeOf(8)
  BY <1>1, <1>2, <1>3, Factors
<1>5. fe_mul(fe_mul(a.y, zz), f) \in FeOf(8)
  BY <1>1, <1>4, Factors
<1>6. gej_rescale(a, f) =
        [a EXCEPT !.x = fe_mul(@, zz), !.y = fe_mul(fe_mul(@, zz), f), !.z = fe_mul(@, f)]
  BY DEF gej_rescale, zz
<1>7. gej_rescale(a, f) \in Gej
  BY <1>4, <1>5, <1>6 DEF Gej
<1> QED
  BY <1>7 DEF f

LEMMA DoubleFits ==
  ASSUME Factor8, NEW a \in Gej
  PROVE  gej_double_var(a).r \in Gej
<1> DEFINE x == a.x
           y == a.y
           z == a.z
           t1 == fe_mul_int(fe_sqr(x), 3)
           t2 == fe_sqr(t1)
           y2 == fe_mul_int(fe_sqr(y), 2)
           t4 == fe_mul_int(fe_sqr(y2), 2)
           t3 == fe_mul(y2, x)
           t5 == fe_add(fe_mul_int(t3, 6), fe_negate(t2, 1))
           rz == fe_mul_int(fe_mul(z, y), 2)
           rx == fe_add(fe_negate(fe_mul_int(t3, 4), 4), t2)
           ry == fe_add(fe_mul(t1, t5), fe_negate(t4, 2))
<1>1. x \in FeOf(8) /\ y \in FeOf(8) /\ z \in FeOf(8) /\ a.infinity \in BOOLEAN
  BY GejParts
<1>2. gej_double(a) = [infinity |-> a.infinity, z |-> rz, x |-> rx, y |-> ry]
  BY DEF gej_double
<1> HIDE DEF x, y, z
<1>3. t1 \in FeOf(3) /\ t1 \in FeOf(8)
  BY <1>1, Factors, MulIntFits, MoreFits
<1>4. y2 \in FeOf(2) /\ y2 \in FeOf(8)
  <2>1. fe_sqr(y) \in FeOf(1)
    BY <1>1, Factors
  <2>2. y2 \in FeOf(2)
    BY <2>1, MulIntFits
  <2> HIDE DEF y2
  <2> QED
    BY <2>2, MoreFits
<1>5. rz \in FeOf(8)
  <2>1. fe_mul(z, y) \in FeOf(1)
    BY <1>1, Factors
  <2>2. rz \in FeOf(2)
    BY <2>1, MulIntFits
  <2> HIDE DEF rz
  <2> QED
    BY <2>2, MoreFits
<1> HIDE DEF t1, y2, rz
<1>6. t2 \in FeOf(1) /\ t3 \in FeOf(1) /\ t4 \in FeOf(2)
  BY <1>1, <1>3, <1>4, Factors, MulIntFits
<1> HIDE DEF t2, t3, t4
<1>7. fe_negate(t2, 1) \in FeOf(2) /\ fe_negate(t4, 2) \in FeOf(3)
  <2>1. fe_negate(t2, 1) \in FeOf(1 + 1) /\ fe_negate(t4, 2) \in FeOf(2 + 1)
    BY <1>6, NegateFits
  <2> QED
    BY <2>1
<1>8. fe_mul_int(t3, 6) \in FeOf(6) /\ fe_mul_int(t3, 4) \in FeOf(4)
  BY <1>6, MulIntFits
<1>9. t5 \in FeOf(8)
  <2>1. t5 \in FeOf(6 + 2)
    BY <1>7, <1>8, AddFits
  <2> QED
    BY <2>1
<1> HIDE DEF t5
<1>10. rx \in FeOf(8)
  <2>1. fe_negate(fe_mul_int(t3, 4), 4) \in FeOf(4 + 1)
    BY <1>8, NegateFits
  <2>2. rx \in FeOf((4 + 1) + 1)
    BY <1>6, <2>1, AddFits
  <2> QED
    BY <2>2, MoreFits
<1>11. ry \in FeOf(8)
  <2>1. fe_mul(t1, t5) \in FeOf(1)
    BY <1>3, <1>9, Factors
  <2>2. ry \in FeOf(1 + 3)
    BY <1>7, <2>1, AddFits
  <2> QED
    BY <2>2, MoreFits
<1> HIDE DEF rx, ry
<1>12. gej_double(a) \in Gej
  BY <1>1, <1>2, <1>5, <1>10, <1>11 DEF Gej
<1> QED
  BY <1>12, ConstantPoints DEF gej_double_var

\* The end of an addition takes differences of a magnitude of 3.
LEMMA TailFits ==
  ASSUME Factor8, NEW u1 \in FeOf(1), NEW s1 \in FeOf(1), NEW h \in FeOf(3), NEW d \in FeOf(3),
         NEW rzr, NEW z \in FeOf(8), NEW twice, twice.r \in Gej
  PROVE  AddTail(u1, s1, h, d, rzr, z, twice).r \in Gej
<1> DEFINE h2 == fe_sqr(h)
           h3 == fe_mul(h, h2)
           t == fe_mul(u1, h2)
           x == fe_add(fe_negate(fe_add(fe_mul_int(t, 2), h3), 3), fe_sqr(d))
           y == fe_add(fe_mul(fe_add(fe_negate(x, 5), t), d), fe_negate(fe_mul(h3, s1), 1))
<1>1. u1 \in FeOf(8) /\ s1 \in FeOf(8) /\ h \in FeOf(8) /\ d \in FeOf(8)
  BY MoreFits
<1>2. h2 \in FeOf(1) /\ h2 \in FeOf(8)
  BY <1>1, Factors
<1> HIDE DEF h2
<1>3. h3 \in FeOf(1) /\ h3 \in FeOf(8) /\ t \in FeOf(1)
  BY <1>1, <1>2, Factors
<1> HIDE DEF h3, t
<1>4. x \in FeOf(5) /\ x \in FeOf(8)
  <2>1. fe_mul_int(t, 2) \in FeOf(2) /\ fe_sqr(d) \in FeOf(1)
    BY <1>1, <1>3, MulIntFits, Factors
  <2>2. fe_add(fe_mul_int(t, 2), h3) \in FeOf(2 + 1)
    BY <1>3, <2>1, AddFits
  <2>3. fe_add(fe_mul_int(t, 2), h3) \in FeOf(3)
    BY <2>2
  <2>4. fe_negate(fe_add(fe_mul_int(t, 2), h3), 3) \in FeOf(3 + 1)
    BY <2>3, NegateFits
  <2>5. x \in FeOf((3 + 1) + 1)
    BY <2>1, <2>4, AddFits
  <2>6. x \in FeOf(5)
    BY <2>5
  <2> HIDE DEF x
  <2> QED
    BY <2>6, MoreFits
<1> HIDE DEF x
<1>5. y \in FeOf(8)
  <2>1. fe_negate(x, 5) \in FeOf(5 + 1)
    BY <1>4, NegateFits
  <2>2. fe_add(fe_negate(x, 5), t) \in FeOf((5 + 1) + 1)
    BY <1>3, <2>1, AddFits
  <2>3. fe_add(fe_negate(x, 5), t) \in FeOf(8)
    BY <2>2, MoreFits
  <2>4. fe_mul(fe_add(fe_negate(x, 5), t), d) \in FeOf(1) /\ fe_mul(h3, s1) \in FeOf(1)
    BY <1>1, <1>3, <2>3, Factors
  <2>5. fe_negate(fe_mul(h3, s1), 1) \in FeOf(1 + 1)
    BY <2>4, NegateFits
  <2>6. y \in FeOf(1 + (1 + 1))
    BY <2>4, <2>5, AddFits
  <2> QED
    BY <2>6, MoreFits
<1> HIDE DEF y
<1>6. [x |-> x, y |-> y, z |-> z, infinity |-> FALSE] \in Gej
  BY <1>4, <1>5 DEF Gej
<1>7. \/ AddTail(u1, s1, h, d, rzr, z, twice).r = twice.r
      \/ AddTail(u1, s1, h, d, rzr, z, twice).r = gej_set_infinity
      \/ AddTail(u1, s1, h, d, rzr, z, twice).r = [x |-> x, y |-> y, z |-> z, infinity |-> FALSE]
  BY DEF AddTail, x, y, t, h3, h2
<1> QED
  BY <1>6, <1>7, ConstantPoints

LEMMA NegatedFits ==
  ASSUME Factor8, NEW u \in FeOf(1), NEW w \in FeOf(1)
  PROVE  fe_negate(u, 1) \in FeOf(2) /\ fe_add(fe_negate(u, 1), w) \in FeOf(3)
<1>1. fe_negate(u, 1) \in FeOf(1 + 1)
  BY NegateFits
<1>2. fe_negate(u, 1) \in FeOf(2)
  BY <1>1
<1>3. fe_add(fe_negate(u, 1), w) \in FeOf(2 + 1)
  BY <1>2, AddFits
<1> QED
  BY <1>2, <1>3

LEMMA AddVarFits ==
  ASSUME Factor8, NEW a \in Gej, NEW b \in Gej
  PROVE  gej_add_var(a, b).r \in Gej
<1> DEFINE z22 == fe_sqr(b.z)
           z12 == fe_sqr(a.z)
           u1 == fe_mul(a.x, z22)
           u2 == fe_mul(b.x, z12)
           s1 == fe_mul(fe_mul(a.y, z22), b.z)
           s2 == fe_mul(fe_mul(b.y, z12), a.z)
           h == fe_add(fe_negate(u1, 1), u2)
           d == fe_add(fe_negate(s1, 1), s2)
           rzr == fe_mul(h, b.z)
           z == fe_mul(a.z, rzr)
           twice == gej_double_var(a)
<1>1. /\ a.x \in FeOf(8) /\ a.y \in FeOf(8) /\ a.z \in FeOf(8) /\ a.infinity \in BOOLEAN
      /\ b.x \in FeOf(8) /\ b.y \in FeOf(8) /\ b.z \in FeOf(8) /\ b.infinity \in BOOLEAN
  BY GejParts
<1>2. z22 \in FeOf(8) /\ z12 \in FeOf(8)
  BY <1>1, Factors
<1>3. \/ gej_add_var(a, b).r = a \/ gej_add_var(a, b).r = b
      \/ gej_add_var(a, b).r = AddTail(u1, s1, h, d, rzr, z, twice).r
  BY <1>1 DEF gej_add_var
<1> HIDE DEF z22, z12
<1>4. u1 \in FeOf(1) /\ u2 \in FeOf(1) /\ fe_mul(a.y, z22) \in FeOf(8) /\ fe_mul(b.y, z12) \in FeOf(8)
  BY <1>1, <1>2, Factors
<1>5. s1 \in FeOf(1) /\ s2 \in FeOf(1)
  BY <1>1, <1>4, Factors
<1> HIDE DEF u1, u2, s1, s2
<1>6. h \in FeOf(3) /\ d \in FeOf(3)
  BY <1>4, <1>5, NegatedFits
<1> HIDE DEF h, d
<1>7. h \in FeOf(8)
  BY <1>6, MoreFits
<1>8. rzr \in FeOf(8)
  BY <1>1, <1>7, Factors
<1> HIDE DEF rzr
<1>9. z \in FeOf(8) /\ twice.r \in Gej
  BY <1>1, <1>8, Factors, DoubleFits
<1> HIDE DEF z, twice
<1>10. AddTail(u1, s1, h, d, rzr, z, twice).r \in Gej
  BY <1>4, <1>5, <1>6, <1>9, TailFits
<1> QED
  BY <1>3, <1>10

LEMMA MovedFits ==
  ASSUME Factor8, NEW a \in Gej, NEW az \in FeOf(8), NEW b, b.x \in FeOf(8), b.y \in FeOf(8)
  PROVE  Moved(a, Difference(a, az, b)).r \in Gej
<1> DEFINE z12 == fe_sqr(az)
           u1 == fe_normalize_weak(a.x)
           s1 == fe_normalize_weak(a.y)
           u2 == fe_mul(b.x, z12)
           s2 == fe_mul(fe_mul(b.y, z12), az)
           h == fe_add(fe_negate(u1, 1), u2)
           d == fe_add(fe_negate(s1, 1), s2)
           z == fe_mul(a.z, h)
           twice == gej_double_var(a)
<1>1. a.x \in FeOf(8) /\ a.y \in FeOf(8) /\ a.z \in FeOf(8)
  BY GejParts
<1>2. Moved(a, Difference(a, az, b)) = AddTail(u1, s1, h, d, h, z, twice)
  BY DEF Moved, Difference
<1>3. z12 \in FeOf(8)
  BY Factors
<1> HIDE DEF z12
<1>4. u1 \in FeOf(1) /\ s1 \in FeOf(1) /\ u2 \in FeOf(1) /\ fe_mul(b.y, z12) \in FeOf(8)
  BY <1>1, <1>3, NormalizeFits, Factors
<1>5. s2 \in FeOf(1)
  BY <1>4, Factors
<1> HIDE DEF u1, u2, s1, s2
<1>6. h \in FeOf(3) /\ d \in FeOf(3)
  BY <1>4, <1>5, NegatedFits
<1> HIDE DEF h, d
<1>7. h \in FeOf(8)
  BY <1>6, MoreFits
<1>8. z \in FeOf(8) /\ twice.r \in Gej
  BY <1>1, <1>7, Factors, DoubleFits
<1> HIDE DEF z, twice
<1>9. AddTail(u1, s1, h, d, h, z, twice).r \in Gej
  BY <1>4, <1>6, <1>8, TailFits
<1> QED
  BY <1>2, <1>9

LEMMA AddConstFits ==
  ASSUME Factor8, NEW a \in Gej, NEW b \in Ge
  PROVE  gej_add_ge(a, b) \in Gej
<1> DEFINE zz == fe_sqr(a.z)
           u1 == fe_normalize_weak(a.x)
           u2 == fe_mul(b.x, zz)
           s1 == fe_normalize_weak(a.y)
           s2 == fe_mul(fe_mul(b.y, zz), a.z)
           t == fe_add(u1, u2)
           m == fe_add(s1, s2)
           neg_u2 == fe_negate(u2, 1)
           rr == fe_add(fe_sqr(t), fe_mul(u1, neg_u2))
           degenerate == fe_normalizes_to_zero(m) /\ fe_normalizes_to_zero(rr)
           rr_alt == fe_cmov(fe_mul_int(s1, 2), rr, ~degenerate)
           m_alt == fe_cmov(fe_add(neg_u2, u1), m, ~degenerate)
           m_alt2 == fe_sqr(m_alt)
           q == fe_negate(fe_mul(m_alt2, t), 1)
           n == fe_cmov(fe_sqr(m_alt2), m, degenerate)
           z == fe_mul(a.z, m_alt)
           x3 == fe_normalize_weak(fe_add(fe_sqr(rr_alt), q))
           y3 == fe_add(fe_mul(fe_add(fe_mul_int(x3, 2), q), rr_alt), n)
           rx == fe_cmov(fe_mul_int(x3, 4), b.x, a.infinity)
           ry == fe_cmov(fe_mul_int(fe_normalize_weak(fe_negate(y3, 3)), 4), b.y, a.infinity)
           rz == fe_cmov(fe_mul_int(z, 2), One, a.infinity)
<1>1. /\ a.x \in FeOf(8) /\ a.y \in FeOf(8) /\ a.z \in FeOf(8) /\ a.infinity \in BOOLEAN
      /\ b.x \in FeOf(8) /\ b.y \in FeOf(8)
  BY GejParts, GeParts
<1>2. gej_add_ge(a, b) = [x |-> rx, y |-> ry, z |-> rz,
                          infinity |-> fe_normalizes_to_zero(z) /\ ~a.infinity]
  BY DEF gej_add_ge, ConstSum
<1>3. zz \in FeOf(8)
  BY <1>1, Factors
<1> HIDE DEF zz
<1>4. u1 \in FeOf(1) /\ s1 \in FeOf(1) /\ u2 \in FeOf(1) /\ fe_mul(b.y, zz) \in FeOf(8)
  BY <1>1, <1>3, NormalizeFits, Factors
<1>5. s2 \in FeOf(1)
  BY <1>1, <1>4, Factors
<1> HIDE DEF u1, u2, s1, s2
<1>6. t \in FeOf(2) /\ m \in FeOf(2) /\ neg_u2 \in FeOf(2) /\ fe_add(neg_u2, u1) \in FeOf(3)
  <2>1. t \in FeOf(1 + 1) /\ m \in FeOf(1 + 1)
    BY <1>4, <1>5, AddFits
  <2> QED
    BY <1>4, <2>1, NegatedFits
<1> HIDE DEF t, m, neg_u2
<1>7. u1 \in FeOf(8) /\ t \in FeOf(8) /\ m \in FeOf(3) /\ neg_u2 \in FeOf(8)
  BY <1>4, <1>6, MoreFits
<1>8. rr \in FeOf(2)
  <2>1. fe_sqr(t) \in FeOf(1) /\ fe_mul(u1, neg_u2) \in FeOf(1)
    BY <1>7, Factors
  <2>2. rr \in FeOf(1 + 1)
    BY <2>1, AddFits
  <2> QED
    BY <2>2
<1> HIDE DEF rr, degenerate
<1>9. rr_alt \in FeOf(2) /\ rr_alt \in FeOf(8)
  <2>1. fe_mul_int(s1, 2) \in FeOf(2)
    BY <1>4, MulIntFits
  <2>2. rr_alt \in FeOf(2)
    BY <1>8, <2>1, CmovFits
  <2> HIDE DEF rr_alt
  <2> QED
    BY <2>2, MoreFits
<1>10. m_alt \in FeOf(8)
  <2>1. m_alt \in FeOf(3)
    BY <1>6, <1>7, CmovFits
  <2> HIDE DEF m_alt
  <2> QED
    BY <2>1, MoreFits
<1> HIDE DEF rr_alt, m_alt
<1>11. m_alt2 \in FeOf(8) /\ z \in FeOf(1)
  BY <1>1, <1>10, Factors
<1> HIDE DEF m_alt2, z
<1>12. q \in FeOf(2)
  <2>1. fe_mul(m_alt2, t) \in FeOf(1)
    BY <1>7, <1>11, Factors
  <2> QED
    BY <2>1, NegatedFits
<1> HIDE DEF q
<1>13. n \in FeOf(2)
  <2>1. fe_sqr(m_alt2) \in FeOf(1)
    BY <1>11, Factors
  <2>2. fe_sqr(m_alt2) \in FeOf(2)
    BY <2>1, MoreFits
  <2> QED
    BY <1>6, <2>2, CmovFits
<1> HIDE DEF n
<1>14. x3 \in FeOf(1)
  <2>1. fe_sqr(rr_alt) \in FeOf(1)
    BY <1>9, Factors
  <2>2. fe_add(fe_sqr(rr_alt), q) \in FeOf(1 + 2)
    BY <1>12, <2>1, AddFits
  <2>3. fe_add(fe_sqr(rr_alt), q) \in FeOf(8)
    BY <2>2, MoreFits
  <2> QED
    BY <2>3, NormalizeFits
<1> HIDE DEF x3
<1>15. y3 \in FeOf(3)
  <2>1. fe_mul_int(x3, 2) \in FeOf(2)
    BY <1>14, MulIntFits
  <2>2. fe_add(fe_mul_int(x3, 2), q) \in FeOf(2 + 2)
    BY <1>12, <2>1, AddFits
  <2>3. fe_add(fe_mul_int(x3, 2), q) \in FeOf(8)
    BY <2>2, MoreFits
  <2>4. fe_mul(fe_add(fe_mul_int(x3, 2), q), rr_alt) \in FeOf(1)
    BY <1>9, <2>3, Factors
  <2>5. y3 \in FeOf(1 + 2)
    BY <1>13, <2>4, AddFits
  <2> QED
    BY <2>5
<1> HIDE DEF y3
<1>16. rx \in FeOf(8)
  <2>1. fe_mul_int(x3, 4) \in FeOf(4)
    BY <1>14, MulIntFits
  <2>2. fe_mul_int(x3, 4) \in FeOf(8)
    BY <2>1, MoreFits
  <2> QED
    BY <1>1, <2>2, CmovFits
<1>17. ry \in FeOf(8)
  <2>1. fe_negate(y3, 3) \in FeOf(3 + 1)
    BY <1>15, NegateFits
  <2>2. fe_negate(y3, 3) \in FeOf(8)
    BY <2>1, MoreFits
  <2> DEFINE w == fe_normalize_weak(fe_negate(y3, 3))
  <2>3. w \in FeOf(1)
    BY <2>2, NormalizeFits
  <2> HIDE DEF w
  <2>4. fe_mul_int(w, 4) \in FeOf(4)
    BY <2>3, MulIntFits
  <2>5. fe_mul_int(w, 4) \in FeOf(8)
    BY <2>4, MoreFits
  <2>6. fe_cmov(fe_mul_int(w, 4), b.y, a.infinity) \in FeOf(8)
    BY <1>1, <2>5, CmovFits
  <2> QED
    BY <2>6 DEF w
<1>18. rz \in FeOf(8)
  <2>1. fe_mul_int(z, 2) \in FeOf(2)
    BY <1>11, MulIntFits
  <2>2. fe_mul_int(z, 2) \in FeOf(8) /\ One \in FeOf(8)
    BY <2>1, SetIntFits, MoreFits
  <2> QED
    BY <2>2, CmovFits
<1> HIDE DEF rx, ry, rz
<1> QED
  BY <1>2, <1>16, <1>17, <1>18 DEF Gej

LEMMA NegFits ==
  ASSUME Factor8, NEW a \in Gej
  PROVE  gej_neg(a) \in Gej
<1> DEFINE y == fe_negate(fe_normalize_weak(a.y), 1)
<1>1. y \in FeOf(8)
  <2>1. fe_normalize_weak(a.y) \in FeOf(1)
    BY GejParts, NormalizeFits
  <2>2. y \in FeOf(2)
    BY <2>1, NegatedFits
  <2> HIDE DEF y
  <2> QED
    BY <2>2, MoreFits
<1>2. gej_neg(a) = [a EXCEPT !.y = y]
  BY DEF gej_neg
<1> HIDE DEF y
<1> QED
  BY <1>1, <1>2 DEF Gej

LEMMA ToAffineFits ==
  ASSUME Factor8, NEW a \in Gej
  PROVE  gej_set_ge(ge_set_gej_var(a)) \in Gej
<1>1. /\ a.x \in FeOf(8) /\ a.y \in FeOf(8) /\ a.infinity \in BOOLEAN
      /\ fe_inv(a.z) \in FeOf(8)
  BY GejParts, InvFits, MoreFits
<1>2. ge_set_gej_zinv(a, fe_inv(a.z)) \in Ge
  BY <1>1, ZinvFits
<1>3. ge_set_infinity \in Ge
  BY SetIntFits, MoreFits DEF ge_set_infinity, Ge
<1>4. ge_set_gej_var(a) \in Ge
  BY <1>2, <1>3 DEF ge_set_gej_var, ge_set_xy, Ge
<1> QED
  BY <1>4, ConstantPoints

-----------------------------------------------------------------------------
LEMMA JacobianFits ==
  ASSUME Factor8, NEW q \in Points, NEW z \in Int
  PROVE  Jacobian(q, z) \in Gej
<1>1. gej_set_ge(GeOf(q)) \in Gej /\ gej_set_infinity \in Gej
  BY ConstantPoints
<1> QED
  BY <1>1, RescaleFits DEF Jacobian

MagnitudesInv == Factor8 /\ acc \in Gej

LEMMA SumStep == Factor8 /\ acc \in Gej /\ [SumNext]_sumVars => acc' \in Gej
<1> SUFFICES ASSUME Factor8, acc \in Gej, [SumNext]_sumVars PROVE acc' \in Gej
  OBVIOUS
<1>1. Addends \subseteq Points /\ Scales \subseteq Int
  BY AddendsAssumption, PrimeType
<1>2. ASSUME NEW q \in Addends PROVE q \in Points /\ GeOf(q) \in Ge
  BY <1>1, ConstantPoints
<1>3. ASSUME Double PROVE acc' \in Gej
  BY <1>3, DoubleFits DEF Double
<1>4. ASSUME NEW q \in Addends, NEW z \in Scales, Add(q, z) PROVE acc' \in Gej
  <2>1. Jacobian(q, z) \in Gej
    BY <1>1, JacobianFits
  <2> QED
    BY <1>4, <2>1, AddVarFits DEF Add
<1>5. ASSUME NEW q \in Addends, AddAffine(q) PROVE acc' \in Gej
  <2>1. GeOf(q) \in Ge
    BY <1>2
  <2> DEFINE b == GeOf(q)
  <2>2. b.x \in FeOf(8) /\ b.y \in FeOf(8) /\ b.infinity \in BOOLEAN /\ gej_set_ge(b) \in Gej
    BY <2>1, GeParts, ConstantPoints
  <2>3. acc.z \in FeOf(8) /\ acc.infinity \in BOOLEAN
    BY GejParts
  <2>4. acc' = gej_add_ge_var(acc, b).r
    BY <1>5 DEF AddAffine
  <2> HIDE DEF b
  <2>5. Moved(acc, Difference(acc, acc.z, b)).r \in Gej
    BY <2>2, <2>3, MovedFits
  <2> QED
    BY <2>2, <2>3, <2>4, <2>5 DEF gej_add_ge_var
<1>6. ASSUME NEW q \in Addends, NEW z \in Scales, AddZinv(q, z) PROVE acc' \in Gej
  <2> DEFINE b == Jacobian(q, z)
             c == [x |-> b.x, y |-> b.y, infinity |-> b.infinity]
             zi == fe_inv(fe_set_int(z))
  <2>1. b \in Gej /\ zi \in FeOf(8)
    <3>1. fe_set_int(z) \in FeOf(8)
      BY <1>1, SetIntFits, MoreFits
    <3> QED
      BY <1>1, <3>1, JacobianFits, InvFits, MoreFits
  <2>2. acc' = gej_add_zinv_var(acc, c, zi)
    BY <1>6 DEF AddZinv
  <2> HIDE DEF b, zi
  <2>3. c.x \in FeOf(8) /\ c.y \in FeOf(8) /\ c.infinity \in BOOLEAN
    BY <2>1, GejParts
  <2>4. acc.z \in FeOf(8) /\ acc.infinity \in BOOLEAN
    BY GejParts
  <2> HIDE DEF c
  <2>5. fe_mul(acc.z, zi) \in FeOf(8)
    BY <2>1, <2>4, Factors
  <2>6. Moved(acc, Difference(acc, fe_mul(acc.z, zi), c)).r \in Gej
    BY <2>3, <2>5, MovedFits
  <2>7. gej_set_ge(ge_set_gej_zinv(c, zi)) \in Gej
    BY <2>1, <2>3, ZinvFits, ConstantPoints
  <2> QED
    BY <2>2, <2>3, <2>4, <2>6, <2>7 DEF gej_add_zinv_var
<1>7. ASSUME NEW q \in Addends, AddConst(q) PROVE acc' \in Gej
  BY <1>2, <1>7, AddConstFits DEF AddConst
<1>8. ASSUME Negate PROVE acc' \in Gej
  BY <1>8, NegFits DEF Negate
<1>9. ASSUME NEW z \in Scales, Rescale(z) PROVE acc' \in Gej
  BY <1>1, <1>9, RescaleFits DEF Rescale
<1>10. ASSUME ToAffine PROVE acc' \in Gej
  BY <1>10, ToAffineFits DEF ToAffine
<1>11. CASE UNCHANGED sumVars
  BY <1>11 DEF sumVars
<1> QED
  BY <1>3, <1>4, <1>5, <1>6, <1>7, <1>8, <1>9, <1>10, <1>11 DEF SumNext

\* For every curve and every point, and whatever order the operations of
\* group_impl.h have, no VERIFY_CHECK on a magnitude is broken: if a factor may
\* have a magnitude of 8, as in both fields, every operation takes what any
\* other leaves (group_impl.h:268-609).  The 8 is used up: gej_double
\* multiplies by a sum of 6 and 2.
THEOREM MagnitudesCorrect == Factor8 => (SumSpec => []MagnitudesHold)
<1>1. Factor8 /\ SumInit => MagnitudesInv
  BY ConstantPoints DEF SumInit, MagnitudesInv
<1>2. MagnitudesInv /\ [SumNext]_sumVars => MagnitudesInv'
  BY SumStep DEF MagnitudesInv, Factor8
<1>3. MagnitudesInv => MagnitudesHold
  <2> SUFFICES ASSUME Factor8, acc \in Gej, NEW a \in {acc.x, acc.y, acc.z} PROVE a.m <= MulMagnitude
    BY DEF MagnitudesHold, MagnitudesInv
  <2>1. a \in FeOf(8)
    BY GejParts
  <2>2. a.m \in 0..8
    BY <2>1, FeTypes
  <2> QED
    BY <2>2, Room8
<1> QED
  BY <1>1, <1>2, <1>3, PTL DEF SumSpec
=============================================================================
