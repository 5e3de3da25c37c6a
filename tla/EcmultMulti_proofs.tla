------------------------- MODULE EcmultMulti_proofs -------------------------
(***************************************************************************)
(* What ecmult_multi_var keeps for all sizes, alignments, spaces, numbers  *)
(* of points and limits of a batch: a sum that is returned is exact and    *)
(* its callback is called in order, a space that is used comes back as it  *)
(* was, and what max_points admits finds its memory.                       *)
(***************************************************************************)
EXTENDS EcmultMulti, Scratch_proofs

-----------------------------------------------------------------------------
(***************************************************************************)
(* Numbers.                                                                *)
(***************************************************************************)

\* A set of naturals below a bound has a greatest element.
LEMMA GreatestNumber ==
  ASSUME NEW b \in Nat, NEW S \in SUBSET (0..b), S # {}
  PROVE  Max(S) \in S /\ \A n \in S : n <= Max(S)
<1> DEFINE T == {b - n : n \in S}
<1>1. T \in SUBSET Nat /\ T # {}
  <2>1. \A n \in S : b - n \in Nat
    OBVIOUS
  <2> QED
    BY <2>1
<1>2. PICK t \in T : \A u \in T : t <= u
  BY <1>1, LeastNumber
<1>3. PICK m \in S : t = b - m
  OBVIOUS
<1>4. \A n \in S : m >= n
  <2> SUFFICES ASSUME NEW n \in S PROVE m >= n
    OBVIOUS
  <2>1. b - n \in T
    OBVIOUS
  <2>2. b - m <= b - n
    BY <1>2, <1>3, <2>1
  <2> QED
    BY <2>2
<1>5. Max(S) \in S /\ \A n \in S : Max(S) >= n
  BY <1>4 DEF Max
<1> QED
  BY <1>5

LEMMA PowerIsInt ==
  ASSUME NEW w \in Nat
  PROVE  2^w \in Int
  BY SMT

\* A number of batches of m points holds n points, and so do batches cut to
\* the average.
LEMMA Batches ==
  ASSUME NEW n \in Nat \ {0}, NEW m \in Nat \ {0}
  PROVE  LET b == 1 + (n - 1) \div m
             p == 1 + (n - 1) \div b
         IN  /\ b \in Nat \ {0}
             /\ p \in 1..m
             /\ n <= b * p
<1> DEFINE b == 1 + (n - 1) \div m
           p == 1 + (n - 1) \div b
<1>0. n - 1 \in Nat
  OBVIOUS
<1>1. /\ (n - 1) \div m \in Nat
      /\ n - 1 < ((n - 1) \div m) * m + m
  BY <1>0, Division
<1>2. b \in Nat \ {0}
  BY <1>1
<1>3. n - 1 < b * m
  <2>1. ((n - 1) \div m) * m + m = b * m
    <3> DEFINE q == (n - 1) \div m
    <3>1. q \in Nat
      BY <1>1
    <3> HIDE DEF q
    <3>2. q * m + m = (1 + q) * m
      BY <3>1
    <3> QED
      BY <3>2 DEF q
  <2> QED
    BY <1>1, <2>1
<1> HIDE DEF b
<1> DEFINE low == (n - 1) \div b
<1>4. /\ low \in Nat /\ low * b \in Nat
      /\ low * b <= n - 1
      /\ n - 1 < low * b + b
  BY <1>0, <1>2, Division
<1> HIDE DEF low
<1>5. low < m
  <2>1. low >= m => low * b >= m * b
    BY <1>2, <1>4
  <2>2. m * b = b * m
    BY <1>2
  <2>3. b * m \in Nat
    BY <1>2
  <2> QED
    BY <1>2, <1>3, <1>4, <2>1, <2>2, <2>3
<1>6. low * b + b = b * (1 + low)
  BY <1>2, <1>4
<1>7. n <= b * (1 + low)
  <2>1. b * (1 + low) \in Nat
    BY <1>2, <1>4
  <2> QED
    BY <1>2, <1>4, <1>6, <2>1
<1> QED
  BY <1>2, <1>4, <1>5, <1>7 DEF b, low

-----------------------------------------------------------------------------
(***************************************************************************)
(* What fits a space.                                                      *)
(***************************************************************************)

LEMMA Sizes ==
  /\ Sizeof.ge \in Nat \ {0} /\ Sizeof.gej \in Nat \ {0} /\ Sizeof.fe \in Nat \ {0}
  /\ Sizeof.scalar \in Nat \ {0} /\ Sizeof.int \in Nat \ {0}
  /\ Sizeof.strauss_point_state \in Nat \ {0}
  /\ Sizeof.pippenger_point_state \in Nat \ {0} /\ Sizeof.pippenger_state \in Nat \ {0}
  /\ TableSizeA \in Nat \ {0}
<1>1. \A x \in SizeNames : Sizeof[x] \in Nat \ {0}
  BY MultiAssumption
<1> QED
  BY <1>1, MultiAssumption DEF SizeNames

LEMMA StraussSize ==
  /\ strauss_scratch_size(1) \in Nat \ {0}
  /\ strauss_scratch_size(1) =
       (2 * Sizeof.ge + Sizeof.gej + Sizeof.fe) * TableSizeA
       + Sizeof.strauss_point_state + Sizeof.gej + Sizeof.scalar
<1> DEFINE t == (2 * Sizeof.ge + Sizeof.gej + Sizeof.fe) * TableSizeA
<1>1. t \in Nat
  BY Sizes
<1> HIDE DEF t
<1>2. strauss_scratch_size(1) = 1 * (t + Sizeof.strauss_point_state + Sizeof.gej + Sizeof.scalar)
  BY DEF strauss_scratch_size, t
<1> DEFINE x == t + Sizeof.strauss_point_state + Sizeof.gej + Sizeof.scalar
<1>3. x \in Nat \ {0}
  BY <1>1, Sizes
<1> HIDE DEF x
<1>4. 1 * x = x
  BY <1>3
<1> QED
  BY <1>2, <1>3, <1>4 DEF t, x

LEMMA StraussMax ==
  ASSUME NEW sc, Usable(sc)
  PROVE  /\ strauss_max_points(sc) \in Nat
         /\ strauss_max_points(sc) * strauss_scratch_size(1) <= scratch_max_allocation(sc, StraussObjects)
<1>1. scratch_max_allocation(sc, StraussObjects) \in Nat
  BY MaxAllocation, MultiAssumption
<1> QED
  BY <1>1, StraussSize, Division DEF strauss_max_points

LEMMA WnafSize ==
  ASSUME NEW w \in Nat \ {0}
  PROVE  WNAF_SIZE(w) \in Nat
<1>1. WnafBits + w - 1 \in Nat
  BY MultiAssumption
<1> QED
  BY <1>1, Division DEF WNAF_SIZE

LEMMA EntrySize ==
  ASSUME NEW w \in Nat
  PROVE  entry_size(w) \in Nat \ {0}
<1>1. WNAF_SIZE(w + 1) \in Nat
  BY WnafSize
<1>2. (WNAF_SIZE(w + 1) + 1) * Sizeof.int \in Nat
  BY <1>1, Sizes
<1> DEFINE k == (WNAF_SIZE(w + 1) + 1) * Sizeof.int
           x == Sizeof.ge + Sizeof.scalar + Sizeof.pippenger_point_state + k
<1>3. entry_size(w) = 2 * x
  BY DEF entry_size
<1>4. k \in Nat
  BY <1>2
<1> HIDE DEF k
<1>5. x \in Nat \ {0}
  <2>1. Sizeof.ge \in Nat \ {0} /\ Sizeof.scalar \in Nat /\ Sizeof.pippenger_point_state \in Nat
    BY Sizes
  <2> QED
    BY <1>4, <2>1, SMTT(30)
<1> HIDE DEF x
<1> QED
  BY <1>3, <1>5

LEMMA Overhead ==
  ASSUME NEW w \in Nat
  PROVE  space_overhead(w) \in Int
<1>1. Sizeof.gej * 2^w \in Int
  BY PowerIsInt, Sizes
<1> QED
  BY <1>1, EntrySize, Sizes DEF space_overhead

LEMMA Limits ==
  /\ WindowLimits[1] = 1 /\ WindowLimits[2] = 4 /\ WindowLimits[3] = 20 /\ WindowLimits[4] = 57
  /\ WindowLimits[5] = 136 /\ WindowLimits[6] = 235 /\ WindowLimits[7] = 1260
  /\ WindowLimits[8] = 1260 /\ WindowLimits[9] = 4420 /\ WindowLimits[10] = 7880
  /\ WindowLimits[11] = 16050
  BY DEF WindowLimits

LEMMA LimitBounds ==
  ASSUME NEW w \in 1..11
  PROVE  WindowLimits[w] \in Nat /\ WindowLimits[w] <= 16050
<1>1. \/ w = 1 \/ w = 2 \/ w = 3 \/ w = 4 \/ w = 5 \/ w = 6
      \/ w = 7 \/ w = 8 \/ w = 9 \/ w = 10 \/ w = 11
  OBVIOUS
<1> QED
  BY <1>1, Limits

LEMMA WindowInv ==
  ASSUME NEW w \in Nat
  PROVE  pippenger_bucket_window_inv(w) \in 0..(SizeMax + 16050)
<1>1. SizeMax \in Nat
  BY WidthAssumption
<1>2. CASE w = PippengerMaxWindow
  BY <1>1, <1>2 DEF pippenger_bucket_window_inv
<1>3. CASE w # PippengerMaxWindow /\ w \in 1..11
  <2>1. WindowLimits[w] \in Nat /\ WindowLimits[w] <= 16050
    BY <1>3, LimitBounds
  <2> QED
    BY <1>1, <1>3, <2>1 DEF pippenger_bucket_window_inv
<1>4. CASE w # PippengerMaxWindow /\ w \notin 1..11
  BY <1>1, <1>4 DEF pippenger_bucket_window_inv
<1> QED
  BY <1>2, <1>3, <1>4

\* A window that is tried has room for what its overhead leaves.
LEMMA WindowPoints ==
  ASSUME NEW max_alloc \in Nat, NEW w \in Nat, space_overhead(w) <= max_alloc
  PROVE  LET fit == (max_alloc - space_overhead(w)) \div entry_size(w)
             pts == window_points(w, max_alloc)
         IN  /\ fit \in Nat
             /\ fit * entry_size(w) + space_overhead(w) <= max_alloc
             /\ pts \in 0..(SizeMax + 16050)
             /\ pts <= fit /\ pts <= pippenger_bucket_window_inv(w)
<1> DEFINE fit == (max_alloc - space_overhead(w)) \div entry_size(w)
<1>1. max_alloc - space_overhead(w) \in Nat /\ space_overhead(w) \in Int
  BY Overhead
<1>2. /\ fit \in Nat /\ fit * entry_size(w) \in Nat
      /\ fit * entry_size(w) <= max_alloc - space_overhead(w)
  BY <1>1, EntrySize, Division
<1>3. window_points(w, max_alloc) = LesserOf(fit, pippenger_bucket_window_inv(w))
  BY DEF window_points
<1> HIDE DEF fit
<1>4. pippenger_bucket_window_inv(w) \in 0..(SizeMax + 16050) /\ SizeMax \in Nat
  BY WindowInv, WidthAssumption
<1>5. /\ window_points(w, max_alloc) \in 0..(SizeMax + 16050)
      /\ window_points(w, max_alloc) <= fit
      /\ window_points(w, max_alloc) <= pippenger_bucket_window_inv(w)
  BY <1>2, <1>3, <1>4 DEF LesserOf
<1> QED
  BY <1>1, <1>2, <1>5 DEF fit

LEMMA Tried ==
  ASSUME NEW max_alloc, NEW w \in windows_tried(max_alloc)
  PROVE  /\ w \in 1..PippengerMaxWindow /\ w \in Nat
         /\ \A v \in 1..w : space_overhead(v) <= max_alloc
         /\ \A v \in 1..(w-1) : window_points(v, max_alloc) = pippenger_bucket_window_inv(v)
         /\ space_overhead(w) <= max_alloc
  BY MultiAssumption DEF windows_tried

LEMMA PippengerMax ==
  ASSUME NEW sc, Usable(sc)
  PROVE  LET max_alloc == scratch_max_allocation(sc, PippengerObjects)
             most == pippenger_max_points(sc)
         IN  /\ max_alloc \in Nat /\ most \in Nat
             /\ most # 0 => \E w \in windows_tried(max_alloc) : most = window_points(w, max_alloc)
<1> DEFINE max_alloc == scratch_max_allocation(sc, PippengerObjects)
           S == {0} \cup {window_points(w, max_alloc) : w \in windows_tried(max_alloc)}
<1>1. max_alloc \in Nat
  BY MaxAllocation, MultiAssumption
<1>2. pippenger_max_points(sc) = Max(S)
  BY DEF pippenger_max_points
<1> HIDE DEF max_alloc
<1>3. SizeMax + 16050 \in Nat
  BY WidthAssumption
<1>4. S \in SUBSET (0..(SizeMax + 16050)) /\ S # {}
  <2>1. \A w \in windows_tried(max_alloc) : window_points(w, max_alloc) \in 0..(SizeMax + 16050)
    BY <1>1, Tried, WindowPoints
  <2>2. 0 \in 0..(SizeMax + 16050) /\ 0 \in S
    BY <1>3
  <2>3. S # {}
    BY <2>2
  <2> QED
    BY <2>1, <2>2, <2>3
<1>5. Max(S) \in S
  <2> DEFINE b == SizeMax + 16050
  <2> HIDE DEF S, b
  <2>1. b \in Nat /\ S \in SUBSET (0..b) /\ S # {}
    BY <1>3, <1>4 DEF b
  <2> QED
    BY <2>1, GreatestNumber
<1> QED
  BY <1>1, <1>2, <1>3, <1>4, <1>5 DEF max_alloc

-----------------------------------------------------------------------------
(***************************************************************************)
(* The plan of a sum.                                                      *)
(***************************************************************************)

\* The batches of a plan hold all points, and each fits what was found to fit.
PlanFits(sc, n, p) ==
  /\ p.alg \in {"simple", "strauss", "pippenger"}
  /\ p.n_batches \in Nat \ {0} /\ p.n_batch_points \in Nat \ {0}
  /\ n <= p.n_batches * p.n_batch_points
  /\ sc = NULL => p.alg = "simple"
  /\ p.alg = "strauss" => p.n_batch_points <= strauss_max_points(sc)
  /\ p.alg = "pippenger" => p.n_batch_points <= pippenger_max_points(sc)

LEMMA BatchSizes ==
  ASSUME NEW most \in Nat, NEW n \in Nat \ {0}
  PROVE  LET b == multi_batch_size_helper(most, n)
         IN  \/ b.n_batches = 0
             \/ /\ b.n_batches \in Nat \ {0} /\ b.n_batch_points \in Nat \ {0}
                /\ n <= b.n_batches * b.n_batch_points
                /\ b.n_batch_points <= most
<1> DEFINE m == LesserOf(most, MaxPointsPerBatch)
<1>1. m \in Nat /\ m <= most
  BY MultiAssumption DEF LesserOf
<1>2. CASE m = 0
  BY <1>2 DEF multi_batch_size_helper
<1>3. CASE m # 0
  <2> DEFINE nb == 1 + (n - 1) \div m
             np == 1 + (n - 1) \div nb
  <2>1. multi_batch_size_helper(most, n) = [n_batches |-> nb, n_batch_points |-> np]
    BY <1>3 DEF multi_batch_size_helper
  <2> HIDE DEF m
  <2>2. /\ nb \in Nat \ {0} /\ np \in 1..m /\ n <= nb * np
    BY <1>1, <1>3, Batches
  <2> HIDE DEF nb, np
  <2>3. np \in Nat \ {0} /\ np <= most
    BY <1>1, <2>2
  <2> QED
    BY <2>1, <2>2, <2>3
<1> QED
  BY <1>2, <1>3

LEMMA Plans ==
  ASSUME NEW sc, sc = NULL \/ Usable(sc), NEW n \in Nat \ {0}
  PROVE  PlanFits(sc, n, multi_plan(sc, n))
<1> DEFINE p == multi_batch_size_helper(pippenger_max_points(sc), n)
           s == multi_batch_size_helper(strauss_max_points(sc), n)
           simple == [alg |-> "simple", n_batches |-> 1, n_batch_points |-> n]
           pip == [alg |-> "pippenger", n_batches |-> p.n_batches, n_batch_points |-> p.n_batch_points]
           str == [alg |-> "strauss", n_batches |-> s.n_batches, n_batch_points |-> s.n_batch_points]
<1>1. PlanFits(sc, n, simple)
  BY DEF PlanFits
<1>2. CASE sc = NULL
  <2>1. multi_plan(sc, n) = simple
    BY <1>2 DEF multi_plan
  <2> QED
    BY <1>1, <2>1
<1>3. CASE sc # NULL
  <2>1. Usable(sc) /\ pippenger_max_points(sc) \in Nat /\ strauss_max_points(sc) \in Nat
    BY <1>3, PippengerMax, StraussMax
  <2>2. p.n_batches # 0 => PlanFits(sc, n, pip)
    BY <1>3, <2>1, BatchSizes DEF PlanFits
  <2>3. s.n_batches # 0 => PlanFits(sc, n, str)
    BY <1>3, <2>1, BatchSizes DEF PlanFits
  <2>4. \/ multi_plan(sc, n) = simple
        \/ p.n_batches # 0 /\ multi_plan(sc, n) = pip
        \/ s.n_batches # 0 /\ multi_plan(sc, n) = str
    <3> HIDE DEF p, s
    <3>1. multi_plan(sc, n) =
            CASE sc = NULL -> simple
              [] sc # NULL /\ p.n_batches = 0 -> simple
              [] sc # NULL /\ p.n_batches # 0 /\ p.n_batch_points >= PippengerThreshold -> pip
              [] OTHER -> IF s.n_batches = 0 THEN simple ELSE str
      BY DEF multi_plan, p, s
    <3> HIDE DEF simple, pip, str
    <3>2. CASE p.n_batches = 0
      BY <1>3, <3>1, <3>2
    <3>3. CASE p.n_batches # 0 /\ p.n_batch_points >= PippengerThreshold
      BY <1>3, <3>1, <3>3
    <3>4. CASE p.n_batches # 0 /\ ~(p.n_batch_points >= PippengerThreshold)
      BY <1>3, <3>1, <3>4
    <3> QED
      BY <3>2, <3>3, <3>4
  <2> QED
    BY <1>1, <2>2, <2>3, <2>4
<1> QED
  BY <1>2, <1>3

-----------------------------------------------------------------------------
(***************************************************************************)
(* The objects of a batch.                                                 *)
(***************************************************************************)

\* What the rounding of an object may take.
Waste(size) == IF Aligned(size) THEN 0 ELSE Alignment - 1

\* An allocation that has been served so far and has taken at most b.
Within(a, sc, b) ==
  a.ok /\ \E u \in Nat : /\ a.sc = [sc EXCEPT !.alloc_size = u]
                         /\ sc.alloc_size <= u /\ u <= sc.alloc_size + b

LEMMA WasteBounds ==
  ASSUME NEW size \in Nat
  PROVE  Waste(size) \in Nat /\ Waste(size) <= Alignment - 1
  BY WidthAssumption DEF Waste

LEMMA Nothing ==
  ASSUME NEW sc, Usable(sc)
  PROVE  Within(First(sc), sc, 0)
<1>1. sc = [sc EXCEPT !.alloc_size = sc.alloc_size] /\ sc.alloc_size \in Nat
  BY DEF Usable, Space
<1> QED
  BY <1>1 DEF Within, First

LEMMA OneMoreWithin ==
  ASSUME NEW sc, Usable(sc), NEW a, NEW b \in Nat, Within(a, sc, b),
         NEW size \in Nat, size + (Alignment - 1) <= SizeMax,
         b + size + Waste(size) <= sc.max_size - sc.alloc_size
  PROVE  Within(Then(a, size), sc, b + size + Waste(size))
<1>1. PICK u \in Nat : /\ a.sc = [sc EXCEPT !.alloc_size = u]
                       /\ sc.alloc_size <= u /\ u <= sc.alloc_size + b
  BY DEF Within
<1>2. a.ok
  BY DEF Within
<1>3. /\ sc \in Space /\ sc.valid /\ sc.max_size \in Nat /\ sc.alloc_size \in Nat
      /\ sc.max_size <= SizeMax /\ SizeMax \in Nat
  BY WidthAssumption, Left DEF Usable
<1>4. Waste(size) \in Nat
  BY WasteBounds
<1>5. u <= sc.max_size
  BY <1>1, <1>3, <1>4
<1>6. /\ a.sc \in Space /\ a.sc.valid /\ a.sc.alloc_size = u /\ a.sc.max_size = sc.max_size
  BY <1>1, <1>3 DEF Space
<1>7. Usable(a.sc)
  BY <1>3, <1>5, <1>6 DEF Usable
<1> DEFINE r0 == round_to_align(size)
<1>8. r0 \in Nat /\ r0 <= size + Waste(size)
  BY RoundUp, WidthAssumption DEF Waste
<1>9. r0 <= a.sc.max_size - a.sc.alloc_size
  BY <1>1, <1>3, <1>4, <1>6, <1>8
<1>10. /\ CanAlloc(a.sc, size)
       /\ scratch_alloc(a.sc, size).sc = [a.sc EXCEPT !.alloc_size = a.sc.alloc_size + r0]
  BY <1>7, <1>9, Allocation
<1> HIDE DEF r0
<1>11. scratch_alloc(a.sc, size).sc = [sc EXCEPT !.alloc_size = u + r0]
  <2>1. [[sc EXCEPT !.alloc_size = u] EXCEPT !.alloc_size = u + r0] = [sc EXCEPT !.alloc_size = u + r0]
    BY <1>3 DEF Space
  <2> QED
    BY <1>1, <1>6, <1>10, <2>1
<1>12. u + r0 \in Nat /\ sc.alloc_size <= u + r0 /\ u + r0 <= sc.alloc_size + (b + size + Waste(size))
  BY <1>1, <1>3, <1>4, <1>8
<1>13. Then(a, size).ok /\ Then(a, size).sc = [sc EXCEPT !.alloc_size = u + r0]
  BY <1>2, <1>10, <1>11 DEF Then
<1> QED
  BY <1>12, <1>13 DEF Within

LEMMA WithinMore ==
  ASSUME NEW sc, Usable(sc), NEW a, NEW b \in Nat, NEW c \in Nat, b <= c, Within(a, sc, b)
  PROVE  Within(a, sc, c)
<1>1. PICK u \in Nat : /\ a.sc = [sc EXCEPT !.alloc_size = u]
                       /\ sc.alloc_size <= u /\ u <= sc.alloc_size + b
  BY DEF Within
<1>2. sc.alloc_size \in Nat
  BY Left
<1> QED
  BY <1>1, <1>2 DEF Within

\* A multiple of a multiple of the alignment is one.
LEMMA MultipleAligned ==
  ASSUME NEW n \in Nat, NEW s \in Nat, Aligned(s)
  PROVE  Aligned(n * s)
<1>1. Alignment \in Nat \ {0}
  BY WidthAssumption
<1>2. PICK k \in Nat : s = k * Alignment
  BY <1>1, MultipleOf DEF Aligned
<1>3. n * s = (n * k) * Alignment
  BY <1>1, <1>2
<1>4. n * k \in Nat
  OBVIOUS
<1> QED
  BY <1>1, <1>3, <1>4, Multiples DEF Aligned

\* strauss_batch allocates seven objects, and STRAUSS_SCRATCH_OBJECTS
\* (ecmult_impl.h:71) counts six: the rounding of one of them must take
\* nothing.  A scalar has 32 bytes and eight points have a multiple of 64.
OneIsAligned ==
  \E size \in {Sizeof.gej, Sizeof.scalar, TableSizeA * Sizeof.gej, TableSizeA * Sizeof.fe,
               TableSizeA * Sizeof.ge, Sizeof.strauss_point_state} : Aligned(size)

LEMMA StraussTotal ==
  ASSUME NEW n \in Nat
  PROVE  n * strauss_scratch_size(1) =
           n * Sizeof.gej + n * Sizeof.scalar
           + n * TableSizeA * Sizeof.gej + n * TableSizeA * Sizeof.fe
           + n * TableSizeA * Sizeof.ge + n * TableSizeA * Sizeof.ge
           + n * Sizeof.strauss_point_state
<1>1. ASSUME NEW t \in Nat, NEW ge \in Nat, NEW gej \in Nat, NEW fe \in Nat,
             NEW scalar \in Nat, NEW state \in Nat
      PROVE  n * ((2 * ge + gej + fe) * t + state + gej + scalar) =
               n * gej + n * scalar + n * t * gej + n * t * fe + n * t * ge + n * t * ge + n * state
  BY <1>1
<1> QED
  BY <1>1, StraussSize, Sizes

LEMMA StraussServed ==
  ASSUME StraussObjects = 6, OneIsAligned,
         NEW sc, Usable(sc), NEW n \in Nat,
         n <= strauss_max_points(sc), strauss_max_points(sc) # 0
  PROVE  Within(strauss_allocs(sc, n), sc, sc.max_size - sc.alloc_size)
<1> DEFINE room == sc.max_size - sc.alloc_size
           d == Alignment - 1
           s1 == n * Sizeof.gej
           s2 == n * Sizeof.scalar
           s3 == n * TableSizeA * Sizeof.gej
           s4 == n * TableSizeA * Sizeof.fe
           s5 == n * TableSizeA * Sizeof.ge
           s6 == n * Sizeof.strauss_point_state
           b1 == 0 + s1 + Waste(s1)
           b2 == b1 + s2 + Waste(s2)
           b3 == b2 + s3 + Waste(s3)
           b4 == b3 + s4 + Waste(s4)
           b5 == b4 + s5 + Waste(s5)
           b6 == b5 + s5 + Waste(s5)
           b7 == b6 + s6 + Waste(s6)
<1>1. d \in Nat /\ SizeMax \in Nat /\ room \in Nat /\ room <= SizeMax
  BY WidthAssumption, Left
<1>2. /\ s1 \in Nat /\ s2 \in Nat /\ s3 \in Nat /\ s4 \in Nat /\ s5 \in Nat /\ s6 \in Nat
  BY Sizes
<1>3. s1 + s2 + s3 + s4 + s5 + s5 + s6 + 6 * d <= room
  <2> DEFINE m == scratch_max_allocation(sc, StraussObjects)
             size == strauss_scratch_size(1)
             max == strauss_max_points(sc)
  <2>1. size \in Nat \ {0} /\ max \in Nat /\ max * size <= m
    BY StraussSize, StraussMax
  <2>2. m \in Nat /\ (m # 0 => m + 6 * d = room)
    BY MaxAllocation
  <2>3. n * size = s1 + s2 + s3 + s4 + s5 + s5 + s6
    BY StraussTotal
  <2> HIDE DEF m, size, max, d, room, s1, s2, s3, s4, s5, s6
  <2>4. n * size <= max * size /\ max * size # 0
    <3>1. max # 0 /\ n <= max
      BY DEF max
    <3> QED
      BY <2>1, <3>1
  <2>5. n * size \in Nat /\ max * size \in Nat
    BY <2>1
  <2>6. n * size <= m /\ m # 0
    BY <2>1, <2>2, <2>4, <2>5
  <2>7. n * size + 6 * d <= room
    BY <1>1, <2>2, <2>5, <2>6
  <2> QED
    BY <2>3, <2>7
<1>4. /\ Waste(s1) \in Nat /\ Waste(s1) <= d /\ Waste(s2) \in Nat /\ Waste(s2) <= d
      /\ Waste(s3) \in Nat /\ Waste(s3) <= d /\ Waste(s4) \in Nat /\ Waste(s4) <= d
      /\ Waste(s5) \in Nat /\ Waste(s5) <= d /\ Waste(s6) \in Nat /\ Waste(s6) <= d
  BY <1>2, WasteBounds
<1>5. \/ Waste(s1) = 0 \/ Waste(s2) = 0 \/ Waste(s3) = 0
      \/ Waste(s4) = 0 \/ Waste(s5) = 0 \/ Waste(s6) = 0
  <2>1. /\ s3 = n * (TableSizeA * Sizeof.gej)
        /\ s4 = n * (TableSizeA * Sizeof.fe)
        /\ s5 = n * (TableSizeA * Sizeof.ge)
    BY Sizes
  <2>2. /\ TableSizeA * Sizeof.gej \in Nat /\ TableSizeA * Sizeof.fe \in Nat
        /\ TableSizeA * Sizeof.ge \in Nat
    BY Sizes
  <2>3. \/ Aligned(s1) \/ Aligned(s2) \/ Aligned(s3) \/ Aligned(s4) \/ Aligned(s5) \/ Aligned(s6)
    BY <2>1, <2>2, Sizes, MultipleAligned DEF OneIsAligned
  <2> QED
    BY <2>3 DEF Waste
<1> HIDE DEF s1, s2, s3, s4, s5, s6, d, room
<1>6. /\ b1 \in Nat /\ b2 \in Nat /\ b3 \in Nat /\ b4 \in Nat /\ b5 \in Nat /\ b6 \in Nat /\ b7 \in Nat
      /\ b1 <= b2 /\ b2 <= b3 /\ b3 <= b4 /\ b4 <= b5 /\ b5 <= b6 /\ b6 <= b7
  BY <1>2, <1>4
<1>7. b7 <= room
  <2> DEFINE w == Waste(s1) + Waste(s2) + Waste(s3) + Waste(s4) + Waste(s5) + Waste(s5) + Waste(s6)
  <2>1. w \in Nat /\ w <= 6 * d
    BY <1>1, <1>4, <1>5
  <2>2. b7 = s1 + s2 + s3 + s4 + s5 + s5 + s6 + w
    <3> DEFINE w1 == Waste(s1) w2 == Waste(s2) w3 == Waste(s3) w4 == Waste(s4) w5 == Waste(s5) w6 == Waste(s6)
    <3>1. w1 \in Nat /\ w2 \in Nat /\ w3 \in Nat /\ w4 \in Nat /\ w5 \in Nat /\ w6 \in Nat
      BY <1>4
    <3> HIDE DEF w1, w2, w3, w4, w5, w6
    <3>2. 0 + s1 + w1 + s2 + w2 + s3 + w3 + s4 + w4 + s5 + w5 + s5 + w5 + s6 + w6 =
            s1 + s2 + s3 + s4 + s5 + s5 + s6 + (w1 + w2 + w3 + w4 + w5 + w5 + w6)
      BY <1>2, <3>1
    <3> QED
      BY <3>2 DEF w1, w2, w3, w4, w5, w6
  <2> HIDE DEF w, b7
  <2> QED
    BY <1>1, <1>2, <1>3, <2>1, <2>2
<1>8. /\ s1 + d <= SizeMax /\ s2 + d <= SizeMax /\ s3 + d <= SizeMax
      /\ s4 + d <= SizeMax /\ s5 + d <= SizeMax /\ s6 + d <= SizeMax
  BY <1>1, <1>2, <1>3
<1> DEFINE a1 == Then(First(sc), s1)
           a2 == Then(a1, s2)
           a3 == Then(a2, s3)
           a4 == Then(a3, s4)
           a5 == Then(a4, s5)
           a6 == Then(a5, s5)
           a7 == Then(a6, s6)
<1>9. strauss_allocs(sc, n) = a7
  BY DEF strauss_allocs, s1, s2, s3, s4, s5, s6
<1>10. ASSUME NEW a, NEW b \in Nat, NEW size \in Nat, Within(a, sc, b),
              size + d <= SizeMax, b + size + Waste(size) <= room
       PROVE  Within(Then(a, size), sc, b + size + Waste(size))
  BY <1>10, OneMoreWithin DEF d, room
<1> HIDE DEF a1, a2, a3, a4, a5, a6, a7, b1, b2, b3, b4, b5, b6, b7
<1>11. Within(a1, sc, b1)
  <2>1. 0 + s1 + Waste(s1) <= room
    BY <1>1, <1>6, <1>7 DEF b1
  <2> QED
    BY <1>2, <1>8, <1>10, <2>1, Nothing DEF a1, b1
<1>12. Within(a2, sc, b2)
  <2>1. b1 + s2 + Waste(s2) <= room
    BY <1>1, <1>6, <1>7 DEF b2
  <2> QED
    BY <1>2, <1>6, <1>8, <1>10, <1>11, <2>1 DEF a2, b2
<1>13. Within(a3, sc, b3)
  <2>1. b2 + s3 + Waste(s3) <= room
    BY <1>1, <1>6, <1>7 DEF b3
  <2> QED
    BY <1>2, <1>6, <1>8, <1>10, <1>12, <2>1 DEF a3, b3
<1>14. Within(a4, sc, b4)
  <2>1. b3 + s4 + Waste(s4) <= room
    BY <1>1, <1>6, <1>7 DEF b4
  <2> QED
    BY <1>2, <1>6, <1>8, <1>10, <1>13, <2>1 DEF a4, b4
<1>15. Within(a5, sc, b5)
  <2>1. b4 + s5 + Waste(s5) <= room
    BY <1>1, <1>6, <1>7 DEF b5
  <2> QED
    BY <1>2, <1>6, <1>8, <1>10, <1>14, <2>1 DEF a5, b5
<1>16. Within(a6, sc, b6)
  <2>1. b5 + s5 + Waste(s5) <= room
    BY <1>1, <1>6, <1>7 DEF b6
  <2> QED
    BY <1>2, <1>6, <1>8, <1>10, <1>15, <2>1 DEF a6, b6
<1>17. Within(a7, sc, b7)
  <2>1. b6 + s6 + Waste(s6) <= room
    BY <1>1, <1>6, <1>7 DEF b7
  <2> QED
    BY <1>2, <1>6, <1>8, <1>10, <1>16, <2>1 DEF a7, b7
<1>18. Within(a7, sc, room)
  BY <1>1, <1>6, <1>7, <1>17, WithinMore
<1> QED
  BY <1>9, <1>18 DEF room

\* The window of few points is the first one they are within the limit of.
LEMMA SmallWindow ==
  ASSUME NEW n \in Nat, ~(n > 16050)
  PROVE  LET c == pippenger_bucket_window(n)
         IN  /\ c \in 1..11
             /\ n <= WindowLimits[c] /\ \A v \in 1..(c-1) : WindowLimits[v] < n
<1> DEFINE S == {w \in 1..11 : n <= WindowLimits[w]}
<1>1. S \in SUBSET Nat /\ 11 \in S
  BY Limits
<1> HIDE DEF S
<1>2. PICK w \in S : \A v \in S : w <= v
  BY <1>1, LeastNumber
<1>3. w \in 1..11 /\ n <= WindowLimits[w]
  BY <1>2 DEF S
<1>4. ASSUME NEW v \in 1..(w-1) PROVE WindowLimits[v] < n
  <2>1. v \in 1..11 /\ v < w
    BY <1>3
  <2>2. v \notin S
    BY <1>2, <1>3, <2>1
  <2>3. ~(n <= WindowLimits[v])
    BY <2>1, <2>2 DEF S
  <2> QED
    BY <2>1, <2>3, LimitBounds
<1> DEFINE P(x) == n <= WindowLimits[x] /\ \A v \in 1..(x-1) : WindowLimits[v] < n
           c == CHOOSE x \in 1..11 : P(x)
<1>5. P(w)
  BY <1>3, <1>4
<1> HIDE DEF P
<1>6. c \in 1..11 /\ P(c)
  BY <1>3, <1>5
<1>7. pippenger_bucket_window(n) = c
  BY DEF pippenger_bucket_window, P
<1> HIDE DEF c
<1> QED
  BY <1>6, <1>7 DEF P

LEMMA WindowNat ==
  ASSUME NEW n \in Nat
  PROVE  pippenger_bucket_window(n) \in Nat
<1>1. CASE n > 16050
  BY <1>1, MultiAssumption DEF pippenger_bucket_window
<1>2. CASE ~(n > 16050)
  BY <1>2, SmallWindow
<1> QED
  BY <1>1, <1>2

\* It is no larger than any window that they are within the limit of.
LEMMA Window ==
  ASSUME PippengerMaxWindow = 12, NEW n \in Nat
  PROVE  LET w == pippenger_bucket_window(n)
         IN  /\ w \in 1..12
             /\ \A v \in 1..12 : n <= pippenger_bucket_window_inv(v) => w <= v \/ v = 12
             /\ w # 12 => n <= pippenger_bucket_window_inv(w)
<1>1. CASE n > 16050
  <2>1. pippenger_bucket_window(n) = 12
    BY <1>1 DEF pippenger_bucket_window
  <2>2. ASSUME NEW v \in 1..12, n <= pippenger_bucket_window_inv(v) PROVE v = 12
    <3> SUFFICES ASSUME v # 12 PROVE FALSE
      OBVIOUS
    <3>1. v \in 1..11
      OBVIOUS
    <3>2. pippenger_bucket_window_inv(v) = WindowLimits[v]
      BY <3>1 DEF pippenger_bucket_window_inv
    <3>3. WindowLimits[v] \in Nat /\ WindowLimits[v] <= 16050
      BY <3>1, LimitBounds
    <3> QED
      BY <1>1, <2>2, <3>2, <3>3
  <2> QED
    BY <2>1, <2>2
<1>2. CASE ~(n > 16050)
  <2> DEFINE c == pippenger_bucket_window(n)
  <2>1. c \in 1..11
    BY <1>2, SmallWindow
  <2>2. n <= WindowLimits[c] /\ \A v \in 1..(c-1) : WindowLimits[v] < n
    BY <1>2, SmallWindow
  <2> HIDE DEF c
  <2>3. pippenger_bucket_window_inv(c) = WindowLimits[c]
    <3>1. c # 12
      BY <2>1
    <3> QED
      BY <2>1, <3>1 DEF pippenger_bucket_window_inv
  <2>4. ASSUME NEW v \in 1..12, n <= pippenger_bucket_window_inv(v), v # 12 PROVE c <= v
    <3>1. v \in 1..11
      BY <2>4
    <3>2. pippenger_bucket_window_inv(v) = WindowLimits[v] /\ WindowLimits[v] \in Nat
      BY <2>4, <3>1, LimitBounds DEF pippenger_bucket_window_inv
    <3>3. ~(v \in 1..(c-1))
      BY <2>2, <2>4, <3>2
    <3> QED
      BY <2>1, <3>1, <3>3
  <2>5. c \in 1..12
    BY <2>1
  <2> QED
    BY <2>2, <2>3, <2>4, <2>5 DEF c
<1> QED
  BY <1>1, <1>2

\* What pippenger_max_points ensures (ecmult_impl.h:948-949): a number of
\* points fits in the window that is chosen for it, also when fewer points
\* choose a smaller window.
LEMMA WindowFits ==
  ASSUME PippengerMaxWindow = 12, NEW sc, Usable(sc), NEW n \in Nat,
         n <= pippenger_max_points(sc), pippenger_max_points(sc) # 0
  PROVE  LET w == pippenger_bucket_window(n)
         IN  /\ w \in 1..12
             /\ n * entry_size(w) + space_overhead(w) <= scratch_max_allocation(sc, PippengerObjects)
<1> DEFINE m == scratch_max_allocation(sc, PippengerObjects)
           most == pippenger_max_points(sc)
           w == pippenger_bucket_window(n)
           fit(v) == (m - space_overhead(v)) \div entry_size(v)
<1>1. m \in Nat /\ most \in Nat
  BY PippengerMax
<1>2. PICK top \in windows_tried(m) : most = window_points(top, m)
  BY PippengerMax
<1> HIDE DEF m
<1>3. /\ top \in 1..12
      /\ \A v \in 1..top : space_overhead(v) <= m
      /\ \A v \in 1..(top-1) : window_points(v, m) = pippenger_bucket_window_inv(v)
  BY <1>2, Tried
<1>4. ASSUME NEW v \in 1..top
      PROVE  /\ fit(v) \in Nat
             /\ fit(v) * entry_size(v) + space_overhead(v) <= m
             /\ window_points(v, m) \in Nat /\ window_points(v, m) <= fit(v)
             /\ window_points(v, m) <= pippenger_bucket_window_inv(v)
             /\ pippenger_bucket_window_inv(v) \in Nat
  <2>1. v \in Nat /\ space_overhead(v) <= m
    BY <1>3
  <2>2. pippenger_bucket_window_inv(v) \in Nat
    BY <2>1, WindowInv, WidthAssumption
  <2> QED
    BY <1>1, <2>1, <2>2, WindowPoints, WidthAssumption
<1>5. n <= pippenger_bucket_window_inv(top)
  <2>1. most <= pippenger_bucket_window_inv(top) /\ pippenger_bucket_window_inv(top) \in Nat
    BY <1>2, <1>3, <1>4
  <2> QED
    BY <1>1, <2>1
<1>6. /\ w \in 1..12 /\ (w <= top \/ top = 12)
      /\ w # 12 => n <= pippenger_bucket_window_inv(w)
  BY <1>3, <1>5, Window
<1> HIDE DEF w, most, fit
<1>7. w \in 1..top
  BY <1>3, <1>6
<1>8. n <= fit(w)
  <2>1. CASE w = top
    <3>1. n <= most
      BY DEF most
    <3> QED
      BY <1>1, <1>2, <1>4, <1>7, <2>1, <3>1
  <2>2. CASE w # top
    <3>1. w \in 1..(top-1) /\ w # 12
      BY <1>3, <1>7, <2>2
    <3>2. window_points(w, m) = pippenger_bucket_window_inv(w)
      BY <1>3, <3>1
    <3> QED
      BY <1>4, <1>6, <1>7, <3>1, <3>2
  <2> QED
    BY <2>1, <2>2
<1>9. n * entry_size(w) + space_overhead(w) <= m
  <2> DEFINE e == entry_size(w) o == space_overhead(w) f == fit(w)
  <2>1. e \in Nat \ {0} /\ o \in Int /\ f \in Nat /\ f * e + o <= m
    BY <1>4, <1>6, <1>7, EntrySize, Overhead
  <2>2. n <= f
    BY <1>8
  <2> HIDE DEF e, o, f
  <2>3. n * e <= f * e
    BY <2>1, <2>2
  <2>4. n * e \in Nat /\ f * e \in Nat
    BY <2>1
  <2>5. n * e + o <= m
    BY <1>1, <2>1, <2>3, <2>4
  <2> QED
    BY <2>5 DEF e, o
<1> QED
  BY <1>6, <1>9 DEF m, w

LEMMA PowerIsNat ==
  ASSUME NEW w \in 1..12
  PROVE  2^w \in Nat
<1>1. 2^w \in Int
  BY PowerIsInt
<1>2. \/ w = 1 \/ w = 2 \/ w = 3 \/ w = 4 \/ w = 5 \/ w = 6
      \/ w = 7 \/ w = 8 \/ w = 9 \/ w = 10 \/ w = 11 \/ w = 12
  OBVIOUS
<1>3. /\ 2^1 \in Nat /\ 2^2 \in Nat /\ 2^3 \in Nat /\ 2^4 \in Nat /\ 2^5 \in Nat /\ 2^6 \in Nat
      /\ 2^7 \in Nat /\ 2^8 \in Nat /\ 2^9 \in Nat /\ 2^10 \in Nat /\ 2^11 \in Nat /\ 2^12 \in Nat
  BY SMT
<1> QED
  BY <1>2, <1>3

LEMMA PippengerServed ==
  ASSUME PippengerObjects = 6, PippengerMaxWindow = 12,
         NEW sc, Usable(sc), NEW n \in Nat,
         n <= pippenger_max_points(sc), pippenger_max_points(sc) # 0
  PROVE  Within(pippenger_allocs(sc, n), sc, sc.max_size - sc.alloc_size)
<1> DEFINE room == sc.max_size - sc.alloc_size
           d == Alignment - 1
           k == 2 * n + 2
           w == pippenger_bucket_window(n)
           ws == WNAF_SIZE(w + 1)
           s1 == k * Sizeof.ge
           s2 == k * Sizeof.scalar
           s3 == Sizeof.pippenger_state
           s4 == k * Sizeof.pippenger_point_state
           s5 == k * ws * Sizeof.int
           s6 == 2^w * Sizeof.gej
           b1 == 0 + s1 + Waste(s1)
           b2 == b1 + s2 + Waste(s2)
           b3 == b2 + s3 + Waste(s3)
           b4 == b3 + s4 + Waste(s4)
           b5 == b4 + s5 + Waste(s5)
           b6 == b5 + s6 + Waste(s6)
<1>1. d \in Nat /\ SizeMax \in Nat /\ room \in Nat /\ room <= SizeMax
  BY WidthAssumption, Left
<1>2. w \in 1..12
  BY WindowFits
<1>3. k \in Nat /\ ws \in Nat /\ 2^w \in Nat
  <2> HIDE DEF w
  <2>1. w + 1 \in Nat \ {0}
    BY <1>2
  <2>2. 2^w \in Nat
    BY <1>2, PowerIsNat
  <2> QED
    BY <2>1, <2>2, WnafSize
<1>4. s1 \in Nat /\ s2 \in Nat /\ s3 \in Nat /\ s4 \in Nat /\ s5 \in Nat /\ s6 \in Nat
  BY <1>3, Sizes
<1>5. s1 + s2 + s3 + s4 + s5 + s6 + 6 * d <= room
  <2> DEFINE m == scratch_max_allocation(sc, PippengerObjects)
  <2>1. n * entry_size(w) + space_overhead(w) <= m
    BY WindowFits
  <2>2. m \in Nat /\ (m # 0 => m + 6 * d = room)
    BY MaxAllocation
  <2>3. n * entry_size(w) + space_overhead(w) = s1 + s2 + s4 + s5 + k * Sizeof.int + s6 + s3
    <3> DEFINE ge == Sizeof.ge
               scalar == Sizeof.scalar
               state == Sizeof.pippenger_point_state
               int == Sizeof.int
               gej == Sizeof.gej
               z == Sizeof.pippenger_state
               p == 2^w
    <3>1. /\ ge \in Nat /\ scalar \in Nat /\ state \in Nat
          /\ int \in Nat /\ gej \in Nat /\ z \in Nat
      BY Sizes
    <3>2. entry_size(w) = 2 * (ge + scalar + state + (ws + 1) * int)
      BY DEF entry_size
    <3>3. space_overhead(w) = gej * p + entry_size(w) + z
      BY DEF space_overhead
    <3>4. p \in Nat /\ ws \in Nat
      BY <1>3
    <3> HIDE DEF ws, p, ge, scalar, state, int, gej, z
    <3>5. n * (2 * (ge + scalar + state + (ws + 1) * int))
            + (gej * p + 2 * (ge + scalar + state + (ws + 1) * int) + z) =
            (2 * n + 2) * ge + (2 * n + 2) * scalar + (2 * n + 2) * state
            + (2 * n + 2) * ws * int + (2 * n + 2) * int + p * gej + z
      BY <3>1, <3>4
    <3>6. n * entry_size(w) + space_overhead(w) =
            (2 * n + 2) * ge + (2 * n + 2) * scalar + (2 * n + 2) * state
            + (2 * n + 2) * ws * int + (2 * n + 2) * int + p * gej + z
      BY <3>2, <3>3, <3>5
    <3> QED
      BY <3>6 DEF ge, scalar, state, int, gej, z, p
  <2>4. k * Sizeof.int \in Nat /\ k * Sizeof.int # 0
    BY Sizes
  <2> DEFINE t == k * Sizeof.int
             o == n * entry_size(w) + space_overhead(w)
  <2> HIDE DEF m, d, room, s1, s2, s3, s4, s5, s6, t, o
  <2>5. t \in Nat /\ t # 0 /\ o = s1 + s2 + s4 + s5 + t + s6 + s3 /\ o <= m
    BY <2>1, <2>3, <2>4 DEF t, o
  <2>6. m # 0
    BY <1>4, <2>2, <2>5
  <2> QED
    BY <1>1, <1>4, <2>2, <2>5, <2>6
<1>6. /\ Waste(s1) \in Nat /\ Waste(s1) <= d /\ Waste(s2) \in Nat /\ Waste(s2) <= d
      /\ Waste(s3) \in Nat /\ Waste(s3) <= d /\ Waste(s4) \in Nat /\ Waste(s4) <= d
      /\ Waste(s5) \in Nat /\ Waste(s5) <= d /\ Waste(s6) \in Nat /\ Waste(s6) <= d
  BY <1>4, WasteBounds
<1>7. pippenger_allocs(sc, n) =
        Then(Then(Then(Then(Then(Then(First(sc), s1), s2), s3), s4), s5), s6)
  BY DEF pippenger_allocs
<1> HIDE DEF s1, s2, s3, s4, s5, s6, d, room
<1>8. /\ b1 \in Nat /\ b2 \in Nat /\ b3 \in Nat /\ b4 \in Nat /\ b5 \in Nat /\ b6 \in Nat
      /\ b1 <= b2 /\ b2 <= b3 /\ b3 <= b4 /\ b4 <= b5 /\ b5 <= b6
  BY <1>4, <1>6
<1>9. b6 <= room
  <2> DEFINE w1 == Waste(s1) w2 == Waste(s2) w3 == Waste(s3) w4 == Waste(s4) w5 == Waste(s5) w6 == Waste(s6)
  <2>1. /\ w1 \in Nat /\ w2 \in Nat /\ w3 \in Nat /\ w4 \in Nat /\ w5 \in Nat /\ w6 \in Nat
        /\ w1 <= d /\ w2 <= d /\ w3 <= d /\ w4 <= d /\ w5 <= d /\ w6 <= d
    BY <1>6
  <2> HIDE DEF w1, w2, w3, w4, w5, w6
  <2>2. 0 + s1 + w1 + s2 + w2 + s3 + w3 + s4 + w4 + s5 + w5 + s6 + w6 <= room
    BY <1>1, <1>4, <1>5, <2>1
  <2> QED
    BY <2>2 DEF w1, w2, w3, w4, w5, w6
<1>10. /\ s1 + d <= SizeMax /\ s2 + d <= SizeMax /\ s3 + d <= SizeMax
       /\ s4 + d <= SizeMax /\ s5 + d <= SizeMax /\ s6 + d <= SizeMax
  BY <1>1, <1>4, <1>5
<1> DEFINE a1 == Then(First(sc), s1)
           a2 == Then(a1, s2)
           a3 == Then(a2, s3)
           a4 == Then(a3, s4)
           a5 == Then(a4, s5)
           a6 == Then(a5, s6)
<1>11. pippenger_allocs(sc, n) = a6
  BY <1>7
<1>12. ASSUME NEW a, NEW b \in Nat, NEW size \in Nat, Within(a, sc, b),
              size + d <= SizeMax, b + size + Waste(size) <= room
       PROVE  Within(Then(a, size), sc, b + size + Waste(size))
  BY <1>12, OneMoreWithin DEF d, room
<1> HIDE DEF a1, a2, a3, a4, a5, a6, b1, b2, b3, b4, b5, b6
<1>13. Within(a1, sc, b1)
  <2>1. 0 + s1 + Waste(s1) <= room
    BY <1>1, <1>8, <1>9 DEF b1
  <2> QED
    BY <1>4, <1>10, <1>12, <2>1, Nothing DEF a1, b1
<1>14. Within(a2, sc, b2)
  <2>1. b1 + s2 + Waste(s2) <= room
    BY <1>1, <1>8, <1>9 DEF b2
  <2> QED
    BY <1>4, <1>8, <1>10, <1>12, <1>13, <2>1 DEF a2, b2
<1>15. Within(a3, sc, b3)
  <2>1. b2 + s3 + Waste(s3) <= room
    BY <1>1, <1>8, <1>9 DEF b3
  <2> QED
    BY <1>4, <1>8, <1>10, <1>12, <1>14, <2>1 DEF a3, b3
<1>16. Within(a4, sc, b4)
  <2>1. b3 + s4 + Waste(s4) <= room
    BY <1>1, <1>8, <1>9 DEF b4
  <2> QED
    BY <1>4, <1>8, <1>10, <1>12, <1>15, <2>1 DEF a4, b4
<1>17. Within(a5, sc, b5)
  <2>1. b4 + s5 + Waste(s5) <= room
    BY <1>1, <1>8, <1>9 DEF b5
  <2> QED
    BY <1>4, <1>8, <1>10, <1>12, <1>16, <2>1 DEF a5, b5
<1>18. Within(a6, sc, b6)
  <2>1. b5 + s6 + Waste(s6) <= room
    BY <1>1, <1>8, <1>9 DEF b6
  <2> QED
    BY <1>4, <1>8, <1>10, <1>12, <1>17, <2>1 DEF a6, b6
<1>19. Within(a6, sc, room)
  BY <1>1, <1>8, <1>9, <1>18, WithinMore
<1> QED
  BY <1>11, <1>19 DEF room

-----------------------------------------------------------------------------
(***************************************************************************)
(* The inductive invariant of a sum.                                       *)
(***************************************************************************)

Running == ret \in {"between", "calling"}

\* The space as the call found it.
Base == IF space = NULL THEN NULL ELSE [space EXCEPT !.alloc_size = request.mark]

\* The points in the batches before the current one.
Before == request.n - batch.left

TypeInv ==
  /\ ret \in {"idle", "between", "calling", "failed", "done"}
  /\ request \in [n : 0..MaxPoints, g : BOOLEAN, mark : Nat]
  /\ space = NULL \/ Usable(space)
  /\ called \in Seq(Nat)
  /\ r \in Sums
  /\ batch \in [i : Nat, left : Nat, nbp : Nat, pos : Nat, mark : Nat, tmp : Sums]

\* The plan is the one of the space as the call found it, and what is left
\* is what the batches so far have not taken.
PlanInv ==
  Running =>
    /\ request.n # 0
    /\ Base = NULL \/ Usable(Base)
    /\ plan = multi_plan(Base, request.n)
    /\ batch.i <= plan.n_batches
    /\ batch.left = IF plan.n_batch_points * batch.i <= request.n
                    THEN request.n - plan.n_batch_points * batch.i ELSE 0

\* The batches before are in the sum, and the callback was asked for them and
\* for the points of the current batch so far.
SumInv ==
  Running =>
    /\ \A k \in 0..(MaxPoints - 1) : r.pts[k] = IF k < Before THEN 1 ELSE 0
    /\ r.g = IF request.g /\ batch.i > 0 THEN 1 ELSE 0
    /\ Len(called) = IF ret = "calling" THEN Before + batch.pos ELSE Before

BatchInv ==
  ret = "calling" =>
    /\ batch.i < plan.n_batches
    /\ batch.nbp = LesserOf(batch.left, plan.n_batch_points)
    /\ batch.pos <= batch.nbp
    /\ \A k \in 0..(MaxPoints - 1) :
         batch.tmp.pts[k] = IF Before <= k /\ k < Before + batch.pos THEN 1 ELSE 0
    /\ batch.tmp.g = IF request.g /\ batch.i = 0 THEN 1 ELSE 0

\* Between batches the space is as it was, and in a batch the checkpoint is
\* where it was.
MarkInv ==
  space # NULL =>
    /\ ret = "between" => space.alloc_size = request.mark
    /\ ret = "calling" =>
         IF plan.alg = "simple" THEN space.alloc_size = request.mark
         ELSE batch.mark = request.mark /\ request.mark <= space.alloc_size

IInv ==
  /\ TypeInv /\ PlanInv /\ SumInv /\ BatchInv /\ MarkInv
  /\ EveryPointOnce /\ CalledInOrder /\ SpaceGivenBack

-----------------------------------------------------------------------------
(***************************************************************************)
(* The steps keep the invariant.                                           *)
(***************************************************************************)

\* An allocation moves the mark of a space within the space, served or not.
Kept(a, sc) ==
  \E u \in Nat : /\ a.sc = [sc EXCEPT !.alloc_size = u]
                 /\ sc.alloc_size <= u /\ u <= sc.max_size

LEMMA ThenKeeps ==
  ASSUME NEW sc, Usable(sc), NEW a, Kept(a, sc), NEW size \in Int
  PROVE  Kept(Then(a, size), sc)
<1>1. PICK u \in Nat : /\ a.sc = [sc EXCEPT !.alloc_size = u]
                       /\ sc.alloc_size <= u /\ u <= sc.max_size
  BY DEF Kept
<1>2. Then(a, size).sc = scratch_alloc(a.sc, size).sc
  BY DEF Then
<1>3. CASE ~CanAlloc(a.sc, size)
  BY <1>1, <1>2, <1>3 DEF scratch_alloc, Kept
<1>4. CASE CanAlloc(a.sc, size)
  <2> DEFINE r0 == round_to_align(size)
  <2>1. /\ sc \in Space /\ sc.valid /\ sc.max_size \in Nat /\ sc.alloc_size \in Nat
        /\ sc.max_size <= SizeMax /\ SizeMax \in Nat
    BY WidthAssumption, Left DEF Usable
  <2>2. a.sc \in Space /\ a.sc.valid /\ a.sc.alloc_size = u /\ a.sc.max_size = sc.max_size
    BY <1>1, <2>1 DEF Space
  <2>3. Usable(a.sc)
    BY <1>1, <2>1, <2>2 DEF Usable
  <2>4. r0 \in Nat
    <3> DEFINE t == Wrap(size + Alignment - 1)
    <3>1. t \in Nat
      <4>1. size + Alignment - 1 \in Int /\ SizeMax + 1 \in Nat \ {0}
        BY <2>1, WidthAssumption
      <4>2. ASSUME NEW x \in Int, NEW m \in Nat \ {0} PROVE x % m \in Nat
        BY <4>2
      <4> QED
        BY <4>1, <4>2 DEF Wrap
    <3> HIDE DEF t
    <3>2. (t \div Alignment) * Alignment \in Nat
      BY <3>1, Division, WidthAssumption
    <3> QED
      BY <3>2 DEF round_to_align, t
  <2>5. r0 <= sc.max_size - u
    BY <1>4, <2>2, <2>3, Left DEF CanAlloc
  <2> HIDE DEF r0
  <2>6. u + r0 \in 0..SizeMax /\ u + r0 <= sc.max_size /\ sc.alloc_size <= u + r0
    BY <1>1, <2>1, <2>4, <2>5
  <2>7. scratch_alloc(a.sc, size).sc = [a.sc EXCEPT !.alloc_size = u + r0]
    BY <1>4, <2>2, <2>6, WrapSmall DEF scratch_alloc, r0
  <2>8. [[sc EXCEPT !.alloc_size = u] EXCEPT !.alloc_size = u + r0] = [sc EXCEPT !.alloc_size = u + r0]
    BY <2>1 DEF Space
  <2>9. Then(a, size).sc = [sc EXCEPT !.alloc_size = u + r0]
    BY <1>1, <1>2, <2>7, <2>8
  <2>10. u + r0 \in Nat
    BY <2>4
  <2> QED
    BY <2>6, <2>9, <2>10 DEF Kept
<1> QED
  BY <1>3, <1>4

LEMMA FirstKeeps ==
  ASSUME NEW sc, Usable(sc)
  PROVE  Kept(First(sc), sc)
<1>1. sc = [sc EXCEPT !.alloc_size = sc.alloc_size] /\ sc.alloc_size \in Nat
  BY DEF Usable, Space
<1> QED
  BY <1>1 DEF Kept, First, Usable

LEMMA StraussKeeps ==
  ASSUME NEW sc, Usable(sc), NEW n \in Nat
  PROVE  Kept(strauss_allocs(sc, n), sc)
<1> DEFINE s1 == n * Sizeof.gej
           s2 == n * Sizeof.scalar
           s3 == n * TableSizeA * Sizeof.gej
           s4 == n * TableSizeA * Sizeof.fe
           s5 == n * TableSizeA * Sizeof.ge
           s6 == n * Sizeof.strauss_point_state
<1>1. s1 \in Int /\ s2 \in Int /\ s3 \in Int /\ s4 \in Int /\ s5 \in Int /\ s6 \in Int
  BY Sizes
<1>2. strauss_allocs(sc, n) =
        Then(Then(Then(Then(Then(Then(Then(First(sc), s1), s2), s3), s4), s5), s5), s6)
  BY DEF strauss_allocs
<1> HIDE DEF s1, s2, s3, s4, s5, s6
<1>3. Kept(Then(Then(Then(First(sc), s1), s2), s3), sc)
  BY <1>1, FirstKeeps, ThenKeeps
<1>4. Kept(Then(Then(Then(Then(Then(First(sc), s1), s2), s3), s4), s5), sc)
  BY <1>1, <1>3, ThenKeeps
<1> QED
  BY <1>1, <1>2, <1>4, ThenKeeps

LEMMA PippengerKeeps ==
  ASSUME NEW sc, Usable(sc), NEW n \in Nat
  PROVE  Kept(pippenger_allocs(sc, n), sc)
<1> DEFINE k == 2 * n + 2
           w == pippenger_bucket_window(n)
           ws == WNAF_SIZE(w + 1)
           s1 == k * Sizeof.ge
           s2 == k * Sizeof.scalar
           s3 == Sizeof.pippenger_state
           s4 == k * Sizeof.pippenger_point_state
           s5 == k * ws * Sizeof.int
           s6 == 2^w * Sizeof.gej
<1>1. w \in Nat
  BY WindowNat
<1>2. ws \in Nat /\ 2^w \in Int
  <2> HIDE DEF w
  <2>1. w + 1 \in Nat \ {0}
    BY <1>1
  <2> QED
    BY <1>1, <2>1, WnafSize, PowerIsInt
<1>3. s1 \in Int /\ s2 \in Int /\ s3 \in Int /\ s4 \in Int /\ s5 \in Int /\ s6 \in Int
  <2> HIDE DEF ws, w
  <2>1. k \in Nat
    OBVIOUS
  <2> HIDE DEF k
  <2> QED
    BY <1>2, <2>1, Sizes
<1>4. pippenger_allocs(sc, n) =
        Then(Then(Then(Then(Then(Then(First(sc), s1), s2), s3), s4), s5), s6)
  BY DEF pippenger_allocs
<1> HIDE DEF s1, s2, s3, s4, s5, s6
<1>5. Kept(Then(Then(Then(First(sc), s1), s2), s3), sc)
  BY <1>3, FirstKeeps, ThenKeeps
<1> QED
  BY <1>3, <1>4, <1>5, ThenKeeps

LEMMA Facts ==
  ASSUME IInv, Running
  PROVE  /\ MaxPoints \in Nat
         /\ request.n \in 1..MaxPoints /\ request.g \in BOOLEAN /\ request.mark \in Nat
         /\ Base = NULL \/ Usable(Base)
         /\ PlanFits(Base, request.n, plan)
         /\ plan.n_batches \in Nat \ {0} /\ plan.n_batch_points \in Nat \ {0}
         /\ request.n <= plan.n_batches * plan.n_batch_points
         /\ batch.i \in 0..plan.n_batches /\ batch.left \in 0..request.n
         /\ plan.n_batch_points * batch.i \in Nat
         /\ Before \in 0..request.n /\ batch.left = request.n - Before
<1>1. /\ MaxPoints \in Nat /\ request.n \in 0..MaxPoints /\ request.g \in BOOLEAN
      /\ request.mark \in Nat /\ request.n # 0
      /\ batch.i \in Nat /\ batch.left \in Nat
  BY MultiAssumption DEF IInv, TypeInv, PlanInv
<1>2. /\ Base = NULL \/ Usable(Base)
      /\ plan = multi_plan(Base, request.n)
      /\ batch.i <= plan.n_batches
      /\ batch.left = IF plan.n_batch_points * batch.i <= request.n
                      THEN request.n - plan.n_batch_points * batch.i ELSE 0
  BY DEF IInv, PlanInv
<1>3. PlanFits(Base, request.n, plan)
  BY <1>1, <1>2, Plans
<1>4. /\ plan.n_batches \in Nat \ {0} /\ plan.n_batch_points \in Nat \ {0}
      /\ request.n <= plan.n_batches * plan.n_batch_points
  BY <1>3 DEF PlanFits
<1>5. plan.n_batch_points * batch.i \in Nat
  BY <1>1, <1>4
<1>6. batch.left \in 0..request.n
  BY <1>1, <1>2, <1>5
<1> QED
  BY <1>1, <1>2, <1>3, <1>4, <1>5, <1>6 DEF Before

LEMMA InitInv == MultiInit => IInv
<1> SUFFICES ASSUME MultiInit PROVE IInv
  OBVIOUS
<1>1. /\ space \in Spaces \cup {NULL}
      /\ request = [n |-> 0, g |-> FALSE, mark |-> 0]
      /\ batch = NoBatch /\ r = Zero /\ called = <<>> /\ ret = "idle"
  BY DEF MultiInit
<1>2. Zero \in Sums
  BY DEF Zero, Sums
<1>3. batch \in [i : Nat, left : Nat, nbp : Nat, pos : Nat, mark : Nat, tmp : Sums]
  BY <1>1, <1>2 DEF NoBatch
<1>4. space = NULL \/ Usable(space)
  BY <1>1, MultiAssumption DEF Usable
<1>5. request \in [n : 0..MaxPoints, g : BOOLEAN, mark : Nat]
  BY <1>1, MultiAssumption
<1>6. TypeInv
  BY <1>1, <1>2, <1>3, <1>4, <1>5 DEF TypeInv
<1> QED
  BY <1>1, <1>6 DEF IInv, Running, PlanInv, SumInv, BatchInv, MarkInv, EveryPointOnce, CalledInOrder, SpaceGivenBack

LEMMA UsableKept ==
  ASSUME NEW sc, Usable(sc), NEW u \in Nat, u <= sc.max_size
  PROVE  /\ Usable([sc EXCEPT !.alloc_size = u]) /\ [sc EXCEPT !.alloc_size = u] # NULL
         /\ [sc EXCEPT !.alloc_size = u].alloc_size = u
         /\ \A v \in Nat : [[sc EXCEPT !.alloc_size = u] EXCEPT !.alloc_size = v] = [sc EXCEPT !.alloc_size = v]
         /\ sc # NULL /\ sc.alloc_size \in Nat
         /\ [sc EXCEPT !.alloc_size = sc.alloc_size] = sc
<1>1. [sc EXCEPT !.alloc_size = u] \in Space
  BY DEF Usable, Space
<1>2. sc \in Space
  BY DEF Usable
<1> QED
  BY <1>1, <1>2, SpaceNotNull DEF Usable, Space

LEMMA MultiVarInv ==
  ASSUME IInv, NEW n \in 0..MaxPoints, NEW g \in BOOLEAN, MultiVar(n, g)
  PROVE  IInv'
<1> DEFINE req == [n |-> n, g |-> g, mark |-> IF space = NULL THEN 0 ELSE space.alloc_size]
<1>1. /\ ret = "idle" /\ request' = req /\ called' = <<>> /\ space' = space
  BY DEF MultiVar
<1>2. /\ space = NULL \/ Usable(space)
      /\ batch \in [i : Nat, left : Nat, nbp : Nat, pos : Nat, mark : Nat, tmp : Sums]
  BY DEF IInv, TypeInv
<1>3. req \in [n : 0..MaxPoints, g : BOOLEAN, mark : Nat]
  BY <1>2, UsableKept DEF Usable, Space
<1>4. Zero \in Sums /\ [Zero EXCEPT !.g = IF g THEN 1 ELSE 0] \in Sums
  BY DEF Zero, Sums
<1>5. CalledInOrder' /\ called' \in Seq(Nat)
  BY <1>1 DEF CalledInOrder
<1>6. CASE n = 0
  <2>1. /\ r' = [Zero EXCEPT !.g = IF g THEN 1 ELSE 0] /\ ret' = "done" /\ batch' = batch
    BY <1>6 DEF MultiVar
  <2>2. TypeInv'
    BY <1>1, <1>2, <1>3, <1>4, <1>5, <2>1 DEF TypeInv
  <2>3. EveryPointOnce'
    <3>1. /\ \A k \in 0..(MaxPoints - 1) : r'.pts[k] = 0
          /\ r'.g = IF g THEN 1 ELSE 0
      BY <2>1 DEF Zero
    <3>2. request'.n = 0 /\ request'.g = g
      BY <1>1, <1>6
    <3> QED
      BY <3>1, <3>2 DEF EveryPointOnce
  <2>4. SpaceGivenBack'
    BY <1>1 DEF SpaceGivenBack
  <2> QED
    BY <1>5, <2>1, <2>2, <2>3, <2>4 DEF IInv, Running, PlanInv, SumInv, BatchInv, MarkInv
<1>7. CASE n # 0
  <2>1. /\ r' = Zero /\ ret' = "between"
        /\ plan' = multi_plan(space, n)
        /\ batch' = [NoBatch EXCEPT !.left = n]
    BY <1>7 DEF MultiVar
  <2>2. /\ batch' \in [i : Nat, left : Nat, nbp : Nat, pos : Nat, mark : Nat, tmp : Sums]
        /\ batch'.i = 0 /\ batch'.left = n
    BY <1>4, <2>1 DEF NoBatch
  <2>3. TypeInv'
    BY <1>1, <1>2, <1>3, <1>4, <1>5, <2>1, <2>2 DEF TypeInv
  <2>4. Base' = space /\ request'.n = n /\ request'.g = g
    BY <1>1, <1>2, UsableKept DEF Base, Usable, Space
  <2>5. PlanFits(space, n, multi_plan(space, n))
    BY <1>2, <1>7, Plans
  <2>6. PlanInv'
    <3> DEFINE p == multi_plan(space, n)
    <3>1. p.n_batches \in Nat /\ p.n_batch_points \in Nat
      BY <2>5 DEF PlanFits
    <3> HIDE DEF p
    <3>2. 0 <= p.n_batches /\ n = IF p.n_batch_points * 0 <= n THEN n - p.n_batch_points * 0 ELSE 0
      BY <3>1
    <3>3. plan' = p
      BY <2>1 DEF p
    <3> QED
      BY <1>2, <1>7, <2>1, <2>2, <2>4, <3>2, <3>3 DEF PlanInv, p
  <2>7. SumInv'
    <3>1. Before' = 0
      BY <2>2, <2>4 DEF Before
    <3>2. Len(called') = 0 /\ r'.g = 0 /\ \A k \in 0..(MaxPoints - 1) : r'.pts[k] = 0 /\ ~(k < 0)
      BY <1>1, <2>1 DEF Zero
    <3> QED
      BY <2>1, <2>2, <3>1, <3>2 DEF SumInv
  <2>8. MarkInv'
    BY <1>1, <2>1 DEF MarkInv
  <2> QED
    BY <1>5, <2>1, <2>3, <2>6, <2>7, <2>8 DEF IInv, BatchInv, EveryPointOnce, SpaceGivenBack
<1> QED
  BY <1>6, <1>7

\* Between batches the space is as the call found it.
LEMMA BetweenBase ==
  ASSUME IInv, ret = "between"
  PROVE  Base = space
<1>1. CASE space = NULL
  BY <1>1 DEF Base
<1>2. CASE space # NULL
  <2>1. Usable(space) /\ space.alloc_size = request.mark
    BY <1>2 DEF IInv, TypeInv, MarkInv
  <2>2. space.alloc_size \in Nat /\ space.alloc_size <= space.max_size
    BY <2>1 DEF Usable, Space
  <2>3. [space EXCEPT !.alloc_size = space.alloc_size] = space
    BY <2>1, <2>2, UsableKept
  <2> QED
    BY <1>2, <2>1, <2>3 DEF Base
<1> QED
  BY <1>1, <1>2

\* What BatchBegin asks the space for, as the case of the plan.
Served(n_points) ==
  CASE plan.alg = "simple" -> [ok |-> TRUE, sc |-> space]
    [] plan.alg = "strauss" -> strauss_allocs(space, n_points)
    [] plan.alg = "pippenger" -> pippenger_allocs(space, n_points)

LEMMA ServedKeeps ==
  ASSUME IInv, ret = "between", NEW n \in Nat
  PROVE  /\ plan.alg = "simple" => Served(n) = [ok |-> TRUE, sc |-> space]
         /\ plan.alg # "simple" => space # NULL /\ Usable(space) /\ Kept(Served(n), space)
<1>1. PlanFits(space, request.n, plan)
  BY Facts, BetweenBase DEF Running
<1>2. plan.alg \in {"simple", "strauss", "pippenger"} /\ (space = NULL => plan.alg = "simple")
  BY <1>1 DEF PlanFits
<1>3. CASE plan.alg = "simple"
  BY <1>3 DEF Served
<1>4. CASE plan.alg = "strauss"
  <2>1. space # NULL /\ Usable(space)
    BY <1>2, <1>4 DEF IInv, TypeInv
  <2>2. Served(n) = strauss_allocs(space, n)
    BY <1>4 DEF Served
  <2> QED
    BY <1>4, <2>1, <2>2, StraussKeeps
<1>5. CASE plan.alg = "pippenger"
  <2>1. space # NULL /\ Usable(space)
    BY <1>2, <1>5 DEF IInv, TypeInv
  <2>2. Served(n) = pippenger_allocs(space, n)
    BY <1>5 DEF Served
  <2> QED
    BY <1>5, <2>1, <2>2, PippengerKeeps
<1> QED
  BY <1>2, <1>3, <1>4, <1>5

LEMMA BatchBeginInv ==
  ASSUME IInv, BatchBegin
  PROVE  IInv'
<1> DEFINE nb == LesserOf(batch.left, plan.n_batch_points)
           t == [Zero EXCEPT !.g = IF request.g /\ batch.i = 0 THEN 1 ELSE 0]
           mk == IF plan.alg = "simple" THEN 0 ELSE scratch_checkpoint(space)
           sv == Served(nb)
<1>1. /\ ret = "between" /\ batch.i < plan.n_batches
      /\ UNCHANGED <<request, plan, r, called>>
      /\ \/ /\ sv.ok
            /\ batch' = [batch EXCEPT !.nbp = nb, !.pos = 0, !.mark = mk, !.tmp = t]
            /\ space' = sv.sc /\ ret' = "calling"
         \/ /\ ~sv.ok
            /\ space' = scratch_apply_checkpoint(sv.sc, mk)
            /\ ret' = "failed" /\ batch' = batch
  BY DEF BatchBegin, Served
<1>2. Running /\ Base = space
  BY <1>1, BetweenBase DEF Running
<1>3. /\ space = NULL \/ Usable(space)
      /\ batch \in [i : Nat, left : Nat, nbp : Nat, pos : Nat, mark : Nat, tmp : Sums]
      /\ request \in [n : 0..MaxPoints, g : BOOLEAN, mark : Nat]
      /\ r \in Sums /\ called \in Seq(Nat)
  BY DEF IInv, TypeInv
<1>4. /\ plan.n_batch_points \in Nat /\ batch.left \in Nat /\ request.mark \in Nat
      /\ Before \in Nat /\ MaxPoints \in Nat
  BY <1>2, Facts
<1>5. nb \in Nat
  BY <1>4 DEF LesserOf
<1>6. t \in Sums /\ t.g = (IF request.g /\ batch.i = 0 THEN 1 ELSE 0)
      /\ \A k \in 0..(MaxPoints - 1) : t.pts[k] = 0
  BY DEF Zero, Sums
<1>7. /\ plan.alg = "simple" => sv = [ok |-> TRUE, sc |-> space]
      /\ plan.alg # "simple" => space # NULL /\ Usable(space) /\ Kept(sv, space)
  BY <1>1, <1>5, ServedKeeps
<1>8. space # NULL => space.alloc_size = request.mark /\ space \in Space /\ space.valid
  BY <1>1, <1>3 DEF IInv, MarkInv, Usable
<1>9. plan.alg # "simple" => mk = request.mark
  BY <1>7, <1>8 DEF scratch_checkpoint
<1>10. mk \in Nat
  BY <1>4, <1>9
<1> HIDE DEF nb, t, mk, sv
<1>11. CASE sv.ok
  <2>1. /\ batch' = [batch EXCEPT !.nbp = nb, !.pos = 0, !.mark = mk, !.tmp = t]
        /\ space' = sv.sc /\ ret' = "calling"
    BY <1>1, <1>11
  <2>2. /\ batch' \in [i : Nat, left : Nat, nbp : Nat, pos : Nat, mark : Nat, tmp : Sums]
        /\ batch'.i = batch.i /\ batch'.left = batch.left /\ batch'.nbp = nb
        /\ batch'.pos = 0 /\ batch'.mark = mk /\ batch'.tmp = t
    BY <1>3, <1>5, <1>6, <1>10, <2>1
  <2>3. /\ space' = NULL \/ Usable(space')
        /\ Base' = Base
        /\ space' # NULL => IF plan.alg = "simple" THEN space'.alloc_size = request.mark
                            ELSE request.mark <= space'.alloc_size
    <3>1. CASE plan.alg = "simple"
      <4>1. space' = space
        BY <1>7, <2>1, <3>1
      <4> QED
        BY <1>1, <1>3, <1>8, <3>1, <4>1 DEF Base
    <3>2. CASE plan.alg # "simple"
      <4>1. PICK u \in Nat : /\ sv.sc = [space EXCEPT !.alloc_size = u]
                             /\ space.alloc_size <= u /\ u <= space.max_size
        BY <1>7, <3>2 DEF Kept
      <4>2. /\ Usable([space EXCEPT !.alloc_size = u]) /\ [space EXCEPT !.alloc_size = u] # NULL
            /\ [space EXCEPT !.alloc_size = u].alloc_size = u
            /\ [[space EXCEPT !.alloc_size = u] EXCEPT !.alloc_size = request.mark]
                 = [space EXCEPT !.alloc_size = request.mark]
        <5>1. Usable(space) /\ u \in Nat /\ u <= space.max_size /\ request.mark \in Nat
          BY <1>4, <1>7, <3>2, <4>1
        <5>2. /\ Usable([space EXCEPT !.alloc_size = u]) /\ [space EXCEPT !.alloc_size = u] # NULL
              /\ [space EXCEPT !.alloc_size = u].alloc_size = u
              /\ \A v \in Nat : [[space EXCEPT !.alloc_size = u] EXCEPT !.alloc_size = v]
                                 = [space EXCEPT !.alloc_size = v]
          BY <5>1, UsableKept
        <5> QED
          BY <5>1, <5>2
      <4>3. space' = [space EXCEPT !.alloc_size = u]
        BY <2>1, <4>1
      <4>4. Usable(space') /\ space' # NULL /\ space'.alloc_size = u
        BY <4>2, <4>3
      <4>5. Base' = Base
        BY <1>1, <1>7, <3>2, <4>2, <4>3 DEF Base
      <4> QED
        BY <1>7, <1>8, <3>2, <4>1, <4>4, <4>5
    <3> QED
      BY <3>1, <3>2
  <2>4. TypeInv'
    BY <1>1, <1>3, <2>1, <2>2, <2>3 DEF TypeInv
  <2>5. PlanInv'
    BY <1>1, <1>2, <2>2, <2>3 DEF IInv, PlanInv
  <2>6. Before' = Before
    BY <1>1, <2>2 DEF Before
  <2>7. SumInv'
    <3>1. Len(called) = Before /\ Before + 0 = Before
      BY <1>1, <1>2, <1>4 DEF IInv, SumInv
    <3> QED
      BY <1>1, <1>2, <2>1, <2>2, <2>6, <3>1 DEF IInv, SumInv
  <2>8. BatchInv'
    <3>1. ~(\E k \in 0..(MaxPoints - 1) : Before <= k /\ k < Before + 0)
      BY <1>4
    <3>2. 0 <= nb
      BY <1>5
    <3> QED
      BY <1>1, <1>6, <2>1, <2>2, <2>6, <3>1, <3>2 DEF BatchInv, nb
  <2>9. MarkInv'
    BY <1>1, <1>9, <2>1, <2>2, <2>3 DEF MarkInv
  <2>10. CalledInOrder'
    BY <1>1 DEF IInv, CalledInOrder
  <2> QED
    BY <2>1, <2>4, <2>5, <2>7, <2>8, <2>9, <2>10 DEF IInv, EveryPointOnce, SpaceGivenBack
<1>12. CASE ~sv.ok
  <2>1. /\ space' = scratch_apply_checkpoint(sv.sc, mk) /\ ret' = "failed" /\ batch' = batch
    BY <1>1, <1>12
  <2>2. plan.alg # "simple"
    BY <1>7, <1>12
  <2>3. PICK u \in Nat : /\ sv.sc = [space EXCEPT !.alloc_size = u]
                         /\ space.alloc_size <= u /\ u <= space.max_size
    BY <1>7, <2>2 DEF Kept
  <2>4. /\ [space EXCEPT !.alloc_size = u].alloc_size = u
        /\ [space EXCEPT !.alloc_size = u] \in Space /\ [space EXCEPT !.alloc_size = u].valid
        /\ [[space EXCEPT !.alloc_size = u] EXCEPT !.alloc_size = space.alloc_size] = space
    <3>1. Usable(space) /\ u <= space.max_size
      BY <1>7, <2>2, <2>3
    <3>2. /\ Usable([space EXCEPT !.alloc_size = u])
          /\ [space EXCEPT !.alloc_size = u].alloc_size = u
          /\ \A v \in Nat : [[space EXCEPT !.alloc_size = u] EXCEPT !.alloc_size = v]
                             = [space EXCEPT !.alloc_size = v]
          /\ space.alloc_size \in Nat /\ [space EXCEPT !.alloc_size = space.alloc_size] = space
      BY <3>1, UsableKept
    <3>3. [[space EXCEPT !.alloc_size = u] EXCEPT !.alloc_size = space.alloc_size] = space
      BY <3>2
    <3> QED
      BY <3>2, <3>3 DEF Usable
  <2>5. space' = space
    <3>1. mk = space.alloc_size /\ ~(mk > u)
      BY <1>4, <1>7, <1>8, <1>9, <2>2, <2>3
    <3> QED
      BY <2>1, <2>3, <2>4, <3>1 DEF scratch_apply_checkpoint
  <2>6. TypeInv'
    BY <1>1, <1>3, <2>1, <2>5 DEF TypeInv
  <2>7. SpaceGivenBack'
    BY <1>1, <1>8, <2>5 DEF SpaceGivenBack
  <2>8. CalledInOrder'
    BY <1>1 DEF IInv, CalledInOrder
  <2> QED
    BY <2>1, <2>6, <2>7, <2>8 DEF IInv, Running, PlanInv, SumInv, BatchInv, MarkInv, EveryPointOnce
<1> QED
  BY <1>11, <1>12

\* Release takes the space back to where the call found it.
LEMMA ReleaseBase ==
  ASSUME IInv, ret = "calling"
  PROVE  Release(space) = Base
<1>1. /\ PlanFits(Base, request.n, plan) /\ request.mark \in Nat
      /\ space = NULL \/ Usable(space)
  BY Facts DEF Running, IInv, TypeInv
<1>2. CASE space = NULL
  <2>1. plan.alg = "simple"
    BY <1>1, <1>2 DEF Base, PlanFits
  <2> QED
    BY <1>2, <2>1 DEF Release, Base
<1>3. CASE space # NULL /\ plan.alg = "simple"
  <2>1. Usable(space) /\ space.alloc_size = request.mark
    BY <1>1, <1>3 DEF IInv, MarkInv
  <2>2. space.alloc_size \in Nat /\ space.alloc_size <= space.max_size
    BY <2>1 DEF Usable, Space
  <2>3. [space EXCEPT !.alloc_size = space.alloc_size] = space
    BY <2>1, <2>2, UsableKept
  <2> QED
    BY <1>3, <2>1, <2>3 DEF Release, Base
<1>4. CASE space # NULL /\ plan.alg # "simple"
  <2>1. Usable(space) /\ batch.mark = request.mark /\ request.mark <= space.alloc_size
    BY <1>1, <1>4 DEF IInv, MarkInv
  <2>2. space.valid /\ space.alloc_size \in Nat
    BY <2>1 DEF Usable, Space
  <2>3. ~(batch.mark > space.alloc_size)
    BY <1>1, <2>1, <2>2
  <2> QED
    BY <1>4, <2>1, <2>2, <2>3 DEF Release, Base, scratch_apply_checkpoint
<1> QED
  BY <1>2, <1>3, <1>4

LEMMA BaseAgain ==
  ASSUME IInv, Running, Base # NULL
  PROVE  /\ space # NULL /\ Usable(Base) /\ Base.alloc_size = request.mark
         /\ [Base EXCEPT !.alloc_size = request.mark] = Base
<1>1. space # NULL /\ Base = [space EXCEPT !.alloc_size = request.mark]
  BY DEF Base
<1>2. Usable(space) /\ Usable(Base) /\ request.mark \in Nat
  BY <1>1, Facts DEF IInv, TypeInv
<1>3. space \in Space
  BY <1>2 DEF Usable
<1>4. Base.alloc_size = request.mark
  BY <1>1, <1>3 DEF Space
<1>5. [[space EXCEPT !.alloc_size = request.mark] EXCEPT !.alloc_size = request.mark]
        = [space EXCEPT !.alloc_size = request.mark]
  BY <1>3 DEF Space
<1> QED
  BY <1>1, <1>2, <1>4, <1>5

\* The offset of a batch is the number of points before it.
LEMMA Offset ==
  ASSUME IInv, ret = "calling", batch.pos < batch.nbp
  PROVE  /\ batch.pos + plan.n_batch_points * batch.i = Before + batch.pos
         /\ batch.pos \in Nat /\ batch.pos < batch.left
         /\ Before + batch.pos \in 0..(MaxPoints - 1)
<1>1. /\ request.n \in 1..MaxPoints /\ MaxPoints \in Nat
      /\ batch.left \in 0..request.n /\ plan.n_batch_points * batch.i \in Nat
      /\ Before \in 0..request.n /\ batch.left = request.n - Before
      /\ plan.n_batch_points \in Nat
  BY Facts DEF Running
<1>2. batch.pos \in Nat
  BY DEF IInv, TypeInv
<1>3. batch.nbp = LesserOf(batch.left, plan.n_batch_points)
  BY DEF IInv, BatchInv
<1>4. batch.left = IF plan.n_batch_points * batch.i <= request.n
                   THEN request.n - plan.n_batch_points * batch.i ELSE 0
  BY DEF IInv, PlanInv, Running
<1>5. batch.pos < batch.left
  BY <1>1, <1>2, <1>3 DEF LesserOf
<1>6. batch.left = request.n - plan.n_batch_points * batch.i
  BY <1>1, <1>2, <1>4, <1>5
<1>7. Before = plan.n_batch_points * batch.i
  BY <1>1, <1>6
<1> QED
  BY <1>1, <1>2, <1>5, <1>7

LEMMA AppendInOrder ==
  ASSUME CalledInOrder, called \in Seq(Nat), NEW k \in Nat, k = Len(called)
  PROVE  /\ Append(called, k) \in Seq(Nat)
         /\ Len(Append(called, k)) = k + 1
         /\ \A j \in 1..Len(Append(called, k)) : Append(called, k)[j] = j - 1
<1>1. Append(called, k) \in Seq(Nat) /\ Len(Append(called, k)) = k + 1
  OBVIOUS
<1>2. ASSUME NEW j \in 1..(k + 1) PROVE Append(called, k)[j] = j - 1
  <2>1. CASE j \in 1..k
    BY <2>1 DEF CalledInOrder
  <2>2. CASE j = k + 1
    BY <2>2
  <2> QED
    BY <2>1, <2>2
<1> QED
  BY <1>1, <1>2

LEMMA CallbackInv ==
  ASSUME IInv, NEW ok \in BOOLEAN, Callback(ok)
  PROVE  IInv'
<1> DEFINE idx == batch.pos + plan.n_batch_points * batch.i
<1>1. /\ ret = "calling" /\ batch.pos < batch.nbp
      /\ called' = Append(called, idx)
      /\ UNCHANGED <<request, plan, r>>
  BY DEF Callback
<1>2. /\ space = NULL \/ Usable(space)
      /\ batch \in [i : Nat, left : Nat, nbp : Nat, pos : Nat, mark : Nat, tmp : Sums]
      /\ request \in [n : 0..MaxPoints, g : BOOLEAN, mark : Nat]
      /\ r \in Sums /\ called \in Seq(Nat)
  BY DEF IInv, TypeInv
<1>3. Running /\ batch.left \in Nat /\ Before \in Nat /\ MaxPoints \in Nat
  BY <1>1, Facts DEF Running
<1>4. /\ idx = Before + batch.pos /\ batch.pos \in Nat
      /\ Before + batch.pos \in 0..(MaxPoints - 1)
  BY <1>1, Offset
<1>5. Len(called) = Before + batch.pos
  BY <1>1, <1>3 DEF IInv, SumInv
<1> HIDE DEF idx
<1>6. idx \in 0..(MaxPoints - 1) /\ idx \in Nat /\ idx = Len(called)
  BY <1>3, <1>4, <1>5
<1>7. called' \in Seq(Nat) /\ Len(called') = idx + 1 /\ CalledInOrder'
  <2>1. /\ Append(called, idx) \in Seq(Nat) /\ Len(Append(called, idx)) = idx + 1
        /\ \A j \in 1..Len(Append(called, idx)) : Append(called, idx)[j] = j - 1
    BY <1>2, <1>6, AppendInOrder DEF IInv
  <2> QED
    BY <1>1, <2>1 DEF CalledInOrder
<1>8. CASE ok
  <2>1. /\ batch' = [batch EXCEPT !.pos = @ + 1, !.tmp.pts[idx] = @ + 1]
        /\ space' = space /\ ret' = "calling"
    BY <1>1, <1>8 DEF Callback, idx
  <2> DEFINE pts == [batch.tmp.pts EXCEPT ![idx] = @ + 1]
  <2>2. batch.tmp \in Sums /\ batch.tmp.pts \in [0..(MaxPoints - 1) -> Nat]
    BY <1>2 DEF Sums
  <2>3. pts \in [0..(MaxPoints - 1) -> Nat]
    <3>1. ASSUME NEW S, NEW f \in [S -> Nat], NEW x \in S
          PROVE  [f EXCEPT ![x] = @ + 1] \in [S -> Nat]
      OBVIOUS
    <3> QED
      BY <1>6, <2>2, <3>1
  <2>4. /\ batch'.i = batch.i /\ batch'.left = batch.left /\ batch'.nbp = batch.nbp
        /\ batch'.pos = batch.pos + 1 /\ batch'.mark = batch.mark
        /\ batch'.tmp = [batch.tmp EXCEPT !.pts = pts]
    BY <1>2, <2>1
  <2>5. batch'.tmp.pts = pts /\ batch'.tmp.g = batch.tmp.g /\ batch'.tmp \in Sums
    BY <2>2, <2>3, <2>4 DEF Sums
  <2>6. batch' \in [i : Nat, left : Nat, nbp : Nat, pos : Nat, mark : Nat, tmp : Sums]
    <3>1. batch' = [batch EXCEPT !.pos = batch.pos + 1, !.tmp = [batch.tmp EXCEPT !.pts = pts]]
      BY <1>2, <2>1
    <3>2. [batch.tmp EXCEPT !.pts = pts] \in Sums /\ batch.pos + 1 \in Nat
      BY <1>4, <2>4, <2>5
    <3> HIDE DEF pts
    <3> QED
      BY <1>2, <3>1, <3>2
  <2>7. TypeInv'
    BY <1>1, <1>2, <1>7, <2>1, <2>6 DEF TypeInv
  <2>8. Base' = Base /\ Before' = Before
    BY <1>1, <2>1, <2>4 DEF Base, Before
  <2>9. PlanInv'
    BY <1>1, <1>3, <2>4, <2>8 DEF IInv, PlanInv
  <2>10. SumInv'
    <3>1. Len(called') = Before + (batch.pos + 1)
      BY <1>3, <1>4, <1>7
    <3> QED
      BY <1>1, <1>3, <2>1, <2>4, <2>8, <3>1 DEF IInv, SumInv
  <2>11. BatchInv'
    <3>1. batch.pos + 1 <= batch.nbp
      BY <1>1, <1>2
    <3>2. ASSUME NEW k \in 0..(MaxPoints - 1)
          PROVE  pts[k] = IF Before <= k /\ k < Before + (batch.pos + 1) THEN 1 ELSE 0
      <4>1. batch.tmp.pts[k] = IF Before <= k /\ k < Before + batch.pos THEN 1 ELSE 0
        BY <1>1 DEF IInv, BatchInv
      <4>2. CASE k = idx
        BY <1>3, <1>4, <2>2, <4>1, <4>2, SMTT(30)
      <4>3. CASE k # idx
        <5>1. pts[k] = batch.tmp.pts[k]
          BY <2>2, <4>3
        <5>2. k < Before + (batch.pos + 1) <=> k < Before + batch.pos
          BY <1>3, <1>4, <4>3
        <5> QED
          BY <4>1, <5>1, <5>2
      <4> QED
        BY <4>2, <4>3
    <3> HIDE DEF pts
    <3>3. /\ batch.i < plan.n_batches /\ batch.nbp = LesserOf(batch.left, plan.n_batch_points)
          /\ batch.tmp.g = IF request.g /\ batch.i = 0 THEN 1 ELSE 0
      BY <1>1 DEF IInv, BatchInv
    <3> QED
      BY <1>1, <2>1, <2>4, <2>5, <2>8, <3>1, <3>2, <3>3 DEF BatchInv
  <2>12. MarkInv'
    BY <1>1, <2>1, <2>4 DEF IInv, MarkInv
  <2> QED
    BY <1>7, <2>1, <2>7, <2>9, <2>10, <2>11, <2>12 DEF IInv, EveryPointOnce, SpaceGivenBack
<1>9. CASE ~ok
  <2>1. space' = Base /\ ret' = "failed" /\ batch' = batch
    BY <1>1, <1>9, ReleaseBase DEF Callback
  <2>2. /\ Base = NULL \/ Usable(Base)
        /\ Base # NULL => Base.alloc_size = request.mark
    BY <1>3, Facts, BaseAgain
  <2>3. TypeInv'
    BY <1>1, <1>2, <1>7, <2>1, <2>2 DEF TypeInv
  <2>4. SpaceGivenBack'
    BY <1>1, <2>1, <2>2 DEF SpaceGivenBack
  <2> QED
    BY <1>7, <2>1, <2>3, <2>4 DEF IInv, Running, PlanInv, SumInv, BatchInv, MarkInv, EveryPointOnce
<1> QED
  BY <1>8, <1>9

LEMMA BatchEndInv ==
  ASSUME IInv, BatchEnd
  PROVE  IInv'
<1>1. /\ ret = "calling" /\ batch.pos = batch.nbp
      /\ r' = Plus(r, batch.tmp) /\ space' = Release(space)
      /\ batch' = [batch EXCEPT !.i = batch.i + 1, !.left = batch.left - batch.nbp]
      /\ ret' = "between"
      /\ UNCHANGED <<request, plan, called>>
  <2>1. batch \in [i : Nat, left : Nat, nbp : Nat, pos : Nat, mark : Nat, tmp : Sums]
    BY DEF IInv, TypeInv
  <2> QED
    BY <2>1 DEF BatchEnd
<1>2. /\ batch \in [i : Nat, left : Nat, nbp : Nat, pos : Nat, mark : Nat, tmp : Sums]
      /\ request \in [n : 0..MaxPoints, g : BOOLEAN, mark : Nat]
      /\ r \in Sums /\ called \in Seq(Nat)
  BY DEF IInv, TypeInv
<1>3. Running /\ space' = Base
  BY <1>1, ReleaseBase DEF Running
<1>4. /\ MaxPoints \in Nat /\ request.n \in Nat /\ plan.n_batch_points \in Nat
      /\ batch.left \in 0..request.n /\ plan.n_batch_points * batch.i \in Nat
      /\ Before \in 0..request.n /\ batch.left = request.n - Before
      /\ Base = NULL \/ Usable(Base)
      /\ plan.n_batches \in Nat /\ batch.i \in Nat
  BY <1>2, <1>3, Facts
<1>5. /\ batch.nbp = LesserOf(batch.left, plan.n_batch_points)
      /\ batch.i < plan.n_batches
  BY <1>1 DEF IInv, BatchInv
<1>6. batch.nbp \in Nat /\ batch.nbp <= batch.left
  BY <1>4, <1>5 DEF LesserOf
<1>7. /\ batch'.i = batch.i + 1 /\ batch'.left = batch.left - batch.nbp
      /\ batch' \in [i : Nat, left : Nat, nbp : Nat, pos : Nat, mark : Nat, tmp : Sums]
  <2>1. batch.i + 1 \in Nat /\ batch.left - batch.nbp \in Nat
    BY <1>4, <1>6
  <2> QED
    BY <1>1, <1>2, <2>1
<1>8. Before' = Before + batch.nbp
  <2>1. request.n - (batch.left - batch.nbp) = Before + batch.nbp
    BY <1>4, <1>6
  <2> QED
    BY <1>1, <1>7, <2>1 DEF Before
<1>9. r' \in Sums
  <2>1. /\ r.pts \in [0..(MaxPoints - 1) -> Nat] /\ batch.tmp.pts \in [0..(MaxPoints - 1) -> Nat]
        /\ r.g \in Nat /\ batch.tmp.g \in Nat
    BY <1>2 DEF Sums
  <2>2. r' = [pts |-> [k \in 0..(MaxPoints - 1) |-> r.pts[k] + batch.tmp.pts[k]], g |-> r.g + batch.tmp.g]
    BY <1>1, <2>1 DEF Plus
  <2>3. [k \in 0..(MaxPoints - 1) |-> r.pts[k] + batch.tmp.pts[k]] \in [0..(MaxPoints - 1) -> Nat]
    <3>1. ASSUME NEW k \in 0..(MaxPoints - 1) PROVE r.pts[k] + batch.tmp.pts[k] \in Nat
      <4>1. r.pts[k] \in Nat /\ batch.tmp.pts[k] \in Nat
        BY <2>1
      <4> QED
        BY <4>1
    <3> QED
      BY <3>1
  <2> QED
    BY <2>1, <2>2, <2>3 DEF Sums
<1>10. /\ Base' = Base
       /\ Base # NULL => Base.alloc_size = request.mark
  <2>1. CASE Base = NULL
    BY <1>1, <1>3, <2>1 DEF Base
  <2>2. CASE Base # NULL
    <3>1. Base.alloc_size = request.mark /\ [Base EXCEPT !.alloc_size = request.mark] = Base
      BY <1>3, <2>2, BaseAgain
    <3>2. Base' = IF space' = NULL THEN NULL ELSE [space' EXCEPT !.alloc_size = request'.mark]
      BY DEF Base
    <3>3. Base' = [Base EXCEPT !.alloc_size = request.mark]
      BY <1>1, <1>3, <2>2, <3>2
    <3> QED
      BY <3>1, <3>3
  <2> QED
    BY <2>1, <2>2
<1>11. TypeInv'
  BY <1>1, <1>2, <1>3, <1>4, <1>7, <1>9 DEF TypeInv
<1>12. PlanInv'
  <2> DEFINE taken == plan.n_batch_points * batch.i
             next == plan.n_batch_points * (batch.i + 1)
  <2>1. next = taken + plan.n_batch_points
    BY <1>4
  <2>2. batch.left = IF taken <= request.n THEN request.n - taken ELSE 0
    BY <1>3 DEF IInv, PlanInv
  <2>3. taken \in Nat
    BY <1>4
  <2> HIDE DEF taken, next
  <2>4. batch.left - batch.nbp = IF next <= request.n THEN request.n - next ELSE 0
    <3>1. CASE taken <= request.n /\ batch.left < plan.n_batch_points
      BY <1>4, <1>5, <2>1, <2>2, <2>3, <3>1 DEF LesserOf
    <3>2. CASE taken <= request.n /\ ~(batch.left < plan.n_batch_points)
      BY <1>4, <1>5, <2>1, <2>2, <2>3, <3>2 DEF LesserOf
    <3>3. CASE ~(taken <= request.n)
      <4>1. batch.left = 0 /\ batch.nbp = 0
        BY <1>4, <1>5, <1>6, <2>2, <3>3
      <4>2. ~(next <= request.n)
        BY <1>4, <2>1, <2>3, <3>3
      <4> QED
        BY <4>1, <4>2
    <3> QED
      BY <3>1, <3>2, <3>3
  <2>5. batch.i + 1 <= plan.n_batches
    BY <1>4, <1>5
  <2>6. request.n # 0 /\ plan = multi_plan(Base, request.n)
    BY <1>3 DEF IInv, PlanInv
  <2> QED
    BY <1>1, <1>4, <1>7, <1>10, <2>4, <2>5, <2>6 DEF PlanInv, next
<1>13. SumInv'
  <2>1. /\ r.g = (IF request.g /\ batch.i > 0 THEN 1 ELSE 0)
        /\ Len(called) = Before + batch.pos
        /\ \A k \in 0..(MaxPoints - 1) : r.pts[k] = IF k < Before THEN 1 ELSE 0
    BY <1>1, <1>3 DEF IInv, SumInv
  <2>2. /\ batch.tmp.g = (IF request.g /\ batch.i = 0 THEN 1 ELSE 0)
        /\ \A k \in 0..(MaxPoints - 1) :
             batch.tmp.pts[k] = IF Before <= k /\ k < Before + batch.nbp THEN 1 ELSE 0
    BY <1>1 DEF IInv, BatchInv
  <2>3. DOMAIN r.pts = 0..(MaxPoints - 1)
    BY <1>2 DEF Sums
  <2>4. ASSUME NEW k \in 0..(MaxPoints - 1)
        PROVE  r'.pts[k] = IF k < Before + batch.nbp THEN 1 ELSE 0
    <3>1. r'.pts[k] = r.pts[k] + batch.tmp.pts[k]
      BY <1>1, <2>3 DEF Plus
    <3> QED
      <4>1. /\ r.pts[k] = IF k < Before THEN 1 ELSE 0
            /\ batch.tmp.pts[k] = IF Before <= k /\ k < Before + batch.nbp THEN 1 ELSE 0
        BY <2>1, <2>2
      <4>2. Before \in Nat /\ batch.nbp \in Nat /\ k \in Int
        BY <1>4, <1>6
      <4>3. CASE k < Before
        <5>1. k < Before + batch.nbp /\ ~(Before <= k)
          BY <4>2, <4>3
        <5> QED
          BY <3>1, <4>1, <4>3, <5>1
      <4>4. CASE ~(k < Before)
        <5>1. Before <= k
          BY <4>2, <4>4
        <5> QED
          BY <3>1, <4>1, <4>4, <5>1
      <4> QED
        BY <4>3, <4>4
  <2>5. r'.g = IF request.g /\ batch.i + 1 > 0 THEN 1 ELSE 0
    <3>1. r'.g = r.g + batch.tmp.g
      BY <1>1 DEF Plus
    <3>2. batch.i + 1 > 0 /\ (batch.i > 0 <=> batch.i # 0)
      BY <1>4
    <3> QED
      BY <2>1, <2>2, <3>1, <3>2
  <2> QED
    BY <1>1, <1>7, <1>8, <2>1, <2>4, <2>5 DEF SumInv
<1>14. MarkInv'
  BY <1>1, <1>3, <1>10 DEF MarkInv
<1>15. CalledInOrder'
  BY <1>1 DEF IInv, CalledInOrder
<1> QED
  BY <1>1, <1>11, <1>12, <1>13, <1>14, <1>15 DEF IInv, BatchInv, EveryPointOnce, SpaceGivenBack

LEMMA MultiReturnInv ==
  ASSUME IInv, MultiReturn
  PROVE  IInv'
<1>1. /\ ret = "between" /\ batch.i = plan.n_batches /\ ret' = "done"
      /\ UNCHANGED <<space, request, plan, batch, r, called>>
  BY DEF MultiReturn
<1>2. Running
  BY <1>1 DEF Running
<1>3. /\ request.n \in Nat /\ batch.left \in Nat /\ Before = request.n - batch.left
      /\ plan.n_batches \in Nat \ {0} /\ plan.n_batch_points \in Nat \ {0}
      /\ request.n <= plan.n_batches * plan.n_batch_points
      /\ request.n \in 1..MaxPoints /\ MaxPoints \in Nat
  BY <1>2, Facts DEF Before
<1>4. batch.left = 0
  <2> DEFINE all == plan.n_batch_points * batch.i
  <2>1. all \in Nat /\ request.n <= all
    BY <1>1, <1>3
  <2>2. batch.left = IF all <= request.n THEN request.n - all ELSE 0
    BY <1>2 DEF IInv, PlanInv
  <2> HIDE DEF all
  <2> QED
    BY <1>3, <2>1, <2>2
<1>5. Before = request.n
  BY <1>3, <1>4
<1>6. EveryPointOnce'
  <2>1. /\ \A k \in 0..(MaxPoints - 1) : r.pts[k] = IF k < request.n THEN 1 ELSE 0
        /\ r.g = IF request.g THEN 1 ELSE 0
    BY <1>1, <1>2, <1>3, <1>5 DEF IInv, SumInv
  <2> QED
    BY <1>1, <2>1 DEF EveryPointOnce
<1>7. TypeInv'
  BY <1>1 DEF IInv, TypeInv
<1>8. SpaceGivenBack' /\ CalledInOrder'
  BY <1>1 DEF IInv, MarkInv, SpaceGivenBack, CalledInOrder
<1> QED
  BY <1>1, <1>6, <1>7, <1>8 DEF IInv, Running, PlanInv, SumInv, BatchInv, MarkInv

LEMMA CollectInv ==
  ASSUME IInv, Collect
  PROVE  IInv'
<1>1. ret' = "idle" /\ UNCHANGED <<space, request, plan, batch, r, called>>
  BY DEF Collect
<1>2. TypeInv' /\ CalledInOrder'
  BY <1>1 DEF IInv, TypeInv, CalledInOrder
<1> QED
  BY <1>1, <1>2 DEF IInv, Running, PlanInv, SumInv, BatchInv, MarkInv, EveryPointOnce, SpaceGivenBack

LEMMA Inductive == IInv /\ [MultiNext]_multiVars => IInv'
<1> SUFFICES ASSUME IInv, [MultiNext]_multiVars PROVE IInv'
  OBVIOUS
<1>1. ASSUME NEW n \in 0..MaxPoints, NEW g \in BOOLEAN, MultiVar(n, g) PROVE IInv'
  BY <1>1, MultiVarInv
<1>2. CASE BatchBegin
  BY <1>2, BatchBeginInv
<1>3. ASSUME NEW ok \in BOOLEAN, Callback(ok) PROVE IInv'
  BY <1>3, CallbackInv
<1>4. CASE BatchEnd
  BY <1>4, BatchEndInv
<1>5. CASE MultiReturn
  BY <1>5, MultiReturnInv
<1>6. CASE Collect
  BY <1>6, CollectInv
<1>7. CASE UNCHANGED multiVars
  BY <1>7 DEF multiVars, IInv, TypeInv, Running, PlanInv, Base, SumInv, Before, BatchInv, MarkInv,
              EveryPointOnce, CalledInOrder, SpaceGivenBack
<1> QED
  BY <1>1, <1>2, <1>3, <1>4, <1>5, <1>6, <1>7 DEF MultiNext

LEMMA Invariance == MultiSpec => []IInv
  BY InitInv, Inductive, PTL DEF MultiSpec

-----------------------------------------------------------------------------
(***************************************************************************)
(* Memory.                                                                 *)
(***************************************************************************)

\* The constants of the library: both counts of objects and the largest window
\* (ecmult_impl.h:66-71), and sizes of which one needs no rounding.
LibraryConstants ==
  /\ StraussObjects = 6 /\ PippengerObjects = 6 /\ PippengerMaxWindow = 12
  /\ OneIsAligned

LEMMA BatchServed ==
  ASSUME LibraryConstants, IInv, ret = "between"
  PROVE  Served(LesserOf(batch.left, plan.n_batch_points)).ok
<1> DEFINE nb == LesserOf(batch.left, plan.n_batch_points)
<1>1. /\ PlanFits(space, request.n, plan)
      /\ plan.n_batch_points \in Nat \ {0} /\ batch.left \in Nat
  BY Facts, BetweenBase DEF Running
<1>2. nb \in Nat /\ nb <= plan.n_batch_points
  BY <1>1 DEF LesserOf
<1> HIDE DEF nb
<1>3. plan.alg \in {"simple", "strauss", "pippenger"} /\ (space = NULL => plan.alg = "simple")
  BY <1>1 DEF PlanFits
<1>4. space = NULL \/ Usable(space)
  BY DEF IInv, TypeInv
<1>5. CASE plan.alg = "simple"
  BY <1>5 DEF Served, nb
<1>6. CASE plan.alg = "strauss"
  <2>1. Usable(space) /\ plan.n_batch_points <= strauss_max_points(space)
    BY <1>1, <1>3, <1>4, <1>6 DEF PlanFits
  <2>2. strauss_max_points(space) \in Nat
    BY <2>1, StraussMax
  <2>3. nb <= strauss_max_points(space) /\ strauss_max_points(space) # 0
    BY <1>1, <1>2, <2>1, <2>2
  <2>4. strauss_allocs(space, nb).ok
    BY <1>2, <2>1, <2>3, StraussServed DEF LibraryConstants, Within
  <2> QED
    BY <1>6, <2>4 DEF Served, nb
<1>7. CASE plan.alg = "pippenger"
  <2>1. Usable(space) /\ plan.n_batch_points <= pippenger_max_points(space)
    BY <1>1, <1>3, <1>4, <1>7 DEF PlanFits
  <2>2. pippenger_max_points(space) \in Nat
    BY <2>1, PippengerMax
  <2>3. nb <= pippenger_max_points(space) /\ pippenger_max_points(space) # 0
    BY <1>1, <1>2, <2>1, <2>2
  <2>4. pippenger_allocs(space, nb).ok
    BY <1>2, <2>1, <2>3, PippengerServed DEF LibraryConstants, Within
  <2> QED
    BY <1>7, <2>4 DEF Served, nb
<1> QED
  BY <1>3, <1>5, <1>6, <1>7

LEMMA StarvesNever ==
  ASSUME LibraryConstants, IInv, NeverStarves, [MultiNext]_multiVars
  PROVE  NeverStarves'
<1> SUFFICES ASSUME ret' = "failed" PROVE (Len(called) > 0 /\ batch.pos < batch.nbp)'
  BY DEF NeverStarves
<1>1. ASSUME NEW n \in 0..MaxPoints, NEW g \in BOOLEAN, MultiVar(n, g) PROVE FALSE
  BY <1>1 DEF MultiVar
<1>2. ASSUME BatchBegin PROVE FALSE
  <2>1. ret = "between" /\ ~Served(LesserOf(batch.left, plan.n_batch_points)).ok
    BY <1>2 DEF BatchBegin, Served
  <2> QED
    BY <2>1, BatchServed
<1>3. ASSUME NEW ok \in BOOLEAN, Callback(ok)
      PROVE  (Len(called) > 0 /\ batch.pos < batch.nbp)'
  <2> DEFINE idx == batch.pos + plan.n_batch_points * batch.i
  <2>1. ret = "calling" /\ batch.pos < batch.nbp /\ called' = Append(called, idx)
    BY <1>3 DEF Callback
  <2>2. batch' = batch
    BY <1>3, <2>1 DEF Callback
  <2>3. called \in Seq(Nat) /\ idx \in Nat
    <3>1. called \in Seq(Nat) /\ batch.pos \in Nat
      BY DEF IInv, TypeInv
    <3>2. plan.n_batch_points * batch.i \in Nat
      BY <2>1, Facts DEF Running
    <3> QED
      BY <3>1, <3>2
  <2> HIDE DEF idx
  <2>4. Len(Append(called, idx)) > 0
    BY <2>3
  <2> QED
    BY <2>1, <2>2, <2>4
<1>4. ASSUME BatchEnd \/ MultiReturn \/ Collect PROVE FALSE
  BY <1>4 DEF BatchEnd, MultiReturn, Collect
<1>5. ASSUME UNCHANGED multiVars PROVE (Len(called) > 0 /\ batch.pos < batch.nbp)'
  <2>1. ret = "failed" /\ called' = called /\ batch' = batch
    BY <1>5 DEF multiVars
  <2> QED
    BY <2>1 DEF NeverStarves
<1> QED
  BY <1>1, <1>2, <1>3, <1>4, <1>5 DEF MultiNext

LEMMA Admitted ==
  ASSUME LibraryConstants, IInv
  PROVE  AdmittedIsServed
<1> SUFFICES ASSUME space # NULL, NEW less \in 0..(Alignment - 1),
                    space.alloc_size + less <= space.max_size
             PROVE  LET sc == [space EXCEPT !.max_size = @ - less]
                    IN  /\ \A n \in 1..strauss_max_points(sc) : strauss_allocs(sc, n).ok
                        /\ \A n \in 1..pippenger_max_points(sc) : pippenger_allocs(sc, n).ok
  BY DEF AdmittedIsServed
<1> DEFINE sc == [space EXCEPT !.max_size = space.max_size - less]
<1>1. Usable(space)
  BY DEF IInv, TypeInv
<1>2. /\ space \in Space /\ space.max_size \in Nat /\ space.alloc_size \in Nat
      /\ space.max_size <= SizeMax /\ SizeMax \in Nat /\ less \in Nat
  BY <1>1, Left, WidthAssumption DEF Usable
<1>3. space.max_size - less \in Nat /\ space.alloc_size <= space.max_size - less
      /\ space.max_size - less <= SizeMax
  BY <1>2
<1>4. Usable(sc)
  <2>1. sc \in Space /\ sc.valid = space.valid /\ sc.alloc_size = space.alloc_size
        /\ sc.max_size = space.max_size - less
    BY <1>2, <1>3 DEF Space
  <2> QED
    BY <1>1, <1>3, <2>1 DEF Usable
<1>5. [space EXCEPT !.max_size = @ - less] = sc
  OBVIOUS
<1> HIDE DEF sc
<1>6. strauss_max_points(sc) \in Nat /\ pippenger_max_points(sc) \in Nat
  BY <1>4, StraussMax, PippengerMax
<1>7. ASSUME NEW n \in 1..strauss_max_points(sc) PROVE strauss_allocs(sc, n).ok
  <2>1. n \in Nat /\ n <= strauss_max_points(sc) /\ strauss_max_points(sc) # 0
    BY <1>6
  <2> QED
    BY <1>4, <2>1, StraussServed DEF LibraryConstants, Within
<1>8. ASSUME NEW n \in 1..pippenger_max_points(sc) PROVE pippenger_allocs(sc, n).ok
  <2>1. n \in Nat /\ n <= pippenger_max_points(sc) /\ pippenger_max_points(sc) # 0
    BY <1>6
  <2> QED
    BY <1>4, <2>1, PippengerServed DEF LibraryConstants, Within
<1> QED
  BY <1>5, <1>7, <1>8

-----------------------------------------------------------------------------
(***************************************************************************)
(* The theorems.                                                           *)
(***************************************************************************)

\* ecmult_multi_var (ecmult_impl.h:1035-1081) returns the sum of all inputs,
\* each once, and G once if asked for, and calls its callback for 0, 1, 2, ...
\* in order, whatever the space, the sizes, the limits of a batch and the
\* algorithm it chooses.
THEOREM SumCorrect == MultiSpec => []SumIsExact
<1>1. IInv => SumIsExact
  BY DEF IInv, SumIsExact
<1> QED
  BY Invariance, <1>1, PTL

\* On every path out of it, also where memory is missing or the callback
\* refuses, the space is at the mark that the call found
\* (ecmult_impl.h:600-616, 889-941).
THEOREM SpaceCorrect == MultiSpec => []SpaceGivenBack
<1>1. IInv => SpaceGivenBack
  BY DEF IInv
<1> QED
  BY Invariance, <1>1, PTL

\* With the counts of objects and the windows of the library, what
\* strauss_max_points and pippenger_max_points admit finds its memory in every
\* usable space, and so does every smaller number: a sum fails only because a
\* callback refused (ecmult_impl.h:625-627, 945-985).
THEOREM MemoryCorrect ==
  ASSUME LibraryConstants
  PROVE  MultiSpec => []MemorySuffices
<1>1. MultiInit => IInv /\ NeverStarves
  <2>1. MultiInit => NeverStarves
    BY DEF MultiInit, NeverStarves
  <2> QED
    BY <2>1, InitInv
<1>2. IInv /\ NeverStarves /\ [MultiNext]_multiVars => (IInv /\ NeverStarves)'
  BY Inductive, StarvesNever
<1>3. IInv /\ NeverStarves => MemorySuffices
  BY Admitted DEF IInv, MemorySuffices
<1> QED
  BY <1>1, <1>2, <1>3, PTL DEF MultiSpec

=============================================================================
