---------------------------- MODULE EcmultMulti ----------------------------
(***************************************************************************)
(* secp256k1_ecmult_multi_var (ecmult_impl.h:989-1081): the sum of many    *)
(* multiples of points, in batches that fit a scratch space, by Strauss'   *)
(* or by Pippenger's algorithm, or one by one without a scratch space.     *)
(* The points come from a callback, one at a time, and the callback may    *)
(* refuse.  A sum is the number of times every input has gone into it; the *)
(* arithmetic of the algorithms is modelled in Ecmult.                     *)
(***************************************************************************)
EXTENDS ScratchSpace, Integers, Sequences, FiniteSetsExt

CONSTANTS
  Sizeof,          \* sizeof of ge, gej, fe, scalar, int and of the states of the algorithms
  TableSizeA,      \* ECMULT_TABLE_SIZE(WINDOW_A)
  WnafBits,        \* WNAF_BITS
  PippengerMaxWindow,   \* PIPPENGER_MAX_BUCKET_WINDOW
  StraussObjects, PippengerObjects,   \* STRAUSS_ and PIPPENGER_SCRATCH_OBJECTS
  PippengerThreshold,   \* ECMULT_PIPPENGER_THRESHOLD
  MaxPointsPerBatch,    \* ECMULT_MAX_POINTS_PER_BATCH
  Spaces,          \* scratch spaces a caller has: [max_size, alloc_size]
  MaxPoints        \* bound: points of one sum

SizeNames == {"ge", "gej", "fe", "scalar", "int",
              "strauss_point_state", "pippenger_point_state", "pippenger_state"}

\* Every object has a size, a point needs memory, and a batch may have points.
ASSUME MultiAssumption ==
  /\ Sizeof \in [SizeNames -> Nat \ {0}]
  /\ TableSizeA \in Nat \ {0} /\ WnafBits \in Nat \ {0}
  /\ PippengerMaxWindow \in Nat /\ PippengerThreshold \in Nat
  /\ StraussObjects \in Nat /\ PippengerObjects \in Nat
  /\ MaxPointsPerBatch \in Nat \ {0} /\ MaxPoints \in Nat
  /\ \A sc \in Spaces : sc \in Space /\ sc.valid /\ sc.alloc_size <= sc.max_size /\ sc.max_size <= SizeMax

LesserOf(a, b) == IF a < b THEN a ELSE b

WNAF_SIZE(w) == (WnafBits + w - 1) \div w

\* Mutant: the states of the points are forgotten.
strauss_scratch_size_NoStates(n_points) ==
  n_points * ((2 * Sizeof.ge + Sizeof.gej + Sizeof.fe) * TableSizeA + Sizeof.gej + Sizeof.scalar)

strauss_scratch_size(n_points) ==
  n_points * ((2 * Sizeof.ge + Sizeof.gej + Sizeof.fe) * TableSizeA
              + Sizeof.strauss_point_state + Sizeof.gej + Sizeof.scalar)

strauss_max_points(sc) ==
  scratch_max_allocation(sc, StraussObjects) \div strauss_scratch_size(1)

\* One more object after those of an allocation; none is missing as long as ok.
First(sc) == [ok |-> TRUE, sc |-> sc]
Then(a, size) == [ok |-> a.ok /\ CanAlloc(a.sc, size), sc |-> scratch_alloc(a.sc, size).sc]

\* The objects that strauss_batch allocates, in this order.
strauss_allocs(sc, n_points) ==
  LET points  == Then(First(sc), n_points * Sizeof.gej)
      scalars == Then(points, n_points * Sizeof.scalar)
      prej    == Then(scalars, n_points * TableSizeA * Sizeof.gej)
      zr      == Then(prej, n_points * TableSizeA * Sizeof.fe)
      pre_a   == Then(zr, n_points * TableSizeA * Sizeof.ge)
      pre_a_lam == Then(pre_a, n_points * TableSizeA * Sizeof.ge)
  IN  Then(pre_a_lam, n_points * Sizeof.strauss_point_state)

\* The best bucket window for a number of points, and the most points a
\* window is the best for.
WindowLimits ==
  <<1, 4, 20, 57, 136, 235, 1260, 1260, 4420, 7880, 16050>>

pippenger_bucket_window(n) ==
  IF n > 16050 THEN PippengerMaxWindow
  ELSE CHOOSE w \in 1..11 : n <= WindowLimits[w] /\ \A v \in 1..(w-1) : WindowLimits[v] < n

pippenger_bucket_window_inv(bucket_window) ==
  IF bucket_window = PippengerMaxWindow THEN SizeMax
  ELSE IF bucket_window \in 1..11 THEN WindowLimits[bucket_window] ELSE 0

\* What a point takes, twice for its two halves, and what G and the buckets take.
entry_size(bucket_window) ==
  2 * (Sizeof.ge + Sizeof.scalar + Sizeof.pippenger_point_state
       + (WNAF_SIZE(bucket_window + 1) + 1) * Sizeof.int)

space_overhead(bucket_window) ==
  Sizeof.gej * 2^bucket_window + entry_size(bucket_window) + Sizeof.pippenger_state

\* The points of a window in so much memory, at most those it is the best for.
window_points(bucket_window, max_alloc) ==
  LesserOf((max_alloc - space_overhead(bucket_window)) \div entry_size(bucket_window),
           pippenger_bucket_window_inv(bucket_window))

\* A larger window is tried only as long as all the points that a smaller one
\* is the best for fit.
windows_tried(max_alloc) ==
  {w \in 1..PippengerMaxWindow :
     /\ \A v \in 1..w : space_overhead(v) <= max_alloc
     /\ \A v \in 1..(w-1) : window_points(v, max_alloc) = pippenger_bucket_window_inv(v)}

pippenger_max_points(sc) ==
  LET max_alloc == scratch_max_allocation(sc, PippengerObjects)
  IN  Max({0} \cup {window_points(w, max_alloc) : w \in windows_tried(max_alloc)})

\* The objects that pippenger_batch allocates, in this order.
pippenger_allocs(sc, n_points) ==
  LET entries == 2 * n_points + 2
      bucket_window == pippenger_bucket_window(n_points)
      points  == Then(First(sc), entries * Sizeof.ge)
      scalars == Then(points, entries * Sizeof.scalar)
      state_space == Then(scalars, Sizeof.pippenger_state)
      ps      == Then(state_space, entries * Sizeof.pippenger_point_state)
      wnaf_na == Then(ps, entries * WNAF_SIZE(bucket_window + 1) * Sizeof.int)
  IN  Then(wnaf_na, 2^bucket_window * Sizeof.gej)

\* ceil(n / max) batches of nearly the same size; 0 batches stand for the
\* return value 0.
multi_batch_size_helper(max_n_batch_points, n) ==
  LET m == LesserOf(max_n_batch_points, MaxPointsPerBatch)
      n_batches == 1 + (n - 1) \div m
  IN  IF m = 0 THEN [n_batches |-> 0, n_batch_points |-> 0]
      ELSE [n_batches |-> n_batches, n_batch_points |-> 1 + (n - 1) \div n_batches]

\* The algorithm for n > 0 points and the batches it runs in.
multi_plan(sc, n) ==
  LET p == multi_batch_size_helper(pippenger_max_points(sc), n)
      s == multi_batch_size_helper(strauss_max_points(sc), n)
      simple == [alg |-> "simple", n_batches |-> 1, n_batch_points |-> n]
  IN  CASE sc = NULL -> simple
        [] sc # NULL /\ p.n_batches = 0 -> simple
        [] sc # NULL /\ p.n_batches # 0 /\ p.n_batch_points >= PippengerThreshold ->
             [alg |-> "pippenger", n_batches |-> p.n_batches, n_batch_points |-> p.n_batch_points]
        [] OTHER ->
             IF s.n_batches = 0 THEN simple
             ELSE [alg |-> "strauss", n_batches |-> s.n_batches, n_batch_points |-> s.n_batch_points]

-----------------------------------------------------------------------------
VARIABLES
  space,    \* the scratch space of the caller, or NULL
  request,  \* n, whether there is a multiple of G, and the mark of the space
  plan,     \* what multi_plan chose
  batch,    \* the current batch: i, left (points not yet in a batch), nbp, pos, mark, tmp
  r,        \* the sum so far: how often each point and G are in it
  called,   \* the index of every call of the callback so far, in order
  ret       \* "idle", "between" batches, "calling" the callback, "failed", "done"

multiVars == <<space, request, plan, batch, r, called, ret>>

Sums == [pts : [0..(MaxPoints - 1) -> Nat], g : Nat]
Zero == [pts |-> [k \in 0..(MaxPoints - 1) |-> 0], g |-> 0]
NoBatch == [i |-> 0, left |-> 0, nbp |-> 0, pos |-> 0, mark |-> 0, tmp |-> Zero]

Plus(a, b) == [pts |-> [k \in DOMAIN a.pts |-> a.pts[k] + b.pts[k]], g |-> a.g + b.g]

MultiInit ==
  /\ space \in Spaces \cup {NULL}
  /\ request = [n |-> 0, g |-> FALSE, mark |-> 0]
  /\ plan = [alg |-> "none", n_batches |-> 0, n_batch_points |-> 0]
  /\ batch = NoBatch /\ r = Zero /\ called = <<>>
  /\ ret = "idle"

\* secp256k1_ecmult_multi_var up to its loop; without points it is done.
MultiVar(n, g) ==
  /\ ret = "idle"
  /\ request' = [n |-> n, g |-> g, mark |-> IF space = NULL THEN 0 ELSE space.alloc_size]
  /\ called' = <<>>
  /\ IF n = 0
     THEN /\ r' = [Zero EXCEPT !.g = IF g THEN 1 ELSE 0]
          /\ ret' = "done"
          /\ UNCHANGED <<plan, batch>>
     ELSE /\ r' = Zero
          /\ plan' = multi_plan(space, n)
          /\ batch' = [NoBatch EXCEPT !.left = n]
          /\ ret' = "between"
  /\ UNCHANGED space

\* Mutant: G goes into every batch.
BatchBegin_GAlways ==
  /\ ret = "between" /\ batch.i < plan.n_batches
  /\ LET nbp == LesserOf(batch.left, plan.n_batch_points)
         tmp == [Zero EXCEPT !.g = IF request.g THEN 1 ELSE 0]
         mark == IF plan.alg = "simple" THEN 0 ELSE scratch_checkpoint(space)
         served == CASE plan.alg = "simple" -> [ok |-> TRUE, sc |-> space]
                     [] plan.alg = "strauss" -> strauss_allocs(space, nbp)
                     [] plan.alg = "pippenger" -> pippenger_allocs(space, nbp)
     IN  IF served.ok
         THEN /\ batch' = [batch EXCEPT !.nbp = nbp, !.pos = 0, !.mark = mark, !.tmp = tmp]
              /\ space' = served.sc
              /\ ret' = "calling"
         ELSE /\ space' = scratch_apply_checkpoint(served.sc, mark)
              /\ ret' = "failed"
              /\ UNCHANGED batch
  /\ UNCHANGED <<request, plan, r, called>>

\* strauss_batch and pippenger_batch up to the calls of the callback; the sum
\* one by one is one batch that needs no memory.
BatchBegin ==
  /\ ret = "between" /\ batch.i < plan.n_batches
  /\ LET nbp == LesserOf(batch.left, plan.n_batch_points)
         tmp == [Zero EXCEPT !.g = IF request.g /\ batch.i = 0 THEN 1 ELSE 0]
         mark == IF plan.alg = "simple" THEN 0 ELSE scratch_checkpoint(space)
         served == CASE plan.alg = "simple" -> [ok |-> TRUE, sc |-> space]
                     [] plan.alg = "strauss" -> strauss_allocs(space, nbp)
                     [] plan.alg = "pippenger" -> pippenger_allocs(space, nbp)
     IN  IF served.ok
         THEN /\ batch' = [batch EXCEPT !.nbp = nbp, !.pos = 0, !.mark = mark, !.tmp = tmp]
              /\ space' = served.sc
              /\ ret' = "calling"
         ELSE /\ space' = scratch_apply_checkpoint(served.sc, mark)
              /\ ret' = "failed"
              /\ UNCHANGED batch
  /\ UNCHANGED <<request, plan, r, called>>

\* Mutant: the memory of a batch is kept.
Release_Never(sc) == sc

Release(sc) == IF plan.alg = "simple" THEN sc ELSE scratch_apply_checkpoint(sc, batch.mark)

\* Mutant: a batch starts at its own number of points times its index, and a
\* refusal forgets the memory.
Callback_OwnOffset(ok) ==
  /\ ret = "calling" /\ batch.pos < batch.nbp
  /\ LET idx == batch.pos + batch.nbp * batch.i
     IN  /\ called' = Append(called, idx)
         /\ IF ok
            THEN /\ batch' = [batch EXCEPT !.pos = @ + 1, !.tmp.pts[idx] = @ + 1]
                 /\ UNCHANGED <<space, ret>>
            ELSE /\ ret' = "failed"
                 /\ UNCHANGED <<space, batch>>
  /\ UNCHANGED <<request, plan, r>>

\* One call of the callback: it returns a scalar and a point, or refuses.
Callback(ok) ==
  /\ ret = "calling" /\ batch.pos < batch.nbp
  /\ LET idx == batch.pos + plan.n_batch_points * batch.i
     IN  /\ called' = Append(called, idx)
         /\ IF ok
            THEN /\ batch' = [batch EXCEPT !.pos = @ + 1, !.tmp.pts[idx] = @ + 1]
                 /\ UNCHANGED <<space, ret>>
            ELSE /\ space' = Release(space)
                 /\ ret' = "failed"
                 /\ UNCHANGED batch
  /\ UNCHANGED <<request, plan, r>>

BatchEnd ==
  /\ ret = "calling" /\ batch.pos = batch.nbp
  /\ r' = Plus(r, batch.tmp)
  /\ space' = Release(space)
  /\ batch' = [batch EXCEPT !.i = @ + 1, !.left = @ - batch.nbp]
  /\ ret' = "between"
  /\ UNCHANGED <<request, plan, called>>

MultiReturn ==
  /\ ret = "between" /\ batch.i = plan.n_batches
  /\ ret' = "done"
  /\ UNCHANGED <<space, request, plan, batch, r, called>>

\* The caller takes the result and may call again with the same space.
Collect ==
  /\ ret \in {"failed", "done"}
  /\ ret' = "idle"
  /\ UNCHANGED <<space, request, plan, batch, r, called>>

MultiNext ==
  \/ \E n \in 0..MaxPoints, g \in BOOLEAN : MultiVar(n, g)
  \/ BatchBegin
  \/ \E ok \in BOOLEAN : Callback(ok)
  \/ BatchEnd
  \/ MultiReturn
  \/ Collect

MultiSpec == MultiInit /\ [][MultiNext]_multiVars

-----------------------------------------------------------------------------
\* A sum that is returned has every point in it once, and G once if it was
\* asked for, whatever the batches were.
EveryPointOnce ==
  ret = "done" =>
    /\ \A k \in 0..(MaxPoints - 1) : r.pts[k] = IF k < request.n THEN 1 ELSE 0
    /\ r.g = IF request.g THEN 1 ELSE 0

\* The callback is called for 0, 1, 2, ... in this order and never twice: the
\* callbacks of the batch verification keep state from one call to the next.
CalledInOrder ==
  \A k \in 1..Len(called) : called[k] = k - 1

\* The space is as it was before the call on every path out of it.
SpaceGivenBack ==
  (space # NULL /\ ret \in {"failed", "done"}) => space.alloc_size = request.mark

\* A sum fails only because a callback refused: the batches that
\* strauss_max_points and pippenger_max_points admit find the memory they
\* ask for, also when a batch is smaller than the largest one admitted.
NeverStarves ==
  ret = "failed" => Len(called) > 0 /\ batch.pos < batch.nbp

\* What max_points admits can be had for that many points and for any smaller
\* number, although a smaller number may choose a smaller bucket window and
\* the sizes round: pippenger_max_points says so (ecmult_impl.h:948).  It is
\* asked of spaces of every remainder modulo the alignment.
AdmittedIsServed ==
  (space # NULL /\ called = <<>> /\ ret = "idle" /\ request.n = 0) =>
    \A less \in 0..(Alignment - 1) : space.alloc_size + less <= space.max_size =>
      LET sc == [space EXCEPT !.max_size = @ - less]
      IN  /\ \A n \in 1..strauss_max_points(sc) : strauss_allocs(sc, n).ok
          /\ \A n \in 1..pippenger_max_points(sc) : pippenger_allocs(sc, n).ok

\* What ecmult_multi_var returns and what it asks its callback for on the way
\* (ecmult_impl.h:989-1081): every input once, and in order.
SumIsExact == EveryPointOnce /\ CalledInOrder

\* The memory of ecmult_multi_var: what max_points admits finds its space in
\* every batch, and the space is given back (ecmult_impl.h:600-616, 895-966).
MemorySuffices == SpaceGivenBack /\ NeverStarves /\ AdmittedIsServed

=============================================================================
