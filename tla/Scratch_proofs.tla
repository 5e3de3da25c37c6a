--------------------------- MODULE Scratch_proofs ---------------------------
(***************************************************************************)
(* What every scratch space keeps, for all sizes, alignments and widths of *)
(* size_t: the objects in it are apart, aligned and inside of the block,   *)
(* and going back to a checkpoint leaves nothing behind.                   *)
(***************************************************************************)
EXTENDS Scratch, Integers, SequenceTheorems, WellFoundedInduction, TLAPS

-----------------------------------------------------------------------------
(***************************************************************************)
(* Arithmetic: what rounding and wrapping do, what an allocation takes     *)
(* from a space that has room, and what scratch_max_allocation sets aside. *)
(***************************************************************************)

\* A set of naturals has a least element.
LEMMA LeastNumber ==
  ASSUME NEW S \in SUBSET Nat, S # {}
  PROVE  \E m \in S : \A n \in S : m <= n
<1>1. PICK m \in S : \A n \in S : <<n, m>> \notin OpToRel(<, Nat)
  BY NatLessThanWellFounded, WFMin
<1>2. ASSUME NEW n \in S PROVE m <= n
  <2>1. <<n, m>> \notin {ss \in Nat \X Nat : ss[1] < ss[2]}
    BY <1>1 DEF OpToRel
  <2> QED
    BY <2>1
<1> QED
  BY <1>2

LEMMA Multiples ==
  ASSUME NEW a \in Nat, NEW d \in Nat \ {0}
  PROVE  (a * d) % d = 0
  OBVIOUS

LEMMA MultipleOf ==
  ASSUME NEW a \in Nat, NEW d \in Nat \ {0}, a % d = 0
  PROVE  \E q \in Nat : a = q * d
  OBVIOUS

LEMMA Distribute ==
  ASSUME NEW a \in Nat, NEW b \in Nat, NEW d \in Nat
  PROVE  a * d + b * d = (a + b) * d
  OBVIOUS

\* A sum of multiples of the alignment is one.
LEMMA AlignedSum ==
  ASSUME NEW a \in Nat, NEW b \in Nat, Aligned(a), Aligned(b)
  PROVE  Aligned(a + b)
<1> DEFINE d == Alignment
<1>1. d \in Nat \ {0}
  BY WidthAssumption
<1> HIDE DEF d
<1>2. PICK p \in Nat : a = p * d
  BY <1>1, MultipleOf DEF Aligned, d
<1>3. PICK q \in Nat : b = q * d
  BY <1>1, MultipleOf DEF Aligned, d
<1>4. a + b = (p + q) * d
  BY <1>1, <1>2, <1>3, Distribute
<1>5. ((p + q) * d) % d = 0
  BY <1>1, Multiples
<1> QED
  BY <1>4, <1>5 DEF Aligned, d

LEMMA SmallRemainder ==
  ASSUME NEW k \in Nat, NEW m \in Nat \ {0}, k < m
  PROVE  k % m = k
  OBVIOUS

LEMMA WrapOnce ==
  ASSUME NEW m \in Nat, NEW k \in 0..m
  PROVE  (k + (m + 1)) % (m + 1) = k
  OBVIOUS

LEMMA Division ==
  ASSUME NEW a \in Nat, NEW d \in Nat \ {0}
  PROVE  /\ a \div d \in Nat
         /\ (a \div d) * d \in Nat
         /\ (a \div d) * d <= a
         /\ a < (a \div d) * d + d
<1>1. a \div d \in Nat
  OBVIOUS
<1>2. a = (a \div d) * d + (a % d)
  OBVIOUS
<1>3. a % d \in 0..(d - 1)
  OBVIOUS
<1>4. (a \div d) * d \in Nat
  BY <1>1
<1> QED
  BY <1>1, <1>2, <1>3, <1>4

\* Rounding gives a multiple of the alignment; it goes down only when the
\* addition in it wraps.
LEMMA Rounding ==
  ASSUME NEW s \in 0..SizeMax
  PROVE  /\ round_to_align(s) \in Nat
         /\ Aligned(round_to_align(s))
         /\ round_to_align(s) <= SizeMax
<1> DEFINE w == Wrap(s + Alignment - 1)
<1>1. w \in 0..SizeMax
  <2>1. s + Alignment - 1 \in Nat /\ SizeMax + 1 \in Nat \ {0}
    BY WidthAssumption
  <2>2. ASSUME NEW a \in Nat, NEW m \in Nat \ {0} PROVE a % m \in 0..(m - 1)
    OBVIOUS
  <2> QED
    BY <2>1, <2>2, WidthAssumption DEF Wrap
<1>2. Alignment \in Nat \ {0}
  BY WidthAssumption
<1>3. /\ w \div Alignment \in Nat
      /\ (w \div Alignment) * Alignment \in Nat
      /\ (w \div Alignment) * Alignment <= w
  BY <1>1, <1>2, Division
<1>4. Aligned((w \div Alignment) * Alignment)
  BY <1>2, <1>3, Multiples DEF Aligned
<1>5. round_to_align(s) = (w \div Alignment) * Alignment
  BY DEF round_to_align
<1> HIDE DEF w
<1> QED
  BY <1>1, <1>3, <1>4, <1>5, WidthAssumption

LEMMA WrapSmall ==
  ASSUME NEW a \in 0..SizeMax
  PROVE  Wrap(a) = a
<1> QED
  BY SmallRemainder, WidthAssumption DEF Wrap

\* A space that is in use and not over-full.
Usable(sc) == sc \in Space /\ sc.valid /\ sc.alloc_size <= sc.max_size /\ sc.max_size <= SizeMax

\* What is left of it does not wrap.
LEMMA Left ==
  ASSUME NEW sc, Usable(sc)
  PROVE  /\ sc.max_size \in Nat /\ sc.alloc_size \in Nat /\ sc.data \in Nat
         /\ sc.max_size - sc.alloc_size \in 0..SizeMax
         /\ Wrap(sc.max_size + SizeMax + 1 - sc.alloc_size) = sc.max_size - sc.alloc_size
<1>1. sc.max_size \in Nat /\ sc.alloc_size \in Nat /\ sc.data \in Nat /\ SizeMax \in Nat
  BY WidthAssumption DEF Usable, Space
<1> DEFINE d == sc.max_size - sc.alloc_size
<1>2. d \in 0..SizeMax /\ sc.max_size + SizeMax + 1 - sc.alloc_size = d + (SizeMax + 1)
  BY <1>1 DEF Usable
<1>3. (d + (SizeMax + 1)) % (SizeMax + 1) = d
  BY <1>1, <1>2, WrapOnce
<1> QED
  BY <1>1, <1>2, <1>3 DEF Wrap

\* Rounding goes up, by less than the alignment, where the addition in it
\* does not wrap; a multiple of the alignment stays.
LEMMA RoundUp ==
  ASSUME NEW s \in Nat, s + (Alignment - 1) <= SizeMax
  PROVE  /\ round_to_align(s) \in Nat
         /\ s <= round_to_align(s)
         /\ round_to_align(s) <= s + (Alignment - 1)
         /\ Aligned(s) => round_to_align(s) = s
<1> DEFINE d == Alignment
           t == s + (d - 1)
           q == t \div d
<1>1. d \in Nat \ {0} /\ SizeMax \in Nat /\ t \in 0..SizeMax
  BY WidthAssumption
<1>2. round_to_align(s) = q * d
  <2>1. s + Alignment - 1 = t
    BY <1>1
  <2> QED
    BY <1>1, <2>1, WrapSmall DEF round_to_align
<1>3. q \in Nat /\ q * d \in Nat /\ q * d <= t /\ t < q * d + d
  BY <1>1, Division
<1>4. ASSUME Aligned(s) PROVE q * d = s
  <2>1. PICK k \in Nat : s = k * d
    BY <1>1, <1>4, MultipleOf DEF Aligned
  <2> HIDE DEF d, t, q
  <2>2. t = k * d + (d - 1)
    BY <2>1 DEF t
  <2>3. q < k + 1
    <3>1. q >= k + 1 => q * d >= (k + 1) * d
      BY <1>1, <1>3
    <3>2. (k + 1) * d = k * d + d
      BY <1>1
    <3> QED
      BY <1>1, <1>3, <2>2, <3>1, <3>2
  <2>4. q > k - 1
    <3>1. q <= k - 1 => q * d + d <= k * d
      <4>1. q * d + d = (q + 1) * d
        BY <1>1, <1>3
      <4>2. q + 1 <= k => (q + 1) * d <= k * d
        BY <1>1, <1>3
      <4> QED
        BY <1>1, <1>3, <4>1, <4>2
    <3> QED
      BY <1>1, <1>3, <2>2, <3>1
  <2>5. q = k
    BY <1>3, <2>3, <2>4
  <2> QED
    BY <2>1, <2>5
<1> HIDE DEF q
<1> QED
  BY <1>1, <1>2, <1>3, <1>4

\* An object that a space has room for is served, at the mark of the space.
LEMMA Allocation ==
  ASSUME NEW sc, Usable(sc), NEW size \in Nat,
         size + (Alignment - 1) <= SizeMax,
         round_to_align(size) <= sc.max_size - sc.alloc_size
  PROVE  /\ CanAlloc(sc, size)
         /\ scratch_alloc(sc, size).sc = [sc EXCEPT !.alloc_size = sc.alloc_size + round_to_align(size)]
<1>1. /\ sc.max_size \in Nat /\ sc.alloc_size \in Nat
      /\ Wrap(sc.max_size + SizeMax + 1 - sc.alloc_size) = sc.max_size - sc.alloc_size
  BY Left
<1>2. round_to_align(size) \in Nat /\ size <= round_to_align(size)
  BY RoundUp
<1>3. CanAlloc(sc, size)
  BY <1>1, <1>2 DEF CanAlloc, Usable
<1>4. sc.alloc_size + round_to_align(size) \in 0..SizeMax
  BY <1>1, <1>2, WidthAssumption DEF Usable
<1> QED
  BY <1>3, <1>4, WrapSmall DEF scratch_alloc

\* Where scratch_max_allocation promises anything, it has set aside what the
\* rounding of so many objects may take.
LEMMA MaxAllocation ==
  ASSUME NEW sc, Usable(sc), NEW n \in Nat
  PROVE  LET m == scratch_max_allocation(sc, n)
         IN  /\ m \in Nat
             /\ m # 0 => m + n * (Alignment - 1) = sc.max_size - sc.alloc_size
<1> DEFINE a == Alignment - 1
           left == sc.max_size - sc.alloc_size
           small == Alignment > 1 /\ n > SizeMax \div a
<1>1. /\ sc.valid /\ left \in 0..SizeMax
      /\ Wrap(sc.max_size + SizeMax + 1 - sc.alloc_size) = left
  BY Left DEF Usable
<1>2. a \in Nat /\ SizeMax \in Nat
  BY WidthAssumption
<1>3. scratch_max_allocation(sc, n) =
        IF small \/ left <= Wrap(n * a) THEN 0 ELSE left - Wrap(n * a)
  BY <1>1 DEF scratch_max_allocation
<1>4. ~small => n * a \in 0..SizeMax
  <2>1. CASE a = 0
    BY <1>2, <2>1
  <2>2. CASE a # 0 /\ n <= SizeMax \div a
    <3>1. /\ SizeMax \div a \in Nat
          /\ (SizeMax \div a) * a <= SizeMax
      BY <1>2, <2>2, Division
    <3>2. n * a <= (SizeMax \div a) * a
      BY <1>2, <2>2, <3>1
    <3> QED
      BY <1>2, <3>1, <3>2
  <2>3. a # 0 => Alignment > 1 /\ SizeMax \div a \in Nat
    BY <1>2, Division, WidthAssumption
  <2> QED
    BY <1>2, <2>1, <2>2, <2>3
<1>5. ~small => Wrap(n * a) = n * a
  BY <1>4, WrapSmall
<1>6. n * a \in Nat
  BY <1>2
<1> HIDE DEF small, left
<1>7. CASE small
  BY <1>3, <1>7
<1>8. CASE ~small
  <2>1. scratch_max_allocation(sc, n) =
          IF left <= n * a THEN 0 ELSE left - n * a
    BY <1>3, <1>5, <1>8
  <2> HIDE DEF a
  <2>2. scratch_max_allocation(sc, n) \in Nat
    BY <1>1, <1>6, <2>1
  <2>3. scratch_max_allocation(sc, n) # 0 =>
          scratch_max_allocation(sc, n) + n * a = left
    BY <1>1, <1>6, <2>1
  <2> QED
    BY <2>2, <2>3 DEF a, left
<1> QED
  BY <1>7, <1>8

-----------------------------------------------------------------------------
(***************************************************************************)
(* The inductive invariant.                                                *)
(***************************************************************************)

\* The header of a space rounds up, and with the space it fits the addresses.
LEMMA Header ==
  ASSUME NEW size \in SpaceSizes
  PROVE  /\ round_to_align(HeaderSize) \in Nat
         /\ Aligned(round_to_align(HeaderSize))
         /\ BlockSize(size) = round_to_align(HeaderSize) + size
<1>1. size \in Nat /\ HeaderSize \in Nat /\ Alignment \in Nat \ {0} /\ SizeMax \in Nat
  BY WidthAssumption, SizesAssumption
<1>2. HeaderSize + (Alignment - 1) + size <= SizeMax
  BY WidthAssumption, SizesAssumption
<1>3. HeaderSize \in 0..SizeMax
  BY <1>1, <1>2
<1>4. HeaderSize + Alignment - 1 \in 0..SizeMax
  BY <1>1, <1>2
<1>5. Wrap(HeaderSize + Alignment - 1) = HeaderSize + Alignment - 1
  BY <1>4, WrapSmall
<1>6. round_to_align(HeaderSize) <= HeaderSize + Alignment - 1
  BY <1>1, <1>4, <1>5, Division DEF round_to_align
<1>7. round_to_align(HeaderSize) \in Nat /\ Aligned(round_to_align(HeaderSize))
  BY <1>3, Rounding
<1>8. round_to_align(HeaderSize) + size \in 0..SizeMax
  BY <1>1, <1>2, <1>6, <1>7
<1> QED
  BY <1>7, <1>8, WrapSmall DEF BlockSize

-----------------------------------------------------------------------------
\* Where the first n objects end.
EndOf(n) == IF n = 0 THEN scratch.data ELSE objects[n].end

SpaceInv ==
  scratch # NULL =>
    /\ scratch.data = round_to_align(HeaderSize)
    /\ scratch.valid
    /\ scratch.max_size \in SpaceSizes
    /\ scratch.alloc_size <= scratch.max_size
    /\ Aligned(scratch.alloc_size)

EmptyInv == scratch = NULL => objects = <<>> /\ checkpoints = <<>>

ObjectInv ==
  \A i \in 1..Len(objects) :
    /\ Aligned(objects[i].at)
    /\ scratch.data <= objects[i].at
    /\ objects[i].at + objects[i].size <= objects[i].end
    /\ objects[i].end <= scratch.data + scratch.alloc_size
    /\ \A j \in 1..(i-1) : objects[j].end <= objects[i].at

CheckpointInv ==
  \A k \in 1..Len(checkpoints) :
    /\ checkpoints[k].count <= Len(objects)
    /\ scratch.data + checkpoints[k].mark = EndOf(checkpoints[k].count)
    /\ Aligned(checkpoints[k].mark)
    /\ checkpoints[k].mark <= scratch.alloc_size
    /\ \A l \in 1..k : checkpoints[l].count <= checkpoints[k].count

\* The checkpoints are there because ApplyCheckpoint goes back to them: each
\* stands where the objects of its time end.
Inv == TypeOK /\ SpaceInv /\ EmptyInv /\ ObjectInv /\ NothingLeaks /\ CheckpointInv

LEMMA SpaceNotNull ==
  ASSUME NEW sc \in Space
  PROVE  sc # NULL
  BY NullAssumption

LEMMA Types ==
  ASSUME TypeOK, SpaceInv, scratch # NULL
  PROVE  /\ SizeMax \in Nat
         /\ scratch \in Space /\ scratch.valid
         /\ scratch.data \in Nat /\ scratch.data = round_to_align(HeaderSize)
         /\ scratch.alloc_size \in Nat /\ Aligned(scratch.alloc_size)
         /\ scratch.max_size \in 0..SizeMax /\ scratch.max_size \in SpaceSizes
         /\ scratch.alloc_size <= scratch.max_size
         /\ objects \in Seq(Object) /\ Len(objects) \in Nat
         /\ \A i \in 1..Len(objects) :
              objects[i].at \in Nat /\ objects[i].size \in Nat /\ objects[i].end \in Nat
         /\ checkpoints \in Seq(Mark) /\ Len(checkpoints) \in Nat
         /\ \A k \in 1..Len(checkpoints) :
              checkpoints[k].mark \in Nat /\ checkpoints[k].count \in Nat
<1>1. scratch \in Space
  BY DEF TypeOK
<1>2. scratch.data \in Nat /\ scratch.alloc_size \in Nat /\ scratch.max_size \in Nat
  BY <1>1 DEF Space
<1>3. /\ scratch.data = round_to_align(HeaderSize) /\ scratch.max_size \in SpaceSizes
      /\ scratch.alloc_size <= scratch.max_size /\ Aligned(scratch.alloc_size) /\ scratch.valid
  BY DEF SpaceInv
<1>4. SizeMax \in Nat /\ SpaceSizes \subseteq 0..SizeMax
  BY WidthAssumption, SizesAssumption
<1>5. objects \in Seq(Object) /\ checkpoints \in Seq(Mark)
  BY DEF TypeOK
<1>6. \A i \in 1..Len(objects) : objects[i] \in Object
  BY <1>5
<1>7. \A k \in 1..Len(checkpoints) : checkpoints[k] \in Mark
  BY <1>5
<1>8. \A i \in 1..Len(objects) :
        objects[i].at \in Nat /\ objects[i].size \in Nat /\ objects[i].end \in Nat
  BY <1>6 DEF Object
<1>9. \A k \in 1..Len(checkpoints) : checkpoints[k].mark \in Nat /\ checkpoints[k].count \in Nat
  BY <1>7 DEF Mark
<1>10. Len(objects) \in Nat /\ Len(checkpoints) \in Nat
  BY <1>5
<1> QED
  BY <1>1, <1>2, <1>3, <1>4, <1>5, <1>8, <1>9, <1>10

\* What an allocation that is served looks like.
LEMMA ServedObject ==
  ASSUME NEW size \in ObjectSizes, TypeOK, SpaceInv, scratch # NULL, CanAlloc(scratch, size)
  PROVE  LET a == scratch_alloc(scratch, size)
             r == round_to_align(size)
         IN  /\ r \in Nat /\ size <= r
             /\ a.at = scratch.data + scratch.alloc_size
             /\ a.at \in Nat /\ Aligned(a.at)
             /\ a.sc = [scratch EXCEPT !.alloc_size = scratch.alloc_size + r]
             /\ scratch.alloc_size + r <= scratch.max_size
             /\ Aligned(scratch.alloc_size + r)
<1> DEFINE r == round_to_align(size)
<1>1. size \in 0..SizeMax /\ SizeMax \in Nat /\ Alignment \in Nat \ {0}
  BY WidthAssumption, SizesAssumption
<1>2. r \in Nat /\ Aligned(r)
  BY <1>1, Rounding
<1>3. /\ scratch \in Space
      /\ scratch.alloc_size \in Nat /\ scratch.max_size \in 0..SizeMax /\ scratch.data \in Nat
      /\ scratch.alloc_size <= scratch.max_size
      /\ Aligned(scratch.alloc_size)
  BY Types
<1>4. Wrap(scratch.max_size + SizeMax + 1 - scratch.alloc_size) = scratch.max_size - scratch.alloc_size
  <2> DEFINE d == scratch.max_size - scratch.alloc_size
  <2>1. d \in 0..SizeMax /\ scratch.max_size + SizeMax + 1 - scratch.alloc_size = d + (SizeMax + 1)
    BY <1>1, <1>3
  <2>2. (d + (SizeMax + 1)) % (SizeMax + 1) = d
    BY <1>1, <2>1, WrapOnce
  <2> QED
    BY <2>1, <2>2 DEF Wrap
<1>5. size <= r /\ r <= scratch.max_size - scratch.alloc_size
  BY <1>4 DEF CanAlloc
<1>6. scratch.alloc_size + r \in 0..SizeMax
  BY <1>1, <1>2, <1>3, <1>5
<1>7. Wrap(scratch.alloc_size + r) = scratch.alloc_size + r
  BY <1>6, WrapSmall
<1>8. Aligned(scratch.data)
  BY Header DEF SpaceInv
<1>9. /\ Aligned(scratch.data + scratch.alloc_size)
      /\ Aligned(scratch.alloc_size + r)
  BY <1>1, <1>2, <1>3, <1>8, AlignedSum
<1> QED
  BY <1>2, <1>3, <1>5, <1>7, <1>9 DEF scratch_alloc

LEMMA InitKeepsInv == Init => Inv
  BY NullAssumption DEF Init, Inv, TypeOK, SpaceInv, EmptyInv, ObjectInv, NothingLeaks, CheckpointInv

LEMMA CreateInv ==
  ASSUME Inv, NEW size \in SpaceSizes, Create(size)
  PROVE  Inv'
<1>1. /\ scratch = NULL /\ objects = <<>> /\ checkpoints = <<>>
      /\ objects' = <<>> /\ checkpoints' = <<>>
      /\ scratch' = scratch_create(size)
  BY DEF Create, Inv, EmptyInv
<1>2. size \in 0..SizeMax /\ SizeMax \in Nat /\ Alignment \in Nat \ {0}
  BY WidthAssumption, SizesAssumption
<1>3. round_to_align(HeaderSize) \in Nat
  BY Header
<1>4. scratch' \in Space /\ scratch'.valid /\ scratch'.data = round_to_align(HeaderSize)
      /\ scratch'.max_size = size /\ scratch'.alloc_size = 0
  BY <1>1, <1>2, <1>3 DEF scratch_create, Space
<1>5. TypeOK'
  BY <1>1, <1>4 DEF TypeOK
<1>6. SpaceInv'
  <2>1. Aligned(0) /\ 0 <= size
    BY <1>2, SmallRemainder DEF Aligned
  <2> QED
    BY <1>4, <2>1 DEF SpaceInv
<1>7. NothingLeaks'
  BY <1>1, <1>3, <1>4 DEF NothingLeaks
<1> QED
  BY <1>1, <1>5, <1>6, <1>7 DEF Inv, EmptyInv, ObjectInv, CheckpointInv

LEMMA DestroyInv ==
  ASSUME Inv, Destroy
  PROVE  Inv'
  BY DEF Destroy, Inv, TypeOK, SpaceInv, EmptyInv, ObjectInv, NothingLeaks, CheckpointInv

LEMMA CheckpointKeepsInv ==
  ASSUME Inv, Checkpoint
  PROVE  Inv'
<1> DEFINE cp == [mark |-> scratch_checkpoint(scratch), count |-> Len(objects)]
<1>1. /\ scratch # NULL /\ UNCHANGED <<scratch, objects>>
      /\ checkpoints' = Append(checkpoints, cp)
  BY DEF Checkpoint
<1>2. /\ scratch.valid /\ scratch.alloc_size \in Nat /\ scratch.data \in Nat
      /\ objects \in Seq(Object) /\ Len(objects) \in Nat
      /\ checkpoints \in Seq(Mark) /\ Len(checkpoints) \in Nat
      /\ \A l \in 1..Len(checkpoints) :
           checkpoints[l].mark \in Nat /\ checkpoints[l].count \in Nat
  BY <1>1, Types DEF Inv
<1>3. cp.mark = scratch.alloc_size /\ cp \in Mark
  BY <1>2 DEF scratch_checkpoint, Mark
<1>4. TypeOK'
  BY <1>1, <1>2, <1>3 DEF TypeOK, Inv
<1>5. SpaceInv' /\ EmptyInv' /\ ObjectInv' /\ NothingLeaks'
  BY <1>1 DEF Inv, SpaceInv, EmptyInv, ObjectInv, NothingLeaks
<1>6. CheckpointInv'
  <2> SUFFICES ASSUME NEW k \in 1..Len(checkpoints')
               PROVE  CheckpointInv!(k)'
    BY DEF CheckpointInv
  <2>1. CASE k \in 1..Len(checkpoints)
    BY <1>1, <1>2, <2>1 DEF Inv, CheckpointInv, EndOf
  <2>2. CASE k = Len(checkpoints) + 1
    <3>1. checkpoints'[k] = cp /\ \A l \in 1..Len(checkpoints) : checkpoints'[l] = checkpoints[l]
      BY <1>1, <1>2, <1>3, <2>2
    <3>2. Aligned(scratch.alloc_size)
      BY <1>1 DEF Inv, SpaceInv
    <3>3. scratch.data + cp.mark = EndOf(cp.count)
      <4>1. objects = <<>> <=> Len(objects) = 0
        BY <1>2
      <4> QED
        BY <1>1, <1>3, <4>1 DEF Inv, NothingLeaks, EndOf
    <3>4. cp.count = Len(objects)
      OBVIOUS
    <3> HIDE DEF cp
    <3>5. \A l \in 1..k : checkpoints'[l].count <= cp.count
      <4>1. \A l \in 1..Len(checkpoints) : checkpoints[l].count <= Len(objects)
        BY DEF Inv, CheckpointInv
      <4> QED
        BY <1>2, <1>3, <2>2, <3>1, <3>4, <4>1
    <3>6. EndOf(checkpoints[k].count)' = EndOf(cp.count)
      BY <1>1, <3>1 DEF EndOf
    <3>7. /\ checkpoints'[k].count <= Len(objects')
          /\ scratch'.data + checkpoints'[k].mark = EndOf(checkpoints[k].count)'
          /\ Aligned(checkpoints'[k].mark)
          /\ checkpoints'[k].mark <= scratch'.alloc_size
      BY <1>1, <1>2, <1>3, <3>1, <3>2, <3>3, <3>4, <3>6
    <3> QED
      BY <3>1, <3>5, <3>7
  <2> QED
    BY <1>1, <1>2, <2>1, <2>2
<1> QED
  BY <1>4, <1>5, <1>6 DEF Inv

\* The objects lie one after the other.
LEMMA EndMonotone ==
  ASSUME Inv, scratch # NULL, NEW j \in 0..Len(objects), NEW i \in 0..j
  PROVE  EndOf(i) <= EndOf(j)
<1>1. /\ scratch.data \in Nat /\ Len(objects) \in Nat
      /\ \A k \in 1..Len(objects) : /\ objects[k].at \in Nat /\ objects[k].end \in Nat
                                   /\ objects[k].size \in Nat
  <2>1. scratch \in Space /\ objects \in Seq(Object) /\ SizeMax \in Nat /\ ObjectSizes \subseteq 0..SizeMax
    BY WidthAssumption, SizesAssumption DEF Inv, TypeOK
  <2>2. \A k \in 1..Len(objects) : objects[k] \in Object
    BY <2>1
  <2>3. \A o \in Object : o.at \in Nat /\ o.end \in Nat /\ o.size \in Nat
    BY <2>1 DEF Object
  <2> QED
    BY <2>1, <2>2, <2>3 DEF Space
<1>2. \A k \in 1..Len(objects) :
         /\ scratch.data <= objects[k].at /\ objects[k].at + objects[k].size <= objects[k].end
         /\ \A l \in 1..(k-1) : objects[l].end <= objects[k].at
  BY DEF Inv, ObjectInv
<1>3. CASE i = j
  BY <1>1, <1>3 DEF EndOf
<1>4. CASE i < j /\ i = 0
  BY <1>1, <1>2, <1>4 DEF EndOf
<1>5. CASE i < j /\ i # 0
  <2>1. i \in 1..(j - 1) /\ j \in 1..Len(objects) /\ i \in 1..Len(objects)
    BY <1>1, <1>5
  <2>2. objects[i].end <= objects[j].at
    BY <1>2, <2>1
  <2>3. objects[j].at <= objects[j].end
    BY <1>1, <1>2, <2>1
  <2> QED
    BY <1>1, <1>5, <2>1, <2>2, <2>3 DEF EndOf
<1> QED
  BY <1>1, <1>3, <1>4, <1>5

LEMMA ApplyInv ==
  ASSUME Inv, NEW k \in 1..Len(checkpoints), ApplyCheckpoint(k)
  PROVE  Inv'
<1> DEFINE c == checkpoints[k]
<1>1. /\ scratch # NULL /\ scratch \in Space /\ scratch.valid
      /\ scratch.alloc_size \in Nat /\ scratch.data \in Nat
      /\ objects \in Seq(Object) /\ Len(objects) \in Nat
      /\ checkpoints \in Seq(Mark) /\ Len(checkpoints) \in Nat
      /\ \A l \in 1..Len(checkpoints) :
           checkpoints[l].mark \in Nat /\ checkpoints[l].count \in Nat
  BY Types DEF Inv, ApplyCheckpoint
<1>2. /\ c.count \in 0..Len(objects) /\ c.mark \in 0..scratch.alloc_size
      /\ Aligned(c.mark)
      /\ scratch.data + c.mark = EndOf(c.count)
      /\ \A l \in 1..k : checkpoints[l].count \in 0..c.count
  <2>1. /\ c.count <= Len(objects) /\ c.mark <= scratch.alloc_size
        /\ Aligned(c.mark) /\ scratch.data + c.mark = EndOf(c.count)
        /\ \A l \in 1..k : checkpoints[l].count <= c.count
    BY DEF Inv, CheckpointInv
  <2>2. c.count \in Nat /\ c.mark \in Nat
    BY <1>1
  <2>3. \A l \in 1..k : checkpoints[l].count \in Nat
    BY <1>1
  <2> QED
    BY <1>1, <2>1, <2>2, <2>3
<1>3. /\ scratch' = [scratch EXCEPT !.alloc_size = c.mark]
      /\ objects' = SubSeq(objects, 1, c.count)
      /\ checkpoints' = SubSeq(checkpoints, 1, k)
  <2>1. ~(c.mark > scratch.alloc_size)
    BY <1>1, <1>2
  <2> QED
    BY <1>1, <2>1 DEF ApplyCheckpoint, scratch_apply_checkpoint
<1> HIDE DEF c
<1>4. /\ scratch' \in Space /\ scratch' # NULL /\ scratch'.valid /\ scratch'.data = scratch.data
      /\ scratch'.max_size = scratch.max_size /\ scratch'.alloc_size = c.mark
  <2>1. /\ scratch' \in Space /\ scratch'.valid /\ scratch'.data = scratch.data
        /\ scratch'.max_size = scratch.max_size /\ scratch'.alloc_size = c.mark
    <3>1. c.mark \in Nat
      BY <1>1, <1>2
    <3> QED
      BY <1>1, <1>3, <3>1 DEF Space
  <2>2. scratch' # NULL
    BY <1>1, <2>1, SpaceNotNull
  <2> QED
    BY <2>1, <2>2
<1>5. /\ objects' \in Seq(Object) /\ Len(objects') = c.count
      /\ \A i \in 1..c.count : objects'[i] = objects[i]
  BY <1>1, <1>2, <1>3, SubSeqProperties
<1>6. /\ checkpoints' \in Seq(Mark) /\ Len(checkpoints') = k
      /\ \A l \in 1..k : checkpoints'[l] = checkpoints[l]
  BY <1>1, <1>3, SubSeqProperties
<1>7. TypeOK'
  BY <1>4, <1>5, <1>6 DEF TypeOK
<1>8. SpaceInv' /\ EmptyInv'
  <2>1. /\ scratch.data = round_to_align(HeaderSize) /\ scratch.max_size \in SpaceSizes
        /\ scratch.max_size \in Nat /\ scratch.alloc_size <= scratch.max_size
    BY <1>1, Types DEF Inv
  <2>2. c.mark <= scratch.max_size
    BY <1>1, <1>2, <2>1
  <2> QED
    BY <1>2, <1>4, <2>1, <2>2 DEF SpaceInv, EmptyInv
<1>9. \A i \in 0..c.count : EndOf(i) <= scratch.data + c.mark
  BY <1>1, <1>2, EndMonotone
<1>10. ObjectInv'
  <2> SUFFICES ASSUME NEW i \in 1..Len(objects')
               PROVE  ObjectInv!(i)'
    BY DEF ObjectInv
  <2>1. i \in 1..Len(objects) /\ i \in 1..c.count
    BY <1>1, <1>2, <1>5
  <2>2. objects[i].end <= scratch.data + c.mark
    BY <1>9, <2>1 DEF EndOf
  <2>3. /\ Aligned(objects[i].at) /\ scratch.data <= objects[i].at
        /\ objects[i].at + objects[i].size <= objects[i].end
        /\ \A j \in 1..(i-1) : objects[j].end <= objects[i].at
    BY <2>1 DEF Inv, ObjectInv
  <2>4. objects'[i] = objects[i] /\ \A j \in 1..(i-1) : objects'[j] = objects[j]
    BY <1>2, <1>5, <2>1
  <2> QED
    BY <1>4, <2>2, <2>3, <2>4
<1>11. NothingLeaks'
  <2>1. objects' = <<>> <=> c.count = 0
    BY <1>5
  <2>2. scratch'.data + scratch'.alloc_size = EndOf(c.count)
    BY <1>2, <1>4
  <2>3. c.count # 0 => objects'[c.count] = objects[c.count]
    BY <1>2, <1>5
  <2> QED
    BY <1>4, <1>5, <2>1, <2>2, <2>3 DEF NothingLeaks, EndOf
<1>12. CheckpointInv'
  <2> SUFFICES ASSUME NEW l \in 1..k
               PROVE  CheckpointInv!(l)'
    BY <1>6 DEF CheckpointInv
  <2>1. l \in 1..Len(checkpoints) /\ checkpoints'[l] = checkpoints[l]
    BY <1>6
  <2>2. /\ scratch.data + checkpoints[l].mark = EndOf(checkpoints[l].count)
        /\ Aligned(checkpoints[l].mark) /\ checkpoints[l].mark \in Nat
        /\ \A m \in 1..l : checkpoints[m].count <= checkpoints[l].count
    BY <1>1, <2>1 DEF Inv, CheckpointInv
  <2>3. /\ checkpoints[l].count \in 0..c.count
        /\ EndOf(checkpoints[l].count) <= scratch.data + c.mark
    BY <1>2, <1>9
  <2>4. checkpoints[l].mark <= c.mark
    BY <1>1, <1>2, <2>2, <2>3
  <2>5. checkpoints[l].count # 0 => objects'[checkpoints[l].count] = objects[checkpoints[l].count]
    BY <1>2, <1>5, <2>3
  <2>6. \A m \in 1..l : checkpoints'[m] = checkpoints[m]
    BY <1>6
  <2> QED
    BY <1>4, <1>5, <2>1, <2>2, <2>3, <2>4, <2>5, <2>6 DEF EndOf
<1> QED
  BY <1>7, <1>8, <1>10, <1>11, <1>12 DEF Inv

LEMMA AllocInv ==
  ASSUME Inv, NEW size \in ObjectSizes, Alloc(size)
  PROVE  Inv'
<1> DEFINE r == round_to_align(size)
           o == [at |-> scratch.data + scratch.alloc_size, size |-> size,
                 end |-> scratch.data + scratch.alloc_size + r]
<1>1. /\ scratch # NULL /\ scratch \in Space /\ scratch.valid
      /\ scratch.alloc_size \in Nat /\ scratch.data \in Nat
      /\ scratch.data = round_to_align(HeaderSize)
      /\ scratch.max_size \in SpaceSizes
      /\ objects \in Seq(Object) /\ Len(objects) \in Nat
      /\ \A i \in 1..Len(objects) :
           objects[i].at \in Nat /\ objects[i].size \in Nat /\ objects[i].end \in Nat
      /\ checkpoints \in Seq(Mark) /\ Len(checkpoints) \in Nat
      /\ \A l \in 1..Len(checkpoints) :
           checkpoints[l].mark \in Nat /\ checkpoints[l].count \in Nat
      /\ checkpoints' = checkpoints /\ size \in Nat
  BY Types, WidthAssumption, SizesAssumption DEF Inv, Alloc
<1>2. CASE ~CanAlloc(scratch, size)
  <2>1. scratch' = scratch /\ objects' = objects
    BY <1>2 DEF Alloc, scratch_alloc
  <2> QED
    BY <1>1, <2>1 DEF Inv, TypeOK, SpaceInv, EmptyInv, ObjectInv, NothingLeaks, CheckpointInv, EndOf
<1>3. CASE CanAlloc(scratch, size)
  <2>1. /\ r \in Nat /\ size <= r
        /\ scratch_alloc(scratch, size).at = scratch.data + scratch.alloc_size
        /\ scratch_alloc(scratch, size).at \in Nat
        /\ Aligned(scratch.data + scratch.alloc_size)
        /\ scratch_alloc(scratch, size).sc =
              [scratch EXCEPT !.alloc_size = scratch.alloc_size + r]
        /\ scratch.alloc_size + r <= scratch.max_size
        /\ Aligned(scratch.alloc_size + r)
    BY <1>1, <1>3, ServedObject DEF Inv
  <2>2. scratch_alloc(scratch, size).at # NULL
    BY <2>1, NullAssumption
  <2> HIDE DEF r
  <2>3. scratch' = [scratch EXCEPT !.alloc_size = scratch.alloc_size + r]
    BY <2>1 DEF Alloc
  <2>4. /\ scratch' \in Space /\ scratch'.valid /\ scratch'.data = scratch.data
        /\ scratch'.max_size = scratch.max_size
        /\ scratch'.alloc_size = scratch.alloc_size + r
    <3>1. scratch.alloc_size + r \in Nat
      BY <1>1, <2>1
    <3> QED
      BY <1>1, <2>3, <3>1 DEF Space
  <2>5. objects' = Append(objects, o)
    <3>1. scratch_alloc(scratch, size).sc.data = scratch.data
          /\ scratch_alloc(scratch, size).sc.alloc_size = scratch.alloc_size + r
      BY <2>1, <2>3, <2>4
    <3>2. scratch.data + (scratch.alloc_size + r) = scratch.data + scratch.alloc_size + r
      BY <1>1, <2>1
    <3> QED
      BY <2>1, <2>2, <3>1, <3>2 DEF Alloc
  <2>6. /\ o \in Object /\ o.at = scratch.data + scratch.alloc_size /\ o.size = size
        /\ o.end = scratch.data + scratch.alloc_size + r
    BY <1>1, <2>1 DEF Object
  <2> HIDE DEF o
  <2>7. /\ objects' \in Seq(Object) /\ Len(objects') = Len(objects) + 1
        /\ objects'[Len(objects) + 1] = o
        /\ \A i \in 1..Len(objects) : objects'[i] = objects[i]
    BY <1>1, <2>5, <2>6, AppendProperties
  <2>8. scratch' # NULL
    BY <2>4, SpaceNotNull
  <2>9. TypeOK' /\ SpaceInv' /\ EmptyInv'
    BY <1>1, <2>1, <2>4, <2>7, <2>8 DEF TypeOK, SpaceInv, EmptyInv
  <2>10. /\ \A i \in 1..Len(objects) : objects[i].end <= o.at
         /\ scratch.data <= o.at /\ o.at + o.size <= o.end
         /\ o.end = scratch'.data + scratch'.alloc_size
         /\ Aligned(o.at)
    BY <1>1, <2>1, <2>4, <2>6, SMTT(30) DEF Inv, ObjectInv
  <2>11. ObjectInv'
    <3> SUFFICES ASSUME NEW i \in 1..Len(objects')
                 PROVE  ObjectInv!(i)'
      BY DEF ObjectInv
    <3>1. CASE i \in 1..Len(objects)
      <4>1. objects'[i] = objects[i] /\ \A j \in 1..(i-1) : objects'[j] = objects[j]
        BY <1>1, <2>7, <3>1
      <4>2. /\ Aligned(objects[i].at) /\ scratch.data <= objects[i].at
            /\ objects[i].at + objects[i].size <= objects[i].end
            /\ objects[i].end <= scratch.data + scratch.alloc_size
            /\ \A j \in 1..(i-1) : objects[j].end <= objects[i].at
        BY <3>1 DEF Inv, ObjectInv
      <4>3. objects[i].end <= scratch'.data + scratch'.alloc_size
        BY <1>1, <2>1, <2>4, <3>1, <4>2, SMTT(30)
      <4> QED
        BY <2>4, <4>1, <4>2, <4>3
    <3>2. CASE i = Len(objects) + 1
      <4>1. objects'[i] = o /\ \A j \in 1..(i-1) : objects'[j] = objects[j] /\ j \in 1..Len(objects)
        BY <1>1, <2>7, <3>2
      <4>2. o.end <= scratch'.data + scratch'.alloc_size
        BY <1>1, <2>1, <2>4, <2>6
      <4> QED
        BY <2>4, <2>10, <4>1, <4>2
    <3> QED
      BY <1>1, <2>7, <3>1, <3>2
  <2>12. NothingLeaks'
    <3>1. objects' # <<>>
      BY <1>1, <2>7
    <3> QED
      BY <2>7, <2>10, <3>1 DEF NothingLeaks
  <2>13. CheckpointInv'
    <3> SUFFICES ASSUME NEW k \in 1..Len(checkpoints)
                 PROVE  CheckpointInv!(k)'
      BY <1>1 DEF CheckpointInv
    <3>1. /\ checkpoints[k].count <= Len(objects)
          /\ scratch.data + checkpoints[k].mark = EndOf(checkpoints[k].count)
          /\ Aligned(checkpoints[k].mark)
          /\ checkpoints[k].mark <= scratch.alloc_size
          /\ \A l \in 1..k : checkpoints[l].count <= checkpoints[k].count
      BY DEF Inv, CheckpointInv
    <3>2. checkpoints[k].count # 0 => objects'[checkpoints[k].count] = objects[checkpoints[k].count]
      BY <1>1, <2>7, <3>1
    <3>3. checkpoints[k].count <= Len(objects') /\ checkpoints[k].mark <= scratch'.alloc_size
      BY <1>1, <2>1, <2>4, <2>7, <3>1, SMTT(30)
    <3> QED
      BY <1>1, <2>4, <3>1, <3>2, <3>3 DEF EndOf
  <2> QED
    BY <2>9, <2>11, <2>12, <2>13 DEF Inv
<1> QED
  BY <1>2, <1>3

LEMMA InvInductive == Inv /\ [Next]_vars => Inv'
<1> SUFFICES ASSUME Inv, [Next]_vars PROVE Inv'
  OBVIOUS
<1>1. CASE \E size \in SpaceSizes : Create(size)
  BY <1>1, CreateInv
<1>2. CASE Destroy
  BY <1>2, DestroyInv
<1>3. CASE Checkpoint
  BY <1>3, CheckpointKeepsInv
<1>4. CASE \E k \in 1..Len(checkpoints) : ApplyCheckpoint(k)
  BY <1>4, ApplyInv
<1>5. CASE \E size \in ObjectSizes : Alloc(size)
  BY <1>5, AllocInv
<1>6. CASE UNCHANGED vars
  BY <1>6 DEF vars, Inv, TypeOK, SpaceInv, EmptyInv, ObjectInv, NothingLeaks, CheckpointInv, EndOf
<1> QED
  BY <1>1, <1>2, <1>3, <1>4, <1>5, <1>6 DEF Next

LEMMA InvIsInvariant == Spec => []Inv
<1>1. Init => Inv
  BY InitKeepsInv
<1>2. Inv /\ [Next]_vars => Inv'
  BY InvInductive
<1> QED
  BY <1>1, <1>2, PTL DEF Spec

\* The types of a scratch space hold in every history of calls.
THEOREM ScratchTypes == Spec => []TypeOK
  BY InvIsInvariant, PTL DEF Inv

\* scratch_alloc never hands out memory twice, unaligned, or outside of the
\* block of scratch_create, for every alignment and width of size_t.
THEOREM ScratchObjectsApart == Spec => []ObjectsApart
<1>1. Inv => ObjectsApart
  <2> SUFFICES ASSUME Inv, NEW i \in 1..Len(objects)
               PROVE  /\ Aligned(objects[i].at)
                      /\ scratch.data <= objects[i].at
                      /\ objects[i].at + objects[i].size <= BlockSize(scratch.max_size)
                      /\ \A j \in 1..(i-1) : objects[j].at + objects[j].size <= objects[i].at
    BY DEF ObjectsApart
  <2>1. scratch # NULL
    BY DEF Inv, EmptyInv
  <2>2. /\ SizeMax \in Nat /\ scratch.data \in Nat /\ scratch.alloc_size \in Nat
        /\ scratch.max_size \in 0..SizeMax /\ scratch.alloc_size <= scratch.max_size
        /\ scratch.data = round_to_align(HeaderSize) /\ scratch.max_size \in SpaceSizes
        /\ Len(objects) \in Nat
        /\ \A j \in 1..Len(objects) :
             objects[j].at \in Nat /\ objects[j].size \in Nat /\ objects[j].end \in Nat
    BY <2>1, Types DEF Inv
  <2>3. BlockSize(scratch.max_size) = scratch.data + scratch.max_size
    BY <2>2, Header
  <2>4. \A j \in 1..Len(objects) : /\ Aligned(objects[j].at)
                                  /\ scratch.data <= objects[j].at
                                  /\ objects[j].at + objects[j].size <= objects[j].end
                                  /\ objects[j].end <= scratch.data + scratch.alloc_size
                                  /\ \A l \in 1..(j-1) : objects[l].end <= objects[j].at
    BY DEF Inv, ObjectInv
  <2>5. objects[i].at + objects[i].size <= BlockSize(scratch.max_size)
    <3>1. objects[i].at + objects[i].size <= objects[i].end
          /\ objects[i].end <= scratch.data + scratch.alloc_size
      BY <2>4
    <3>2. objects[i].at \in Nat /\ objects[i].size \in Nat /\ objects[i].end \in Nat
      BY <2>2
    <3>3. scratch.data + scratch.alloc_size <= scratch.data + scratch.max_size
      BY <2>2
    <3>4. scratch.data + scratch.alloc_size \in Nat /\ scratch.data + scratch.max_size \in Nat
      BY <2>2
    <3> QED
      BY <2>3, <3>1, <3>2, <3>3, <3>4
  <2>6. ASSUME NEW j \in 1..(i-1) PROVE objects[j].at + objects[j].size <= objects[i].at
    <3>1. j \in 1..Len(objects)
      BY <2>2
    <3> QED
      BY <2>2, <2>4, <3>1, SMTT(30)
  <2> QED
    BY <2>4, <2>5, <2>6
<1> QED
  BY <1>1, InvIsInvariant, PTL

\* Whatever is allocated after a checkpoint is given back by applying it: the
\* mark of the space is always the end of the last object that is in use.
THEOREM ScratchNothingLeaks == Spec => []NothingLeaks
  BY InvIsInvariant, PTL DEF Inv

-----------------------------------------------------------------------------
(***************************************************************************)
(* What scratch_max_allocation promises.                                   *)
(***************************************************************************)

\* f goes on from a by F, as f and g go on alike.
Iterates(f, n, a, F) == f[0] = a /\ \A k \in 1..n : f[k] = F[k][f[k-1]]
GoOnAlike(f, g, n) == f[0] = g[0] /\ \A k \in 1..n : f[k-1] = g[k-1] => f[k] = g[k]

\* A recursion over the first n numbers defines a function.
LEMMA Iteration ==
  ASSUME NEW V, NEW a \in V, NEW F \in [Nat -> [V -> V]], NEW n \in Nat
  PROVE  \E f \in [0..n -> V] : Iterates(f, n, a, F)
<1> USE DEF Iterates
<1> DEFINE Runs(m, f) == f[0] = a /\ \A k \in 1..m : f[k] = F[k][f[k-1]]
           None == {m \in Nat : ~ \E f \in [0..m -> V] : Runs(m, f)}
<1>1. SUFFICES ASSUME n \in None PROVE FALSE
  OBVIOUS
<1>2. PICK m \in None : \A l \in None : m <= l
  <2>1. None \in SUBSET Nat /\ None # {}
    BY <1>1
  <2> HIDE DEF None
  <2> QED
    BY <2>1, LeastNumber
<1>3. m # 0
  <2>1. [k \in 0..0 |-> a] \in [0..0 -> V] /\ Runs(0, [k \in 0..0 |-> a])
    OBVIOUS
  <2>2. \E f \in [0..0 -> V] : Runs(0, f)
    BY <2>1
  <2> HIDE DEF Runs
  <2>3. 0 \notin None
    BY <2>2
  <2> HIDE DEF None
  <2> QED
    BY <1>2, <2>3
<1>4. m - 1 \in Nat /\ m - 1 \notin None
  <2>1. m \in Nat
    BY <1>2
  <2>2. m - 1 \in Nat /\ ~(m <= m - 1)
    BY <1>3, <2>1
  <2> QED
    BY <1>2, <2>2
<1>5. PICK g \in [0..(m-1) -> V] : Runs(m - 1, g)
  BY <1>4
<1> DEFINE f == [k \in 0..m |-> IF k = m THEN F[m][g[m-1]] ELSE g[k]]
<1>6. m \in Nat /\ g[m-1] \in V /\ F[m] \in [V -> V] /\ F[m][g[m-1]] \in V
  BY <1>4, <1>5
<1>7. f \in [0..m -> V]
  BY <1>5, <1>6
<1>8. Runs(m, f)
  <2>1. f[0] = a
    BY <1>3, <1>5, <1>6
  <2>2. ASSUME NEW k \in 1..m PROVE f[k] = F[k][f[k-1]]
    <3>1. f[k-1] = g[k-1]
      BY <1>6
    <3>2. CASE k = m
      BY <1>6, <3>1, <3>2
    <3>3. CASE k # m
      BY <1>5, <1>6, <3>1, <3>3
    <3> QED
      BY <3>2, <3>3
  <2> QED
    BY <2>1, <2>2
<1> QED
  BY <1>2, <1>7, <1>8

\* Two functions that go on alike are equal.
LEMMA Alike ==
  ASSUME NEW f, NEW g, NEW n \in Nat, GoOnAlike(f, g, n)
  PROVE  \A k \in 0..n : f[k] = g[k]
<1> DEFINE Apart == {k \in 0..n : f[k] # g[k]}
<1>1. SUFFICES ASSUME Apart # {} PROVE FALSE
  OBVIOUS
<1>2. PICK k \in Apart : \A l \in Apart : k <= l
  <2>1. Apart \in SUBSET Nat
    OBVIOUS
  <2> HIDE DEF Apart
  <2> QED
    BY <1>1, <2>1, LeastNumber
<1>3. k \in 1..n /\ k - 1 \in 0..n /\ k - 1 \notin Apart
  BY <1>2 DEF GoOnAlike
<1> QED
  BY <1>2, <1>3 DEF GoOnAlike

LEMMA TotalDef ==
  ASSUME NEW n \in Nat, NEW sizes \in [1..n -> Nat]
  PROVE  /\ Total(sizes) \in [0..n -> Nat]
         /\ Total(sizes)[0] = 0
         /\ \A k \in 1..n : Total(sizes)[k] = Total(sizes)[k-1] + sizes[k]
<1> DEFINE F == [k \in Nat |-> [v \in Nat |-> IF k \in 1..n THEN v + sizes[k] ELSE v]]
           rec(f) == [k \in 0..n |-> IF k = 0 THEN 0 ELSE f[k-1] + sizes[k]]
           t == Total(sizes)
<1>1. F \in [Nat -> [Nat -> Nat]]
  OBVIOUS
<1> HIDE DEF F
<1>2. PICK f \in [0..n -> Nat] : Iterates(f, n, 0, F)
  BY <1>1, Iteration
<1>3. \A k \in 1..n : f[k] = f[k-1] + sizes[k]
  <2> SUFFICES ASSUME NEW k \in 1..n PROVE f[k] = f[k-1] + sizes[k]
    OBVIOUS
  <2>1. f[k-1] \in Nat /\ k \in Nat /\ f[k] = F[k][f[k-1]]
    BY <1>2 DEF Iterates
  <2> QED
    BY <2>1 DEF F
<1>4. f = rec(f)
  <2>1. \A k \in 0..n : f[k] = IF k = 0 THEN 0 ELSE f[k-1] + sizes[k]
    BY <1>2, <1>3 DEF Iterates
  <2> QED
    BY <2>1
<1>5. Len(sizes) = n
  OBVIOUS
<1>6. t = CHOOSE g : g = rec(g)
  BY <1>5 DEF Total
<1>7. t = rec(t)
  BY <1>4, <1>6
<1> HIDE DEF t
<1>8. t[0] = 0 /\ \A k \in 1..n : t[k] = t[k-1] + sizes[k]
  BY <1>7
<1>9. \A k \in 0..n : f[k] = t[k]
  <2>1. GoOnAlike(f, t, n)
    BY <1>2, <1>3, <1>8 DEF GoOnAlike, Iterates
  <2> QED
    BY <2>1, Alike
<1>10. t = f
  BY <1>7, <1>9
<1> QED
  BY <1>8, <1>10 DEF t

\* One allocation after the other.
Allocates(a, sc, sizes, n) ==
  a[0] = [ok |-> TRUE, sc |-> sc] /\ \A k \in 1..n : a[k] = OneMore(a[k-1], sizes[k])

LEMMA AllocAllDef ==
  ASSUME NEW sc \in Space, NEW n \in Nat, NEW sizes \in [1..n -> Nat]
  PROVE  Allocates(AllocAll(sc, sizes), sc, sizes, n)
<1> DEFINE V == [ok : BOOLEAN, sc : Space]
           G(a, k) == OneMore(a, sizes[k])
           F == [k \in Nat |-> [v \in V |-> IF k \in 1..n THEN G(v, k) ELSE v]]
           first == [ok |-> TRUE, sc |-> sc]
           rec(f) == [k \in 0..n |-> IF k = 0 THEN first ELSE G(f[k-1], k)]
           t == AllocAll(sc, sizes)
<1>1. ASSUME NEW v \in V, NEW k \in 1..n PROVE G(v, k) \in V
  <2>1. v.sc \in Space /\ v.sc.alloc_size \in Nat /\ sizes[k] \in Nat
    BY DEF Space
  <2>2. \A a \in Nat : Wrap(a) \in Nat
    BY WidthAssumption DEF Wrap
  <2>3. ASSUME NEW a \in Nat PROVE round_to_align(a) \in Nat
    <3>1. a + Alignment - 1 \in Nat /\ Alignment \in Nat \ {0}
      BY WidthAssumption
    <3>2. Wrap(a + Alignment - 1) \in Nat
      BY <2>2, <3>1
    <3> QED
      BY <3>1, <3>2, Division DEF round_to_align
  <2>4. scratch_alloc(v.sc, sizes[k]).sc \in Space
    <3>1. Wrap(v.sc.alloc_size + round_to_align(sizes[k])) \in Nat
      <4>1. round_to_align(sizes[k]) \in Nat
        BY <2>1, <2>3
      <4>2. v.sc.alloc_size + round_to_align(sizes[k]) \in Nat
        BY <2>1, <4>1
      <4> QED
        BY <2>2, <4>2
    <3> QED
      BY <2>1, <3>1 DEF scratch_alloc, Space
  <2>5. (v.ok /\ CanAlloc(v.sc, sizes[k])) \in BOOLEAN
    OBVIOUS
  <2> QED
    BY <2>4, <2>5 DEF OneMore
<1> HIDE DEF G
<1>2. F \in [Nat -> [V -> V]] /\ first \in V
  <2>1. \A k \in Nat : [v \in V |-> IF k \in 1..n THEN G(v, k) ELSE v] \in [V -> V]
    BY <1>1
  <2> QED
    BY <2>1
<1> HIDE DEF V, first, F
<1>3. PICK f \in [0..n -> V] : Iterates(f, n, first, F)
  BY <1>2, Iteration
<1>4. \A k \in 1..n : f[k] = G(f[k-1], k)
  <2> SUFFICES ASSUME NEW k \in 1..n PROVE f[k] = G(f[k-1], k)
    OBVIOUS
  <2>1. f[k-1] \in V /\ k \in Nat /\ f[k] = F[k][f[k-1]]
    BY <1>3 DEF Iterates
  <2> QED
    BY <2>1 DEF F
<1>5. f = rec(f)
  <2>1. \A k \in 0..n : f[k] = IF k = 0 THEN first ELSE G(f[k-1], k)
    BY <1>3, <1>4 DEF Iterates
  <2> QED
    BY <2>1
<1>6. Len(sizes) = n
  OBVIOUS
<1>7. t = CHOOSE g : g = rec(g)
  BY <1>6 DEF AllocAll, G, first
<1>8. t = rec(t)
  BY <1>5, <1>7
<1> HIDE DEF t
<1>9. t[0] = first /\ \A k \in 1..n : t[k] = G(t[k-1], k)
  BY <1>8
<1> QED
  BY <1>9 DEF t, G, first, Allocates

LEMMA TotalGrows ==
  ASSUME NEW n \in Nat, NEW sizes \in [1..n -> Nat]
  PROVE  \A k \in 0..n : Total(sizes)[k] <= Total(sizes)[n]
<1> DEFINE t == Total(sizes)
           Above == {d \in 0..n : t[n-d] > t[n]}
<1>1. t \in [0..n -> Nat] /\ \A k \in 1..n : t[k] = t[k-1] + sizes[k]
  BY TotalDef
<1> HIDE DEF t
<1>2. ASSUME Above # {} PROVE FALSE
  <2>1. PICK d \in Above : \A c \in Above : d <= c
    <3>1. Above \in SUBSET Nat
      OBVIOUS
    <3> HIDE DEF Above
    <3> QED
      BY <1>2, <3>1, LeastNumber
  <2>2. d \in 1..n /\ t[n-d] > t[n] /\ d - 1 \in 0..n /\ d - 1 \notin Above
    <3>1. d \in 0..n /\ t[n-d] > t[n] /\ t[n] \in Nat
      BY <1>1, <2>1
    <3>2. d # 0
      BY <3>1
    <3>3. d - 1 \in 0..n /\ ~(d <= d - 1) /\ d \in 1..n
      BY <3>1, <3>2
    <3> HIDE DEF Above
    <3> QED
      BY <2>1, <3>1, <3>3
  <2>3. n - (d - 1) \in 1..n /\ (n - (d - 1)) - 1 = n - d
    BY <2>2
  <2>4. t[n-(d-1)] = t[n-d] + sizes[n-(d-1)]
    BY <1>1, <2>3
  <2>5. t[n-(d-1)] <= t[n]
    BY <1>1, <2>2, <2>3
  <2>6. t[n-d] \in Nat /\ t[n] \in Nat /\ sizes[n-(d-1)] \in Nat /\ t[n-(d-1)] \in Nat
    BY <1>1, <2>2, <2>3
  <2> QED
    BY <2>2, <2>4, <2>5, <2>6
<1>3. ASSUME NEW k \in 0..n PROVE t[k] <= t[n]
  <2>1. n - k \in 0..n /\ n - (n - k) = k
    OBVIOUS
  <2>2. ASSUME t[k] > t[n] PROVE FALSE
    <3>1. n - k \in Above
      BY <2>1, <2>2
    <3> QED
      BY <1>2, <3>1
  <2>3. t[k] \in Nat /\ t[n] \in Nat
    BY <1>1
  <2> QED
    BY <2>2, <2>3
<1> QED
  BY <1>3 DEF t

\* A space that may be asked for n objects of these sizes has room for each of
\* them after those before it: the rounding of an object is set aside.
LEMMA EachServed ==
  ASSUME NEW sc, Usable(sc), NEW n \in Nat \ {0}, NEW sizes \in [1..n -> Nat],
         Total(sizes)[n] <= scratch_max_allocation(sc, n)
  PROVE  AllocAll(sc, sizes)[n].ok
<1> DEFINE pad == Alignment - 1
           left == sc.max_size - sc.alloc_size
           m == scratch_max_allocation(sc, n)
           t == Total(sizes)
           a == AllocAll(sc, sizes)
           \* what the first k objects may have taken
           taken(k) == IF m = 0 THEN 0 ELSE t[k] + k * pad
           Fine(k) == /\ a[k].ok /\ Usable(a[k].sc)
                      /\ a[k].sc.max_size = sc.max_size
                      /\ a[k].sc.alloc_size <= sc.alloc_size + taken(k)
<1>1. sc \in Space /\ sc.max_size \in Nat /\ sc.alloc_size \in Nat /\ left \in 0..SizeMax
  BY Left DEF Usable
<1>2. pad \in Nat /\ SizeMax \in Nat /\ pad <= SizeMax
  <2>1. Alignment \in Nat \ {0} /\ SizeMax \in Nat /\ (SizeMax + 1) % Alignment = 0
    BY WidthAssumption
  <2>2. PICK q \in Nat : SizeMax + 1 = q * Alignment
    <3>1. SizeMax + 1 \in Nat
      BY <2>1
    <3> QED
      BY <2>1, <3>1, MultipleOf
  <2>3. q # 0 /\ (q # 0 => q * Alignment >= Alignment)
    BY <2>1, <2>2
  <2> QED
    BY <2>1, <2>2, <2>3
<1>3. m \in Nat /\ (m # 0 => m + n * pad = left)
  BY MaxAllocation
<1>4. /\ t \in [0..n -> Nat] /\ t[0] = 0 /\ t[n] <= m
      /\ \A k \in 1..n : t[k] = t[k-1] + sizes[k]
      /\ \A k \in 0..n : t[k] <= t[n]
  BY TotalDef, TotalGrows
<1>5. /\ a[0] = [ok |-> TRUE, sc |-> sc]
      /\ \A k \in 1..n : a[k] = OneMore(a[k-1], sizes[k])
  <2>1. sc \in Space /\ n \in Nat /\ sizes \in [1..n -> Nat]
    BY <1>1
  <2>2. Allocates(AllocAll(sc, sizes), sc, sizes, n)
    BY <2>1, AllocAllDef
  <2> QED
    BY <2>2 DEF Allocates
<1> HIDE DEF pad, left, m, t, a
<1>6. Fine(0)
  <2>1. taken(0) \in Nat
    BY <1>2, <1>4
  <2> QED
    BY <1>1, <1>5, <2>1
<1>7. ASSUME NEW k \in 1..n, Fine(k-1) PROVE Fine(k)
  <2> DEFINE b == a[k-1].sc
             size == sizes[k]
             up == round_to_align(size)
  <2>1. /\ size \in Nat /\ k \in Nat /\ k - 1 \in Nat /\ k - 1 \in 0..n
        /\ t[k-1] \in Nat /\ t[k] \in Nat /\ t[k] = t[k-1] + size /\ t[k] <= m
    <3>1. size \in Nat /\ k \in Nat /\ k - 1 \in Nat /\ k - 1 \in 0..n /\ k \in 0..n /\ n \in 0..n
      OBVIOUS
    <3>2. t[k-1] \in Nat /\ t[k] \in Nat /\ t[n] \in Nat /\ t[k] = t[k-1] + size /\ t[k] <= t[n]
      BY <1>4, <3>1
    <3> HIDE DEF size
    <3> QED
      BY <1>3, <1>4, <3>1, <3>2
  <2>2. /\ (k-1) * pad \in Nat /\ k * pad = (k-1) * pad + pad
        /\ n * pad \in Nat /\ k * pad <= n * pad
    BY <1>2, <2>1
  <2> DEFINE before == (k-1) * pad
             all == n * pad
  <2> HIDE DEF before, all
  <2>3. /\ Usable(b) /\ b.max_size = sc.max_size
        /\ b.alloc_size \in Nat /\ b.max_size \in Nat
        /\ b.alloc_size <= sc.alloc_size + taken(k-1)
    BY <1>7, Left
  <2>4. size + pad <= SizeMax
    <3>1. CASE m = 0
      BY <1>2, <2>1, <3>1
    <3>2. CASE m # 0
      <4>1. m + all = left /\ pad <= all /\ all \in Nat
        BY <1>2, <1>3, <2>1, <2>2, <3>2 DEF all
      <4> QED
        BY <1>1, <1>2, <1>3, <2>1, <4>1
    <3> QED
      BY <3>1, <3>2
  <2>5. up \in Nat /\ size <= up /\ up <= size + pad /\ (Aligned(size) => up = size)
    BY <2>1, <2>4, RoundUp DEF pad
  <2>6. taken(k-1) \in Nat /\ taken(k) \in Nat /\ taken(k-1) + up <= taken(k) /\ taken(k) <= left
    <3>1. CASE m = 0
      <4>1. size = 0
        BY <2>1, <3>1
      <4>2. Aligned(0)
        BY SmallRemainder, WidthAssumption DEF Aligned
      <4> QED
        BY <1>1, <2>1, <2>5, <3>1, <4>1, <4>2
    <3>2. CASE m # 0
      <4>1. /\ taken(k-1) = t[k-1] + before /\ taken(k) = t[k] + (before + pad)
            /\ before \in Nat /\ before + pad <= all /\ all \in Nat /\ m + all = left
        BY <1>3, <2>2, <3>2 DEF before, all
      <4>2. m \in Nat /\ pad \in Nat /\ up <= size + pad /\ left \in Int
        BY <1>1, <1>2, <1>3, <2>5
      <4> DEFINE x == t[k-1]
                 y == t[k]
      <4>3. x \in Nat /\ y \in Nat /\ size \in Nat /\ up \in Nat /\ y = x + size /\ y <= m
        BY <2>1, <2>5
      <4> HIDE DEF up, size, x, y
      <4>4. /\ x + before \in Nat /\ y + (before + pad) \in Nat
            /\ x + before + up <= y + (before + pad)
            /\ y + (before + pad) <= left
        BY <4>1, <4>2, <4>3
      <4> QED
        BY <4>1, <4>4 DEF x, y
    <3> QED
      BY <3>1, <3>2
  <2> HIDE DEF up, taken
  <2>7. up <= b.max_size - b.alloc_size
    <3> DEFINE x == sc.alloc_size
               y == b.alloc_size
               max == sc.max_size
               before1 == taken(k-1)
               after1 == taken(k)
    <3>1. x \in Nat /\ y \in Nat /\ max \in Nat /\ y <= x + before1 /\ left = max - x
      BY <1>1, <2>3 DEF left
    <3>2. before1 \in Nat /\ after1 \in Nat /\ up \in Nat /\ before1 + up <= after1 /\ after1 <= left
      BY <2>5, <2>6
    <3>3. b.max_size = max
      BY <2>3
    <3> HIDE DEF x, y, max, before1, after1
    <3>4. up <= max - y
      BY <3>1, <3>2
    <3> QED
      BY <3>3, <3>4 DEF y
  <2>8. /\ CanAlloc(b, size)
        /\ scratch_alloc(b, size).sc = [b EXCEPT !.alloc_size = b.alloc_size + up]
    BY <2>1, <2>3, <2>4, <2>7, Allocation DEF pad, up
  <2>9. a[k] = [ok |-> TRUE, sc |-> [b EXCEPT !.alloc_size = b.alloc_size + up]]
    BY <1>5, <1>7, <2>8 DEF OneMore
  <2> HIDE DEF b, size
  <2>10. b \in Space /\ b.valid /\ b.max_size <= SizeMax
    BY <2>3 DEF Usable
  <2>11. /\ a[k].ok /\ a[k].sc \in Space /\ a[k].sc.valid /\ a[k].sc.max_size = b.max_size
         /\ a[k].sc.alloc_size = b.alloc_size + up
    <3>1. b.alloc_size + up \in Nat
      BY <2>3, <2>5
    <3> QED
      BY <2>9, <2>10, <3>1 DEF Space
  <2>12. a[k].sc.alloc_size <= sc.alloc_size + taken(k) /\ a[k].sc.alloc_size <= b.max_size
    <3> DEFINE x == b.alloc_size
               y == sc.alloc_size
               z == b.max_size
    <3>1. /\ x \in Nat /\ y \in Nat /\ z \in Nat /\ up \in Nat
          /\ taken(k-1) \in Nat /\ taken(k) \in Nat
          /\ x <= y + taken(k-1) /\ taken(k-1) + up <= taken(k) /\ up <= z - x
      BY <1>1, <2>3, <2>5, <2>6, <2>7
    <3> HIDE DEF x, y, z
    <3>2. x + up <= y + taken(k) /\ x + up <= z
      BY <3>1
    <3> QED
      BY <2>11, <3>2 DEF x, y, z
  <2> QED
    BY <2>3, <2>10, <2>11, <2>12 DEF Usable
<1> HIDE DEF Fine
<1>8. Fine(n)
  <2> DEFINE Not == {k \in 0..n : ~Fine(k)}
  <2>1. SUFFICES ASSUME Not # {} PROVE FALSE
    OBVIOUS
  <2>2. PICK k \in Not : \A l \in Not : k <= l
    <3>1. Not \in SUBSET Nat
      OBVIOUS
    <3> HIDE DEF Not
    <3> QED
      BY <2>1, <3>1, LeastNumber
  <2>3. k \in 1..n /\ k - 1 \in 0..n /\ k - 1 \notin Not
    BY <1>6, <2>2
  <2> QED
    BY <1>7, <2>2, <2>3
<1> QED
  BY <1>8 DEF Fine, a

\* What scratch_max_allocation says of a number of objects holds for every way
\* to split it among them, every alignment and every width of size_t.
THEOREM MaxAllocationCorrect == Spec => []MaxAllocationSuffices
<1>1. Inv => MaxAllocationSuffices
  <2> SUFFICES ASSUME Inv, scratch # NULL, NEW n \in 1..MaxObjects,
                      NEW sizes \in [1..n -> ObjectSizes],
                      Total(sizes)[n] <= scratch_max_allocation(scratch, n)
               PROVE  AllocAll(scratch, sizes)[n].ok
    BY DEF MaxAllocationSuffices
  <2>1. Usable(scratch)
    BY Types DEF Inv, Usable
  <2>2. sizes \in [1..n -> Nat] /\ n \in Nat \ {0}
    <3>1. ObjectSizes \subseteq Nat /\ MaxObjects \in Nat
      BY WidthAssumption, SizesAssumption
    <3>2. n \in Nat \ {0}
      BY <3>1
    <3>3. \A k \in 1..n : sizes[k] \in Nat
      BY <3>1
    <3> QED
      BY <3>2, <3>3
  <2> QED
    BY <2>1, <2>2, EachServed
<1> QED
  BY <1>1, InvIsInvariant, PTL

=============================================================================
