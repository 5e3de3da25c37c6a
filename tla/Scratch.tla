------------------------------ MODULE Scratch ------------------------------
(***************************************************************************)
(* One owner of a scratch space: it allocates objects, remembers           *)
(* checkpoints and goes back to them, as strauss_batch and pippenger_batch *)
(* of ecmult_impl.h do, the last checkpoint first.                         *)
(***************************************************************************)
EXTENDS ScratchSpace, Sequences

CONSTANTS
  SpaceSizes,   \* sizes of the scratch spaces that are created
  ObjectSizes,  \* sizes of the objects that are allocated
  MaxObjects    \* bound: objects and checkpoints alive at one time

\* A space whose block would not fit the address range is never asked for.
ASSUME SizesAssumption ==
  /\ SpaceSizes \subseteq 0..SizeMax /\ ObjectSizes \subseteq 0..SizeMax
  /\ MaxObjects \in Nat
  /\ \A s \in SpaceSizes : HeaderSize + (Alignment - 1) + s <= SizeMax

VARIABLES
  scratch,      \* the space, or NULL
  objects,      \* the objects handed out and not taken back: [at, size, end]
  checkpoints   \* the checkpoints the owner remembers: [mark, count], where count is
                \* the number of objects at the time

vars == <<scratch, objects, checkpoints>>

Init == scratch = NULL /\ objects = <<>> /\ checkpoints = <<>>

Create(size) ==
  /\ scratch = NULL
  /\ scratch' = scratch_create(size)
  /\ UNCHANGED <<objects, checkpoints>>

\* Destroying a space with live objects is ruled out by the VERIFY_CHECK.
Destroy ==
  /\ scratch # NULL /\ scratch.alloc_size = 0
  /\ scratch' = NULL
  /\ objects' = <<>> /\ checkpoints' = <<>>

Checkpoint ==
  /\ scratch # NULL /\ Len(checkpoints) < MaxObjects
  /\ checkpoints' = Append(checkpoints, [mark |-> scratch_checkpoint(scratch), count |-> Len(objects)])
  /\ UNCHANGED <<scratch, objects>>

\* Going back to a checkpoint gives up what was allocated after it, and the
\* checkpoints taken after it.
ApplyCheckpoint(k) ==
  /\ scratch # NULL
  /\ scratch' = scratch_apply_checkpoint(scratch, checkpoints[k].mark)
  /\ objects' = SubSeq(objects, 1, checkpoints[k].count)
  /\ checkpoints' = SubSeq(checkpoints, 1, k)

\* Mutant: the owner does not test for NULL.
Alloc_NoTest(size) ==
  /\ scratch # NULL /\ Len(objects) < MaxObjects
  /\ LET a == scratch_alloc(scratch, size)
     IN  /\ scratch' = a.sc
         /\ objects' = Append(objects, [at |-> a.at, size |-> size, end |-> a.sc.data + a.sc.alloc_size])
  /\ UNCHANGED checkpoints

Alloc(size) ==
  /\ scratch # NULL /\ Len(objects) < MaxObjects
  /\ LET a == scratch_alloc(scratch, size)
     IN  /\ scratch' = a.sc
         /\ objects' = IF a.at = NULL THEN objects
                       ELSE Append(objects, [at |-> a.at, size |-> size,
                                             end |-> a.sc.data + a.sc.alloc_size])
  /\ UNCHANGED checkpoints

Next ==
  \/ \E size \in SpaceSizes : Create(size)
  \/ Destroy
  \/ Checkpoint
  \/ \E k \in 1..Len(checkpoints) : ApplyCheckpoint(k)
  \/ \E size \in ObjectSizes : Alloc(size)

Spec == Init /\ [][Next]_vars

-----------------------------------------------------------------------------
(* What the users of a scratch space rely on. *)

Mark == [mark : Nat, count : Nat]

Object == [at : Nat, size : Nat, end : Nat]

\* The types of the space, of the objects in it and of the checkpoints.
TypeOK ==
  /\ scratch \in Space \cup {NULL}
  /\ objects \in Seq(Object)
  /\ checkpoints \in Seq(Mark)

\* scratch_alloc never hands out memory twice, outside of the block that
\* scratch_create got from malloc, or at an address that is not aligned,
\* whatever was taken back before.
ObjectsApart ==
  \A i \in 1..Len(objects) :
    /\ Aligned(objects[i].at)
    /\ scratch.data <= objects[i].at
    /\ objects[i].at + objects[i].size <= BlockSize(scratch.max_size)
    /\ \A j \in 1..(i-1) : objects[j].at + objects[j].size <= objects[i].at

\* Nothing leaks: the mark of the space is the end of the last live object, so
\* that a space whose objects are all given back can be destroyed
\* (scratch_impl.h:28) and used again in full.
NothingLeaks ==
  scratch # NULL =>
    scratch.data + scratch.alloc_size =
      IF objects = <<>> THEN scratch.data ELSE objects[Len(objects)].end

\* One more object after those of an allocation; none is missing as long as ok.
OneMore(a, size) == [ok |-> a.ok /\ CanAlloc(a.sc, size), sc |-> scratch_alloc(a.sc, size).sc]

\* The objects of these sizes, one after the other, and their sum so far.
AllocAll(sc, sizes) ==
  LET after[k \in 0..Len(sizes)] ==
        IF k = 0 THEN [ok |-> TRUE, sc |-> sc] ELSE OneMore(after[k-1], sizes[k])
  IN  after

Total(sizes) ==
  LET sum[k \in 0..Len(sizes)] == IF k = 0 THEN 0 ELSE sum[k-1] + sizes[k] IN sum

\* What scratch_max_allocation promises for a number of objects can be had in
\* that many objects, however it is split among them and however their sizes
\* round: strauss_max_points and pippenger_max_points build on it.
MaxAllocationSuffices ==
  scratch # NULL =>
    \A n \in 1..MaxObjects : \A sizes \in [1..n -> ObjectSizes] :
      Total(sizes)[n] <= scratch_max_allocation(scratch, n) => AllocAll(scratch, sizes)[n].ok

=============================================================================
