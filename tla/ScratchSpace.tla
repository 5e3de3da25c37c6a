---------------------------- MODULE ScratchSpace ----------------------------
(***************************************************************************)
(* The operations of a scratch space of the signature library              *)
(* (secp256k1-schnorrsig-batch-verify/src/scratch_impl.h): one block of    *)
(* memory that is handed out from the front and taken back by returning to *)
(* a checkpoint.  A scratch space is a record of the fields of             *)
(* secp256k1_scratch; data is the offset of the space in its block.        *)
(* Sizes are size_t numbers: arithmetic wraps at SizeMax + 1.              *)
(***************************************************************************)
EXTENDS Naturals

CONSTANTS
  SizeMax,      \* SIZE_MAX
  Alignment,    \* ALIGNMENT of util.h
  HeaderSize,   \* sizeof(secp256k1_scratch)
  NULL

Space == [valid : BOOLEAN, data : Nat, max_size : Nat, alloc_size : Nat]

ASSUME WidthAssumption ==
  /\ SizeMax \in Nat /\ HeaderSize \in Nat
  /\ Alignment \in Nat \ {0} /\ (SizeMax + 1) % Alignment = 0

ASSUME NullAssumption == NULL \notin Nat \cup Space

Wrap(n) == n % (SizeMax + 1)

Aligned(n) == n % Alignment = 0

round_to_align(size) == (Wrap(size + Alignment - 1) \div Alignment) * Alignment

\* scratch_create: the space starts behind the rounded header.
scratch_create(size) ==
  [valid |-> TRUE, data |-> round_to_align(HeaderSize), max_size |-> size, alloc_size |-> 0]

\* What malloc returned for it.
BlockSize(size) == Wrap(round_to_align(HeaderSize) + size)

scratch_checkpoint(sc) == IF sc.valid THEN sc.alloc_size ELSE 0

\* Mutant: the checkpoint is taken for the number of bytes to give back.
scratch_apply_checkpoint_Subtract(sc, checkpoint) ==
  IF ~sc.valid \/ checkpoint > sc.alloc_size THEN sc
  ELSE [sc EXCEPT !.alloc_size = @ - checkpoint]

\* scratch_apply_checkpoint ignores a checkpoint above the current mark.
scratch_apply_checkpoint(sc, checkpoint) ==
  IF ~sc.valid \/ checkpoint > sc.alloc_size THEN sc
  ELSE [sc EXCEPT !.alloc_size = checkpoint]

\* Mutant: nothing is set aside for the rounding of the objects.
scratch_max_allocation_NoSlack(sc, objects) ==
  IF sc.valid THEN Wrap(sc.max_size + SizeMax + 1 - sc.alloc_size) ELSE 0

\* How much objects allocations may ask for together.
scratch_max_allocation(sc, objects) ==
  LET left == Wrap(sc.max_size + SizeMax + 1 - sc.alloc_size)
      slack == Wrap(objects * (Alignment - 1))
  IN  IF ~sc.valid \/ (Alignment > 1 /\ objects > SizeMax \div (Alignment - 1)) \/ left <= slack
      THEN 0 ELSE left - slack

\* Mutant: a size that wraps when it is rounded is not refused.
CanAlloc_NoWrapTest(sc, size) ==
  /\ sc.valid
  /\ round_to_align(size) <= Wrap(sc.max_size + SizeMax + 1 - sc.alloc_size)

\* scratch_alloc returns an offset in the block, or NULL.
CanAlloc(sc, size) ==
  /\ round_to_align(size) >= size
  /\ sc.valid
  /\ round_to_align(size) <= Wrap(sc.max_size + SizeMax + 1 - sc.alloc_size)

scratch_alloc(sc, size) ==
  IF CanAlloc(sc, size)
  THEN [at |-> sc.data + sc.alloc_size,
        sc |-> [sc EXCEPT !.alloc_size = Wrap(@ + round_to_align(size))]]
  ELSE [at |-> NULL, sc |-> sc]

=============================================================================
