---------------------------- MODULE FrameLayout -----------------------------
(* Where data lies.  StructLayouts::from_struct_types of
   src/asm/common/layout.rs: the offsets, size and alignment of every struct,
   in source order, one field at a time.

   Then the local frame, StackFrame of src/asm/common/stack.rs and FrameLayout
   of src/asm/aarch64/frame.rs: once all structs are laid out, a slot is made
   per alloca, in the arbitrary order of a HashMap, and then one per spilled
   vreg.  Slots grow downward from fp.

   A dtype is a base and a count, the product of its array lengths: an array is
   laid out as that many elements, however it is nested.  A base is the number
   of a struct, or a scalar, written as minus its size. *)
EXTENDS Integers, Sequences

I1 == -1
I32 == -4
Ptr == -8
Scalars == {I1, I32, Ptr}
Dtype == [count : Nat, base : Scalars \cup (Nat \ {0})]

VARIABLES
  structs,    \* the struct definitions, each a sequence of dtypes
  layouts,    \* layouts of those already done: [size, align, offsets]
  offsets,    \* of the fields placed so far in the struct being laid out
  offset,     \* first byte behind them
  max_align,  \* largest alignment among them
  failed      \* Error::MissingStructLayout

layoutVars == <<structs, layouts, offsets, offset, max_align, failed>>
-----------------------------------------------------------------------------
AlignUp(x, align) ==
  IF align <= 1 THEN x ELSE ((x + align - 1) \div align) * align

Scalar(base) == [size |-> -base, align |-> -base]

(* size_align_of. *)
HasLayout(d) == d.base \in Scalars \/ d.base \in DOMAIN layouts
Base(d) == IF d.base \in Scalars THEN Scalar(d.base) ELSE layouts[d.base]
SizeOf(d) == d.count * Base(d).size
AlignOf(d) == Base(d).align

LayoutInit ==
  /\ structs = <<>>
  /\ layouts = <<>> /\ offsets = <<>>
  /\ offset = 0 /\ max_align = 1
  /\ failed = FALSE

AllLaidOut == Len(layouts) = Len(structs)
Fields == structs[Len(layouts) + 1]
Field == Fields[Len(offsets) + 1]

Larger(x, y) == IF x < y THEN y ELSE x
LastAlign(x, y) == y
MaxAlign(x, y) == Larger(x, y)

(* One iteration of the loop of compute_single_layout. *)
PlaceField ==
  /\ ~failed /\ ~AllLaidOut /\ Len(offsets) < Len(Fields)
  /\ IF HasLayout(Field)
     THEN LET at == AlignUp(offset, AlignOf(Field)) IN
          /\ offsets' = Append(offsets, at)
          /\ offset' = at + SizeOf(Field)
          /\ max_align' = MaxAlign(max_align, AlignOf(Field))
          /\ UNCHANGED failed
     ELSE failed' = TRUE /\ UNCHANGED <<offsets, offset, max_align>>
  /\ UNCHANGED <<structs, layouts>>

PaddedSize == AlignUp(offset, max_align)

FinishStruct ==
  /\ ~failed /\ ~AllLaidOut /\ Len(offsets) = Len(Fields)
  /\ layouts' = Append(layouts, [size |-> PaddedSize, align |-> max_align,
                                 offsets |-> offsets])
  /\ offsets' = <<>> /\ offset' = 0 /\ max_align' = 1
  /\ UNCHANGED <<structs, failed>>

LayoutNext == PlaceField \/ FinishStruct

-----------------------------------------------------------------------------
(* An array of any laid out type keeps its elements aligned: the size is a
   multiple of the alignment, which is enough for every field's own. *)
ElementsAligned ==
  \A k \in DOMAIN layouts :
    /\ layouts[k].size % layouts[k].align = 0
    /\ \A i \in DOMAIN structs[k] : AlignOf(structs[k][i]) <= layouts[k].align

(* Every field starts at a multiple of its alignment, behind the field before
   it, and ends inside the struct. *)
FieldsApart ==
  \A k \in DOMAIN layouts :
    LET at == layouts[k].offsets
        fields == structs[k]
    IN  /\ Len(at) = Len(fields)
        /\ \A i \in DOMAIN at :
             /\ at[i] % AlignOf(fields[i]) = 0
             /\ at[i] + SizeOf(fields[i]) <= layouts[k].size
             /\ \A j \in DOMAIN at : i < j => at[i] + SizeOf(fields[i]) <= at[j]
-----------------------------------------------------------------------------

SpillBytes == {4, 8}
FrameAlignment == 16

VARIABLES
  allocas,     \* dtypes still without a slot, by vreg
  waiting,     \* the vregs among them still to be visited
  spills,      \* sizes of the spilled vregs without a slot
  frame_size,  \* StackFrame::size
  slots        \* [at: offset from fp, bytes, align]

frameVars == <<allocas, waiting, spills, frame_size, slots>>
-----------------------------------------------------------------------------
FrameInit ==
  /\ LayoutInit
  /\ allocas = <<>> /\ waiting = {}
  /\ spills = <<>>
  /\ frame_size = 0
  /\ slots = <<>>

(* alloc_slot: the size grows first, the slot starts at the new end. *)
SlotAt(bytes, align) == - (AlignUp(frame_size, align) + bytes)

AllocSlot(bytes, align) ==
  /\ frame_size' = AlignUp(frame_size, align) + bytes
  /\ slots' = Append(slots, [at |-> SlotAt(bytes, align), bytes |-> bytes, align |-> align])

(* StackFrame::from_blocks; a type without layout is an error. *)
AllocAlloca ==
  /\ ~failed /\ AllLaidOut
  /\ \E v \in waiting :
       IF HasLayout(allocas[v])
       THEN /\ AllocSlot(SizeOf(allocas[v]), AlignOf(allocas[v]))
            /\ waiting' = waiting \ {v}
            /\ UNCHANGED failed
       ELSE failed' = TRUE /\ UNCHANGED <<frame_size, slots, waiting>>
  /\ UNCHANGED <<structs, layouts, offsets, offset, max_align, allocas, spills>>

(* alloc_spill: size and alignment are those of the register. *)
AllocSpill ==
  /\ ~failed /\ AllLaidOut /\ waiting = {}
  /\ spills # <<>>
  /\ AllocSlot(Head(spills), Head(spills))
  /\ spills' = Tail(spills)
  /\ UNCHANGED <<layoutVars, allocas, waiting>>

(* emit_prologue reserves this many bytes below fp. *)
ReservedUnpadded == frame_size
Reserved == AlignUp(frame_size, FrameAlignment)

FrameNext == \/ LayoutNext /\ UNCHANGED frameVars
             \/ AllocAlloca
             \/ AllocSpill

FrameDone == AllLaidOut /\ waiting = {} /\ spills = <<>>
-----------------------------------------------------------------------------
(* No two slots share a byte, and none reaches the saved fp/lr pair at fp or
   the outgoing arguments below the reserved frame. *)
SlotsApart ==
  /\ \A j, k \in DOMAIN slots :
       j < k => slots[k].at + slots[k].bytes <= slots[j].at
  /\ \A k \in DOMAIN slots :
       - Reserved <= slots[k].at /\ slots[k].at + slots[k].bytes <= 0

(* Every slot is aligned for what it holds: alloc_slot aligns the slot's upper
   end, so this depends on sizes being multiples of alignments.  sp below the
   frame stays a multiple of 16. *)
SlotsAligned ==
  /\ \A k \in DOMAIN slots : slots[k].at % slots[k].align = 0
  /\ Reserved % FrameAlignment = 0
=============================================================================
