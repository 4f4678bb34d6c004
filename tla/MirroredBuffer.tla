--------------------------- MODULE MirroredBuffer ---------------------------
(***************************************************************************)
(* Buffer<T> of src/mirrored/buffer.rs, for a T that is not zero-sized: a  *)
(* region of physical memory that the operating system maps twice, at two  *)
(* adjacent virtual addresses.                                             *)
(*                                                                         *)
(* Memory is modelled byte by byte, because a T whose size does not divide *)
(* the page size straddles the end of the region at a position that is not *)
(* a multiple of its size.  A byte holds <<e, k>>, the k-th byte of the    *)
(* value e, or Junk: memory that holds no part of a value.  Virtual        *)
(* addresses are offsets from buf.ptr(); the MMU takes the virtual offset  *)
(* o to the physical byte o % half.                                        *)
(***************************************************************************)
EXTENDS Integers, Sequences, FiniteSets

CONSTANTS
  AG,    \* allocation_granularity(): the bytes of a page
  SIZE,  \* mem::size_of::<T>()
  ALIGN, \* mem::align_of::<T>()
  Elem,  \* the values of type T, each with an identity of its own
  Junk   \* a byte, or a slot, that holds no value

\* Rust's sizes are multiples of the alignment; uninitialized() asserts that
\* the alignment is at most the page size, and both are powers of two.
ASSUME LayoutAssumption ==
  /\ AG \in Nat \ {0} /\ SIZE \in Nat \ {0} /\ ALIGN \in Nat \ {0}
  /\ SIZE % ALIGN = 0 /\ AG % ALIGN = 0
ASSUME JunkAssumption   == Junk \notin Elem /\ Junk \notin Elem \X (0 .. SIZE - 1)

Byte == (Elem \X (0 .. SIZE - 1)) \cup {Junk}

-----------------------------------------------------------------------------
(* Sizes.                                                                  *)

no_required_allocation_units(bytes) ==
  LET up == (bytes + AG - 1) \div AG
      r  == IF up < 1 THEN 1 ELSE up
  IN  IF r % 2 = 0 THEN r ELSE r + 1

size_in_bytes(len) == no_required_allocation_units(len * SIZE) * AG

-----------------------------------------------------------------------------
(* A buffer is [blen, half, mem]: its length in elements, the bytes of     *)
(* physical memory behind it, and their contents.                          *)

\* Buffer::new(): a dangling pointer, nothing is mapped.
NewBuffer == [blen |-> 0, half |-> 0, mem |-> [a \in {} |-> Junk]]

\* Each of the two halves has the size of the whole buffer.
HalfIsWhole(len) ==
  IF len = 0
  THEN NewBuffer
  ELSE [blen |-> size_in_bytes(len) \div SIZE,
        half |-> size_in_bytes(len),
        mem  |-> [a \in 0 .. size_in_bytes(len) - 1 |-> Junk]]

\* Buffer::uninitialized(len), once allocate_mirrored(alloc_size) succeeds.
uninitialized(len) ==
  LET alloc_size == size_in_bytes(len)
  IN  IF len = 0
      THEN NewBuffer
      ELSE [blen |-> alloc_size \div SIZE,
            half |-> alloc_size \div 2,
            mem  |-> [a \in 0 .. (alloc_size \div 2) - 1 |-> Junk]]

-----------------------------------------------------------------------------
(* Memory accesses of a deque q, which is a buffer together with the slice *)
(* [head, len] of its elements: head is the byte offset of the first.      *)
(* Slot i is the i-th element position counted from head.                  *)

Phys(q, o) == o % q.half

SlotBytes(q, i) == {Phys(q, q.head + i * SIZE + k) : k \in 0 .. SIZE - 1}

\* ptr::read of slot i.  Bytes that are not the bytes of one value are Junk.
Read(q, i) ==
  LET b == [k \in 0 .. SIZE - 1 |-> q.mem[Phys(q, q.head + i * SIZE + k)]]
  IN  IF b[0] # Junk /\ \A k \in 0 .. SIZE - 1 : b[k] = <<b[0][1], k>>
      THEN b[0][1]
      ELSE Junk

Reads(q, i, n) == [j \in 1 .. n |-> Read(q, i + j - 1)]

\* ptr::write of the values of the sequence s to slots i, i + 1, ...
Write(q, i, s) ==
  [q EXCEPT !.mem =
    [a \in DOMAIN q.mem |->
      LET k == (a - (q.head + i * SIZE)) % q.half
      IN  IF k < Len(s) * SIZE THEN <<s[(k \div SIZE) + 1], k % SIZE>>
                               ELSE q.mem[a]]]

\* ptr::copy / copy_nonoverlapping of n slots of src, from its slot i, to
\* slots j, j + 1, ... of q (src may be q itself).
Copy(src, i, q, j, n) ==
  [q EXCEPT !.mem =
    [a \in DOMAIN q.mem |->
      LET k == (a - (q.head + j * SIZE)) % q.half
      IN  IF k < n * SIZE THEN src.mem[Phys(src, src.head + i * SIZE + k)]
                          ELSE q.mem[a]]]

\* The elements of the slice: the contents of the deque.
Contents(q) == Reads(q, 0, q.len)

\* Memory outside the slice is uninitialized memory as far as the deque is
\* concerned (MaybeUninit in tail_head_slice), whatever bits it still holds.
Settle(q) ==
  [q EXCEPT !.mem =
    [a \in DOMAIN q.mem |->
      IF (a - q.head) % q.half < q.len * SIZE THEN q.mem[a] ELSE Junk]]
=============================================================================
