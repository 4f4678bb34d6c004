---------------------------- MODULE MachineBuffer ----------------------------
(***************************************************************************)
(* The sizes of Buffer<T> of src/mirrored/buffer.rs in machine words, for  *)
(* every T, zero-sized ones included.  MirroredBuffer is about what is in  *)
(* the memory, with unbounded integers; this module is about how much of   *)
(* it there is.  A buffer is [blen, bytes]: the field len, and the bytes   *)
(* that allocate_mirrored was asked for (0 for a dangling pointer).        *)
(*                                                                         *)
(* size is mem::size_of::<T>().  debug is a build with overflow checks and *)
(* debug assertions; in a release build arithmetic wraps around and        *)
(* debug_assert! does nothing.                                             *)
(***************************************************************************)
EXTENDS Integers

CONSTANTS
  USIZE,    \* the number of values of usize, 2 ^ W for words of W bits
  AG,       \* allocation_granularity()
  MaxAlloc  \* bound: the largest region the address space has room for

\* The page at address 0 is never mapped.
ASSUME WordAssumption ==
  /\ USIZE \in Nat /\ USIZE % 2 = 0 /\ AG \in Nat /\ AG > 1
  /\ USIZE % AG = 0 /\ MaxAlloc \in 0 .. USIZE - AG

Words == 0 .. USIZE - 1

isize_max == USIZE \div 2 - 1

wrapping(x) == x % USIZE

\* x as isize
as_isize(x) == IF x > isize_max THEN x - USIZE ELSE x

\* The result x of checked arithmetic is no usize.
Overflows(x) == x >= USIZE

-----------------------------------------------------------------------------
no_required_allocation_units(bytes) ==
  LET r == wrapping(bytes + AG - 1) \div AG
      m == IF r < 1 THEN 1 ELSE r
  IN  IF m % 2 = 0 THEN m ELSE m + 1

size_in_bytes(size, len) ==
  wrapping(no_required_allocation_units(wrapping(len * size)) * AG)

\* An operation of size_in_bytes overflows.
SizeOverflows(size, len) ==
  \/ Overflows(len * size + AG)
  \/ Overflows(no_required_allocation_units(len * size) * AG)

empty_len(size) == IF size = 0 THEN 2 * isize_max ELSE 0

NewBuffer(size) == [blen |-> empty_len(size), bytes |-> 0]

\* How a call ends: with a buffer, with AllocError, or with a panic.
Made(b)   == [val |-> "ok", b |-> b]
Failed(v) == [val |-> v, b |-> [blen |-> 0, bytes |-> 0]]

\* Buffer::uninitialized(len).  allocate_mirrored asserts that it is asked for
\* more than zero bytes.
uninitialized(size, len, debug, oom) ==
  LET alloc_size == size_in_bytes(size, len)
  IN  IF size = 0 \/ len = 0 THEN Made(NewBuffer(size))
      ELSE IF len % 2 # 0 \/ (debug /\ SizeOverflows(size, len)) \/ alloc_size = 0
      THEN Failed("panic")
      ELSE IF oom \/ alloc_size > MaxAlloc THEN Failed("oom")
      ELSE Made([blen |-> alloc_size \div size, bytes |-> alloc_size])

\* Buffer::uninitialized(2 * n), as the deque calls it.
uninitialized_twice(size, n, debug, oom) ==
  IF debug /\ Overflows(2 * n)
  THEN Failed("panic")
  ELSE uninitialized(size, wrapping(2 * n), debug, oom)

\* Buffer::from_raw_parts over memory of the given size.
from_raw_parts(len, bytes) == [blen |-> len, bytes |-> bytes]

\* The bytes that Drop for Buffer gives to deallocate_mirrored, if it does.
Freed(size, b) ==
  IF size = 0 \/ b.blen = 0 THEN 0 ELSE size_in_bytes(size, b.blen)
=============================================================================
