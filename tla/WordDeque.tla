------------------------------ MODULE WordDeque ------------------------------
(***************************************************************************)
(* SliceDeque<T>, its IntoIter and Buffer::clone in machine words: lengths *)
(* and capacities near usize::MAX, addresses near isize::MAX, and T of     *)
(* size zero, for which there is no memory, the capacity is isize::MAX and *)
(* the pointers of IntoIter count elements.  Values are left out: a deque  *)
(* is its buffer and the number of its elements.                           *)
(***************************************************************************)
EXTENDS MachineBuffer

CONSTANTS
  DEQS,   \* the deques of the program
  SIZES,  \* the sizes of T
  BASES   \* where the first element of an IntoIter may lie

ASSUME IterAssumption == SIZES \subseteq Nat /\ BASES \subseteq Words \ {0}

VARIABLES
  size,   \* mem::size_of::<T>()
  debug,  \* overflow checks and debug assertions are compiled in
  dq,     \* the deques: a buffer and len
  it,     \* an IntoIter; left is the number of elements it still owns
  buf,    \* a Buffer of its own
  short   \* a call has returned without the room it promises

vars == <<size, debug, dq, it, buf, short>>

-----------------------------------------------------------------------------
capacity(q) == q.blen \div 2

OnBuffer(b, n) == [blen |-> b.blen, bytes |-> b.bytes, len |-> n]

new == OnBuffer(NewBuffer(size), 0)

\* The calls on deques leave the other variables alone.
Others == UNCHANGED <<size, debug, it, buf>>

\* The call returns, which promises that the deque d has room for need
\* elements.
Promises(d, need) == short' = (short \/ capacity(dq'[d]) < need)

PromisesNothing == UNCHANGED short

\* The call panics or returns Err.
GivesUp == PromisesNothing /\ UNCHANGED dq

\* Result of a helper that may reallocate.
Ok(q)     == [val |-> "ok", q |-> q]
Err(v, q) == [val |-> v, q |-> q]

\* The capacity doubles, however many elements are asked for.
GrowOnlyTwice(q, additional) ==
  LET req_cap == q.len + additional
      dbl_cap == IF Overflows(capacity(q) * 2) THEN USIZE - 1 ELSE capacity(q) * 2
  IN  IF dbl_cap > 0 THEN dbl_cap ELSE req_cap

\* checked_add has succeeded.
grow_policy(q, additional) ==
  LET req_cap == q.len + additional
      dbl_cap == IF Overflows(capacity(q) * 2) THEN USIZE - 1 ELSE capacity(q) * 2
  IN  IF req_cap > capacity(q) /\ dbl_cap > req_cap THEN dbl_cap ELSE req_cap

reserve_capacity(q, new_capacity, oom) ==
  LET r == uninitialized_twice(size, new_capacity, debug, oom)
  IN  IF new_capacity <= capacity(q) THEN Ok(q)
      ELSE IF r.val = "ok" THEN Ok(OnBuffer(r.b, q.len))
      ELSE Err(r.val, q)

try_reserve(q, additional, oom) ==
  IF Overflows(q.len + additional)
  THEN Err("panic", q)
  ELSE reserve_capacity(q, grow_policy(q, additional), oom)

\* new_len is computed in isize.
move_tail_unchecked(q, x) == [q EXCEPT !.len = wrapping(as_isize(q.len) + x)]

-----------------------------------------------------------------------------
(* The deque.                                                              *)

\* d = SliceDeque::with_capacity(n)
assign(d, n, oom) ==
  LET r == uninitialized_twice(size, n, debug, oom)
  IN  /\ Others
      /\ \/ r.val # "ok" /\ GivesUp
         \/ r.val = "ok" /\ dq' = [dq EXCEPT ![d] = OnBuffer(r.b, 0)] /\ Promises(d, n)

\* reserve and try_reserve
reserve(d, additional, oom) ==
  LET r == try_reserve(dq[d], additional, oom)
  IN  /\ Others
      /\ \/ r.val # "ok" /\ GivesUp
         \/ /\ r.val = "ok" /\ dq' = [dq EXCEPT ![d] = r.q]
            /\ Promises(d, dq[d].len + additional)

reserve_exact(d, additional, oom) ==
  LET need == dq[d].len + additional
      r    == reserve_capacity(dq[d], need, oom)
  IN  /\ Others
      /\ \/ (Overflows(need) \/ r.val # "ok") /\ GivesUp
         \/ /\ ~Overflows(need) /\ r.val = "ok"
            /\ dq' = [dq EXCEPT ![d] = r.q] /\ Promises(d, need)

\* push_back and push_front; a head that moves in the first region changes
\* the length as the tail does.
push(d, oom) ==
  LET q == dq[d]
      r == IF q.len = capacity(q) THEN try_reserve(q, 1, oom) ELSE Ok(q)
  IN  /\ Others
      /\ \/ r.val # "ok" /\ GivesUp
         \/ /\ r.val = "ok" /\ dq' = [dq EXCEPT ![d] = move_tail_unchecked(r.q, 1)]
            /\ Promises(d, q.len + 1)

\* pop_back and pop_front
pop(d) ==
  /\ Others
  /\ \/ dq[d].len = 0 /\ GivesUp
     \/ /\ dq[d].len > 0 /\ dq' = [dq EXCEPT ![d] = move_tail_unchecked(@, -1)]
        /\ PromisesNothing

append(d, other, oom) ==
  LET count == dq[other].len
      r     == try_reserve(dq[d], count, oom)
  IN  /\ Others
      /\ \/ r.val # "ok" /\ GivesUp
         \/ /\ r.val = "ok"
            /\ dq' = [dq EXCEPT ![d] = move_tail_unchecked(r.q, as_isize(count)),
                                ![other].len = 0]
            /\ Promises(d, dq[d].len + count)

-----------------------------------------------------------------------------
(* IntoIter.                                                               *)

NoIter == [used |-> FALSE, ptr |-> 0, end |-> 0, cap |-> 0, bytes |-> 0, left |-> 0]

\* Pointer arithmetic on *const i8, with wrap-around.
arith_offset(dst, offset) == wrapping(dst + offset)

\* A pointer to a T of size zero is not moved, as ptr.offset does not.
OffsetOfT(p, n) == IF size = 0 THEN p ELSE p + n * size

Offset(p, n) == IF size = 0 THEN arith_offset(p, n) ELSE p + n * size

\* self.len() of the iterator, through isize; division rounds towards zero.
wrapping_offset_from(ptr, end) ==
  LET diff == as_isize(wrapping(as_isize(end) - as_isize(ptr)))
  IN  IF diff >= 0 THEN diff \div size ELSE -((-diff) \div size)

size_hint(i) ==
  IF size = 0 THEN wrapping(i.end - i.ptr)
              ELSE wrapping(wrapping_offset_from(i.ptr, i.end))

\* The deque moves into the iterator.  The pointer to the first element is
\* an alignment of T when there is no memory, otherwise the elements lie anywhere
\* below the end of the address space.
into_iter(d, begin) ==
  LET q   == dq[d]
      end == Offset(begin, IF size = 0 THEN as_isize(q.len) ELSE q.len)
  IN  /\ ~it.used
      /\ q.bytes = 0 => begin <= AG
      /\ begin + q.len * size < USIZE
      /\ begin <= end
      /\ it' = [used |-> TRUE, ptr |-> begin, end |-> end, cap |-> capacity(q),
                bytes |-> q.bytes, left |-> q.len]
      /\ dq' = [dq EXCEPT ![d] = new] /\ PromisesNothing
      /\ UNCHANGED <<size, debug, buf>>

Iterates == PromisesNothing /\ UNCHANGED <<size, debug, dq, buf>>

next ==
  /\ it.used /\ it.ptr # it.end /\ Iterates
  /\ it' = [it EXCEPT !.ptr = Offset(it.ptr, 1), !.left = @ - 1]

next_back ==
  /\ it.used /\ it.ptr # it.end /\ Iterates
  /\ it' = [it EXCEPT !.end = Offset(it.end, -1), !.left = @ - 1]

\* Drop for IntoIter, with elements left or not.
drop_iter == it.used /\ it' = NoIter /\ Iterates

\* The length of the buffer is taken to be its capacity.
HalfOfIterBuffer == from_raw_parts(it.cap, it.bytes)

\* The buffer that Drop for IntoIter makes, to free it.
IterBuffer == from_raw_parts(wrapping(2 * it.cap), it.bytes)

-----------------------------------------------------------------------------
(* A Buffer that is used without a deque.                                  *)

OnlyBuffer(r) ==
  /\ \/ r.val # "ok" /\ UNCHANGED buf
     \/ r.val = "ok" /\ buf' = r.b
  /\ PromisesNothing /\ UNCHANGED <<size, debug, dq, it>>

make_buffer(len, oom) == OnlyBuffer(uninitialized(size, len, debug, oom))

\* buf = buf.clone(); the buffer that was cloned is dropped.
clone_buffer(oom) == OnlyBuffer(uninitialized(size, buf.blen, debug, oom))

drop_buffer == OnlyBuffer(Made(NewBuffer(size)))

-----------------------------------------------------------------------------
Init ==
  /\ size \in SIZES /\ debug \in BOOLEAN
  /\ dq  = [d \in DEQS |-> new]
  /\ it  = NoIter
  /\ buf = NewBuffer(size)
  /\ short = FALSE

\* A buffer of len elements has fewer bytes than there are addresses.
BufferFits(len) == ~Overflows(len * size + 2 * AG)

\* The buffer of a deque with capacity n fits, and a deque of zero-sized
\* values has at most isize::MAX elements.
Fits(n) == IF size = 0 THEN n <= isize_max ELSE BufferFits(2 * n)

\* A release build is only asked for capacities that fit, when the deque grows
\* to them and when it doubles its own, or that checked_add refuses.
Asks(d, n) ==
  \/ debug
  \/ Overflows(n)
  \/ n <= capacity(dq[d])
  \/ Fits(n) /\ Fits(2 * capacity(dq[d]))

\* Deques, an iterator and a buffer share nothing: it is enough to let the
\* program use one kind of them at a time.
NoBuffer == buf = NewBuffer(size)
NoDeques(s) == \A d \in s : dq[d] = new

Requests(d, oom) ==
  \/ \E n \in Words : assign(d, n, oom)
  \/ \E n \in Words : reserve(d, n, oom)
  \/ \E n \in Words : reserve_exact(d, n, oom)
  \/ push(d, oom)
  \/ \E o \in DEQS \ {d} : append(d, o, oom)

SoundRequests(d, oom) ==
  \/ \E n \in Words : (debug \/ Fits(n)) /\ assign(d, n, oom)
  \/ \E n \in Words : Asks(d, dq[d].len + n) /\ reserve(d, n, oom)
  \/ \E n \in Words : Asks(d, dq[d].len + n) /\ reserve_exact(d, n, oom)
  \/ Asks(d, dq[d].len + 1) /\ push(d, oom)
  \/ \E o \in DEQS \ {d} : Asks(d, dq[d].len + dq[o].len) /\ append(d, o, oom)

Uses(oom) ==
  \/ \E d \in DEQS : ~it.used /\ pop(d)
  \/ \E d \in DEQS, begin \in BASES : NoDeques(DEQS \ {d}) /\ into_iter(d, begin)
  \/ next
  \/ next_back
  \/ drop_iter
  \/ clone_buffer(oom)
  \/ drop_buffer

OnlyBuffers == NoDeques(DEQS) /\ ~it.used

Next == \E oom \in BOOLEAN :
  \/ Uses(oom)
  \/ \E len \in Words : OnlyBuffers /\ make_buffer(len, oom)
  \/ \E d \in DEQS : NoBuffer /\ ~it.used /\ Requests(d, oom)

SoundNext == \E oom \in BOOLEAN :
  \/ Uses(oom)
  \/ \E len \in Words : (debug \/ BufferFits(len)) /\ OnlyBuffers /\ make_buffer(len, oom)
  \/ \E d \in DEQS : NoBuffer /\ ~it.used /\ SoundRequests(d, oom)

Spec == Init /\ [][Next]_vars

SoundSpec == Init /\ [][SoundNext]_vars

-----------------------------------------------------------------------------
\* A call that returns has made the room it was asked for, and no deque has
\* more elements than its capacity.
Reserved ==
  /\ ~short
  /\ \A d \in DEQS : dq[d].len <= capacity(dq[d])

\* The size recomputed when memory is freed is the size that was allocated,
\* for deques, for iterators from the capacity they saved, and for buffers,
\* whichever len and size_of::<T>() it is computed from.
FreedExactly ==
  /\ \A d \in DEQS : Freed(size, dq[d]) = dq[d].bytes
  /\ it.used => Freed(size, IterBuffer) = it.bytes
  /\ Freed(size, buf) = buf.bytes

\* size_hint() is the number of elements that next and next_back still give,
\* and they end after the last one, wherever the addresses lie and also when
\* the pointers only count.
HintExact == it.used =>
  /\ size_hint(it) = it.left
  /\ it.ptr = it.end <=> it.left = 0
=============================================================================
