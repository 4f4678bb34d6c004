-------------------------- MODULE DequeConversions --------------------------
(***************************************************************************)
(* The trait implementations of src/lib.rs that make a deque from other    *)
(* values or let other code read and write its slice: sdeq!, From, Clone's *)
(* clone_from, the specializations of FromIterator and Extend behind the   *)
(* feature "unstable", BufMut behind "bytes_buf", and the accessors of     *)
(* single elements.  Each is one step, like the calls of SliceDeque.       *)
(***************************************************************************)
EXTENDS SliceDeque

CONSTANTS
  USIZE_MAX,  \* usize::max_value(), more than any length
  BUF_GROW    \* how many more bytes bytes_mut reserves, 64 in the source

ASSUME ConversionAssumption == USIZE_MAX \in Nat /\ USIZE_MAX >= MaxAlloc /\ BUF_GROW \in Nat \ {0}

-----------------------------------------------------------------------------
(* A new deque of n values, which takes the place of d.                    *)

\* r is the deque with room for n values, or an allocation error; s is the
\* values.  When one of them cannot be made (clone() or the iterator panics)
\* the others are dropped with the deque that was to hold them.
Assigns(d, n, r, s) ==
  \/ /\ ~r.ok /\ s = <<>>
     /\ Stays("from", <<d, n, s>>, "oom")
  \/ /\ r.ok /\ s = <<>> /\ n > 0
     /\ Stays("from", <<d, n, s>>, "panic")
  \/ /\ r.ok /\ Len(s) = n
     /\ Becomes(d, PushAll(r.q, s))
     /\ Own(ToSet(s), Contents(dq[d]))
     /\ Returns("from", <<d, n, s>>, "ok")

\* with_capacity(n), which panics when there is no memory.
Allocated(n, oom) == IF Allocates(2 * n, oom) THEN Ok(with_capacity(n)) ELSE Err(new)

\* d = sdeq![s...]: an array is built, copied behind an empty deque, and
\* forgotten.
steal_from_slice(d, s, oom) == Assigns(d, Len(s), try_reserve(new, Len(s), oom), s)

\* d = sdeq![elem; n] and from_elem(elem, n): the room is reserved again.
from_elem(d, n, s, oom) ==
  LET r == Allocated(n, oom)
  IN  Assigns(d, n, IF r.ok THEN try_reserve(r.q, n, oom) ELSE r, s)

\* d = SliceDeque::from(&slice): clones, pushed back one by one.
from(d, n, s, oom) == Assigns(d, n, Allocated(n, oom), s)

\* d = iterator.collect() for an iterator of known length (TrustedLen).
from_iter_trusted(d, n, s, oom) == Assigns(d, n, try_reserve(new, n, oom), s)

-----------------------------------------------------------------------------
(* Values that are added to a deque.                                       *)

\* d.push_back(e) in a loop that ends with the first failure.
PushBack(r, e) ==
  LET room == IF r.ok THEN RoomForOne(r.q, FALSE) ELSE r
  IN  IF room.ok THEN Ok(PushAll(room.q, <<e>>)) ELSE room

PushEach(q, s) ==
  LET pushed[n \in 0 .. Len(s)] == IF n = 0 THEN Ok(q) ELSE PushBack(pushed[n - 1], s[n])
  IN  pushed[Len(s)]

\* d.clone_from(other), where other has n elements: clear, then push_back of
\* the clones s.  A clone that panics, or a full deque that cannot grow, ends
\* the call with what has been pushed so far.
clone_from(d, n, s, oom) ==
  LET r == PushEach(move_tail_unchecked(dq[d], -dq[d].len), s)
  IN  /\ r.ok
      /\ Becomes(d, r.q)
      /\ Own(ToSet(s), Contents(dq[d]))
      /\ \/ Len(s) = n /\ Returns("clone_from", <<d, n, s>>, "ok")
         \/ Len(s) < n /\ Returns("clone_from", <<d, n, s>>, "panic")
         \/ /\ Len(s) < n /\ ~RoomForOne(r.q, oom).ok
            /\ Returns("clone_from", <<d, n, s>>, "oom")

\* spec_extend for an iterator of known length n (TrustedLen): one reserve,
\* then the tail moves with each value.  s is fewer than n when next() panics.
extend_trusted(d, n, s, oom) ==
  LET r == try_reserve(dq[d], n, oom)
  IN  \/ /\ ~r.ok /\ s = <<>>
         /\ Stays("extend_from_slice", <<d, n, s>>, "oom")
      \/ /\ r.ok /\ Len(s) <= n
         /\ Becomes(d, PushAll(r.q, s))
         /\ Own(ToSet(s), <<>>)
         /\ Returns("extend_from_slice", <<d, n, s>>, IF Len(s) = n THEN "ok" ELSE "panic")

\* spec_extend for a slice of a T that is Copy: the tail moves first, then
\* the bytes are copied.  Such a T has no destructor.
extend_copy(d, s, oom) ==
  LET r == try_reserve(dq[d], Len(s), oom)
  IN  /\ ~NEEDS_DROP
      /\ \/ ~r.ok /\ Stays("extend_from_slice", <<d, Len(s), s>>, "oom")
         \/ /\ r.ok
            /\ Becomes(d, AssignAll(r.q, Len(s), s))
            /\ Own(ToSet(s), <<>>)
            /\ Returns("extend_from_slice", <<d, Len(s), s>>, "ok")

-----------------------------------------------------------------------------
(* BufMut, for T = u8; the model lets T be any type without a destructor.  *)

\* The spare capacity is given out as it is.
BytesMutNeverGrows(q, oom) == Ok(q)

\* The room that bytes_mut() gives out is the spare capacity.
bytes_mut(q, oom) == IF is_full(q) THEN try_reserve(q, BUF_GROW, oom) ELSE Ok(q)

advance_mut(q, cnt, oom) ==
  LET r == IF cnt > capacity(q) - q.len THEN try_reserve(q, cnt, oom) ELSE Ok(q)
  IN  IF r.ok THEN Ok(move_tail_unchecked(r.q, cnt)) ELSE r

\* One turn of the loop of BufMut::put of the crate bytes: the first of the
\* values s that fit are written to bytes_mut(), then advance_mut by as many.
put(d, s, oom) ==
  LET r   == bytes_mut(dq[d], oom)
      cnt == Min({Len(s), capacity(r.q) - r.q.len})
      a   == advance_mut(Write(r.q, r.q.len, SubSeq(s, 1, cnt)), cnt, oom)
  IN  /\ ~NEEDS_DROP /\ s # <<>>
      /\ \/ ~r.ok /\ Stays("put", <<d, s>>, "oom")
         \/ /\ r.ok /\ a.ok
            /\ Becomes(d, a.q)
            /\ Own(ToSet(SubSeq(s, 1, cnt)), <<>>)
            /\ Returns("put", <<d, s>>, "ok")

-----------------------------------------------------------------------------
(* The slice, and its ends.                                                *)

\* <[T]>::get
get(q, i) == IF i < q.len THEN Read(q, i) ELSE None

\* 0 - 1 is the largest usize, no index.
last_idx(q) == (q.len - 1) % (USIZE_MAX + 1)

\* as_slice, and all that dereferences to it, and as_slices.
as_slices(d) == Stays("as_slices", <<d>>, <<Contents(dq[d]), <<>>>>)

front(d) == Stays("front", <<d>>, get(dq[d], 0))

back(d) == Stays("back", <<d>>, get(dq[d], last_idx(dq[d])))

\* *slot = e, where slot is an Option that is unwrapped.
AssignAt(op, d, i, e) ==
  \/ /\ i >= dq[d].len
     /\ Stays(op, <<d, e>>, "panic")
  \/ /\ i < dq[d].len
     /\ Becomes(d, Write(dq[d], i, <<e>>))
     /\ Own({e}, <<Read(dq[d], i)>>)
     /\ Returns(op, <<d, e>>, "ok")

front_mut(d, e) == AssignAt("front_mut", d, 0, e)

back_mut(d, e) == AssignAt("back_mut", d, last_idx(dq[d]), e)

-----------------------------------------------------------------------------
Makes(d, oom) ==
  \/ \E s \in UnbornSeqs : steal_from_slice(d, s, oom)
  \/ \E n \in 0 .. MaxItems, s \in UnbornSeqs : from_elem(d, n, s, oom)
  \/ \E n \in 0 .. MaxItems, s \in UnbornSeqs : from(d, n, s, oom)
  \/ \E n \in 0 .. MaxItems, s \in UnbornSeqs : from_iter_trusted(d, n, s, oom)

Refills(d, oom) ==
  \/ \E n \in 0 .. MaxItems, s \in UnbornSeqs : clone_from(d, n, s, oom)
  \/ \E e \in Unborn : front_mut(d, e)
  \/ \E e \in Unborn : back_mut(d, e)

Extends(d, oom) ==
  \/ \E n \in 0 .. MaxItems, s \in UnbornSeqs : extend_trusted(d, n, s, oom)
  \/ \E s \in UnbornSeqs : extend_copy(d, s, oom)
  \/ \E s \in UnbornSeqs : put(d, s, oom)
  \/ as_slices(d)
  \/ front(d)
  \/ back(d)

\* Every call that does what its documentation says.
ConversionSpec ==
  Init /\ [][\/ SoundNext
             \/ \E d \in DEQS, oom \in BOOLEAN :
                  Makes(d, oom) \/ Refills(d, oom) \/ Extends(d, oom)]_vars
=============================================================================
