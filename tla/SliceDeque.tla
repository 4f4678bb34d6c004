----------------------------- MODULE SliceDeque -----------------------------
(***************************************************************************)
(* SliceDeque<T> of src/lib.rs over its mirrored buffer, for a T that is   *)
(* not zero-sized: the operations that run to their end once called.  The  *)
(* variable dq holds one deque per program variable in DEQS.               *)
(*                                                                         *)
(* A call is one step.  Its last effect on memory is Settle: bytes outside *)
(* the slice elems_ hold nothing a later call may rely on.  Every          *)
(* allocation may fail (oom), and fails above MaxAlloc bytes.              *)
(*                                                                         *)
(* The values of T have an identity.  When T has a destructor (NEEDS_DROP) *)
(* live is the set of values that were constructed and not yet dropped,    *)
(* and ub records that memory holding no live value was dropped: a double  *)
(* drop, or the drop of uninitialized memory.  A value that a call returns *)
(* is dropped by the caller at once.                                       *)
(***************************************************************************)
EXTENDS MirroredBuffer, SequencesExt

CONSTANTS
  DEQS,        \* the deques of the program
  NEEDS_DROP,  \* mem::needs_drop::<T>()
  None,        \* Option::None
  MaxAlloc,    \* bound: the largest alloc_size that can be allocated
  MaxItems,    \* bound: the values passed in one call
  MaxArg       \* bound: the numbers passed in a call

ASSUME DropAssumption  == NEEDS_DROP \in BOOLEAN
ASSUME BoundAssumption == MaxAlloc \in Nat /\ MaxItems \in Nat /\ MaxArg \in Nat

VARIABLES dq, live, ub, ret

vars == <<dq, live, ub, ret>>

-----------------------------------------------------------------------------
(* Capacity, and the moves of the slice inside the buffer.                 *)

\* An odd length is rounded up.
CapacityRoundsUp(q) == (q.blen + 1) \div 2

capacity(q) == q.blen \div 2

is_full(q) == q.len = capacity(q)

\* The shift of a wrapped head is taken in elements, not in bytes.
WrapByCapacity(q, x) ==
  LET begin == q.head + x * SIZE
      size  == capacity(q) * SIZE
  IN  [q EXCEPT !.head = IF begin < 0 THEN begin + size
                         ELSE IF begin >= size THEN begin - size ELSE begin,
                !.len  = q.len - x]

\* The regions are taken to end where the buffer's elements do.
WrapByElements(q, x) ==
  LET begin  == q.head + x * SIZE
      region == (q.blen * SIZE) \div 2
  IN  [q EXCEPT !.head = IF begin < 0 THEN begin + region
                         ELSE IF begin >= region THEN begin - region ELSE begin,
                !.len  = q.len - x]

\* A head that leaves the first region at its begin is not shifted.
WrapOnlyAbove(q, x) ==
  LET begin  == q.head + x * SIZE
      region == size_in_bytes(q.blen) \div 2
  IN  [q EXCEPT !.head = IF begin >= region THEN begin - region ELSE begin,
                !.len  = q.len - x]

\* A head that leaves the first region at its end is not shifted.
WrapOnlyBelow(q, x) ==
  LET begin == q.head + x * SIZE
  IN  [q EXCEPT !.head = IF begin < 0 THEN begin + (size_in_bytes(q.blen) \div 2)
                                      ELSE begin,
                !.len  = q.len - x]

move_head_unchecked(q, x) ==
  LET begin  == q.head + x * SIZE
      region == size_in_bytes(q.blen) \div 2
  IN  [q EXCEPT !.head = IF begin < 0 THEN begin + region
                         ELSE IF begin >= region THEN begin - region ELSE begin,
                !.len  = q.len - x]

move_tail_unchecked(q, x) == [q EXCEPT !.len = q.len + x]

\* drop_in_place of n slots of q, from slot i, in the memory of p: T's
\* destructor may write to the values it destroys.
drop_in_place(p, q, i, n) ==
  [p EXCEPT !.mem =
    [a \in DOMAIN p.mem |->
      IF (a - (q.head + i * SIZE)) % q.half < n * SIZE THEN Junk ELSE p.mem[a]]]

\* <[T]>::swap
swap(q, i, j) == Copy(q, i, Copy(q, j, q, i, 1), j, 1)

-----------------------------------------------------------------------------
(* Allocation and growth.                                                  *)

\* elems_ is the first n slots of the buffer b.
OnBuffer(b, n) ==
  [blen |-> b.blen, half |-> b.half, mem |-> b.mem, head |-> 0, len |-> n]

new == OnBuffer(NewBuffer, 0)

with_capacity(n) == OnBuffer(uninitialized(2 * n), 0)

\* allocate_mirrored succeeds for a Buffer::uninitialized(len).
Allocates(len, oom) == len = 0 \/ (~oom /\ size_in_bytes(len) <= MaxAlloc)

\* Growing to what is needed and no more.
GrowExactly(q, additional) == q.len + additional

grow_policy(q, additional) ==
  LET req_cap == q.len + additional
      dbl_cap == capacity(q) * 2
  IN  IF req_cap > capacity(q)
      THEN IF req_cap > dbl_cap THEN req_cap ELSE dbl_cap
      ELSE req_cap

Ok(q)  == [ok |-> TRUE,  q |-> q]
Err(q) == [ok |-> FALSE, q |-> q]

reserve_capacity(q, new_capacity, oom) ==
  IF new_capacity <= capacity(q) THEN Ok(q)
  ELSE IF ~Allocates(2 * new_capacity, oom) THEN Err(q)
  ELSE Ok(Copy(q, 0, OnBuffer(uninitialized(2 * new_capacity), q.len), 0, q.len))

try_reserve(q, additional, oom) ==
  reserve_capacity(q, grow_policy(q, additional), oom)

\* The room for one more element that a full deque makes.
RoomForOne(q, oom) == IF is_full(q) THEN try_reserve(q, 1, oom) ELSE Ok(q)

-----------------------------------------------------------------------------
(* Ownership, and how a call ends.                                         *)

Held == UNION {ToSet(Contents(dq[d])) : d \in DEQS}

\* The values a caller may construct: by their identity they are distinct
\* from every value that exists.
Unborn == Elem \ (live \cup Held)

UnbornSeqs == {s \in SeqOf(Unborn, MaxItems) : IsInjective(s)}

\* The call constructs the values of created and runs the destructors of
\* the slots whose contents are the sequence dropped.
Own(created, dropped) ==
  IF NEEDS_DROP
  THEN /\ live' = (live \cup created) \ ToSet(dropped)
       /\ ub'   = (ub \/ ~IsInjective(dropped)
                      \/ ~(ToSet(dropped) \subseteq live \cup created))
  ELSE UNCHANGED <<live, ub>>

\* op is the call, arg the deques, positions and values it was given, and v
\* what it returned: a value, None, Junk when the value it returned is one
\* no bytes of T encode, "ok", or how it failed ("oom", "panic").
Returns(op, arg, v) == ret' = [op |-> op, arg |-> arg, val |-> v]

Becomes(d, q) == dq' = [dq EXCEPT ![d] = Settle(q)]

BothBecome(d, q, o, p) == dq' = [dq EXCEPT ![d] = Settle(q), ![o] = Settle(p)]

\* The call ends with every deque as it was: there was nothing to do, or it
\* panicked or returned Err, and the values that were passed in or cloned
\* during the call are dropped with its frame.
Stays(op, arg, v) == Returns(op, arg, v) /\ UNCHANGED <<dq, live, ub>>

-----------------------------------------------------------------------------
(* Construction, capacity and destruction.                                 *)

\* d = SliceDeque::with_capacity(n); the old deque is dropped.
assign(d, n, oom) ==
  \/ /\ ~Allocates(2 * n, oom)
     /\ Stays("with_capacity", <<d, n>>, "oom")
  \/ /\ Allocates(2 * n, oom)
     /\ Becomes(d, with_capacity(n))
     /\ Own({}, Contents(dq[d]))
     /\ Returns("with_capacity", <<d, n>>, "ok")

\* reserve and try_reserve
reserve(d, additional, oom) ==
  LET r == try_reserve(dq[d], additional, oom)
  IN  \/ /\ ~r.ok
         /\ Stays("reserve", <<d, additional>>, "oom")
      \/ /\ r.ok
         /\ Becomes(d, r.q)
         /\ Own({}, <<>>)
         /\ Returns("reserve", <<d, additional>>, "ok")

reserve_exact(d, additional, oom) ==
  LET r == reserve_capacity(dq[d], dq[d].len + additional, oom)
  IN  \/ /\ ~r.ok
         /\ Stays("reserve_exact", <<d, additional>>, "oom")
      \/ /\ r.ok
         /\ Becomes(d, r.q)
         /\ Own({}, <<>>)
         /\ Returns("reserve_exact", <<d, additional>>, "ok")

\* The deque that held the elements, swapped into new_sdeq, is dropped at
\* the end of the call with its slice still in place.
shrink_to_fit(d, oom) ==
  LET q        == dq[d]
      new_sdeq == with_capacity(q.len)
  IN  \/ /\ q.len > 0
         /\ ~Allocates(2 * q.len, oom)
         /\ Stays("shrink_to_fit", <<d>>, "oom")
      \/ /\ q.len > 0 => Allocates(2 * q.len, oom) /\ capacity(new_sdeq) >= capacity(q)
         /\ Stays("shrink_to_fit", <<d>>, "ok")
      \/ /\ q.len > 0 /\ Allocates(2 * q.len, oom) /\ capacity(new_sdeq) < capacity(q)
         /\ Becomes(d, Copy(q, 0, move_tail_unchecked(new_sdeq, q.len), 0, q.len))
         /\ Own({}, Contents(q))
         /\ Returns("shrink_to_fit", <<d>>, "ok")

-----------------------------------------------------------------------------
(* One element at an end.                                                  *)

\* push_front and try_push_front
push_front(d, value, oom) ==
  LET r == RoomForOne(dq[d], oom)
  IN  \/ /\ ~r.ok
         /\ Stays("push_front", <<d, value>>, "oom")
      \/ /\ r.ok
         /\ Becomes(d, Write(move_head_unchecked(r.q, -1), 0, <<value>>))
         /\ Own({value}, <<>>)
         /\ Returns("push_front", <<d, value>>, "ok")

\* push_back and try_push_back
push_back(d, value, oom) ==
  LET r == RoomForOne(dq[d], oom)
  IN  \/ /\ ~r.ok
         /\ Stays("push_back", <<d, value>>, "oom")
      \/ /\ r.ok
         /\ Becomes(d, Write(move_tail_unchecked(r.q, 1), r.q.len, <<value>>))
         /\ Own({value}, <<>>)
         /\ Returns("push_back", <<d, value>>, "ok")

pop_front(d) ==
  LET q == dq[d]
      v == Read(q, 0)
  IN  \/ /\ q.len = 0
         /\ Stays("pop_front", <<d>>, None)
      \/ /\ q.len > 0
         /\ Becomes(d, move_head_unchecked(q, 1))
         /\ Own({}, <<v>>)
         /\ Returns("pop_front", <<d>>, v)

pop_back(d) ==
  LET q == dq[d]
      v == Read(q, q.len - 1)
  IN  \/ /\ q.len = 0
         /\ Stays("pop_back", <<d>>, None)
      \/ /\ q.len > 0
         /\ Becomes(d, move_tail_unchecked(q, -1))
         /\ Own({}, <<v>>)
         /\ Returns("pop_back", <<d>>, v)

-----------------------------------------------------------------------------
(* Truncation: the slice shrinks before the destructors run.               *)

\* How drop_in_place of a slice ends: when one destructor panics the others
\* run all the same, and the panic goes on to the caller.
DropEnds == IF NEEDS_DROP THEN {"ok", "panic"} ELSE {"ok"}

\* The destructors run before the slice shrinks, so that a panic leaves it.
DropsBeforeShrinking(d, len) ==
  LET q    == dq[d]
      diff == q.len - len
  IN  /\ len < q.len
      /\ Own({}, Reads(q, len, diff))
      /\ \E v \in DropEnds :
           /\ Becomes(d, IF v = "ok" THEN move_tail_unchecked(q, -diff) ELSE q)
           /\ Returns("truncate_back", <<d, len>>, v)

\* truncate_back and truncate; clear is truncate(0).
truncate_back(d, len) ==
  LET q    == dq[d]
      diff == q.len - len
  IN  \/ /\ len >= q.len
         /\ Stays("truncate_back", <<d, len>>, "ok")
      \/ /\ len < q.len
         /\ Becomes(d, drop_in_place(move_tail_unchecked(q, -diff), q, len, diff))
         /\ Own({}, Reads(q, len, diff))
         /\ \E v \in DropEnds : Returns("truncate_back", <<d, len>>, v)

truncate_front(d, len) ==
  LET q    == dq[d]
      diff == q.len - len
  IN  \/ /\ len >= q.len
         /\ Stays("truncate_front", <<d, len>>, "ok")
      \/ /\ len < q.len
         /\ Becomes(d, drop_in_place(move_head_unchecked(q, diff), q, 0, diff))
         /\ Own({}, Reads(q, 0, diff))
         /\ \E v \in DropEnds : Returns("truncate_front", <<d, len>>, v)

-----------------------------------------------------------------------------
(* One element at an index.                                                *)

swap_remove_back(d, index) ==
  LET q == dq[d]
      p == swap(q, index, q.len - 1)
      v == Read(p, q.len - 1)
  IN  \/ /\ q.len = 0
         /\ Stays("swap_remove_back", <<d, index>>, None)
      \/ /\ q.len > 0 /\ index >= q.len
         /\ Stays("swap_remove_back", <<d, index>>, "panic")
      \/ /\ index < q.len
         /\ Becomes(d, move_tail_unchecked(p, -1))
         /\ Own({}, <<v>>)
         /\ Returns("swap_remove_back", <<d, index>>, v)

swap_remove_front(d, index) ==
  LET q == dq[d]
      p == swap(q, index, 0)
      v == Read(p, 0)
  IN  \/ /\ q.len = 0
         /\ Stays("swap_remove_front", <<d, index>>, None)
      \/ /\ q.len > 0 /\ index >= q.len
         /\ Stays("swap_remove_front", <<d, index>>, "panic")
      \/ /\ index < q.len
         /\ Becomes(d, move_head_unchecked(p, 1))
         /\ Own({}, <<v>>)
         /\ Returns("swap_remove_front", <<d, index>>, v)

\* Shifting the shorter side: towards the back, or towards the front after
\* the head has moved by one.
MakeHole(q, index) ==
  IF index > q.len \div 2
  THEN move_tail_unchecked(Copy(q, index, q, index + 1, q.len - index), 1)
  ELSE LET p == move_head_unchecked(q, -1)
       IN  Copy(p, index, p, index - 1, index)

insert(d, index, element, oom) ==
  LET r == RoomForOne(dq[d], oom)
  IN  \/ /\ index > dq[d].len
         /\ Stays("insert", <<d, index, element>>, "panic")
      \/ /\ index <= dq[d].len /\ ~r.ok
         /\ Stays("insert", <<d, index, element>>, "oom")
      \/ /\ index <= dq[d].len /\ r.ok
         /\ Becomes(d, Write(MakeHole(r.q, index), index, <<element>>))
         /\ Own({element}, <<>>)
         /\ Returns("insert", <<d, index, element>>, "ok")

CloseHole(q, index) ==
  IF index > q.len \div 2
  THEN move_tail_unchecked(Copy(q, index + 1, q, index, q.len - index - 1), -1)
  ELSE move_head_unchecked(Copy(q, 0, q, 1, index), 1)

remove(d, index) ==
  LET q == dq[d]
      v == Read(q, index)
  IN  \/ /\ index >= q.len
         /\ Stays("remove", <<d, index>>, "panic")
      \/ /\ index < q.len
         /\ Becomes(d, CloseHole(q, index))
         /\ Own({}, <<v>>)
         /\ Returns("remove", <<d, index>>, v)

\* equal is the set of positions whose element T's == finds equal to item.
remove_item(d, equal) ==
  \/ /\ equal = {}
     /\ Stays("remove_item", <<d, equal>>, None)
  \/ \E pos \in equal :
       /\ \A p \in equal : pos <= p
       /\ Becomes(d, CloseHole(dq[d], pos))
       /\ Own({}, <<Read(dq[d], pos)>>)
       /\ Returns("remove_item", <<d, equal>>, Read(dq[d], pos))

-----------------------------------------------------------------------------
(* Several elements at the back.                                           *)

\* The values of s are written behind the slice, one by one, and the tail
\* moves with each of them.
PushAll(q, s) == Write(move_tail_unchecked(q, Len(s)), q.len, s)

\* The tail moves first and the values are assigned to the slots.
AssignAll(q, n, s) == Write(move_tail_unchecked(q, n), q.len, s)

\* One turn of the loop of extend_desugared: the iterator yields element,
\* and then hint is what its size_hint() says is left.
extend_desugared(d, element, hint, oom) ==
  LET q == dq[d]
      r == IF q.len = capacity(q) THEN try_reserve(q, hint + 1, oom) ELSE Ok(q)
  IN  \/ /\ ~r.ok
         /\ Stays("extend", <<d, element, hint>>, "oom")
      \/ /\ r.ok
         /\ Becomes(d, PushAll(r.q, <<element>>))
         /\ Own({element}, <<>>)
         /\ Returns("extend", <<d, element, hint>>, "ok")

\* The first turn of from_iter_default, into a deque that is new; the turns
\* that follow are extend_desugared.
from_iter_default(d, element, hint, oom) ==
  /\ dq[d] = new
  /\ \/ /\ ~Allocates(2 * (hint + 1), oom)
        /\ Stays("from_iter", <<d, element, hint>>, "oom")
     \/ /\ Allocates(2 * (hint + 1), oom)
        /\ Becomes(d, PushAll(with_capacity(hint + 1), <<element>>))
        /\ Own({element}, <<>>)
        /\ Returns("from_iter", <<d, element, hint>>, "ok")

\* resize (by clones) and resize_default (by extend_with) to a larger
\* new_len: s is the values made before clone() or default() panics, all of
\* them if neither does.
resize(d, new_len, s, oom) ==
  LET q == dq[d]
      n == new_len - q.len
      r == try_reserve(q, n, oom)
  IN  \/ /\ n <= 0 /\ s = <<>>
         /\ truncate_back(d, new_len)
      \/ /\ n > 0 /\ ~r.ok /\ s = <<>>
         /\ Stays("resize", <<d, new_len, s>>, "oom")
      \/ /\ n > 0 /\ r.ok /\ Len(s) <= n
         /\ Becomes(d, PushAll(r.q, s))
         /\ Own(ToSet(s), <<>>)
         /\ Returns("resize", <<d, new_len, s>>, IF Len(s) = n THEN "ok" ELSE "panic")

\* other has n elements; s is their clones, fewer than n if clone() panics.
\* clone_from_slice assigns: what a slot held before is dropped.
extend_from_slice(d, n, s, oom) ==
  LET q == dq[d]
      r == try_reserve(q, n, oom)
  IN  \/ /\ ~r.ok /\ s = <<>>
         /\ Stays("extend_from_slice", <<d, n, s>>, "oom")
      \/ /\ r.ok /\ Len(s) <= n
         /\ Becomes(d, AssignAll(r.q, n, s))
         /\ Own(ToSet(s), Reads(r.q, q.len, Len(s)))
         /\ Returns("extend_from_slice", <<d, n, s>>, IF Len(s) = n THEN "ok" ELSE "panic")

\* The caller initializes the first Len(s) slots of tail_head_slice() and
\* then calls move_tail(Len(s)).
move_tail(d, s) ==
  LET q == dq[d]
  IN  \/ /\ Len(s) > capacity(q) - q.len
         /\ Stays("move_tail", <<d, s>>, "panic")
      \/ /\ Len(s) <= capacity(q) - q.len
         /\ Becomes(d, move_tail_unchecked(Write(q, q.len, s), Len(s)))
         /\ Own(ToSet(s), <<>>)
         /\ Returns("move_tail", <<d, s>>, "ok")

-----------------------------------------------------------------------------
(* Two deques.                                                             *)

append_elements(q, other, oom) ==
  LET r == try_reserve(q, other.len, oom)
  IN  IF r.ok
      THEN Ok(move_tail_unchecked(Copy(other, 0, r.q, r.q.len, other.len), other.len))
      ELSE r

\* The other deque keeps its elements.
AppendKeepsOther(d, other, oom) ==
  LET r == append_elements(dq[d], dq[other], oom)
  IN  /\ r.ok
      /\ Becomes(d, r.q)
      /\ Own({}, <<>>)
      /\ Returns("append", <<d, other>>, "ok")

append(d, other, oom) ==
  LET r == append_elements(dq[d], dq[other], oom)
  IN  \/ /\ ~r.ok
         /\ Stays("append", <<d, other>>, "oom")
      \/ /\ r.ok
         /\ BothBecome(d, r.q, other, [dq[other] EXCEPT !.head = 0, !.len = 0])
         /\ Own({}, <<>>)
         /\ Returns("append", <<d, other>>, "ok")

\* other = d.split_off(at); the deque that other held is dropped.
split_off(d, other, at, oom) ==
  LET q         == dq[d]
      other_len == q.len - at
      o         == move_tail_unchecked(with_capacity(other_len), other_len)
  IN  \/ /\ at > q.len
         /\ Stays("split_off", <<d, other, at>>, "panic")
      \/ /\ at <= q.len /\ ~Allocates(2 * other_len, oom)
         /\ Stays("split_off", <<d, other, at>>, "oom")
      \/ /\ at <= q.len /\ Allocates(2 * other_len, oom)
         /\ BothBecome(d, move_tail_unchecked(q, -other_len),
                       other, Copy(q, at, o, 0, other_len))
         /\ Own({}, Contents(dq[other]))
         /\ Returns("split_off", <<d, other, at>>, "ok")

\* other = d.clone(); the deque that other held is dropped.  s is the clones,
\* fewer than d's elements if clone() panics.
clone(d, other, s, oom) ==
  LET q == dq[d]
  IN  \/ /\ ~Allocates(2 * q.len, oom) /\ s = <<>>
         /\ Stays("clone", <<d, other, s>>, "oom")
      \/ /\ Allocates(2 * q.len, oom) /\ Len(s) < q.len
         /\ Stays("clone", <<d, other, s>>, "panic")
      \/ /\ Allocates(2 * q.len, oom) /\ Len(s) = q.len
         /\ Becomes(other, PushAll(with_capacity(q.len), s))
         /\ Own(ToSet(s), Contents(dq[other]))
         /\ Returns("clone", <<d, other, s>>, "ok")

-----------------------------------------------------------------------------
(* The specification.                                                      *)

Init ==
  /\ dq   = [d \in DEQS |-> new]
  /\ live = {}
  /\ ub   = FALSE
  /\ ret  = [op |-> "new", arg |-> <<>>, val |-> "ok"]

Args == 0 .. MaxArg

\* The calls in which the source does what its documentation says.
CommonNext(d, oom) ==
  \/ \E n \in Args : assign(d, n, oom)
  \/ \E n \in Args : reserve(d, n, oom)
  \/ \E n \in Args : reserve_exact(d, n, oom)
  \/ \E e \in Unborn : push_front(d, e, oom)
  \/ \E e \in Unborn : push_back(d, e, oom)
  \/ pop_front(d)
  \/ pop_back(d)
  \/ \E n \in Args : truncate_back(d, n)
  \/ \E n \in Args : truncate_front(d, n)
  \/ \E n \in Args : swap_remove_back(d, n)
  \/ \E n \in Args : swap_remove_front(d, n)
  \/ \E n \in Args : remove(d, n)
  \/ \E equal \in SUBSET (0 .. dq[d].len - 1) : remove_item(d, equal)
  \/ \E e \in Unborn, n \in Args : extend_desugared(d, e, n, oom)
  \/ \E e \in Unborn, n \in Args : from_iter_default(d, e, n, oom)
  \/ \E n \in Args, s \in UnbornSeqs : resize(d, n, s, oom)
  \/ \E s \in UnbornSeqs : move_tail(d, s)
  \/ \E o \in DEQS \ {d} : append(d, o, oom)
  \/ \E o \in DEQS \ {d}, n \in Args : split_off(d, o, n, oom)
  \/ \E o \in DEQS \ {d}, s \in UnbornSeqs : clone(d, o, s, oom)

Inserts(d, oom) == \E n \in Args, e \in Unborn : insert(d, n, e, oom)

ExtendsFromSlice(d, oom) ==
  \E n \in 0 .. MaxItems, s \in UnbornSeqs : extend_from_slice(d, n, s, oom)

Next == \E d \in DEQS, oom \in BOOLEAN :
  \/ CommonNext(d, oom)
  \/ Inserts(d, oom)
  \/ ExtendsFromSlice(d, oom)
  \/ shrink_to_fit(d, oom)

Spec == Init /\ [][Next]_vars

\* Next without the calls that the findings are about: an insert that shifts
\* two or more elements to the front, an extend_from_slice that drops or
\* exposes uninitialized slots, a shrink_to_fit that drops the elements.
SoundNext == \E d \in DEQS, oom \in BOOLEAN :
  \/ CommonNext(d, oom)
  \/ \E n \in Args, e \in Unborn :
       (n < 2 \/ n > dq[d].len \div 2) /\ insert(d, n, e, oom)
  \/ \E n \in 0 .. MaxItems, s \in UnbornSeqs :
       /\ Len(s) = n /\ (NEEDS_DROP => n = 0)
       /\ extend_from_slice(d, n, s, oom)
  \/ /\ NEEDS_DROP /\ dq[d].len > 0 => capacity(with_capacity(dq[d].len)) >= capacity(dq[d])
     /\ shrink_to_fit(d, oom)

SoundSpec == Init /\ [][SoundNext]_vars

InsertSpec == Init /\ [][SoundNext \/ \E d \in DEQS : Inserts(d, FALSE)]_vars

ShrinkSpec == Init /\ [][SoundNext \/ \E d \in DEQS : shrink_to_fit(d, FALSE)]_vars

-----------------------------------------------------------------------------
(* Properties.                                                             *)

\* A Buffer and the slice elems_.
IsDeque(q) ==
  /\ q = [blen |-> q.blen, half |-> q.half, mem |-> q.mem,
          head |-> q.head, len |-> q.len]
  /\ q.blen \in Nat /\ q.half \in Nat /\ q.head \in Nat /\ q.len \in Nat
  /\ q.mem \in [0 .. q.half - 1 -> Byte]

\* The state has the types of the source: every deque has a buffer whose
\* memory is all mapped, and a slice.
TypeOK ==
  /\ DOMAIN dq = DEQS
  /\ \A d \in DEQS : IsDeque(dq[d])
  /\ live \subseteq Elem
  /\ ub \in BOOLEAN

\* The slice lies inside the two mapped regions together with all its spare
\* capacity, wherever head is: the head is always in the first region, and a
\* slice that starts there ends before the second region does.  This is what
\* the debug_asserts of move_head_unchecked and tail_head_slice rely on.
InMappedMemory == \A d \in DEQS :
  LET q == dq[d]
  IN  /\ q.len <= capacity(q)
      /\ q.blen = 0 => q.head = 0
      /\ q.blen > 0 => q.head < q.half
      /\ q.head + capacity(q) * SIZE <= 2 * q.half

\* No two of the capacity() slots share a byte of physical memory, although
\* every byte is mapped twice: writing to spare capacity cannot overwrite an
\* element through the mirror.
NoAliasing == \A d \in DEQS :
  \A i, j \in 0 .. capacity(dq[d]) - 1 :
    i # j => SlotBytes(dq[d], i) \cap SlotBytes(dq[d], j) = {}

\* The size that is computed from a length when a buffer is freed is the
\* size that was allocated: by Drop for Buffer from len, and by Drop for
\* IntoIter from twice the capacity, which is less than len when len is odd.
FreedAsAllocated == \A d \in DEQS :
  LET q == dq[d]
  IN  q.blen > 0 => /\ size_in_bytes(q.blen) = 2 * q.half
                    /\ size_in_bytes(2 * capacity(q)) = 2 * q.half

\* However often head has wrapped around the end of the region, elems_ points
\* to memory that is aligned for T.
Aligned == \A d \in DEQS : dq[d].head % ALIGN = 0

\* No call drops a value twice, or drops memory that holds no value.
NoInvalidDrop == ~ub

\* Every live value is an element of exactly one deque, exactly once, and
\* every element is a live value: nothing leaks, nothing dangles.
OwnedOnce == NEEDS_DROP =>
  /\ live = Held
  /\ \A c, d \in DEQS : \A i \in 0 .. dq[c].len - 1, j \in 0 .. dq[d].len - 1 :
       Read(dq[c], i) = Read(dq[d], j) => c = d /\ i = j

\* Each deque is the sequence its documentation promises, and every call
\* returns what that sequence says (the module Deque).
Abstract == INSTANCE Deque WITH
  elems <- [d \in DEQS |-> Contents(dq[d])],
  cap   <- [d \in DEQS |-> capacity(dq[d])]

ImplementsDeque == Abstract!Spec
=============================================================================
