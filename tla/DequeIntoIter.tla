---------------------------- MODULE DequeIntoIter ----------------------------
(***************************************************************************)
(* IntoIter of src/lib.rs, the iterator that takes a deque's buffer over   *)
(* and gives its elements away from both ends.  An IntoIter keeps raw      *)
(* pointers and the capacity: head is the byte offset of ptr from buf,     *)
(* len the number of elements up to end.  ptr is not wrapped, it may run   *)
(* into the second region.                                                 *)
(***************************************************************************)
EXTENDS DequeConversions

CONSTANT ITERS  \* the iterators of the program

VARIABLE iters

intovars == <<vars, iters>>

\* The iterator is not in use.
Gone == [blen |-> 0, half |-> 0, mem |-> [a \in {} |-> Junk], head |-> 0,
         len |-> 0, cap |-> 0, used |-> FALSE]

\* The iterator remembers twice the capacity, as Buffer does.
TakeLength(q) ==
  [blen |-> q.blen, half |-> q.half, mem |-> q.mem, head |-> q.head,
   len |-> q.len, cap |-> q.blen, used |-> TRUE]

\* The IntoIter of a deque, which is forgotten.
Take(q) ==
  [blen |-> q.blen, half |-> q.half, mem |-> q.mem, head |-> q.head,
   len |-> q.len, cap |-> capacity(q), used |-> TRUE]

\* IntoIter::as_slice: the elements that are left.
as_slice(t) == Contents(t)

\* i = d.into_iter(); a new deque takes the place of d.
into_iter(d, i) ==
  /\ ~iters[i].used
  /\ iters' = [iters EXCEPT ![i] = Take(dq[d])]
  /\ Becomes(d, new)
  /\ Own({}, <<>>)
  /\ Returns("into_iter", <<d, i>>, "ok")

next(i) ==
  LET t == iters[i]
      v == Read(t, 0)
  IN  /\ t.used
      /\ UNCHANGED dq
      /\ \/ /\ t.len = 0
            /\ Returns("next", <<i>>, None) /\ UNCHANGED <<live, ub, iters>>
         \/ /\ t.len > 0
            /\ iters' = [iters EXCEPT ![i] = Settle([t EXCEPT !.head = @ + SIZE, !.len = @ - 1])]
            /\ Own({}, <<v>>) /\ Returns("next", <<i>>, v)

\* The end pointer is read before it moves.
NextBackReadsEnd(i) ==
  LET t == iters[i]
      v == Read(t, t.len)
  IN  /\ t.used /\ t.len > 0
      /\ UNCHANGED dq
      /\ iters' = [iters EXCEPT ![i] = Settle([t EXCEPT !.len = @ - 1])]
      /\ Own({}, <<v>>) /\ Returns("next_back", <<i>>, v)

next_back(i) ==
  LET t == iters[i]
      v == Read(t, t.len - 1)
  IN  /\ t.used
      /\ UNCHANGED dq
      /\ \/ /\ t.len = 0
            /\ Returns("next_back", <<i>>, None) /\ UNCHANGED <<live, ub, iters>>
         \/ /\ t.len > 0
            /\ iters' = [iters EXCEPT ![i] = Settle([t EXCEPT !.len = @ - 1])]
            /\ Own({}, <<v>>) /\ Returns("next_back", <<i>>, v)

\* j = i.clone(): the bytes of the elements are copied to a deque of their
\* own, whose iterator is returned.
clone_iter(i, j, oom) ==
  LET t == iters[i]
      q == append_elements(with_capacity(t.len), t, oom).q
  IN  /\ t.used /\ ~iters[j].used
      /\ UNCHANGED dq
      /\ \/ /\ ~Allocates(2 * t.len, oom)
            /\ Returns("clone", <<i, j>>, "oom") /\ UNCHANGED <<live, ub, iters>>
         \/ /\ Allocates(2 * t.len, oom)
            /\ iters' = [iters EXCEPT ![j] = Take(Settle(q))]
            /\ Own({}, <<>>) /\ Returns("clone", <<i, j>>, "ok")

\* Drop only frees the buffer.
DropFrees(i) ==
  /\ iters[i].used
  /\ iters' = [iters EXCEPT ![i] = Gone]
  /\ Own({}, <<>>)
  /\ Returns("drop", <<i>>, "ok") /\ UNCHANGED dq

\* Drop for IntoIter: the elements that are left, then the buffer.
drop(i) ==
  /\ iters[i].used
  /\ iters' = [iters EXCEPT ![i] = Gone]
  /\ Own({}, as_slice(iters[i]))
  /\ Returns("drop", <<i>>, "ok") /\ UNCHANGED dq

-----------------------------------------------------------------------------
(* The specializations of FromIterator and Extend for an IntoIter, behind  *)
(* the feature "unstable".  The iterator is gone after the call.           *)

\* The capacity is taken for the buffer's length.
RawPartsCapacity(t) ==
  [blen |-> t.cap, half |-> t.half, mem |-> t.mem, head |-> t.head, len |-> t.len]

\* SliceDeque::from_raw_parts(buf, cap, elems()) of an iterator: the deque's
\* buffer may be one element shorter than the one it was made from.
from_raw_parts(t) ==
  [blen |-> 2 * t.cap, half |-> t.half, mem |-> t.mem, head |-> t.head, len |-> t.len]

\* The elements move behind those of q, or the call panics and its frame
\* drops them with the iterator; dropped is what d loses when it returns.
TakesOver(op, d, i, q, dropped, oom) ==
  LET t == iters[i]
      r == append_elements(q, t, oom)
  IN  \/ /\ ~r.ok
         /\ Own({}, as_slice(t)) /\ Returns(op, <<d, i>>, "oom") /\ UNCHANGED dq
      \/ /\ r.ok
         /\ Becomes(d, r.q)
         /\ Own({}, dropped) /\ Returns(op, <<d, i>>, "ok")

\* d = i.collect(): an iterator whose first element is where the buffer
\* begins gives its buffer back.
collect(d, i, oom) ==
  LET t == iters[i]
  IN  /\ t.used
      /\ iters' = [iters EXCEPT ![i] = Gone]
      /\ \/ /\ t.head = 0
            /\ Becomes(d, from_raw_parts(t))
            /\ Own({}, Contents(dq[d])) /\ Returns("collect", <<d, i>>, "ok")
         \/ /\ t.head # 0
            /\ TakesOver("collect", d, i, new, Contents(dq[d]), oom)

\* d.extend(i)
spec_extend(d, i, oom) ==
  /\ iters[i].used
  /\ iters' = [iters EXCEPT ![i] = Gone]
  /\ TakesOver("spec_extend", d, i, dq[d], <<>>, oom)

-----------------------------------------------------------------------------
IntoInit == Init /\ iters = [i \in ITERS |-> Gone]

HeldByIters == UNION {ToSet(as_slice(iters[i])) : i \in ITERS}

\* Calls that bring a deque into any state before it is iterated over.
Builds(d) ==
  /\ UNCHANGED iters
  /\ \/ \E n \in Args : assign(d, n, FALSE)
     \/ \E e \in Unborn \ HeldByIters : push_front(d, e, FALSE)
     \/ \E e \in Unborn \ HeldByIters : push_back(d, e, FALSE)
     \/ pop_front(d)

Consumes ==
  \/ \E d \in DEQS, i \in ITERS : into_iter(d, i)
  \/ \E i \in ITERS : next(i)
  \/ \E i \in ITERS : next_back(i)
  \/ \E i \in ITERS : drop(i)

Collects == \E d \in DEQS, i \in ITERS, oom \in BOOLEAN :
  collect(d, i, oom) \/ spec_extend(d, i, oom)

\* IntoIter::clone, which a finding is about when T has a destructor.
Clones == \E i, j \in ITERS, oom \in BOOLEAN : clone_iter(i, j, oom)

IntoSpec == IntoInit /\ [][(\E d \in DEQS : Builds(d)) \/ Consumes \/ Collects \/ Clones]_intovars

-----------------------------------------------------------------------------
\* The pointers stay inside the two regions although they are never wrapped,
\* wherever the deque's head was, and the size that Drop computes from twice
\* the capacity is the size that was allocated.
IntoIterInBuffer == \A i \in ITERS :
  LET t == iters[i]
  IN  /\ t.head + t.len * SIZE <= 2 * t.half
      /\ t.blen > 0 => size_in_bytes(2 * t.cap) = 2 * t.half

\* next and next_back give the elements in the deque's order: what is left
\* is what was there without its first, or its last, element.  What is left
\* is what collect makes a deque of, whether or not it takes the buffer over,
\* and what extend adds to one.
YieldsInOrder ==
  [][\A i \in ITERS : iters'[i] # iters[i] =>
       LET s == as_slice(iters[i])
           t == as_slice(iters'[i])
       IN  /\ next(i) => ret'.val = Head(s) /\ t = Tail(s)
           /\ next_back(i) => ret'.val = Last(s) /\ t = Front(s)
           /\ \A d \in DEQS, oom \in BOOLEAN :
                /\ collect(d, i, oom) /\ ret'.val = "ok" => Contents(dq'[d]) = s
                /\ spec_extend(d, i, oom) /\ ret'.val = "ok" =>
                     Contents(dq'[d]) = Contents(dq[d]) \o s]_intovars
=============================================================================
