------------------------------- MODULE Deque -------------------------------
(***************************************************************************)
(* What SliceDeque promises its users: each deque is a sequence of values  *)
(* that is one contiguous slice, every call does to the sequence what its  *)
(* documentation says, a call that fails leaves every deque as it was, and *)
(* a call only allocates, and so can only fail for lack of memory, when    *)
(* the capacity it needs is more than the deque has.                       *)
(*                                                                         *)
(* ret is the last call: its name, its arguments and what it returned.  A  *)
(* step is the call that ret' names.                                       *)
(***************************************************************************)
EXTENDS Integers, SequencesExt

CONSTANTS DEQS, Elem, None

VARIABLES
  elems,  \* the contents of each deque
  cap,    \* its capacity()
  ret

vars == <<elems, cap, ret>>

Init ==
  /\ elems = [d \in DEQS |-> <<>>]
  /\ cap   = [d \in DEQS |-> 0]
  /\ ret   = [op |-> "new", arg |-> <<>>, val |-> "ok"]

-----------------------------------------------------------------------------
Returns(v) == ret'.val = v

Stays(v) == Returns(v) /\ UNCHANGED <<elems, cap>>

Holds(d, s) == elems' = [elems EXCEPT ![d] = s]

KeepsCapacity == cap' = cap

\* Room for n more elements without an allocation.
HasRoom(d, n) == Len(elems[d]) + n <= cap[d]

OnlyCapacityOf(d) == \A o \in DEQS \ {d} : cap'[o] = cap[o]

\* Reserving amortizes: a capacity that grows at least doubles.
MakesRoom(d, n) ==
  IF HasRoom(d, n)
  THEN KeepsCapacity
  ELSE /\ OnlyCapacityOf(d)
       /\ cap'[d] >= Len(elems[d]) + n
       /\ cap'[d] >= 2 * cap[d]

OutOfMemory(d, n) == ~HasRoom(d, n) /\ Stays("oom")

\* d becomes s, which has n more elements.
Grows(d, n, s) == MakesRoom(d, n) /\ Holds(d, s) /\ Returns("ok")

\* d becomes s, which has fewer elements; the call returns v.
Shrinks(d, s, v) == KeepsCapacity /\ Holds(d, s) /\ Returns(v)

-----------------------------------------------------------------------------
with_capacity(d, n) ==
  \/ n > 0 /\ Stays("oom")
  \/ Holds(d, <<>>) /\ OnlyCapacityOf(d) /\ cap'[d] >= n /\ Returns("ok")

reserve(d, n) == OutOfMemory(d, n) \/ Grows(d, n, elems[d])

reserve_exact(d, n) ==
  \/ OutOfMemory(d, n)
  \/ HasRoom(d, n) /\ Stays("ok")
  \/ /\ ~HasRoom(d, n)
     /\ OnlyCapacityOf(d) /\ cap'[d] >= Len(elems[d]) + n
     /\ UNCHANGED elems /\ Returns("ok")

shrink_to_fit(d) ==
  \/ elems[d] # <<>> /\ Stays("oom")
  \/ /\ OnlyCapacityOf(d) /\ cap'[d] \in Len(elems[d]) .. cap[d]
     /\ UNCHANGED elems /\ Returns("ok")

push_front(d, e) == OutOfMemory(d, 1) \/ Grows(d, 1, <<e>> \o elems[d])

push_back(d, e) == OutOfMemory(d, 1) \/ Grows(d, 1, Append(elems[d], e))

pop_front(d) ==
  IF elems[d] = <<>> THEN Stays(None)
                     ELSE Shrinks(d, Tail(elems[d]), Head(elems[d]))

pop_back(d) ==
  IF elems[d] = <<>> THEN Stays(None)
                     ELSE Shrinks(d, Front(elems[d]), Last(elems[d]))

\* A destructor may panic: the elements are gone all the same.
Drops(d, s) == \E v \in {"ok", "panic"} : Shrinks(d, s, v)

truncate_back(d, n) ==
  IF n >= Len(elems[d]) THEN Stays("ok")
                        ELSE Drops(d, SubSeq(elems[d], 1, n))

truncate_front(d, n) ==
  LET l == Len(elems[d])
  IN  IF n >= l THEN Stays("ok")
                ELSE Drops(d, SubSeq(elems[d], l - n + 1, l))

\* The removed element is replaced by the last, or by the first, one.
swap_remove_back(d, i) ==
  LET s == elems[d]
  IN  IF s = <<>> THEN Stays(None)
      ELSE IF i >= Len(s) THEN Stays("panic")
      ELSE Shrinks(d, Front([s EXCEPT ![i + 1] = Last(s)]), s[i + 1])

swap_remove_front(d, i) ==
  LET s == elems[d]
  IN  IF s = <<>> THEN Stays(None)
      ELSE IF i >= Len(s) THEN Stays("panic")
      ELSE Shrinks(d, Tail([s EXCEPT ![i + 1] = Head(s)]), s[i + 1])

insert(d, i, e) ==
  IF i > Len(elems[d])
  THEN Stays("panic")
  ELSE OutOfMemory(d, 1) \/ Grows(d, 1, InsertAt(elems[d], i + 1, e))

remove(d, i) ==
  IF i >= Len(elems[d])
  THEN Stays("panic")
  ELSE Shrinks(d, RemoveAt(elems[d], i + 1), elems[d][i + 1])

\* The first element that is equal to the item.
remove_item(d, equal) ==
  IF equal = {}
  THEN Stays(None)
  ELSE \E i \in equal : (\A j \in equal : i <= j) /\ remove(d, i)

extend(d, e, hint) == OutOfMemory(d, hint + 1) \/ Grows(d, 1, Append(elems[d], e))

from_iter(d, e, hint) ==
  /\ elems[d] = <<>>
  /\ \/ Stays("oom")
     \/ /\ Holds(d, <<e>>) /\ Returns("ok")
        /\ OnlyCapacityOf(d) /\ cap'[d] > hint

\* clone() or default() may panic after any number of values.
resize(d, n, s) ==
  \/ OutOfMemory(d, n - Len(elems[d]))
  \/ /\ MakesRoom(d, n - Len(elems[d]))
     /\ Holds(d, elems[d] \o s)
     /\ Len(elems[d]) + Len(s) <= n
     /\ Returns(IF Len(elems[d]) + Len(s) = n THEN "ok" ELSE "panic")

extend_from_slice(d, n, s) ==
  \/ OutOfMemory(d, n)
  \/ /\ MakesRoom(d, n)
     /\ Holds(d, elems[d] \o s)
     /\ Len(s) <= n
     /\ Returns(IF Len(s) = n THEN "ok" ELSE "panic")

move_tail(d, s) ==
  IF HasRoom(d, Len(s)) THEN Grows(d, Len(s), elems[d] \o s) ELSE Stays("panic")

append(d, o) ==
  \/ OutOfMemory(d, Len(elems[o]))
  \/ /\ MakesRoom(d, Len(elems[o]))
     /\ elems' = [elems EXCEPT ![d] = @ \o elems[o], ![o] = <<>>]
     /\ Returns("ok")

split_off(d, o, at) ==
  LET s == elems[d]
  IN  IF at > Len(s)
      THEN Stays("panic")
      ELSE \/ at < Len(s) /\ Stays("oom")
           \/ /\ elems' = [elems EXCEPT ![d] = SubSeq(s, 1, at),
                                       ![o] = SubSeq(s, at + 1, Len(s))]
              /\ OnlyCapacityOf(o) /\ cap'[o] >= Len(s) - at
              /\ Returns("ok")

clone(d, o, s) ==
  \/ elems[d] # <<>> /\ Stays("oom")
  \/ Len(s) < Len(elems[d]) /\ Stays("panic")
  \/ /\ Len(s) = Len(elems[d])
     /\ Holds(o, s) /\ OnlyCapacityOf(o) /\ cap'[o] >= Len(s)
     /\ Returns("ok")

\* n values, or nothing when one of them cannot be made.
from(d, n, s) ==
  \/ n > 0 /\ Stays("oom")
  \/ n > 0 /\ Stays("panic")
  \/ Len(s) = n /\ Holds(d, s) /\ OnlyCapacityOf(d) /\ cap'[d] >= n /\ Returns("ok")

\* A call that fails leaves the clones made so far; the capacity is kept as
\* long as it is enough for them.
clone_from(d, n, s) ==
  /\ Len(s) <= n
  /\ Holds(d, s)
  /\ IF Len(s) <= cap[d] THEN KeepsCapacity
     ELSE OnlyCapacityOf(d) /\ cap'[d] >= Len(s)
  /\ \/ Len(s) = n /\ Returns("ok")
     \/ Len(s) < n /\ Returns("panic")
     \/ Len(s) < n /\ Len(s) = cap'[d] /\ Returns("oom")

\* A part of s, so that the caller who comes back with the rest makes
\* progress; a deque that has room is not reallocated.
put(d, s) ==
  \/ ~HasRoom(d, 1) /\ Stays("oom")
  \/ /\ \E n \in 1 .. Len(s) : Holds(d, elems[d] \o SubSeq(s, 1, n))
     /\ IF HasRoom(d, 1) THEN KeepsCapacity ELSE OnlyCapacityOf(d) /\ cap'[d] > cap[d]
     /\ Returns("ok")

front(d) == Stays(IF elems[d] = <<>> THEN None ELSE Head(elems[d]))

back(d) == Stays(IF elems[d] = <<>> THEN None ELSE Last(elems[d]))

\* Unwrapping None panics.
Assigned(d, i, e) ==
  IF elems[d] = <<>> THEN Stays("panic")
                     ELSE Shrinks(d, [elems[d] EXCEPT ![i] = e], "ok")

front_mut(d, e) == Assigned(d, 1, e)

back_mut(d, e) == Assigned(d, Len(elems[d]), e)

-----------------------------------------------------------------------------
Next == LET op == ret'.op
            a  == ret'.arg
        IN
  \/ op = "with_capacity"     /\ with_capacity(a[1], a[2])
  \/ op = "reserve"           /\ reserve(a[1], a[2])
  \/ op = "reserve_exact"     /\ reserve_exact(a[1], a[2])
  \/ op = "shrink_to_fit"     /\ shrink_to_fit(a[1])
  \/ op = "push_front"        /\ push_front(a[1], a[2])
  \/ op = "push_back"         /\ push_back(a[1], a[2])
  \/ op = "pop_front"         /\ pop_front(a[1])
  \/ op = "pop_back"          /\ pop_back(a[1])
  \/ op = "truncate_back"     /\ truncate_back(a[1], a[2])
  \/ op = "truncate_front"    /\ truncate_front(a[1], a[2])
  \/ op = "swap_remove_back"  /\ swap_remove_back(a[1], a[2])
  \/ op = "swap_remove_front" /\ swap_remove_front(a[1], a[2])
  \/ op = "insert"            /\ insert(a[1], a[2], a[3])
  \/ op = "remove"            /\ remove(a[1], a[2])
  \/ op = "remove_item"       /\ remove_item(a[1], a[2])
  \/ op = "extend"            /\ extend(a[1], a[2], a[3])
  \/ op = "from_iter"         /\ from_iter(a[1], a[2], a[3])
  \/ op = "resize"            /\ resize(a[1], a[2], a[3])
  \/ op = "extend_from_slice" /\ extend_from_slice(a[1], a[2], a[3])
  \/ op = "move_tail"         /\ move_tail(a[1], a[2])
  \/ op = "append"            /\ append(a[1], a[2])
  \/ op = "split_off"         /\ split_off(a[1], a[2], a[3])
  \/ op = "clone"             /\ clone(a[1], a[2], a[3])
  \/ op = "from"              /\ from(a[1], a[2], a[3])
  \/ op = "clone_from"        /\ clone_from(a[1], a[2], a[3])
  \/ op = "put"               /\ put(a[1], a[2])
  \/ op = "as_slices"         /\ Stays(<<elems[a[1]], <<>>>>)
  \/ op = "front"             /\ front(a[1])
  \/ op = "back"              /\ back(a[1])
  \/ op = "front_mut"         /\ front_mut(a[1], a[2])
  \/ op = "back_mut"          /\ back_mut(a[1], a[2])

Spec == Init /\ [][Next]_vars
=============================================================================
