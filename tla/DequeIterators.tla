--------------------------- MODULE DequeIterators ---------------------------
(***************************************************************************)
(* The operations of src/lib.rs that hand control to other code while the  *)
(* deque is borrowed: the iterators Drain, Splice and DrainFilter, and the *)
(* loops retain and dedup_by.  A step is one call of next(), of a closure, *)
(* of the replacement iterator or of a destructor, each of which may       *)
(* panic; between the caller's calls the iterator can also be leaked.      *)
(*                                                                         *)
(* it is the iterator, NoIter when no deque is borrowed.  While one is,    *)
(* the bytes outside the deque's slice keep their values, for they hold    *)
(* the elements that the iterator still has; Settle comes at the end.      *)
(* A second panic while the first unwinds aborts the process: there is no  *)
(* such step.                                                              *)
(***************************************************************************)
EXTENDS SliceDeque

VARIABLES
  it,     \* the iterator or loop that borrows a deque
  leaked  \* values that are never dropped: their owner was forgotten

allvars == <<vars, it, leaked>>

NoIter == [kind |-> "none"]

Idle == it = NoIter

\* The borrowed deque, and its new state during and after the borrow.
Q == dq[it.d]

Holds(q) == dq' = [dq EXCEPT ![it.d] = q]

Closes(q) == Becomes(it.d, q) /\ it' = NoIter

\* The step drops s, the deque and what it owns are otherwise as they were.
JustDrops(s) == Own({}, s) /\ UNCHANGED <<dq, ret, leaked>>

DropsNothing == UNCHANGED <<live, ub, ret, leaked>>

\* The call that borrows the deque d returns, to its caller or to its loop.
Borrows(op, d) == Returns(op, <<d>>, "ok") /\ UNCHANGED <<live, ub, leaked>>

\* Live values that no deque holds any more stay behind.
Leaks == leaked' = leaked \cup (live' \ Held')

-----------------------------------------------------------------------------
(* Drain and Splice.  next .. back - 1 are the slots that slice::Iter has  *)
(* left; left is how many values replace_with still yields; pc is where    *)
(* the caller or Drop is.  pre, start, end and ins are history: the        *)
(* contents and the range at the call, and the values inserted since.      *)

Drains == it.kind \in {"drain", "splice"}

\* The deque keeps the elements of the range in its slice.
DrainKeepsRange(d, start, end, kind, n) ==
  /\ Idle /\ start <= end /\ end <= dq[d].len
  /\ dq' = [dq EXCEPT ![d].len = end]
  /\ it' = [kind |-> kind, d |-> d, pc |-> "open", panics |-> FALSE,
            next |-> start, back |-> end, left |-> n, collected |-> <<>>,
            tail_start |-> end, tail_len |-> dq[d].len - end,
            pre |-> Contents(dq[d]), start |-> start, end |-> end, ins |-> <<>>]
  /\ Borrows(kind, d)

\* drain(start .. end), and splice with a replacement of n values.
drain(d, start, end, kind, n) ==
  /\ Idle
  /\ \/ /\ ~(start <= end /\ end <= dq[d].len)
        /\ Stays(kind, <<d>>, "panic") /\ UNCHANGED <<it, leaked>>
     \/ /\ start <= end /\ end <= dq[d].len
        /\ dq' = [dq EXCEPT ![d].len = start]
        /\ it' = [kind |-> kind, d |-> d, pc |-> "open", panics |-> FALSE,
                  next |-> start, back |-> end, left |-> n, collected |-> <<>>,
                  tail_start |-> end, tail_len |-> dq[d].len - end,
                  pre |-> Contents(dq[d]), start |-> start, end |-> end, ins |-> <<>>]
        /\ Borrows(kind, d)

Drain_next ==
  /\ Drains /\ it.pc = "open" /\ it.next < it.back
  /\ it' = [it EXCEPT !.next = @ + 1]
  /\ JustDrops(<<Read(Q, it.next)>>)

\* The slot behind the last one.
NextBackPastEnd ==
  /\ Drains /\ it.pc = "open" /\ it.next < it.back
  /\ it' = [it EXCEPT !.back = @ - 1]
  /\ JustDrops(<<Read(Q, it.back)>>)

Drain_next_back ==
  /\ Drains /\ it.pc = "open" /\ it.next < it.back
  /\ it' = [it EXCEPT !.back = @ - 1]
  /\ JustDrops(<<Read(Q, it.back - 1)>>)

\* The iterator goes out of scope.
drop_iterator ==
  /\ Drains /\ it.pc = "open"
  /\ it' = [it EXCEPT !.pc = "exhaust"]
  /\ UNCHANGED dq /\ DropsNothing

\* The first thing Drop does, for Splice through its drain.  When the
\* destructor of an element panics, Drop for Drain is left, while Splice
\* drops its drain, which goes on.
exhaust(boom) ==
  /\ Drains /\ it.pc = "exhaust" /\ it.next < it.back
  /\ Own({}, <<Read(Q, it.next)>>)
  /\ UNCHANGED ret
  /\ \/ /\ ~boom
        /\ it' = [it EXCEPT !.next = @ + 1]
        /\ UNCHANGED <<dq, leaked>>
     \/ /\ boom /\ ~it.panics /\ it.kind = "drain"
        /\ Closes(Q) /\ Leaks
     \/ /\ boom /\ ~it.panics /\ it.kind = "splice"
        /\ it' = [it EXCEPT !.next = @ + 1, !.kind = "drain", !.panics = TRUE]
        /\ UNCHANGED <<dq, leaked>>

\* The tail is taken from where the range ended.
RestoreFromEnd ==
  /\ it.kind = "drain" /\ it.pc = "exhaust" /\ it.next = it.back
  /\ Closes(IF it.tail_len = 0 THEN Q
            ELSE move_tail_unchecked(Copy(Q, it.end, Q, Q.len, it.tail_len), it.tail_len))
  /\ DropsNothing

\* The end of Drop for Drain: the tail moves to the end of the slice.
restore_tail ==
  /\ it.kind = "drain" /\ it.pc = "exhaust" /\ it.next = it.back
  /\ Closes(IF it.tail_len = 0 THEN Q
            ELSE move_tail_unchecked(Copy(Q, it.tail_start, Q, Q.len, it.tail_len),
                                     it.tail_len))
  /\ DropsNothing

-----------------------------------------------------------------------------
(* Drop for Splice, after its drain is exhausted.                          *)

Fresh == Unborn \ ToSet(it.pre)

\* The Splice is gone, normally or by a panic; its drain is dropped next.
LeavesSplice(panics) ==
  it' = [it EXCEPT !.kind = "drain", !.pc = "exhaust", !.panics = panics]

Splice_start ==
  /\ it.kind = "splice" /\ it.pc = "exhaust" /\ it.next = it.back
  /\ it' = [it EXCEPT !.pc = IF it.tail_len = 0 THEN "extend" ELSE "fill"]
  /\ UNCHANGED dq /\ DropsNothing

\* replace_with.next(), or its size_hint(), panics.
Splice_panic ==
  /\ it.kind = "splice"
  /\ \/ it.pc \in {"extend", "hint", "collect"}
     \/ it.pc \in {"fill", "refill"} /\ Q.len < it.tail_start
  /\ LeavesSplice(TRUE)
  /\ UNCHANGED dq /\ DropsNothing

\* replace_with.next() returns None to extend or to fill.
Splice_none ==
  /\ it.kind = "splice" /\ it.left = 0
  /\ \/ it.pc = "extend"
     \/ it.pc \in {"fill", "refill"} /\ Q.len < it.tail_start
  /\ LeavesSplice(FALSE)
  /\ UNCHANGED dq /\ DropsNothing

\* There is no tail: a turn of extend_desugared.
Splice_extend(e, hint, oom) ==
  LET r == IF is_full(Q) THEN try_reserve(Q, hint + 1, oom) ELSE Ok(Q)
  IN  /\ it.kind = "splice" /\ it.pc = "extend" /\ it.left > 0
      /\ \/ /\ ~r.ok
            /\ LeavesSplice(TRUE)
            /\ UNCHANGED dq /\ DropsNothing
         \/ /\ r.ok
            /\ Holds(PushAll(r.q, <<e>>))
            /\ it' = [it EXCEPT !.left = @ - 1, !.ins = Append(@, e)]
            /\ Own({e}, <<>>) /\ UNCHANGED <<ret, leaked>>

\* fill: replace_with yields e for the next slot in front of the tail.
fill(e) ==
  /\ it.kind = "splice" /\ it.pc \in {"fill", "refill"}
  /\ Q.len < it.tail_start /\ it.left > 0
  /\ Holds(PushAll(Q, <<e>>))
  /\ it' = [it EXCEPT !.left = @ - 1, !.ins = Append(@, e)]
  /\ Own({e}, <<>>) /\ UNCHANGED <<ret, leaked>>

\* fill returns true.
filled ==
  /\ it.kind = "splice" /\ it.pc \in {"fill", "refill"} /\ Q.len = it.tail_start
  /\ it' = [it EXCEPT !.pc = IF it.pc = "fill" THEN "hint" ELSE "collect"]
  /\ UNCHANGED dq /\ DropsNothing

\* The tail is not counted in the capacity that is used.
MoveTailReservesShort(extra, oom) ==
  LET r == reserve_capacity(Q, it.tail_start + extra, oom)
  IN  IF r.ok
      THEN Ok(Copy(r.q, it.tail_start, r.q, it.tail_start + extra, it.tail_len))
      ELSE r

\* Drain::move_tail_unchecked: reserve_capacity knows of the slice only.
MoveTail(extra, oom) ==
  LET r == reserve_capacity(Q, it.tail_start + it.tail_len + extra, oom)
  IN  IF r.ok
      THEN Ok(Copy(r.q, it.tail_start, r.q, it.tail_start + extra, it.tail_len))
      ELSE r

\* The tail moves back by extra slots and the splice goes on at pc, with
\* the collected values s.  "oom" panics, and drops them.
MakeRoom(pc, extra, s, oom) ==
  LET r == MoveTail(extra, oom)
  IN  \/ /\ ~r.ok
         /\ LeavesSplice(TRUE)
         /\ UNCHANGED dq /\ DropsNothing
      \/ /\ r.ok
         /\ Holds(r.q)
         /\ it' = [it EXCEPT !.pc = pc, !.tail_start = @ + extra,
                             !.collected = s, !.left = @ - Len(s)]
         /\ Own(ToSet(s), <<>>) /\ UNCHANGED <<ret, leaked>>

\* lower is the lower bound that size_hint() gives, whether or not it is one:
\* there may be fewer values left.
Splice_hint(lower, oom) ==
  /\ it.kind = "splice" /\ it.pc = "hint"
  /\ \/ /\ lower = 0
        /\ it' = [it EXCEPT !.pc = "collect"]
        /\ UNCHANGED dq /\ DropsNothing
     \/ /\ lower > 0
        /\ MakeRoom("refill", lower, <<>>, oom)

\* The values that are left, s, are collected in a temporary deque.
Splice_collect(s, oom) ==
  /\ it.kind = "splice" /\ it.pc = "collect" /\ Len(s) = it.left
  /\ \/ /\ s = <<>>
        /\ LeavesSplice(FALSE)
        /\ UNCHANGED dq /\ DropsNothing
     \/ /\ s # <<>>
        /\ MakeRoom("last", Len(s), s, oom)

\* They fill the room that was made for exactly them.
Splice_last ==
  /\ it.kind = "splice" /\ it.pc = "last"
  /\ Holds(PushAll(Q, it.collected))
  /\ it' = [it EXCEPT !.kind = "drain", !.pc = "exhaust",
                      !.ins = @ \o it.collected, !.collected = <<>>]
  /\ DropsNothing

-----------------------------------------------------------------------------
(* DrainFilter.  kept is history: the elements the predicate has kept.     *)

\* The element whose turn it is, in the order in which the deque held them.
Tested == it.pre[it.idx + 1]

drain_filter(d) ==
  /\ Idle
  /\ dq' = [dq EXCEPT ![d].len = 0]
  /\ it' = [kind |-> "filter", d |-> d, pc |-> "open", panics |-> FALSE,
            idx |-> 0, del |-> 0, old_len |-> dq[d].len,
            pre |-> Contents(dq[d]), kept |-> <<>>]
  /\ Borrows("drain_filter", d)

\* The caller calls next(), or drops the iterator, which calls it.
Filter_call(pc) ==
  /\ it.kind = "filter" /\ it.pc = "open"
  /\ it' = [it EXCEPT !.pc = pc]
  /\ UNCHANGED dq /\ DropsNothing

\* The predicate is called for the element in slot idx.
Tests == it.kind = "filter" /\ it.pc \in {"next", "drop"} /\ it.idx # it.old_len

\* The element moves one slot too few.
FilterKeepShort ==
  /\ Tests
  /\ Holds(IF it.del > 1 THEN Copy(Q, it.idx, Q, it.idx - it.del + 1, 1) ELSE Q)
  /\ it' = [it EXCEPT !.idx = @ + 1, !.kept = Append(@, Tested)]
  /\ DropsNothing

Filter_keep ==
  /\ Tests
  /\ Holds(IF it.del > 0 THEN Copy(Q, it.idx, Q, it.idx - it.del, 1) ELSE Q)
  /\ it' = [it EXCEPT !.idx = @ + 1, !.kept = Append(@, Tested)]
  /\ DropsNothing

\* next() returns the element to the caller, or to the loop of Drop, which
\* drops it; Drop is left when that destructor panics.
Filter_remove(boom) ==
  /\ Tests
  /\ Own({}, <<Read(Q, it.idx)>>)
  /\ UNCHANGED ret
  /\ \/ /\ ~boom
        /\ it' = [it EXCEPT !.idx = @ + 1, !.del = @ + 1,
                            !.pc  = IF it.pc = "next" THEN "open" ELSE "drop"]
        /\ UNCHANGED <<dq, leaked>>
     \/ /\ boom /\ it.pc = "drop" /\ ~it.panics
        /\ Closes(Q) /\ Leaks

\* The predicate panics.  In the caller's next() the unwinding drops the
\* iterator, which goes on with the next element; Drop is left.
Filter_panic ==
  /\ Tests /\ ~it.panics
  /\ UNCHANGED <<live, ub, ret>>
  /\ \/ /\ it.pc = "next"
        /\ it' = [it EXCEPT !.idx = @ + 1, !.pc = "drop", !.panics = TRUE,
                            !.kept = Append(@, Tested)]
        /\ UNCHANGED <<dq, leaked>>
     \/ /\ it.pc = "drop"
        /\ Closes(Q) /\ Leaks

\* next() returns None; Drop restores the length.
Filter_end ==
  /\ it.kind = "filter" /\ it.idx = it.old_len
  /\ DropsNothing
  /\ \/ /\ it.pc = "next"
        /\ it' = [it EXCEPT !.pc = "open"] /\ UNCHANGED dq
     \/ /\ it.pc = "drop"
        /\ Closes(move_tail_unchecked(Q, it.old_len - it.del))

\* mem::forget of an iterator.
forget ==
  /\ it.kind # "none" /\ it.pc = "open"
  /\ UNCHANGED <<live, ub, ret>>
  /\ Closes(Q) /\ Leaks

-----------------------------------------------------------------------------
(* retain and dedup_by: the elements to keep are swapped to the front, the *)
(* closure sees the one in slot idx, and w elements are kept so far.  The  *)
(* code of retain counts del = idx - w.                                    *)

Sifts(d, first) ==
  /\ Idle
  /\ it' = [kind |-> "sift", d |-> d, pc |-> "loop", idx |-> first, w |-> first,
            pre |-> Contents(dq[d]), kept |-> SubSeq(Contents(dq[d]), 1, first)]
  /\ UNCHANGED dq /\ Borrows("sift", d)

retain(d) == Sifts(d, 0)

dedup_by(d) == dq[d].len > 1 /\ Sifts(d, 1)

Sift_keep ==
  /\ it.kind = "sift" /\ it.idx < Q.len
  /\ Holds(IF it.idx # it.w THEN swap(Q, it.w, it.idx) ELSE Q)
  /\ it' = [it EXCEPT !.idx = @ + 1, !.w = @ + 1, !.kept = Append(@, Tested)]
  /\ DropsNothing

Sift_remove ==
  /\ it.kind = "sift" /\ it.idx < Q.len
  /\ it' = [it EXCEPT !.idx = @ + 1]
  /\ UNCHANGED dq /\ DropsNothing

\* The closure panics: the deque has all its elements.
Sift_panic ==
  /\ it.kind = "sift" /\ it.idx < Q.len
  /\ it' = NoIter
  /\ UNCHANGED dq /\ DropsNothing

Sift_end ==
  /\ it.kind = "sift" /\ it.idx = Q.len
  /\ truncate_back(it.d, it.w)
  /\ it' = NoIter /\ UNCHANGED leaked

-----------------------------------------------------------------------------
(* The specification.                                                      *)

IterInit == Init /\ it = NoIter /\ leaked = {}

\* Calls that bring a deque into any state in which it can be borrowed.
Between(d) ==
  /\ Idle /\ UNCHANGED <<it, leaked>>
  /\ \/ \E n \in Args : assign(d, n, FALSE)
     \/ \E e \in Unborn : push_front(d, e, FALSE)
     \/ \E e \in Unborn : push_back(d, e, FALSE)
     \/ pop_front(d)

Opens(d) ==
  \/ \E i, j \in Args : drain(d, i, j, "drain", 0)
  \/ drain_filter(d)
  \/ retain(d)
  \/ dedup_by(d)

Splices(d, n) == \E i, j \in Args : drain(d, i, j, "splice", n)

\* The caller decides to go on with the iterator.
CallerStep ==
  \/ Drain_next
  \/ Drain_next_back
  \/ drop_iterator
  \/ \E pc \in {"next", "drop"} : Filter_call(pc)
  \/ forget

\* Code of the deque that runs to its end once it has begun, except where a
\* predicate panics.
DropStep ==
  \/ \E boom \in BOOLEAN : exhaust(boom)
  \/ restore_tail
  \/ Splice_start
  \/ Splice_panic
  \/ Splice_none
  \/ Drains /\ \E e \in Fresh, hint \in Args, oom \in BOOLEAN :
                  Splice_extend(e, hint, oom)
  \/ Drains /\ \E e \in Fresh : fill(e)
  \/ filled
  \/ Splice_last
  \/ Filter_keep
  \/ \E boom \in BOOLEAN : Filter_remove(boom)
  \/ Filter_end
  \/ Sift_keep
  \/ Sift_remove
  \/ Sift_panic
  \/ Sift_end

\* The rest of Drop for Splice: the steps that make room in front of the tail.
TailStep ==
  \/ \E lower \in Args, oom \in BOOLEAN : Splice_hint(lower, oom)
  \/ Drains /\ \E s \in UnbornSeqs, oom \in BOOLEAN :
                  ToSet(s) \subseteq Fresh /\ Splice_collect(s, oom)

IterNext == \E d \in DEQS :
  \/ Between(d)
  \/ Opens(d)
  \/ \E n \in 0 .. MaxItems : Splices(d, n)
  \/ CallerStep
  \/ DropStep
  \/ TailStep
  \/ Filter_panic

\* All calls of SliceDeque, and all of this module.
FullNext == IterNext \/ (Idle /\ Next /\ UNCHANGED <<it, leaked>>)

FullSpec == IterInit /\ [][FullNext]_allvars

\* The buffer that the tail is in has room for where it is moved to.
TailStays == it'.tail_start + it'.tail_len <= capacity(Q)

\* IterNext without what the findings are about: moving the tail of a splice to
\* a new buffer, and a predicate that panics in next() after a deletion.  A
\* size_hint() above what is left is not excluded, nor is an allocation for the
\* tail that fails.
SoundIterNext == \E d \in DEQS :
  \/ Between(d)
  \/ Opens(d)
  \/ \E n \in 0 .. MaxItems : Splices(d, n)
  \/ CallerStep
  \/ DropStep
  \/ TailStep /\ TailStays
  \/ (it.kind = "filter" /\ it.pc = "next" => it.del = 0) /\ Filter_panic

SpliceSpec == IterInit /\ [][SoundIterNext \/ TailStep]_allvars

FilterSpec == IterInit /\ [][SoundIterNext \/ Filter_panic]_allvars

-----------------------------------------------------------------------------
(* Properties.                                                             *)

\* Whatever iterator is open, its positions are inside the buffer: the tail
\* that Drain moves and the slots that DrainFilter reads lie within the
\* capacity, also after move_tail_unchecked has allocated a new buffer, and
\* the slice never reaches into the tail.
IteratorInBuffer ==
  /\ InMappedMemory
  /\ Drains => /\ it.tail_start + it.tail_len <= capacity(Q)
               /\ it.tail_len > 0 => Q.len <= it.tail_start
  /\ it.kind = "filter" => it.old_len <= capacity(Q) /\ it.del <= it.idx
  /\ it.kind = "sift" => it.w <= it.idx /\ it.idx <= Q.len

\* At every moment, so also when the iterator's destructor never runs, the
\* deque's slice holds only live values, none of them twice and none that
\* was given away: the comment in drain, "no uninitalized or moved-from
\* elements are accessible at all if the Drain's destructor never gets to run".
LeakSafe == NEEDS_DROP =>
  /\ Held \subseteq live \ leaked
  /\ \A c, d \in DEQS : \A i \in 0 .. dq[c].len - 1, j \in 0 .. dq[d].len - 1 :
       Read(dq[c], i) = Read(dq[d], j) => c = d /\ i = j

\* A Drain or Splice that was dropped leaves the deque with the elements in
\* front of the range, the values that replaced it, in order, and all the
\* elements behind it, however many were taken from either end, whether the
\* size_hint() of the replacement was too low, exact or too high.
DrainRestores ==
  [][restore_tail =>
       Contents(dq'[it.d]) = SubSeq(it.pre, 1, it.start) \o it.ins
                             \o SubSeq(it.pre, it.end + 1, Len(it.pre))]_allvars

\* drain_filter, retain and dedup_by leave the elements that the closure
\* kept, in their order; when the closure of retain or dedup_by panics, the
\* deque has all the elements it had, in some order.
FilterKeeps ==
  [][/\ (Filter_end /\ it' = NoIter) \/ Sift_end => Contents(dq'[it.d]) = it.kept
     /\ Sift_panic => /\ Len(Contents(dq'[it.d])) = Len(it.pre)
                      /\ ToSet(Contents(dq'[it.d])) = ToSet(it.pre)]_allvars
=============================================================================
