--------------------------- MODULE IteratorProofs ---------------------------
(***************************************************************************)
(* Proofs about the iterators Drain, Splice and DrainFilter and the loops  *)
(* retain and dedup_by, for every page size and T, whatever their closures,*)
(* destructors and replacements do, where they panic and when they are     *)
(* leaked: they stay inside the buffer of the deque they borrow (IterInv), *)
(* they find there the elements that were there at the call (BorrowInv),   *)
(* and every value has one owner meanwhile: a deque, the iterator, or      *)
(* nobody because it was leaked (Kept).                                    *)
(***************************************************************************)
EXTENDS DequeIterators, OwnershipProofs

-----------------------------------------------------------------------------
(* The inductive invariant.                                                *)

DrainFields == {"kind", "d", "pc", "panics", "next", "back", "left", "collected",
                "tail_start", "tail_len", "pre", "start", "end", "ins"}

\* The tail is inside the buffer and the slice in front of it, as soon as there
\* is a tail or the room in front of it is being filled; the room that is made
\* for the collected values is enough for them.
DrainOK ==
  /\ DOMAIN it = DrainFields /\ it.kind \in {"drain", "splice"} /\ it.d \in DEQS
  /\ it.left \in Nat /\ it.tail_start \in Nat /\ it.tail_len \in Nat
  /\ it.collected \in Seq(Elem)
  /\ it.tail_start + it.tail_len <= capacity(Q)
  /\ it.tail_len > 0 \/ it.pc \in {"fill", "refill", "hint", "collect"} => Q.len <= it.tail_start
  /\ it.pc = "extend" => it.tail_len = 0
  /\ it.pc = "last" => Q.len + Len(it.collected) <= it.tail_start

FilterFields == {"kind", "d", "pc", "panics", "idx", "del", "old_len", "pre", "kept"}

FilterOK ==
  /\ DOMAIN it = FilterFields /\ it.kind = "filter" /\ it.d \in DEQS
  /\ it.idx \in Nat /\ it.del \in Nat /\ it.old_len \in Nat
  /\ it.del <= it.idx /\ it.idx <= it.old_len /\ it.old_len <= capacity(Q)
  /\ Q.len = 0

SiftFields == {"kind", "d", "pc", "idx", "w", "pre", "kept"}

SiftOK ==
  /\ DOMAIN it = SiftFields /\ it.kind = "sift" /\ it.d \in DEQS /\ it.pc = "loop"
  /\ it.idx \in Nat /\ it.w \in Nat /\ it.w <= it.idx /\ it.idx <= Q.len

IterInv == Inv /\ (Idle \/ DrainOK \/ FilterOK \/ SiftOK)

-----------------------------------------------------------------------------
(* How a step changes the deque that is borrowed.                          *)

\* A step that leaves the deques alone, whatever it drops.
LEMMA SameInv ==
  ASSUME Inv, UNCHANGED dq,
         UNCHANGED <<live, ub>> \/ \E s : Own({}, s)
  PROVE  Inv'
  BY OwnInv, {} \subseteq Elem DEF Inv

\* A step that leaves a well formed deque behind, and the iterator in place.
LEMMA HoldsInv ==
  ASSUME Inv, it.d \in DEQS, NEW q, WF(q), Holds(q),
         UNCHANGED <<live, ub>> \/ \E c \in SUBSET Elem : \E s : Own(c, s)
  PROVE  Inv' /\ dq'[it.d] = q
<1>1. DOMAIN dq' = DEQS /\ dq'[it.d] = q /\ \A c \in DEQS : WF(dq'[c])
  BY DEF Inv, Holds
<1>2. live' \subseteq Elem /\ ub' \in BOOLEAN
  BY OwnInv DEF Inv
<1> QED
  BY <1>1, <1>2 DEF Inv

\* A step that ends the borrow.
LEMMA ClosesInv ==
  ASSUME Inv, it.d \in DEQS, NEW q, WF(q), Closes(q),
         UNCHANGED <<live, ub>> \/ \E s : Own({}, s)
  PROVE  Inv' /\ Idle'
<1>1. WF(Settle(q))
  BY SettleWF
<1>2. DOMAIN dq' = DEQS /\ \A c \in DEQS : WF(dq'[c])
  BY <1>1 DEF Inv, Closes, Becomes
<1>3. live' \subseteq Elem /\ ub' \in BOOLEAN
  BY OwnInv, {} \subseteq Elem DEF Inv
<1> QED
  BY <1>2, <1>3 DEF Inv, Closes, Idle

\* The borrow begins: the slice is cut to its first n elements.
LEMMA CutInv ==
  ASSUME Inv, NEW d \in DEQS, NEW n \in Nat, n <= dq[d].len,
         dq' = [dq EXCEPT ![d].len = n], UNCHANGED <<live, ub>>
  PROVE  Inv' /\ dq'[d].len = n /\ capacity(dq'[d]) = capacity(dq[d])
<1> DEFINE q == dq[d]
           x == n - q.len
<1>1. WF(q) /\ q.len \in Nat /\ capacity(q) \in Nat /\ q.len <= capacity(q)
  BY Basics DEF Inv
<1>2. x \in Int /\ q.len + x = n /\ q.len + x \in 0 .. capacity(q)
  BY <1>1
<1> HIDE DEF x
<1>3. /\ WF(move_tail_unchecked(q, x)) /\ move_tail_unchecked(q, x).len = n
      /\ capacity(move_tail_unchecked(q, x)) = capacity(q)
  BY <1>1, <1>2, MoveTailWF
<1>4. move_tail_unchecked(q, x) = [q EXCEPT !.len = n]
  BY <1>2 DEF move_tail_unchecked
<1>5. DOMAIN dq' = DEQS /\ dq'[d] = [q EXCEPT !.len = n] /\ \A c \in DEQS \ {d} : dq'[c] = dq[c]
  BY DEF Inv
<1> QED
  BY <1>3, <1>4, <1>5 DEF Inv

-----------------------------------------------------------------------------
(* The actions.                                                            *)

\* A call that borrows a deque.
LEMMA OpensInv ==
  ASSUME IterInv, NEW d \in DEQS,
         \/ \E i, j \in Args, kind \in {"drain", "splice"}, n \in Nat : drain(d, i, j, kind, n)
         \/ drain_filter(d) \/ retain(d) \/ dedup_by(d)
  PROVE  IterInv'
<1>1. Inv /\ WF(dq[d]) /\ Args \subseteq Nat
  BY BoundAssumption DEF IterInv, Inv, Args
<1>2. dq[d].len \in Nat /\ capacity(dq[d]) \in Nat /\ dq[d].len <= capacity(dq[d])
  BY <1>1, Basics
<1>3. ASSUME NEW i \in Args, NEW j \in Args, NEW kind \in {"drain", "splice"}, NEW n \in Nat,
             drain(d, i, j, kind, n)
      PROVE  IterInv'
  <2>1. CASE Stays(kind, <<d>>, "panic") /\ UNCHANGED <<it, leaked>>
    BY <1>1, <1>3, <2>1, StaysInv DEF IterInv, drain, Idle
  <2>2. CASE i <= j /\ j <= dq[d].len /\ dq' = [dq EXCEPT ![d].len = i]
    <3>1. i \in Nat /\ j \in Nat /\ i <= dq[d].len
      BY <1>1, <1>2, <2>2
    <3>2. UNCHANGED <<live, ub>>
      BY <1>3, <2>2 DEF drain, Borrows, Stays
    <3>3. Inv' /\ dq'[d].len = i /\ capacity(dq'[d]) = capacity(dq[d])
      BY <1>1, <2>2, <3>1, <3>2, CutInv
    <3>4. it' = [kind |-> kind, d |-> d, pc |-> "open", panics |-> FALSE,
                 next |-> i, back |-> j, left |-> n, collected |-> <<>>,
                 tail_start |-> j, tail_len |-> dq[d].len - j,
                 pre |-> Contents(dq[d]), start |-> i, end |-> j, ins |-> <<>>]
      BY <1>3, <2>2 DEF drain
    <3>5. DrainOK'
      BY <1>2, <2>2, <3>1, <3>3, <3>4 DEF DrainOK, DrainFields, Q
    <3> QED
      BY <3>3, <3>5 DEF IterInv
  <2> QED
    BY <1>3, <2>1, <2>2 DEF drain
<1>4. CASE drain_filter(d)
  <2>1. Inv' /\ dq'[d].len = 0 /\ capacity(dq'[d]) = capacity(dq[d])
    <3>1. dq' = [dq EXCEPT ![d].len = 0] /\ UNCHANGED <<live, ub>>
      BY <1>4 DEF drain_filter, Borrows
    <3>2. 0 \in Nat /\ 0 <= dq[d].len
      BY <1>2
    <3> QED
      BY <1>1, <3>1, <3>2, CutInv
  <2>2. it' = [kind |-> "filter", d |-> d, pc |-> "open", panics |-> FALSE,
               idx |-> 0, del |-> 0, old_len |-> dq[d].len,
               pre |-> Contents(dq[d]), kept |-> <<>>]
    BY <1>4 DEF drain_filter
  <2>3. FilterOK'
    BY <1>2, <2>1, <2>2 DEF FilterOK, FilterFields, Q
  <2> QED
    BY <2>1, <2>3 DEF IterInv
<1>5. ASSUME NEW first \in Nat, first <= dq[d].len, Sifts(d, first)
      PROVE  IterInv'
  <2>1. Inv'
    BY <1>1, <1>5, SameInv DEF Sifts, Borrows
  <2>2. /\ it' = [kind |-> "sift", d |-> d, pc |-> "loop", idx |-> first, w |-> first,
                  pre |-> Contents(dq[d]), kept |-> SubSeq(Contents(dq[d]), 1, first)]
        /\ dq' = dq
    BY <1>5 DEF Sifts
  <2>3. SiftOK'
    BY <1>2, <1>5, <2>2 DEF SiftOK, SiftFields, Q
  <2> QED
    BY <2>1, <2>3 DEF IterInv
<1>6. CASE retain(d)
  BY <1>2, <1>5, <1>6, 0 \in Nat DEF retain
<1>7. CASE dedup_by(d)
  BY <1>2, <1>5, <1>7, 1 \in Nat DEF dedup_by
<1> QED
  BY <1>3, <1>4, <1>6, <1>7

\* What a step of Drain or Splice finds.
LEMMA Draining ==
  ASSUME IterInv, Drains
  PROVE  Inv /\ DrainOK /\ WF(Q) /\ Q.len \in Nat /\ capacity(Q) \in Nat /\ Q.len <= capacity(Q)
<1>1. Inv /\ DrainOK
  BY DEF IterInv, Drains, Idle, NoIter, FilterOK, SiftOK
<1>2. WF(Q)
  BY <1>1 DEF Inv, DrainOK, Q
<1> QED
  BY <1>1, <1>2, Basics

\* Steps of Drain and Splice that move the iterator but not the tail.
LEMMA DrainMovesInv ==
  ASSUME IterInv,
         \/ Drain_next \/ Drain_next_back \/ drop_iterator
         \/ Splice_start \/ Splice_panic \/ Splice_none \/ filled
  PROVE  IterInv'
<1>1. Drains
  BY DEF Drains, Drain_next, Drain_next_back, drop_iterator, Splice_start, Splice_panic,
     Splice_none, filled
<1>2. Inv /\ DrainOK /\ Q.len \in Nat
  BY <1>1, Draining
<1>3. dq' = dq /\ Inv'
  BY <1>2, SameInv DEF Drain_next, Drain_next_back, drop_iterator, Splice_start, Splice_panic,
     Splice_none, filled, JustDrops, DropsNothing
<1>4. /\ DOMAIN it' = DrainFields /\ it'.kind \in {"drain", "splice"} /\ it'.d = it.d
      /\ it'.left = it.left /\ it'.tail_start = it.tail_start /\ it'.tail_len = it.tail_len
      /\ it'.collected = it.collected
  <2>1. CASE Drain_next \/ Drain_next_back \/ drop_iterator
    BY <1>2, <2>1 DEF DrainOK, DrainFields, Drain_next, Drain_next_back, drop_iterator
  <2>2. CASE Splice_start \/ filled
    BY <1>2, <2>2 DEF DrainOK, DrainFields, Splice_start, filled
  <2>3. CASE Splice_panic \/ Splice_none
    BY <1>2, <2>3, ZenonT(30) DEF DrainOK, DrainFields, Splice_panic, Splice_none, LeavesSplice
  <2> QED
    BY <2>1, <2>2, <2>3
<1>5. /\ it'.pc \in {"fill", "refill", "hint", "collect"} => Q.len <= it.tail_start
      /\ it'.pc = "extend" => it.tail_len = 0
      /\ it'.pc # "last"
  <2>1. CASE Drain_next \/ Drain_next_back \/ drop_iterator
    BY <1>2, <2>1 DEF DrainOK, DrainFields, Drain_next, Drain_next_back, drop_iterator
  <2>2. CASE Splice_start \/ filled
    BY <1>2, <2>2 DEF DrainOK, DrainFields, Splice_start, filled
  <2>3. CASE Splice_panic \/ Splice_none
    BY <1>2, <2>3 DEF DrainOK, DrainFields, Splice_panic, Splice_none, LeavesSplice
  <2> QED
    BY <2>1, <2>2, <2>3
<1>6. DrainOK'
  BY <1>2, <1>3, <1>4, <1>5 DEF DrainOK, DrainFields, Q
<1> QED
  BY <1>3, <1>6 DEF IterInv

\* Drop for Drain and for Splice takes an element, and may be left by the panic
\* of its destructor.
LEMMA ExhaustInv ==
  ASSUME IterInv, NEW boom, exhaust(boom)
  PROVE  IterInv'
<1>1. Inv /\ DrainOK /\ WF(Q) /\ it.pc = "exhaust"
  BY Draining DEF exhaust
<1>2. CASE Closes(Q)
  BY <1>1, <1>2, ClosesInv DEF exhaust, DrainOK, IterInv
<1>3. CASE UNCHANGED dq
  <2>1. Inv'
    BY <1>1, <1>3, SameInv DEF exhaust
  <2>2. CASE it' = [it EXCEPT !.next = @ + 1]
    BY <1>1, <1>3, <2>1, <2>2 DEF DrainOK, DrainFields, Q, IterInv
  <2>3. CASE it' = [it EXCEPT !.next = @ + 1, !.kind = "drain", !.panics = TRUE]
    <3>1. /\ DOMAIN it' = DrainFields /\ it'.kind = "drain" /\ it'.d = it.d /\ it'.pc = it.pc
          /\ it'.left = it.left /\ it'.tail_start = it.tail_start /\ it'.tail_len = it.tail_len
          /\ it'.collected = it.collected
      BY <1>1, <2>3 DEF DrainOK, DrainFields
    <3> QED
      BY <1>1, <1>3, <2>1, <3>1 DEF DrainOK, Q, IterInv
  <2> QED
    BY <1>3, <2>1, <2>2, <2>3 DEF exhaust, Closes, Idle, IterInv
<1> QED
  BY <1>2, <1>3 DEF exhaust

\* The tail moves to the end of the slice: there is room for it.
LEMMA RestoreInv ==
  ASSUME IterInv, restore_tail
  PROVE  IterInv'
<1>1. /\ Inv /\ DrainOK /\ WF(Q) /\ Q.len \in Nat /\ capacity(Q) \in Nat /\ Q.len <= capacity(Q)
  BY Draining DEF restore_tail, Drains
<1> DEFINE c == Copy(Q, it.tail_start, Q, Q.len, it.tail_len)
           p == IF it.tail_len = 0 THEN Q ELSE move_tail_unchecked(c, it.tail_len)
<1>2. WF(p)
  <2>1. CASE it.tail_len = 0
    BY <1>1, <2>1
  <2>2. CASE it.tail_len # 0
    <3>1. /\ it.tail_start \in Int /\ it.tail_len \in Int /\ Q.len \in Int
          /\ Q.blen > 0 /\ Q.len + it.tail_len \in 0 .. capacity(Q)
      BY <1>1, <2>2, Basics DEF DrainOK
    <3>2. WF(c) /\ c.len = Q.len /\ capacity(c) = capacity(Q)
      BY <1>1, <3>1, CopyWF
    <3> HIDE DEF c
    <3>3. WF(move_tail_unchecked(c, it.tail_len))
      BY <3>1, <3>2, MoveTailWF
    <3> QED
      BY <2>2, <3>3
  <2> QED
    BY <2>1, <2>2
<1>3. Closes(p) /\ UNCHANGED <<live, ub>>
  BY DEF restore_tail, DropsNothing
<1> HIDE DEF p
<1> QED
  BY <1>1, <1>2, <1>3, ClosesInv DEF DrainOK, IterInv

\* A value of replace_with is written behind the slice: there is room for it in
\* front of the tail, or there is no tail and the deque grows.
LEMMA SpliceWritesInv ==
  ASSUME IterInv, NEW e \in Elem,
         fill(e) \/ \E hint \in Nat, oom \in BOOLEAN : Splice_extend(e, hint, oom)
  PROVE  IterInv'
<1>1. Drains
  BY DEF Drains, fill, Splice_extend
<1>2. /\ Inv /\ DrainOK /\ WF(Q) /\ Q.len \in Nat /\ capacity(Q) \in Nat /\ Q.len <= capacity(Q)
      /\ it.d \in DEQS
  BY <1>1, Draining DEF DrainOK
<1>3. ASSUME NEW q, WF(q), q.len = Q.len, capacity(q) >= capacity(Q), q.len + 1 <= capacity(q),
             it.tail_len > 0 \/ it.pc \in {"fill", "refill"} => q.len + 1 <= it.tail_start,
             it.pc \in {"fill", "refill", "extend"}, it.left > 0,
             Holds(PushAll(q, <<e>>)), Own({e}, <<>>),
             it' = [it EXCEPT !.left = @ - 1, !.ins = Append(@, e)]
      PROVE  IterInv'
  <2>1. /\ WF(PushAll(q, <<e>>)) /\ PushAll(q, <<e>>).len = Q.len + 1
        /\ capacity(PushAll(q, <<e>>)) = capacity(q) /\ capacity(q) \in Nat
    BY <1>3, One, PushAllWF, Basics
  <2>2. Inv' /\ dq'[it.d] = PushAll(q, <<e>>)
    BY <1>2, <1>3, <2>1, One, HoldsInv
  <2>3. /\ DOMAIN it' = DrainFields /\ it'.kind = it.kind /\ it'.d = it.d /\ it'.pc = it.pc
        /\ it'.left = it.left - 1 /\ it'.tail_start = it.tail_start /\ it'.tail_len = it.tail_len
        /\ it'.collected = it.collected
    BY <1>2, <1>3 DEF DrainOK, DrainFields
  <2>4. DrainOK'
    BY <1>2, <1>3, <2>1, <2>2, <2>3, SMTT(30) DEF DrainOK, Q
  <2> QED
    BY <2>2, <2>4 DEF IterInv
<1>4. CASE fill(e)
  <2>1. /\ Q.len + 1 <= it.tail_start /\ Q.len + 1 <= capacity(Q)
        /\ it.pc \in {"fill", "refill"} /\ it.left > 0
        /\ Holds(PushAll(Q, <<e>>)) /\ Own({e}, <<>>)
        /\ it' = [it EXCEPT !.left = @ - 1, !.ins = Append(@, e)]
    BY <1>2, <1>4 DEF fill, DrainOK
  <2> QED
    BY <1>2, <1>3, <2>1
<1>5. ASSUME NEW hint \in Nat, NEW oom \in BOOLEAN, Splice_extend(e, hint, oom)
      PROVE  IterInv'
  <2> DEFINE r == IF is_full(Q) THEN try_reserve(Q, hint + 1, oom) ELSE Ok(Q)
  <2>1. it.pc = "extend" /\ it.left > 0 /\ it.tail_len = 0
    BY <1>2, <1>5 DEF Splice_extend, DrainOK
  <2>2. CASE LeavesSplice(TRUE) /\ UNCHANGED dq /\ DropsNothing
    <3>1. Inv'
      BY <1>2, <2>2, SameInv DEF DropsNothing
    <3>2. /\ DOMAIN it' = DrainFields /\ it'.kind = "drain" /\ it'.d = it.d /\ it'.pc = "exhaust"
          /\ it'.left = it.left /\ it'.tail_start = it.tail_start /\ it'.tail_len = it.tail_len
          /\ it'.collected = it.collected
      BY <1>2, <2>2 DEF DrainOK, DrainFields, LeavesSplice
    <3> QED
      BY <1>2, <2>2, <3>1, <3>2 DEF IterInv, DrainOK, Q
  <2>3. CASE /\ r.ok /\ Holds(PushAll(r.q, <<e>>)) /\ Own({e}, <<>>)
             /\ it' = [it EXCEPT !.left = @ - 1, !.ins = Append(@, e)]
    <3>1. WF(r.q) /\ r.q.len = Q.len /\ capacity(r.q) >= capacity(Q) /\ r.q.len + 1 <= capacity(r.q)
      <4>1. CASE is_full(Q)
        <5>1. r = try_reserve(Q, hint + 1, oom) /\ hint + 1 \in Nat
          BY <4>1
        <5> HIDE DEF r
        <5>2. /\ WF(r.q) /\ r.q.len = Q.len /\ capacity(r.q) >= capacity(Q)
              /\ capacity(r.q) >= Q.len + (hint + 1)
          BY <1>2, <2>3, <5>1, TryReserveWF
        <5> QED
          BY <1>2, <5>2, Basics
      <4>2. CASE ~is_full(Q)
        <5>1. r.q = Q
          BY <4>2 DEF Ok
        <5> HIDE DEF r
        <5> QED
          BY <1>2, <4>2, <5>1 DEF is_full
      <4> QED
        BY <4>1, <4>2
    <3> HIDE DEF r
    <3> QED
      BY <1>3, <2>1, <2>3, <3>1
  <2> QED
    BY <1>5, <2>2, <2>3 DEF Splice_extend
<1> QED
  BY <1>4, <1>5

\* Drain::move_tail_unchecked: the tail moves by extra slots, into a buffer that
\* has room for them.
LEMMA MakeRoomInv ==
  ASSUME IterInv, Drains, NEW pc \in {"refill", "last"}, NEW extra \in Nat,
         NEW s \in Seq(Elem), NEW oom, MakeRoom(pc, extra, s, oom),
         it.pc \in {"hint", "collect"}, Len(s) <= it.left,
         pc = "last" => Len(s) = extra
  PROVE  IterInv'
<1> DEFINE n == it.tail_start + it.tail_len + extra
           b == reserve_capacity(Q, n, oom)
           c == Copy(b.q, it.tail_start, b.q, it.tail_start + extra, it.tail_len)
           r == MoveTail(extra, oom)
<1>1. /\ Inv /\ DrainOK /\ WF(Q) /\ Q.len \in Nat /\ capacity(Q) \in Nat /\ Q.len <= capacity(Q)
      /\ it.d \in DEQS /\ it.tail_start \in Nat /\ it.tail_len \in Nat /\ it.left \in Nat
      /\ Q.len <= it.tail_start
  BY Draining DEF DrainOK
<1>2. CASE LeavesSplice(TRUE) /\ UNCHANGED dq /\ DropsNothing
  <2>1. Inv'
    BY <1>1, <1>2, SameInv DEF DropsNothing
  <2>2. /\ DOMAIN it' = DrainFields /\ it'.kind = "drain" /\ it'.d = it.d /\ it'.pc = "exhaust"
        /\ it'.left = it.left /\ it'.tail_start = it.tail_start /\ it'.tail_len = it.tail_len
        /\ it'.collected = it.collected
    BY <1>1, <1>2 DEF DrainOK, DrainFields, LeavesSplice
  <2> QED
    BY <1>1, <1>2, <2>1, <2>2 DEF IterInv, DrainOK, Q
<1>3. CASE /\ r.ok /\ Holds(r.q) /\ Own(ToSet(s), <<>>)
           /\ it' = [it EXCEPT !.pc = pc, !.tail_start = @ + extra,
                               !.collected = s, !.left = @ - Len(s)]
  <2>1. b.ok /\ r.q = c
    BY <1>3 DEF MoveTail, Ok
  <2>2. n \in Nat
    BY <1>1
  <2>3. WF(b.q) /\ b.q.len = Q.len /\ capacity(b.q) >= n
    BY <1>1, <2>1, <2>2, ReserveCapacityWF
  <2> HIDE DEF b
  <2>4. /\ it.tail_start \in Int /\ it.tail_start + extra \in Int /\ it.tail_len \in Int
        /\ it.tail_len > 0 => b.q.blen > 0
    BY <1>1, <2>3, Basics
  <2>5. WF(c) /\ c.len = Q.len /\ capacity(c) = capacity(b.q)
    BY <2>3, <2>4, CopyWF
  <2>6. capacity(c) >= n /\ capacity(c) \in Nat
    BY <2>3, <2>5, Basics
  <2> HIDE DEF c
  <2>7. ToSet(s) \in SUBSET Elem /\ Len(s) \in Nat
    BY DEF ToSet
  <2>8. Inv' /\ dq'[it.d] = c
    BY <1>1, <1>3, <2>1, <2>5, <2>7, HoldsInv
  <2>9. /\ DOMAIN it' = DrainFields /\ it'.kind = it.kind /\ it'.d = it.d /\ it'.pc = pc
        /\ it'.left = it.left - Len(s) /\ it'.tail_start = it.tail_start + extra
        /\ it'.tail_len = it.tail_len /\ it'.collected = s
    BY <1>1, <1>3 DEF DrainOK, DrainFields
  <2>10. Q' = c
    BY <2>8, <2>9 DEF Q
  <2>11. /\ it'.tail_start + it'.tail_len <= capacity(c) /\ c.len <= it'.tail_start
         /\ it'.left \in Nat /\ it'.tail_start \in Nat
    <3>1. it'.left \in Nat
      BY <1>1, <2>7, <2>9
    <3>2. it'.tail_start \in Nat /\ c.len <= it'.tail_start
      BY <1>1, <2>5, <2>9
    <3>3. it'.tail_start + it'.tail_len = n
      BY <1>1, <2>9
    <3> HIDE DEF n
    <3> QED
      BY <2>6, <3>1, <3>2, <3>3
  <2>12. it'.pc = "last" => c.len + Len(it'.collected) <= it'.tail_start
    BY <1>1, <2>5, <2>7, <2>9
  <2>13. DrainOK'
    BY <1>1, <2>9, <2>10, <2>11, <2>12 DEF DrainOK
  <2> QED
    BY <2>8, <2>13 DEF IterInv
<1> QED
  BY <1>2, <1>3 DEF MakeRoom

\* size_hint() makes room for as many values as it promises.
LEMMA HintInv ==
  ASSUME IterInv, NEW lower \in Nat, NEW oom, Splice_hint(lower, oom)
  PROVE  IterInv'
<1>1. Drains /\ it.pc = "hint"
  BY DEF Splice_hint, Drains
<1>2. Inv /\ DrainOK
  BY <1>1, Draining
<1>3. CASE it' = [it EXCEPT !.pc = "collect"] /\ UNCHANGED dq /\ DropsNothing
  <2>1. Inv'
    BY <1>2, <1>3, SameInv DEF DropsNothing
  <2> QED
    BY <1>1, <1>2, <1>3, <2>1 DEF DrainOK, DrainFields, Q, IterInv
<1>4. CASE MakeRoom("refill", lower, <<>>, oom)
  <2>1. <<>> \in Seq(Elem) /\ Len(<<>>) = 0 /\ 0 <= it.left
    BY <1>2 DEF DrainOK
  <2> QED
    BY <1>1, <1>4, <2>1, MakeRoomInv
<1> QED
  BY <1>3, <1>4 DEF Splice_hint

\* The values that are left get exactly the room they need.
LEMMA CollectInv ==
  ASSUME IterInv, NEW s \in Seq(Elem), NEW oom, Splice_collect(s, oom)
  PROVE  IterInv'
<1>1. Drains /\ it.pc = "collect" /\ Len(s) = it.left
  BY DEF Splice_collect, Drains
<1>2. Inv /\ DrainOK /\ Len(s) \in Nat
  BY <1>1, Draining
<1>3. CASE LeavesSplice(FALSE) /\ UNCHANGED dq /\ DropsNothing
  <2>1. Inv'
    BY <1>2, <1>3, SameInv DEF DropsNothing
  <2>2. /\ DOMAIN it' = DrainFields /\ it'.kind = "drain" /\ it'.d = it.d /\ it'.pc = "exhaust"
        /\ it'.left = it.left /\ it'.tail_start = it.tail_start /\ it'.tail_len = it.tail_len
        /\ it'.collected = it.collected
    BY <1>2, <1>3 DEF DrainOK, DrainFields, LeavesSplice
  <2> QED
    BY <1>2, <1>3, <2>1, <2>2 DEF IterInv, DrainOK, Q
<1>4. CASE MakeRoom("last", Len(s), s, oom)
  BY <1>1, <1>2, <1>4, MakeRoomInv
<1> QED
  BY <1>3, <1>4 DEF Splice_collect

\* The collected values fill it.
LEMMA LastInv ==
  ASSUME IterInv, Splice_last
  PROVE  IterInv'
<1>1. Drains /\ it.pc = "last"
  BY DEF Splice_last, Drains
<1>2. /\ Inv /\ DrainOK /\ WF(Q) /\ Q.len \in Nat /\ capacity(Q) \in Nat /\ it.d \in DEQS
      /\ it.collected \in Seq(Elem) /\ Len(it.collected) \in Nat
      /\ Q.len + Len(it.collected) <= it.tail_start /\ Q.len + Len(it.collected) <= capacity(Q)
  BY <1>1, Draining DEF DrainOK
<1> DEFINE p == PushAll(Q, it.collected)
<1>3. WF(p) /\ p.len = Q.len + Len(it.collected) /\ capacity(p) = capacity(Q)
  BY <1>2, PushAllWF
<1>4. Holds(p) /\ UNCHANGED <<live, ub>>
  BY DEF Splice_last, DropsNothing
<1> HIDE DEF p
<1>5. Inv' /\ dq'[it.d] = p
  BY <1>2, <1>3, <1>4, HoldsInv
<1>6. /\ DOMAIN it' = DrainFields /\ it'.kind = "drain" /\ it'.d = it.d /\ it'.pc = "exhaust"
      /\ it'.left = it.left /\ it'.tail_start = it.tail_start /\ it'.tail_len = it.tail_len
      /\ it'.collected = <<>>
  BY <1>2 DEF Splice_last, DrainOK, DrainFields
<1>7. DrainOK'
  BY <1>2, <1>3, <1>5, <1>6 DEF DrainOK, Q
<1> QED
  BY <1>5, <1>7 DEF IterInv

\* What a step of DrainFilter finds.
LEMMA Filtering ==
  ASSUME IterInv, it.kind = "filter"
  PROVE  Inv /\ FilterOK /\ WF(Q) /\ capacity(Q) \in Nat
<1>1. Inv /\ FilterOK
  BY DEF IterInv, Idle, NoIter, DrainOK, SiftOK
<1>2. WF(Q)
  BY <1>1 DEF Inv, FilterOK, Q
<1> QED
  BY <1>1, <1>2, Basics

\* Steps of DrainFilter that move the iterator.
LEMMA FilterMovesInv ==
  ASSUME IterInv,
         \/ \E pc \in {"next", "drop"} : Filter_call(pc)
         \/ \E boom \in BOOLEAN : Filter_remove(boom)
         \/ Filter_panic
  PROVE  IterInv'
<1>1. it.kind = "filter"
  BY DEF Filter_call, Filter_remove, Filter_panic, Tests
<1>2. Inv /\ FilterOK /\ WF(Q) /\ it.d \in DEQS
  BY <1>1, Filtering DEF FilterOK
<1>3. CASE Closes(Q)
  BY <1>2, <1>3, ClosesInv DEF Filter_call, Filter_remove, Filter_panic, DropsNothing, IterInv
<1>4. CASE UNCHANGED dq
  <2>1. Inv'
    BY <1>2, <1>4, SameInv DEF Filter_call, Filter_remove, Filter_panic, DropsNothing
  <2>2. CASE \E pc \in {"next", "drop"} : Filter_call(pc)
    BY <1>2, <1>4, <2>1, <2>2 DEF Filter_call, FilterOK, FilterFields, Q, IterInv
  <2>3. ASSUME NEW boom \in BOOLEAN, Filter_remove(boom), ~boom
        PROVE  IterInv'
    <3>1. /\ DOMAIN it' = FilterFields /\ it'.kind = "filter" /\ it'.d = it.d
          /\ it'.idx = it.idx + 1 /\ it'.del = it.del + 1 /\ it'.old_len = it.old_len
      BY <1>2, <2>3 DEF Filter_remove, FilterOK, FilterFields
    <3>2. it.idx # it.old_len
      BY <2>3 DEF Filter_remove, Tests
    <3> QED
      BY <1>2, <1>4, <2>1, <3>1, <3>2 DEF FilterOK, Q, IterInv
  <2>4. CASE Filter_panic /\ it.pc = "next"
    <3>1. /\ DOMAIN it' = FilterFields /\ it'.kind = "filter" /\ it'.d = it.d
          /\ it'.idx = it.idx + 1 /\ it'.del = it.del /\ it'.old_len = it.old_len
      BY <1>2, <2>4 DEF Filter_panic, FilterOK, FilterFields
    <3>2. it.idx # it.old_len
      BY <2>4 DEF Filter_panic, Tests
    <3> QED
      BY <1>2, <1>4, <2>1, <3>1, <3>2 DEF FilterOK, Q, IterInv
  <2> QED
    BY <1>3, <2>2, <2>3, <2>4 DEF Filter_remove, Filter_panic
<1> QED
  BY <1>3, <1>4 DEF Filter_call, Filter_remove, Filter_panic

\* An element that is kept moves to the front; at the end the length is restored
\* to the number of elements that were kept.
LEMMA FilterHoldsInv ==
  ASSUME IterInv, Filter_keep \/ Filter_end
  PROVE  IterInv'
<1>1. it.kind = "filter"
  BY DEF Filter_keep, Filter_end, Tests
<1>2. Inv /\ FilterOK /\ WF(Q) /\ capacity(Q) \in Nat /\ it.d \in DEQS
  BY <1>1, Filtering DEF FilterOK
<1>3. CASE Filter_keep
  <2> DEFINE p == IF it.del > 0 THEN Copy(Q, it.idx, Q, it.idx - it.del, 1) ELSE Q
  <2>1. /\ it.idx \in Int /\ it.idx - it.del \in Int /\ 1 \in Int /\ it.idx + 1 <= it.old_len
        /\ capacity(Q) > 0
    BY <1>2, <1>3 DEF FilterOK, Filter_keep, Tests
  <2>2. WF(p) /\ p.len = Q.len /\ capacity(p) = capacity(Q)
    BY <1>2, <2>1, CopyWF, Basics
  <2>3. Holds(p) /\ UNCHANGED <<live, ub>>
    BY <1>3 DEF Filter_keep, DropsNothing
  <2> HIDE DEF p
  <2>4. Inv' /\ dq'[it.d] = p
    BY <1>2, <2>2, <2>3, HoldsInv
  <2>5. /\ DOMAIN it' = FilterFields /\ it'.kind = "filter" /\ it'.d = it.d
        /\ it'.idx = it.idx + 1 /\ it'.del = it.del /\ it'.old_len = it.old_len
    BY <1>2, <1>3 DEF Filter_keep, FilterOK, FilterFields
  <2>6. FilterOK'
    BY <1>2, <2>1, <2>2, <2>4, <2>5 DEF FilterOK, Q
  <2> QED
    BY <2>4, <2>6 DEF IterInv
<1>4. CASE Filter_end /\ it.pc = "next"
  <2>1. dq' = dq /\ UNCHANGED <<live, ub>> /\ it' = [it EXCEPT !.pc = "open"]
    BY <1>4 DEF Filter_end, DropsNothing
  <2>2. Inv'
    BY <1>2, <2>1, SameInv
  <2> QED
    BY <1>2, <2>1, <2>2 DEF FilterOK, FilterFields, Q, IterInv
<1>5. CASE Filter_end /\ it.pc = "drop"
  <2> DEFINE x == it.old_len - it.del
  <2>1. x \in Int /\ Q.len + x \in 0 .. capacity(Q)
    BY <1>2, <1>5 DEF Filter_end, FilterOK
  <2>2. WF(move_tail_unchecked(Q, x))
    BY <1>2, <2>1, MoveTailWF
  <2>3. Closes(move_tail_unchecked(Q, x)) /\ UNCHANGED <<live, ub>>
    BY <1>5 DEF Filter_end, DropsNothing
  <2> QED
    BY <1>2, <2>2, <2>3, ClosesInv DEF IterInv
<1> QED
  BY <1>3, <1>4, <1>5 DEF Filter_end

\* An iterator that is leaked leaves the deque as it is.
LEMMA ForgetInv ==
  ASSUME IterInv, forget
  PROVE  IterInv'
<1>1. Inv /\ it.d \in DEQS
  BY DEF forget, IterInv, Idle, NoIter, DrainOK, FilterOK, SiftOK
<1>2. WF(Q)
  BY <1>1 DEF Inv, Q
<1> QED
  BY <1>1, <1>2, ClosesInv DEF forget, IterInv

\* The loops of retain and dedup_by swap elements of the slice and truncate it.
LEMMA SiftInv ==
  ASSUME IterInv, Sift_keep \/ Sift_remove \/ Sift_panic \/ Sift_end
  PROVE  IterInv'
<1>1. Inv /\ SiftOK /\ it.d \in DEQS
  BY DEF Sift_keep, Sift_remove, Sift_panic, Sift_end, IterInv, Idle, NoIter, DrainOK, FilterOK,
     SiftOK
<1>2. WF(Q) /\ Q.len \in Nat
  BY <1>1, Basics DEF Inv, Q
<1>3. CASE Sift_keep
  <2> DEFINE p == IF it.idx # it.w THEN swap(Q, it.w, it.idx) ELSE Q
  <2>1. it.idx \in Int /\ it.w \in Int /\ Q.len > 0 /\ it.idx < Q.len
    BY <1>1, <1>2, <1>3 DEF SiftOK, Sift_keep
  <2>2. WF(p) /\ p.len = Q.len
    BY <1>2, <2>1, SwapWF
  <2>3. Holds(p) /\ UNCHANGED <<live, ub>>
    BY <1>3 DEF Sift_keep, DropsNothing
  <2> HIDE DEF p
  <2>4. Inv' /\ dq'[it.d] = p
    BY <1>1, <2>2, <2>3, HoldsInv
  <2>5. /\ DOMAIN it' = SiftFields /\ it'.kind = "sift" /\ it'.d = it.d /\ it'.pc = it.pc
        /\ it'.idx = it.idx + 1 /\ it'.w = it.w + 1
    BY <1>1, <1>3 DEF Sift_keep, SiftOK, SiftFields
  <2>6. SiftOK'
    BY <1>1, <1>2, <2>1, <2>2, <2>4, <2>5 DEF SiftOK, Q
  <2> QED
    BY <2>4, <2>6 DEF IterInv
<1>4. CASE Sift_remove
  <2>1. dq' = dq /\ Inv'
    BY <1>1, <1>4, SameInv DEF Sift_remove, DropsNothing
  <2>2. /\ DOMAIN it' = SiftFields /\ it'.kind = "sift" /\ it'.d = it.d /\ it'.pc = it.pc
        /\ it'.idx = it.idx + 1 /\ it'.w = it.w /\ it.idx < Q.len
    BY <1>1, <1>4 DEF Sift_remove, SiftOK, SiftFields
  <2>3. SiftOK'
    BY <1>1, <1>2, <2>1, <2>2 DEF SiftOK, Q
  <2> QED
    BY <2>1, <2>3 DEF IterInv
<1>5. CASE Sift_panic
  <2>1. Inv'
    BY <1>1, <1>5, SameInv DEF Sift_panic, DropsNothing
  <2> QED
    BY <1>5, <2>1 DEF Sift_panic, Idle, IterInv
<1>6. CASE Sift_end
  <2>1. Inv'
    BY <1>1, <1>6, TruncateInv DEF Sift_end, SiftOK
  <2> QED
    BY <1>6, <2>1 DEF Sift_end, Idle, IterInv
<1> QED
  BY <1>3, <1>4, <1>5, <1>6

-----------------------------------------------------------------------------
(* The theorems.                                                           *)

\* Every step of an iterator, and every call while there is none, keeps the
\* invariant.
LEMMA FullNextInv == IterInv /\ [FullNext]_allvars => IterInv'
<1> SUFFICES ASSUME IterInv, [FullNext]_allvars PROVE IterInv'
  OBVIOUS
<1>1. /\ Args \subseteq Nat /\ 0 .. MaxItems \subseteq Nat /\ Unborn \subseteq Elem
      /\ Fresh \subseteq Elem /\ UnbornSeqs \subseteq Seq(Elem)
  BY BoundAssumption, UnbornElems DEF Args, Fresh
<1>2. CASE UNCHANGED allvars
  BY <1>2 DEF allvars, vars, IterInv, Inv, Idle, DrainOK, FilterOK, SiftOK, Q
<1>3. CASE Idle /\ Next /\ UNCHANGED <<it, leaked>>
  <2>1. Inv'
    BY <1>3, NextInv DEF IterInv
  <2> QED
    BY <1>3, <2>1 DEF IterInv, Idle
<1>4. ASSUME NEW d \in DEQS, Between(d) PROVE IterInv'
  <2>1. Inv'
    BY <1>1, <1>4, CapacityInv, PushInv, PopInv DEF IterInv, Between
  <2> QED
    BY <1>4, <2>1 DEF IterInv, Between, Idle
<1>5. ASSUME NEW d \in DEQS, Opens(d) PROVE IterInv'
  BY <1>5, OpensInv, 0 \in Nat DEF Opens
<1>6. ASSUME NEW d \in DEQS, NEW n \in 0 .. MaxItems, Splices(d, n) PROVE IterInv'
  BY <1>1, <1>6, OpensInv DEF Splices
<1>7. CASE CallerStep
  BY <1>7, DrainMovesInv, FilterMovesInv, ForgetInv DEF CallerStep
<1>8. CASE DropStep
  <2>1. ASSUME NEW e \in Fresh, NEW hint \in Args, NEW oom \in BOOLEAN,
               Splice_extend(e, hint, oom)
        PROVE  IterInv'
    BY <1>1, <2>1, SpliceWritesInv
  <2>2. ASSUME NEW e \in Fresh, fill(e) PROVE IterInv'
    BY <1>1, <2>2, SpliceWritesInv
  <2> QED
    BY <1>8, <2>1, <2>2, ExhaustInv, RestoreInv, DrainMovesInv, LastInv,
       FilterHoldsInv, FilterMovesInv, SiftInv DEF DropStep
<1>9. CASE TailStep
  <2>1. ASSUME NEW s \in UnbornSeqs, NEW oom \in BOOLEAN, Splice_collect(s, oom) PROVE IterInv'
    BY <1>1, <2>1, CollectInv
  <2>2. ASSUME NEW lower \in Args, NEW oom \in BOOLEAN, Splice_hint(lower, oom) PROVE IterInv'
    BY <1>1, <2>2, HintInv
  <2> QED
    BY <1>9, <2>1, <2>2 DEF TailStep
<1>10. CASE Filter_panic
  BY <1>10, FilterMovesInv
<1> QED
  BY <1>2, <1>3, <1>4, <1>5, <1>6, <1>7, <1>8, <1>9, <1>10 DEF FullNext, IterNext

\* The invariant holds in every behaviour of the deques and their iterators.
THEOREM IterInvCorrect == FullSpec => []IterInv
<1>1. IterInit => IterInv
  BY InitInv DEF IterInit, IterInv, Idle
<1> QED
  BY <1>1, FullNextInv, PTL DEF FullSpec

\* The tail that Drain and Splice move, the slots that DrainFilter reads and the
\* positions of retain and dedup_by lie within the capacity, at every moment.
THEOREM IteratorInBufferCorrect == FullSpec => []IteratorInBuffer
<1>1. IterInv => IteratorInBuffer
  <2> SUFFICES ASSUME IterInv PROVE IteratorInBuffer
    OBVIOUS
  <2>1. InMappedMemory
    BY MappedFromInv DEF IterInv
  <2>2. Drains => /\ it.tail_start + it.tail_len <= capacity(Q)
                  /\ it.tail_len > 0 => Q.len <= it.tail_start
    BY Draining DEF DrainOK
  <2>3. it.kind = "filter" => it.old_len <= capacity(Q) /\ it.del <= it.idx
    BY Filtering DEF FilterOK
  <2>4. it.kind = "sift" => it.w <= it.idx /\ it.idx <= Q.len
    BY DEF IterInv, Idle, NoIter, DrainOK, FilterOK, SiftOK
  <2> QED
    BY <2>1, <2>2, <2>3, <2>4 DEF IteratorInBuffer
<1> QED
  BY <1>1, IterInvCorrect, PTL

\* The layout of the deques stays right also while they are borrowed, and
\* whatever a panic or mem::forget leaves of them.
THEOREM BorrowedLayoutCorrect ==
  FullSpec => [](TypeOK /\ InMappedMemory /\ NoAliasing /\ FreedAsAllocated /\ Aligned)
<1>1. IterInv => TypeOK /\ InMappedMemory /\ NoAliasing /\ FreedAsAllocated /\ Aligned
  BY TypeFromInv, MappedFromInv, ApartFromInv, FreedFromInv, AlignedFromInv DEF IterInv
<1> QED
  BY <1>1, IterInvCorrect, PTL

-----------------------------------------------------------------------------
(* What the memory of a borrowed deque holds.                              *)

\* Values pushed behind the slice leave the slots behind them as they were.
LEMMA PushAllRead ==
  ASSUME NEW q, WF(q), NEW s \in Seq(Elem), q.len + Len(s) <= capacity(q),
         NEW l \in q.len + Len(s) .. capacity(q) - 1
  PROVE  Read(PushAll(q, s), l) = Read(q, l)
<1> DEFINE n == Len(s)
           p == move_tail_unchecked(q, n)
<1>1. q.len \in Nat /\ n \in Nat /\ capacity(q) \in Nat /\ q.len + n \in 0 .. capacity(q)
  BY Basics
<1>2. WF(p) /\ capacity(p) = capacity(q)
  BY <1>1, MoveTailWF
<1>3. l \in 0 .. capacity(p) - 1 /\ Within(p, q.len, n) /\ ~(l < q.len + n)
  BY <1>1, <1>2 DEF Within
<1>4. Read(p, l) = Read(q, l)
  BY MoveTailRead
<1> HIDE DEF p
<1>5. Read(Write(p, q.len, s), l)
        = IF q.len <= l /\ l < q.len + n THEN s[l - q.len + 1] ELSE Read(p, l)
  BY <1>1, <1>2, <1>3, WriteRead
<1> QED
  BY <1>3, <1>4, <1>5 DEF PushAll, p

\* A copy of n slots to slot b, behind the slice.
LEMMA CopyBehind ==
  ASSUME NEW q, WF(q), NEW a \in Nat, NEW b \in Nat, NEW n \in Nat, n > 0, q.len <= b,
         b + n <= capacity(q)
  PROVE  LET c == Copy(q, a, q, b, n)
         IN  /\ WF(c) /\ c.len = q.len /\ capacity(c) = capacity(q)
             /\ Contents(c) = Contents(q)
             /\ \A l \in 0 .. n - 1 : Read(c, b + l) = Read(q, a + l)
<1> DEFINE c == Copy(q, a, q, b, n)
<1>1. /\ q.len \in Nat /\ capacity(q) \in Nat /\ q.len <= capacity(q) /\ q.blen > 0
      /\ a \in Int /\ b \in Int /\ n \in Int
  BY Basics
<1>2. WF(c) /\ c.len = q.len /\ capacity(c) = capacity(q)
  BY <1>1, CopyWF
<1>3. Within(q, b, n) /\ q.head \in Int
  BY <1>1 DEF Within, WF, IsDeque
<1>4. \A l \in 0 .. capacity(q) - 1 :
         Read(c, l) = IF b <= l /\ l < b + n THEN Read(q, a + (l - b)) ELSE Read(q, l)
  BY <1>1, <1>3, CopyRead
<1> HIDE DEF c
<1>5. ASSUME NEW l \in 0 .. n - 1 PROVE Read(c, b + l) = Read(q, a + l)
  <2> DEFINE m == b + l
  <2>1. m \in 0 .. capacity(q) - 1 /\ b <= m /\ m < b + n /\ a + (m - b) = a + l
    BY <1>1
  <2> HIDE DEF m
  <2>2. Read(c, m) = Read(q, a + (m - b))
    BY <1>4, <2>1
  <2> QED
    BY <2>1, <2>2 DEF m
<1>6. /\ Contents(q) \in Seq(Slot) /\ Len(Contents(q)) = q.len
      /\ \A i \in 0 .. q.len - 1 : Contents(q)[i + 1] = Read(q, i)
  BY ContentsSeq
<1>7. ASSUME NEW i \in 0 .. c.len - 1 PROVE Read(c, i) = Contents(q)[i + 1]
  BY <1>1, <1>2, <1>4, <1>6
<1>8. Contents(c) = Contents(q)
  <2> DEFINE s == Contents(q)
  <2>1. s \in Seq(Slot) /\ Len(s) = c.len /\ c.len \in Nat
        /\ \A i \in 0 .. c.len - 1 : Read(c, i) = s[i + 1]
    BY <1>1, <1>2, <1>6, <1>7
  <2> HIDE DEF s
  <2>2. Contents(c) = s
    BY <2>1, ContentsAre
  <2> QED
    BY <2>2 DEF s
<1> QED
  BY <1>2, <1>5, <1>8 DEF c

\* The slice grows over n slots: they hold what it gains.
LEMMA GrowContents ==
  ASSUME NEW q, WF(q), NEW n \in Nat, q.len + n <= capacity(q),
         NEW u \in Seq(Slot), Len(u) = n, \A l \in 0 .. n - 1 : Read(q, q.len + l) = u[l + 1]
  PROVE  LET p == move_tail_unchecked(q, n)
         IN  /\ WF(p) /\ p.len = q.len + n /\ capacity(p) = capacity(q)
             /\ Contents(p) = Contents(q) \o u
<1> DEFINE p == move_tail_unchecked(q, n)
           c == Contents(q)
           t == c \o u
<1>1. q.len \in Nat /\ capacity(q) \in Nat /\ q.len + n \in 0 .. capacity(q) /\ n \in Int
  BY Basics
<1>2. WF(p) /\ p.len = q.len + n /\ capacity(p) = capacity(q)
  BY <1>1, MoveTailWF
<1>3. c \in Seq(Slot) /\ Len(c) = q.len /\ \A i \in 0 .. q.len - 1 : c[i + 1] = Read(q, i)
  BY ContentsSeq
<1> HIDE DEF c
<1>4. /\ t \in Seq(Slot) /\ Len(t) = q.len + n
      /\ \A i \in 1 .. q.len + n : t[i] = IF i <= q.len THEN c[i] ELSE u[i - q.len]
  <2>1. /\ t \in Seq(Slot) /\ Len(t) = Len(c) + Len(u)
        /\ \A i \in 1 .. Len(c) + Len(u) : t[i] = IF i <= Len(c) THEN c[i] ELSE u[i - Len(c)]
    BY <1>3, ConcatAt
  <2> HIDE DEF t
  <2> QED
    BY <1>3, <2>1
<1> HIDE DEF t
<1>5. \A l : Read(p, l) = Read(q, l)
  BY MoveTailRead
<1> HIDE DEF p
<1>6. ASSUME NEW i \in 0 .. p.len - 1 PROVE Read(p, i) = t[i + 1]
  <2> DEFINE j == i + 1
             l == i - q.len
  <2>1. j \in 1 .. q.len + n /\ (i < q.len <=> j <= q.len) /\ j - q.len = l + 1
        /\ (~(i < q.len) => l \in 0 .. n - 1 /\ q.len + l = i) /\ (i < q.len => i \in 0 .. q.len - 1)
    BY <1>1, <1>2, SMTT(30)
  <2>2. t[j] = IF j <= q.len THEN c[j] ELSE u[l + 1]
    BY <1>4, <2>1
  <2>3. CASE i < q.len
    BY <1>3, <1>5, <2>1, <2>2, <2>3
  <2>4. CASE ~(i < q.len)
    <3> HIDE DEF l, j
    <3>1. Read(q, i) = u[l + 1]
      BY <2>1, <2>4
    <3> QED
      BY <1>5, <2>1, <2>2, <2>4, <3>1 DEF j
  <2> QED
    BY <2>3, <2>4
<1>7. Contents(p) = t
  BY <1>1, <1>2, <1>4, <1>6, ContentsAre
<1> QED
  BY <1>2, <1>7 DEF p, t, c

\* The elements while a Drain or Splice is open.  The slice is what was in front
\* of the range and what has replaced it; the slots that the iterator has left
\* hold their elements, those of the tail the elements behind the range.
DrainHas ==
  /\ it.pre \in Seq(Slot) /\ it.ins \in Seq(Elem)
  /\ it.start \in Nat /\ it.next \in Nat /\ it.back \in Nat /\ it.end \in Nat
  /\ it.start <= it.next /\ it.next <= it.back /\ it.back <= it.end /\ it.end <= Len(it.pre)
  /\ it.tail_len = Len(it.pre) - it.end
  /\ Contents(Q) = SubSeq(it.pre, 1, it.start) \o it.ins
  /\ \A l \in it.next .. it.back - 1 : Read(Q, l) = it.pre[l + 1]
  /\ \A l \in 0 .. it.tail_len - 1 : Read(Q, it.tail_start + l) = it.pre[it.end + l + 1]
  /\ it.pc \notin {"open", "exhaust"} => it.next = it.back
  /\ it.pc # "last" => it.collected = <<>>
  /\ it.pc \in {"hint", "collect"} => Q.len = it.tail_start
  /\ it.pc \in {"fill", "refill", "hint", "collect", "last"} => it.tail_len > 0

\* The elements while a DrainFilter is open: those that were kept are in the
\* first slots, those that were not tested are where they were.
FilterHas ==
  /\ it.pre \in Seq(Slot) /\ it.kept \in Seq(Slot)
  /\ Len(it.pre) = it.old_len /\ Len(it.kept) = it.idx - it.del
  /\ \A l \in 0 .. it.idx - it.del - 1 : Read(Q, l) = it.kept[l + 1]
  /\ \A l \in it.idx .. it.old_len - 1 : Read(Q, l) = it.pre[l + 1]

\* The elements in the loop of retain or dedup_by: those that were kept come
\* first, those whose turn has not come are where they were, and the slice has
\* all it had.
SiftHas ==
  /\ it.pre \in Seq(Slot) /\ it.kept \in Seq(Slot)
  /\ Len(it.pre) = Q.len /\ Len(it.kept) = it.w
  /\ \A l \in 0 .. it.w - 1 : Read(Q, l) = it.kept[l + 1]
  /\ \A l \in it.idx .. Q.len - 1 : Read(Q, l) = it.pre[l + 1]
  /\ ToSet(Contents(Q)) = ToSet(it.pre)

BorrowInv ==
  /\ IterInv
  /\ Drains => DrainHas
  /\ it.kind = "filter" => FilterHas
  /\ it.kind = "sift" => SiftHas

-----------------------------------------------------------------------------
(* Steps that leave the memory of the deque alone.                         *)

\* The step goes on with the same Drain or Splice: the fields that say what the
\* deque holds are unchanged, and fewer slots are left.
DrainMoves ==
  /\ dq' = dq /\ it'.d = it.d
  /\ it'.pre = it.pre /\ it'.ins = it.ins /\ it'.start = it.start /\ it'.end = it.end
  /\ it'.tail_start = it.tail_start /\ it'.tail_len = it.tail_len
  /\ it'.left = it.left /\ it'.collected = it.collected
  /\ it'.kind = "splice" => it.kind = "splice"

\* Such a step keeps the elements.
LEMMA DrainMovesHas ==
  ASSUME DrainHas, DrainMoves, it'.next \in Nat, it'.back \in Nat,
         it.next <= it'.next, it'.next <= it'.back, it'.back <= it.back,
         it.pc # "last", it'.pc # "last",
         it'.pc \notin {"open", "exhaust"} => it'.next = it'.back,
         it'.pc \in {"hint", "collect"} => Q.len = it.tail_start,
         it'.pc \in {"fill", "refill", "hint", "collect"} => it.tail_len > 0
  PROVE  DrainHas'
<1>1. Q' = Q
  BY DEF DrainMoves, Q
<1> DEFINE q == Q
<1>2. Q' = q
  BY <1>1
<1>3. /\ Contents(q) = SubSeq(it.pre, 1, it.start) \o it.ins
      /\ \A l \in it.next .. it.back - 1 : Read(q, l) = it.pre[l + 1]
      /\ \A l \in 0 .. it.tail_len - 1 : Read(q, it.tail_start + l) = it.pre[it.end + l + 1]
      /\ it'.pc \in {"hint", "collect"} => q.len = it.tail_start
  BY DEF DrainHas
<1> HIDE DEF q
<1>4. /\ it.start \in Nat /\ it.next \in Nat /\ it.back \in Nat /\ it.end \in Nat
      /\ it.start <= it.next /\ it.next <= it.back /\ it.back <= it.end /\ it.end <= Len(it.pre)
      /\ it.pre \in Seq(Slot) /\ it.ins \in Seq(Elem) /\ it.collected = <<>>
      /\ it.tail_len = Len(it.pre) - it.end
  BY DEF DrainHas
<1>5. ASSUME NEW l \in it'.next .. it'.back - 1 PROVE Read(q, l) = it.pre[l + 1]
  <2>1. l \in it.next .. it.back - 1
    BY <1>4
  <2> QED
    BY <1>3, <2>1
<1>6. it.start <= it'.next /\ it'.back <= it.end
  BY <1>4
<1> QED
  BY <1>2, <1>3, <1>4, <1>5, <1>6 DEF DrainHas, DrainMoves

\* What a step of a Drain or Splice finds.
LEMMA DrainFinds ==
  ASSUME BorrowInv, Drains
  PROVE  /\ Inv /\ DrainOK /\ DrainHas /\ WF(Q) /\ Q.len \in Nat /\ capacity(Q) \in Nat
         /\ Q.len <= capacity(Q) /\ it.d \in DEQS /\ DOMAIN it = DrainFields
         /\ it.kind \in {"drain", "splice"}
         /\ it.next \in Nat /\ it.back \in Nat /\ it.next <= it.back
  BY Draining DEF BorrowInv, DrainOK, DrainHas

\* Every step that moves the iterator and not the memory.
LEMMA DrainStepHas ==
  ASSUME BorrowInv,
         \/ Drain_next \/ Drain_next_back \/ drop_iterator
         \/ Splice_start \/ Splice_panic \/ Splice_none \/ filled
         \/ it.kind = "splice" /\ it.pc = "hint" /\ it' = [it EXCEPT !.pc = "collect"] /\ dq' = dq
         \/ it.kind = "splice" /\ it.pc # "last" /\ it.pc # "open" /\ dq' = dq
            /\ \E p \in BOOLEAN : LeavesSplice(p)
  PROVE  DrainHas' /\ it'.kind \in {"drain", "splice"}
<1>1. Drains
  BY DEF Drains, Drain_next, Drain_next_back, drop_iterator, Splice_start, Splice_panic,
     Splice_none, filled
<1>2. /\ DrainHas /\ DOMAIN it = DrainFields /\ it.kind \in {"drain", "splice"}
      /\ it.next \in Nat /\ it.back \in Nat /\ it.next <= it.back
  BY <1>1, DrainFinds
<1>3. CASE Drain_next \/ Drain_next_back
  <2>1. it.pc = "open" /\ it.next < it.back /\ dq' = dq
    BY <1>3 DEF Drain_next, Drain_next_back, JustDrops
  <2>2. /\ DrainMoves /\ it'.pc = "open" /\ it'.kind = it.kind
        /\ \/ it'.next = it.next + 1 /\ it'.back = it.back
           \/ it'.next = it.next /\ it'.back = it.back - 1
    BY <1>2, <1>3, <2>1 DEF DrainFields, Drain_next, Drain_next_back, DrainMoves
  <2> QED
    BY <1>2, <2>1, <2>2, DrainMovesHas
<1>4. CASE drop_iterator
  <2>1. DrainMoves /\ it'.pc = "exhaust" /\ it'.kind = it.kind /\ it'.next = it.next
        /\ it'.back = it.back /\ it.pc = "open"
    BY <1>2, <1>4 DEF DrainFields, drop_iterator, DrainMoves
  <2> QED
    BY <1>2, <2>1, DrainMovesHas
<1>5. CASE Splice_start \/ filled \/ (it.pc = "hint" /\ it' = [it EXCEPT !.pc = "collect"] /\ dq' = dq)
  <2>1. /\ DrainMoves /\ it'.kind = it.kind /\ it'.next = it.next /\ it'.back = it.back
        /\ \/ it.pc = "exhaust" /\ it.next = it.back /\ it'.pc = (IF it.tail_len = 0 THEN "extend" ELSE "fill")
           \/ it.pc = "fill" /\ Q.len = it.tail_start /\ it'.pc = "hint"
           \/ it.pc = "refill" /\ Q.len = it.tail_start /\ it'.pc = "collect"
           \/ it.pc = "hint" /\ it'.pc = "collect"
    BY <1>2, <1>5 DEF DrainFields, Splice_start, filled, DrainMoves
  <2>2. it.tail_len \in Nat
    BY <1>1, DrainFinds DEF DrainOK
  <2>3. /\ it.pc # "last" /\ it'.pc # "last"
        /\ it'.next = it'.back
        /\ it'.pc \in {"hint", "collect"} => Q.len = it.tail_start
        /\ it'.pc \in {"fill", "refill", "hint", "collect"} => it.tail_len > 0
    BY <1>2, <2>1, <2>2 DEF DrainHas
  <2>4. DrainHas'
    BY <1>2, <2>1, <2>3, DrainMovesHas
  <2> QED
    BY <1>2, <2>1, <2>4
<1>6. CASE it.pc # "last" /\ it.pc # "open" /\ dq' = dq /\ \E p \in BOOLEAN : LeavesSplice(p)
  <2>1. /\ DrainMoves /\ it'.kind = "drain" /\ it'.next = it.next /\ it'.back = it.back
        /\ it'.pc = "exhaust"
    BY <1>2, <1>6 DEF DrainFields, LeavesSplice, DrainMoves
  <2> QED
    BY <1>2, <1>6, <2>1, DrainMovesHas
<1>7. Splice_panic \/ Splice_none => it.pc # "last" /\ it.pc # "open" /\ dq' = dq
  BY DEF Splice_panic, Splice_none
<1>8. Splice_panic \/ Splice_none => \E p \in BOOLEAN : LeavesSplice(p)
  BY DEF Splice_panic, Splice_none
<1> QED
  BY <1>3, <1>4, <1>5, <1>6, <1>7, <1>8

\* Drop for Drain and for Splice takes an element and goes on.
LEMMA ExhaustHas ==
  ASSUME BorrowInv, NEW boom, exhaust(boom), UNCHANGED dq, it' # NoIter
  PROVE  DrainHas' /\ it'.kind \in {"drain", "splice"}
<1>1. Drains /\ it.pc = "exhaust" /\ it.next < it.back
  BY DEF exhaust
<1>2. /\ DrainHas /\ DOMAIN it = DrainFields /\ it.kind \in {"drain", "splice"}
      /\ it.next \in Nat /\ it.back \in Nat /\ it.next <= it.back
  BY <1>1, DrainFinds
<1>3. /\ DrainMoves /\ it'.next = it.next + 1 /\ it'.back = it.back /\ it'.pc = it.pc
      /\ it'.kind \in {"drain", "splice"}
  <2>1. CASE it' = [it EXCEPT !.next = @ + 1]
    BY <1>2, <2>1 DEF DrainFields, DrainMoves
  <2>2. CASE it' = [it EXCEPT !.next = @ + 1, !.kind = "drain", !.panics = TRUE]
    BY <1>2, <2>2 DEF DrainFields, DrainMoves
  <2> QED
    BY <2>1, <2>2 DEF exhaust, Closes
<1> QED
  BY <1>1, <1>2, <1>3, DrainMovesHas

-----------------------------------------------------------------------------
(* Steps of Splice that write to the deque.                                *)

\* Appending behind a concatenation.
LEMMA ConcatAppend ==
  ASSUME NEW V, NEW a \in Seq(V), NEW b \in Seq(V), NEW c \in Seq(V)
  PROVE  (a \o b) \o c = a \o (b \o c)
<1> DEFINE l == (a \o b) \o c
           r == a \o (b \o c)
<1>1. a \o b \in Seq(V) /\ b \o c \in Seq(V) /\ l \in Seq(V) /\ r \in Seq(V)
  BY ConcatAt
<1>2. Len(a \o b) = Len(a) + Len(b) /\ Len(b \o c) = Len(b) + Len(c)
  BY ConcatAt
<1>3. Len(l) = Len(a) + Len(b) + Len(c) /\ Len(r) = Len(l)
  BY <1>1, <1>2, ConcatAt
<1>4. ASSUME NEW i \in 1 .. Len(l) PROVE l[i] = r[i]
  BY <1>1, <1>2, <1>3, <1>4
<1>5. DOMAIN l = 1 .. Len(l) /\ DOMAIN r = 1 .. Len(l)
  BY <1>1, <1>3
<1> HIDE DEF l, r
<1>6. l = r
  BY <1>1, <1>3, <1>4, <1>5
<1> QED
  BY <1>6 DEF l, r

\* The values s are written behind the slice of q, which holds what the deque
\* holds; where there is a tail, q is the deque and they fit in front of it.
LEMMA DrainWritesHas ==
  ASSUME BorrowInv, Drains, it.next = it.back, NEW q, WF(q), q.len = Q.len, Contents(q) = Contents(Q),
         NEW s \in Seq(Elem), q.len + Len(s) <= capacity(q),
         it.tail_len > 0 => q = Q /\ Q.len + Len(s) <= it.tail_start,
         Holds(PushAll(q, s)), it'.d = it.d,
         it'.pre = it.pre, it'.ins = it.ins \o s, it'.start = it.start, it'.end = it.end,
         it'.next = it.next, it'.back = it.back,
         it'.tail_start = it.tail_start, it'.tail_len = it.tail_len,
         it'.collected = <<>>,
         it'.pc \notin {"hint", "collect", "last"},
         it'.pc \in {"fill", "refill"} => it.tail_len > 0
  PROVE  DrainHas'
<1> DEFINE p == PushAll(q, s)
<1>1. /\ Inv /\ DrainOK /\ DrainHas /\ WF(Q) /\ Q.len \in Nat /\ capacity(Q) \in Nat
      /\ it.d \in DEQS
  BY DrainFinds
<1>2. WF(p) /\ p.len = q.len + Len(s) /\ capacity(p) = capacity(q)
  BY PushAllWF
<1>3. Contents(p) = Contents(q) \o s
  BY PushAllContents
<1>4. \A l \in q.len + Len(s) .. capacity(q) - 1 : Read(p, l) = Read(q, l)
  BY PushAllRead
<1>5. Q' = p
  BY <1>1 DEF Inv, Holds, Q
<1> HIDE DEF p
<1>6. /\ it.pre \in Seq(Slot) /\ it.ins \in Seq(Elem) /\ it.start \in Nat /\ it.end \in Nat
      /\ it.next \in Nat /\ it.start <= it.next /\ it.next <= it.end /\ it.end <= Len(it.pre)
      /\ it.tail_len = Len(it.pre) - it.end
      /\ Contents(Q) = SubSeq(it.pre, 1, it.start) \o it.ins
      /\ \A l \in 0 .. it.tail_len - 1 : Read(Q, it.tail_start + l) = it.pre[it.end + l + 1]
  BY <1>1 DEF DrainHas
<1>7. Contents(p) = SubSeq(it.pre, 1, it.start) \o (it.ins \o s) /\ it.ins \o s \in Seq(Elem)
  <2> DEFINE a == SubSeq(it.pre, 1, it.start)
  <2>1. a \in Seq(Slot)
    BY <1>6
  <2>2. it.ins \in Seq(Slot) /\ s \in Seq(Slot)
    BY <1>6 DEF Slot
  <2>3. Contents(p) = (a \o it.ins) \o s
    BY <1>3, <1>6
  <2> HIDE DEF a
  <2> DEFINE b == it.ins
  <2>4. b \in Seq(Slot)
    BY <2>2
  <2> HIDE DEF b
  <2>5. (a \o b) \o s = a \o (b \o s)
    BY ONLY <2>1, <2>2, <2>4, ConcatAppend
  <2>6. Contents(p) = a \o (it.ins \o s)
    BY <2>3, <2>5 DEF b
  <2>7. it.ins \o s \in Seq(Elem)
    BY <1>6, ConcatAt
  <2> QED
    BY <2>6, <2>7 DEF a
<1>8. ASSUME NEW l \in 0 .. it.tail_len - 1 PROVE Read(p, it.tail_start + l) = it.pre[it.end + l + 1]
  <2> DEFINE m == it.tail_start + l
  <2>1. /\ it.tail_len > 0 /\ it.tail_start \in Nat /\ it.tail_len \in Nat
        /\ it.tail_start + it.tail_len <= capacity(Q)
    BY <1>1, <1>6 DEF DrainOK
  <2>2. m \in q.len + Len(s) .. capacity(q) - 1 /\ q = Q
    BY <1>1, <2>1
  <2> HIDE DEF m
  <2>3. Read(p, m) = Read(Q, m)
    BY <1>4, <2>2
  <2> QED
    BY <1>6, <2>3 DEF m
<1> QED
  BY <1>5, <1>6, <1>7, <1>8 DEF DrainHas

\* fill and extend write one value of replace_with.
LEMMA SpliceWritesHas ==
  ASSUME BorrowInv, NEW e \in Elem,
         fill(e) \/ \E hint \in Nat, oom \in BOOLEAN : Splice_extend(e, hint, oom)
  PROVE  DrainHas' /\ it'.kind \in {"drain", "splice"}
<1>1. Drains /\ it.kind = "splice" /\ it.pc \in {"fill", "refill", "extend"}
  BY DEF Drains, fill, Splice_extend
<1>2. /\ Inv /\ DrainOK /\ DrainHas /\ WF(Q) /\ Q.len \in Nat /\ capacity(Q) \in Nat
      /\ Q.len <= capacity(Q) /\ it.d \in DEQS /\ DOMAIN it = DrainFields
  BY <1>1, DrainFinds
<1>3. it.next = it.back /\ it.collected = <<>> /\ it.tail_len \in Nat /\ it.ins \in Seq(Elem)
      /\ it.tail_start \in Nat /\ it.tail_start + it.tail_len <= capacity(Q)
  BY <1>1, <1>2 DEF DrainHas, DrainOK
<1>4. <<e>> \in Seq(Elem) /\ Len(<<e>>) = 1 /\ Append(it.ins, e) = it.ins \o <<e>>
  BY <1>3
<1>5. ASSUME NEW q, WF(q), q.len = Q.len, Contents(q) = Contents(Q), q.len + 1 <= capacity(q),
             it.tail_len > 0 => q = Q /\ Q.len + 1 <= it.tail_start,
             Holds(PushAll(q, <<e>>)),
             it' = [it EXCEPT !.left = @ - 1, !.ins = Append(@, e)],
             it.pc \in {"fill", "refill"} => it.tail_len > 0
      PROVE  DrainHas' /\ it'.kind \in {"drain", "splice"}
  <2>1. /\ it'.d = it.d /\ it'.kind = it.kind /\ it'.pc = it.pc
        /\ it'.pre = it.pre /\ it'.ins = it.ins \o <<e>> /\ it'.start = it.start
        /\ it'.end = it.end /\ it'.next = it.next /\ it'.back = it.back
        /\ it'.tail_start = it.tail_start /\ it'.tail_len = it.tail_len
        /\ it'.left = it.left - 1 /\ it'.collected = <<>>
    BY <1>2, <1>3, <1>4, <1>5 DEF DrainFields
  <2> DEFINE s == <<e>>
  <2>2. /\ s \in Seq(Elem) /\ q.len + Len(s) <= capacity(q)
        /\ it.tail_len > 0 => q = Q /\ Q.len + Len(s) <= it.tail_start
        /\ Holds(PushAll(q, s)) /\ it'.ins = it.ins \o s
    BY <1>1, <1>4, <1>5, <2>1
  <2> HIDE DEF s
  <2>3. DrainHas'
    BY <1>1, <1>3, <1>5, <2>1, <2>2, DrainWritesHas
  <2> QED
    BY <1>1, <2>1, <2>3
<1>6. CASE fill(e)
  <2>1. /\ it.pc \in {"fill", "refill"} /\ Q.len < it.tail_start /\ Holds(PushAll(Q, <<e>>))
        /\ it' = [it EXCEPT !.left = @ - 1, !.ins = Append(@, e)]
    BY <1>6 DEF fill
  <2>2. Q.len + 1 <= it.tail_start /\ Q.len + 1 <= capacity(Q)
    BY <1>2, <1>3, <2>1
  <2>3. it.tail_len > 0
    BY <1>2, <2>1 DEF DrainHas
  <2> QED
    BY <1>2, <1>5, <2>1, <2>2, <2>3
<1>7. ASSUME NEW hint \in Nat, NEW oom \in BOOLEAN, Splice_extend(e, hint, oom)
      PROVE  DrainHas' /\ it'.kind \in {"drain", "splice"}
  <2> DEFINE r == IF is_full(Q) THEN try_reserve(Q, hint + 1, oom) ELSE Ok(Q)
  <2>1. it.tail_len = 0 /\ it.pc = "extend"
    BY <1>2, <1>7 DEF Splice_extend, DrainOK
  <2>2. CASE ~r.ok
    <3>1. LeavesSplice(TRUE) /\ dq' = dq
      BY <1>7, <2>2 DEF Splice_extend
    <3> QED
      BY <1>1, <2>1, <3>1, DrainStepHas
  <2>3. CASE r.ok
    <3>1. Holds(PushAll(r.q, <<e>>)) /\ it' = [it EXCEPT !.left = @ - 1, !.ins = Append(@, e)]
      BY <1>7, <2>3 DEF Splice_extend
    <3>2. WF(r.q) /\ r.q.len = Q.len /\ Contents(r.q) = Contents(Q) /\ r.q.len + 1 <= capacity(r.q)
      <4>1. CASE is_full(Q)
        <5>1. r = try_reserve(Q, hint + 1, oom) /\ hint + 1 \in Nat
          BY <4>1
        <5> DEFINE n == hint + 1
        <5>2. /\ WF(r.q) /\ r.q.len = Q.len /\ Contents(r.q) = Contents(Q)
              /\ capacity(r.q) >= Q.len + n /\ n >= 1 /\ n \in Nat
          <6>1. n \in Nat /\ try_reserve(Q, n, oom).ok /\ n >= 1
            BY <2>3, <5>1
          <6> HIDE DEF n
          <6> QED
            BY <1>2, <5>1, <6>1, TryReserveContents DEF n
        <5>3. capacity(r.q) \in Nat
          BY <5>2, Basics
        <5> HIDE DEF n, r
        <5> QED
          BY <1>2, <5>2, <5>3
      <4>2. CASE ~is_full(Q)
        BY <1>2, <4>2 DEF is_full, Ok
      <4> QED
        BY <4>1, <4>2
    <3> HIDE DEF r
    <3> QED
      BY <1>5, <2>1, <3>1, <3>2
  <2> QED
    BY <2>2, <2>3
<1> QED
  BY <1>6, <1>7

\* Splice_last writes the collected values.
LEMMA LastHas ==
  ASSUME BorrowInv, Splice_last
  PROVE  DrainHas' /\ it'.kind = "drain"
<1>1. Drains /\ it.pc = "last"
  BY DEF Splice_last, Drains
<1>2. /\ Inv /\ DrainOK /\ DrainHas /\ WF(Q) /\ Q.len \in Nat /\ capacity(Q) \in Nat
      /\ Q.len <= capacity(Q) /\ it.d \in DEQS /\ DOMAIN it = DrainFields
  BY <1>1, DrainFinds
<1> DEFINE s == it.collected
<1>3. /\ it.next = it.back /\ it.tail_len \in Nat /\ s \in Seq(Elem)
      /\ Q.len + Len(s) <= it.tail_start /\ Q.len + Len(s) <= capacity(Q)
  <2>1. it.next = it.back /\ it.tail_len \in Nat /\ s \in Seq(Elem)
    BY <1>1, <1>2 DEF DrainHas, DrainOK
  <2>2. /\ Q.len + Len(s) <= it.tail_start /\ it.tail_start \in Nat
        /\ it.tail_start + it.tail_len <= capacity(Q) /\ Len(s) \in Nat
    BY <1>1, <1>2, <2>1 DEF DrainOK
  <2> QED
    BY <1>2, <2>1, <2>2
<1>4. /\ it'.d = it.d /\ it'.kind = "drain" /\ it'.pc = "exhaust"
      /\ it'.pre = it.pre /\ it'.ins = it.ins \o s /\ it'.start = it.start
      /\ it'.end = it.end /\ it'.next = it.next /\ it'.back = it.back
      /\ it'.tail_start = it.tail_start /\ it'.tail_len = it.tail_len /\ it'.collected = <<>>
  BY <1>2 DEF Splice_last, DrainFields
<1>5. Holds(PushAll(Q, s))
  BY DEF Splice_last
<1> HIDE DEF s
<1> DEFINE q == Q
<1>6. /\ WF(q) /\ q.len = Q.len /\ Contents(q) = Contents(Q) /\ q.len + Len(s) <= capacity(q)
      /\ it.tail_len > 0 => q = Q /\ Q.len + Len(s) <= it.tail_start
      /\ Holds(PushAll(q, s))
  BY <1>2, <1>3, <1>5
<1>7. PICK b : b = q
  OBVIOUS
<1>8. DrainHas'
  BY <1>1, <1>3, <1>4, <1>6, <1>7, DrainWritesHas
<1> QED
  BY <1>4, <1>8

\* The tail moves back in a buffer that has room for it.
LEMMA TailMovesHas ==
  ASSUME BorrowInv, it.kind = "splice", it.pc \in {"hint", "collect"}, NEW pc \in {"refill", "last"},
         NEW extra \in Nat, NEW s \in Seq(Elem), NEW oom, Holds(MoveTail(extra, oom).q),
         it' = [it EXCEPT !.pc = pc, !.tail_start = @ + extra, !.collected = s,
                          !.left = @ - Len(s)],
         pc = "refill" => s = <<>>, TailStays
  PROVE  DrainHas' /\ it'.kind \in {"drain", "splice"}
<1>1. Drains
  BY DEF Drains
<1>2. /\ Inv /\ DrainOK /\ DrainHas /\ WF(Q) /\ Q.len \in Nat /\ capacity(Q) \in Nat
      /\ Q.len <= capacity(Q) /\ it.d \in DEQS /\ DOMAIN it = DrainFields
  BY <1>1, DrainFinds
<1>3. /\ it.next = it.back /\ it.tail_len \in Nat /\ it.tail_len > 0 /\ Q.len = it.tail_start
      /\ it.tail_start \in Nat
  BY <1>2 DEF DrainHas, DrainOK
<1> DEFINE n == it.tail_start + it.tail_len + extra
           b == reserve_capacity(Q, n, oom)
           m == it.tail_start + extra
           r == MoveTail(extra, oom)
           c == Copy(Q, it.tail_start, Q, m, it.tail_len)
<1>4. n <= capacity(Q) /\ m \in Nat /\ Q.len <= m /\ m + it.tail_len <= capacity(Q)
  <2>1. it'.tail_start = m /\ it'.tail_len = it.tail_len
    BY <1>2 DEF DrainFields
  <2> QED
    BY <1>2, <1>3, <2>1 DEF TailStays
<1>5. b = Ok(Q)
  BY <1>4 DEF reserve_capacity
<1>6. r = Ok(c)
  <2>1. r = IF b.ok THEN Ok(Copy(b.q, it.tail_start, b.q, m, it.tail_len)) ELSE b
    BY DEF MoveTail
  <2>2. b.ok /\ b.q = Q
    BY <1>5 DEF Ok
  <2> QED
    BY <2>1, <2>2
<1>7. /\ WF(c) /\ c.len = Q.len /\ capacity(c) = capacity(Q) /\ Contents(c) = Contents(Q)
      /\ \A l \in 0 .. it.tail_len - 1 : Read(c, m + l) = Read(Q, it.tail_start + l)
  <2> DEFINE q == Q
             a == it.tail_start
             k == it.tail_len
             x == m
  <2>1. WF(q) /\ a \in Nat /\ x \in Nat /\ k \in Nat /\ k > 0 /\ q.len <= x /\ x + k <= capacity(q)
    BY <1>2, <1>3, <1>4
  <2> HIDE DEF q, a, k, x
  <2>2. LET y == Copy(q, a, q, x, k)
        IN  /\ WF(y) /\ y.len = q.len /\ capacity(y) = capacity(q) /\ Contents(y) = Contents(q)
            /\ \A l \in 0 .. k - 1 : Read(y, x + l) = Read(q, a + l)
    BY ONLY <2>1, CopyBehind, ZenonT(200)
  <2> QED
    BY <2>2 DEF q, a, k, x
<1>8. Holds(c)
  BY <1>6 DEF Ok
<1>9. Q' = c
  <2>1. it'.d = it.d
    BY <1>2 DEF DrainFields
  <2> QED
    BY <1>2, <1>8, <2>1 DEF Inv, Holds, Q
<1>10. /\ it'.d = it.d /\ it'.kind = it.kind /\ it'.pc = pc
       /\ it'.pre = it.pre /\ it'.ins = it.ins /\ it'.start = it.start
       /\ it'.end = it.end /\ it'.next = it.next /\ it'.back = it.back
       /\ it'.tail_start = m /\ it'.tail_len = it.tail_len
       /\ it'.collected = s
  BY <1>2 DEF DrainFields
<1> HIDE DEF c, m
<1>11. /\ it.pre \in Seq(Slot) /\ it.ins \in Seq(Elem) /\ it.start \in Nat /\ it.end \in Nat
       /\ it.next \in Nat /\ it.start <= it.next /\ it.next <= it.end /\ it.end <= Len(it.pre)
       /\ it.tail_len = Len(it.pre) - it.end
       /\ Contents(Q) = SubSeq(it.pre, 1, it.start) \o it.ins
       /\ \A l \in 0 .. it.tail_len - 1 : Read(Q, it.tail_start + l) = it.pre[it.end + l + 1]
  BY <1>2, <1>3 DEF DrainHas
<1>12. \A l \in 0 .. it.tail_len - 1 : Read(c, m + l) = it.pre[it.end + l + 1]
  BY <1>7, <1>11
<1>13. it'.pc # "last" => it'.collected = <<>>
  BY <1>10
<1>14. DrainHas'
  <2> DEFINE o == it'
  <2>1. /\ o.pre \in Seq(Slot) /\ o.ins \in Seq(Elem) /\ o.start \in Nat /\ o.next \in Nat
        /\ o.back \in Nat /\ o.end \in Nat /\ o.start <= o.next /\ o.next <= o.back
        /\ o.back <= o.end /\ o.end <= Len(o.pre) /\ o.tail_len = Len(o.pre) - o.end
        /\ o.next = o.back
    BY <1>3, <1>10, <1>11
  <2>2. /\ Contents(Q') = SubSeq(o.pre, 1, o.start) \o o.ins
        /\ \A l \in 0 .. o.tail_len - 1 : Read(Q', o.tail_start + l) = o.pre[o.end + l + 1]
        /\ o.tail_len > 0
    BY <1>3, <1>7, <1>9, <1>10, <1>11, <1>12
  <2>3. o.pc \notin {"hint", "collect"}
    BY <1>10
  <2>4. \A l \in o.next .. o.back - 1 : Read(Q', l) = o.pre[l + 1]
    BY <2>1
  <2> QED
    BY <1>13, <2>1, <2>2, <2>3, <2>4 DEF DrainHas
<1> QED
  BY <1>10, <1>14

\* A splice makes room for the tail where it is, or the allocation of a larger
\* buffer fails.
LEMMA MakeRoomHas ==
  ASSUME BorrowInv, it.kind = "splice", it.pc \in {"hint", "collect"}, NEW pc \in {"refill", "last"},
         NEW extra \in Nat, NEW s \in Seq(Elem), NEW oom, MakeRoom(pc, extra, s, oom),
         pc = "refill" => s = <<>>, TailStays
  PROVE  DrainHas' /\ it'.kind \in {"drain", "splice"}
<1>1. CASE LeavesSplice(TRUE) /\ dq' = dq
  BY <1>1, DrainStepHas
<1>2. CASE /\ Holds(MoveTail(extra, oom).q)
           /\ it' = [it EXCEPT !.pc = pc, !.tail_start = @ + extra, !.collected = s,
                               !.left = @ - Len(s)]
  BY <1>2, TailMovesHas
<1> QED
  BY <1>1, <1>2 DEF MakeRoom

\* The two steps of Splice that make room.
LEMMA HintHas ==
  ASSUME BorrowInv, NEW lower \in Nat, NEW oom, Splice_hint(lower, oom), TailStays
  PROVE  DrainHas' /\ it'.kind \in {"drain", "splice"}
<1>1. it.kind = "splice" /\ it.pc = "hint"
  BY DEF Splice_hint
<1>2. CASE it' = [it EXCEPT !.pc = "collect"] /\ dq' = dq
  BY <1>1, <1>2, DrainStepHas
<1>3. CASE MakeRoom("refill", lower, <<>>, oom)
  <2>1. <<>> \in Seq(Elem)
    OBVIOUS
  <2> QED
    BY <1>1, <1>3, <2>1, MakeRoomHas
<1> QED
  BY <1>2, <1>3 DEF Splice_hint

\* See HintHas.
LEMMA CollectHas ==
  ASSUME BorrowInv, NEW s \in Seq(Elem), NEW oom, Splice_collect(s, oom), TailStays
  PROVE  DrainHas' /\ it'.kind \in {"drain", "splice"}
<1>1. it.kind = "splice" /\ it.pc = "collect" /\ Len(s) = it.left /\ Len(s) \in Nat
  BY DEF Splice_collect
<1>2. CASE LeavesSplice(FALSE) /\ dq' = dq
  BY <1>1, <1>2, DrainStepHas
<1>3. CASE MakeRoom("last", Len(s), s, oom)
  BY <1>1, <1>3, MakeRoomHas
<1> QED
  BY <1>2, <1>3 DEF Splice_collect

\* The part of the contents that Drain puts back behind the slice.
LEMMA RestoreHas ==
  ASSUME BorrowInv, restore_tail
  PROVE  LET u == SubSeq(it.pre, it.end + 1, Len(it.pre))
         IN  /\ u \in Seq(Slot) /\ Contents(Q) \in Seq(Slot)
             /\ Contents(dq'[it.d]) = Contents(Q) \o u
<1>1. Drains
  BY DEF Drains, restore_tail
<1>2. /\ Inv /\ DrainOK /\ DrainHas /\ WF(Q) /\ Q.len \in Nat /\ capacity(Q) \in Nat
      /\ Q.len <= capacity(Q) /\ it.d \in DEQS /\ DOMAIN it = DrainFields
  BY <1>1, DrainFinds
<1> DEFINE u == SubSeq(it.pre, it.end + 1, Len(it.pre))
           n == it.tail_len
           q == Q
           c == Copy(Q, it.tail_start, Q, Q.len, n)
           p == IF n = 0 THEN Q ELSE move_tail_unchecked(c, n)
<1>3. /\ it.pre \in Seq(Slot) /\ it.end \in Nat /\ it.end <= Len(it.pre) /\ n = Len(it.pre) - it.end
      /\ \A l \in 0 .. n - 1 : Read(Q, it.tail_start + l) = it.pre[it.end + l + 1]
      /\ n \in Nat /\ it.tail_start \in Nat /\ it.tail_start + n <= capacity(Q)
      /\ n > 0 => Q.len <= it.tail_start
  BY <1>2 DEF DrainHas, DrainOK
<1>4. u \in Seq(Slot) /\ Len(u) = n /\ \A l \in 0 .. n - 1 : u[l + 1] = it.pre[it.end + l + 1]
  <2> DEFINE s == it.pre
             a == it.end + 1
             z == Len(s)
  <2>1. s \in Seq(Slot) /\ a \in Nat \ {0} /\ z \in Nat /\ z <= Len(s) /\ a <= z + 1 /\ n = z - a + 1
    BY <1>3
  <2> HIDE DEF s, a, z
  <2>2. /\ SubSeq(s, a, z) \in Seq(Slot) /\ Len(SubSeq(s, a, z)) = n
        /\ \A i \in 1 .. n : SubSeq(s, a, z)[i] = s[i + a - 1]
    BY <2>1, SubSeqAt
  <2>3. u = SubSeq(s, a, z) /\ n \in Nat
    BY <1>3 DEF s, a, z
  <2> HIDE DEF u, n
  <2>4. ASSUME NEW l \in 0 .. n - 1 PROVE u[l + 1] = it.pre[it.end + l + 1]
    <3>1. l + 1 \in 1 .. n /\ (l + 1) + a - 1 = it.end + l + 1
      <4>1. it.end \in Nat
        BY <1>3
      <4> QED
        BY <2>3, <4>1 DEF a
    <3>2. u[l + 1] = s[(l + 1) + a - 1]
      BY <2>2, <2>3, <3>1
    <3> QED
      BY <3>1, <3>2 DEF s
  <2> QED
    BY <2>2, <2>3, <2>4
<1>5. Contents(Q) \in Seq(Slot)
  BY <1>2, ContentsSeq
<1> HIDE DEF u
<1>6. WF(p) /\ Contents(p) = Contents(Q) \o u
  <2>1. CASE n = 0
    <3>1. u = <<>>
      BY <1>4, <2>1
    <3>2. Contents(Q) \o <<>> = Contents(Q)
      BY <1>5
    <3> QED
      BY <1>2, <2>1, <3>1, <3>2
  <2>2. CASE n # 0
    <3>1. n > 0 /\ q.len \in Nat /\ q.len <= q.len /\ q.len + n <= capacity(q) /\ WF(q)
      BY <1>2, <1>3, <2>2
    <3> DEFINE b == q.len
    <3>2. /\ WF(c) /\ c.len = q.len /\ capacity(c) = capacity(q) /\ Contents(c) = Contents(q)
          /\ \A l \in 0 .. n - 1 : Read(c, b + l) = Read(q, it.tail_start + l)
      <4> DEFINE a == it.tail_start
      <4>1. WF(q) /\ a \in Nat /\ b \in Nat /\ n \in Nat /\ n > 0 /\ q.len <= b /\ b + n <= capacity(q)
        BY <1>3, <3>1
      <4>2. c = Copy(q, a, q, b, n)
        OBVIOUS
      <4> HIDE DEF b, q, n, c, a
      <4>3. LET y == Copy(q, a, q, b, n)
            IN  /\ WF(y) /\ y.len = q.len /\ capacity(y) = capacity(q) /\ Contents(y) = Contents(q)
                /\ \A l \in 0 .. n - 1 : Read(y, b + l) = Read(q, a + l)
        BY ONLY <4>1, CopyBehind, ZenonT(200)
      <4> QED
        BY <4>2, <4>3 DEF a
    <3>3. \A l \in 0 .. n - 1 : Read(c, c.len + l) = u[l + 1]
      BY <1>3, <1>4, <3>2
    <3> HIDE DEF c, n
    <3>4. /\ WF(move_tail_unchecked(c, n))
          /\ Contents(move_tail_unchecked(c, n)) = Contents(c) \o u
      BY <1>3, <1>4, <3>1, <3>2, <3>3, GrowContents
    <3> QED
      BY <2>2, <3>2, <3>4
  <2> QED
    BY <2>1, <2>2
<1>7. Closes(p)
  BY DEF restore_tail
<1> HIDE DEF p
<1>8. dq'[it.d] = Settle(p)
  BY <1>2, <1>7 DEF Closes, Becomes, Inv
<1>9. Contents(dq'[it.d]) = Contents(p)
  BY <1>6, <1>8, SettleContents
<1> QED
  BY <1>4, <1>5, <1>6, <1>9 DEF u

-----------------------------------------------------------------------------
(* The borrow begins.                                                      *)

\* The slice is cut: its first n elements stay, and every slot holds what it held.
LEMMA CutHas ==
  ASSUME Inv, NEW d \in DEQS, NEW n \in Nat, n <= dq[d].len, dq' = [dq EXCEPT ![d].len = n]
  PROVE  /\ Contents(dq'[d]) = SubSeq(Contents(dq[d]), 1, n)
         /\ \A l : Read(dq'[d], l) = Read(dq[d], l)
         /\ dq'[d].len = n /\ capacity(dq'[d]) = capacity(dq[d])
<1> DEFINE q == dq[d]
           p == move_tail_unchecked(q, -(q.len - n))
<1>1. WF(q) /\ q.len \in Nat /\ n \in 0 .. q.len
  BY Basics DEF Inv
<1>2. dq'[d] = [q EXCEPT !.len = n]
  BY DEF Inv
<1>3. p = [q EXCEPT !.len = n]
  <2>1. q.len + (-(q.len - n)) = n
    BY <1>1
  <2> QED
    BY <2>1 DEF move_tail_unchecked
<1>4. p.len = n /\ capacity(p) = capacity(q) /\ Contents(p) = SubSeq(Contents(q), 1, n)
  BY <1>1, TailCut
<1>5. \A l : Read(p, l) = Read(q, l)
  BY <1>1, MoveTailRead
<1> HIDE DEF p
<1> QED
  BY <1>2, <1>3, <1>4, <1>5

\* drain and splice; a splice with a tail has room for its n values.
LEMMA DrainOpensHas ==
  ASSUME IterInv, NEW d \in DEQS, NEW i \in Nat, NEW j \in Nat, NEW kind \in {"drain", "splice"},
         NEW n \in Nat, drain(d, i, j, kind, n), it' # it
  PROVE  DrainHas' /\ it'.kind = kind /\ it'.pre = Contents(dq[d])
<1>1. Inv /\ WF(dq[d])
  BY DEF IterInv, Inv
<1>2. dq[d].len \in Nat /\ capacity(dq[d]) \in Nat /\ dq[d].len <= capacity(dq[d])
  BY <1>1, Basics
<1>3. /\ i <= j /\ j <= dq[d].len /\ dq' = [dq EXCEPT ![d].len = i]
      /\ it' = [kind |-> kind, d |-> d, pc |-> "open", panics |-> FALSE,
                next |-> i, back |-> j, left |-> n, collected |-> <<>>,
                tail_start |-> j, tail_len |-> dq[d].len - j,
                pre |-> Contents(dq[d]), start |-> i, end |-> j, ins |-> <<>>]
  BY DEF drain
<1> DEFINE s == Contents(dq[d])
           q == dq'[d]
<1>4. s \in Seq(Slot) /\ Len(s) = dq[d].len /\ \A l \in 0 .. dq[d].len - 1 : s[l + 1] = Read(dq[d], l)
  BY <1>1, ContentsSeq
<1>5. /\ Contents(q) = SubSeq(s, 1, i) /\ \A l : Read(q, l) = Read(dq[d], l)
      /\ q.len = i /\ capacity(q) = capacity(dq[d])
  <2>1. i <= dq[d].len /\ dq' = [dq EXCEPT ![d].len = i]
    BY <1>2, <1>3
  <2> QED
    BY <1>1, <2>1, CutHas
<1>6. Q' = q
  BY <1>3 DEF Q
<1> HIDE DEF s, q
<1>7. /\ it'.kind = kind /\ it'.pc = "open" /\ it'.next = i /\ it'.back = j /\ it'.left = n
      /\ it'.collected = <<>> /\ it'.tail_start = j /\ it'.tail_len = dq[d].len - j
      /\ it'.pre = s /\ it'.start = i /\ it'.end = j /\ it'.ins = <<>>
  BY <1>3 DEF s
<1>8. SubSeq(s, 1, i) \o <<>> = SubSeq(s, 1, i)
  <2>1. SubSeq(s, 1, i) \in Seq(Slot)
    BY <1>2, <1>3, <1>4
  <2> QED
    BY <2>1
<1>9. ASSUME NEW l \in i .. j - 1 PROVE Read(q, l) = s[l + 1]
  <2>1. l \in 0 .. dq[d].len - 1
    BY <1>2, <1>3
  <2> QED
    BY <1>4, <1>5, <2>1
<1>10. ASSUME NEW l \in 0 .. (dq[d].len - j) - 1 PROVE Read(q, j + l) = s[j + l + 1]
  <2> DEFINE m == j + l
  <2>1. m \in 0 .. dq[d].len - 1
    BY <1>2, <1>3
  <2> HIDE DEF m
  <2>2. Read(q, m) = s[m + 1]
    BY <1>4, <1>5, <2>1
  <2> QED
    BY <2>2 DEF m
<1>11. DrainHas'
  <2> DEFINE o == it'
  <2>1. /\ o.pre \in Seq(Slot) /\ o.ins \in Seq(Elem) /\ o.start \in Nat /\ o.next \in Nat
        /\ o.back \in Nat /\ o.end \in Nat /\ o.start <= o.next /\ o.next <= o.back
        /\ o.back <= o.end /\ o.end <= Len(o.pre) /\ o.tail_len = Len(o.pre) - o.end
    BY <1>2, <1>3, <1>4, <1>7
  <2>2. Contents(Q') = SubSeq(o.pre, 1, o.start) \o o.ins
    BY <1>5, <1>6, <1>7, <1>8
  <2>3. \A l \in o.next .. o.back - 1 : Read(Q', l) = o.pre[l + 1]
    BY <1>6, <1>7, <1>9
  <2>4. \A l \in 0 .. o.tail_len - 1 : Read(Q', o.tail_start + l) = o.pre[o.end + l + 1]
    BY <1>6, <1>7, <1>10
  <2>5. o.pc = "open" /\ o.collected = <<>>
    BY <1>7
  <2> QED
    BY <2>1, <2>2, <2>3, <2>4, <2>5 DEF DrainHas
<1> QED
  BY <1>7, <1>11 DEF s

\* drain_filter.
LEMMA FilterOpensHas ==
  ASSUME IterInv, NEW d \in DEQS, drain_filter(d)
  PROVE  FilterHas' /\ it'.kind = "filter" /\ it'.pre = Contents(dq[d])
<1>1. Inv /\ WF(dq[d])
  BY DEF IterInv, Inv
<1>2. dq[d].len \in Nat
  BY <1>1, Basics
<1>3. /\ dq' = [dq EXCEPT ![d].len = 0]
      /\ it' = [kind |-> "filter", d |-> d, pc |-> "open", panics |-> FALSE,
                idx |-> 0, del |-> 0, old_len |-> dq[d].len,
                pre |-> Contents(dq[d]), kept |-> <<>>]
  BY DEF drain_filter
<1> DEFINE s == Contents(dq[d])
           q == dq'[d]
<1>4. s \in Seq(Slot) /\ Len(s) = dq[d].len /\ \A l \in 0 .. dq[d].len - 1 : s[l + 1] = Read(dq[d], l)
  BY <1>1, ContentsSeq
<1>5. \A l : Read(q, l) = Read(dq[d], l)
  <2>1. 0 \in Nat /\ 0 <= dq[d].len /\ dq' = [dq EXCEPT ![d].len = 0]
    BY <1>2, <1>3
  <2> QED
    BY <1>1, <2>1, CutHas
<1>6. Q' = q
  BY <1>3 DEF Q
<1> HIDE DEF s, q
<1>7. /\ it'.kind = "filter" /\ it'.idx = 0 /\ it'.del = 0 /\ it'.old_len = dq[d].len
      /\ it'.pre = s /\ it'.kept = <<>>
  BY <1>3 DEF s
<1>8. FilterHas'
  BY <1>2, <1>4, <1>5, <1>6, <1>7 DEF FilterHas
<1> QED
  BY <1>7, <1>8 DEF s

\* retain and dedup_by.
LEMMA SiftOpensHas ==
  ASSUME IterInv, NEW d \in DEQS, NEW first \in Nat, first <= dq[d].len, Sifts(d, first)
  PROVE  SiftHas' /\ it'.kind = "sift"
<1>1. Inv /\ WF(dq[d])
  BY DEF IterInv, Inv
<1>2. dq[d].len \in Nat
  BY <1>1, Basics
<1>3. /\ dq' = dq
      /\ it' = [kind |-> "sift", d |-> d, pc |-> "loop", idx |-> first, w |-> first,
                pre |-> Contents(dq[d]), kept |-> SubSeq(Contents(dq[d]), 1, first)]
  BY DEF Sifts
<1> DEFINE s == Contents(dq[d])
           u == SubSeq(s, 1, first)
<1>4. s \in Seq(Slot) /\ Len(s) = dq[d].len /\ \A l \in 0 .. dq[d].len - 1 : s[l + 1] = Read(dq[d], l)
  BY <1>1, ContentsSeq
<1>5. Q' = dq[d]
  BY <1>3 DEF Q
<1>6. u \in Seq(Slot) /\ Len(u) = first /\ \A l \in 0 .. first - 1 : u[l + 1] = s[l + 1]
  <2> HIDE DEF s
  <2> QED
    BY <1>2, <1>4
<1>7. it'.kind = "sift" /\ it'.w = first /\ it'.idx = first /\ it'.pre = s /\ it'.kept = u
  BY <1>3
<1>8. /\ \A l \in 0 .. first - 1 : Read(dq[d], l) = u[l + 1]
      /\ \A l \in first .. dq[d].len - 1 : Read(dq[d], l) = s[l + 1]
  BY <1>2, <1>4, <1>6
<1> HIDE DEF u
<1>9. SiftHas'
  BY <1>4, <1>5, <1>6, <1>7, <1>8 DEF SiftHas
<1> QED
  BY <1>7, <1>9

-----------------------------------------------------------------------------
(* DrainFilter, retain and dedup_by.                                       *)

\* A sequence and one more element, element by element.
LEMMA AppendAt ==
  ASSUME NEW V, NEW s \in Seq(V), NEW e \in V
  PROVE  /\ Append(s, e) \in Seq(V) /\ Len(Append(s, e)) = Len(s) + 1
         /\ \A i \in 1 .. Len(s) : Append(s, e)[i] = s[i]
         /\ Append(s, e)[Len(s) + 1] = e
  OBVIOUS

\* What a step of DrainFilter finds.
LEMMA FilterFinds ==
  ASSUME BorrowInv, it.kind = "filter"
  PROVE  /\ Inv /\ FilterOK /\ FilterHas /\ WF(Q) /\ capacity(Q) \in Nat /\ it.d \in DEQS
         /\ DOMAIN it = FilterFields /\ it.idx \in Nat /\ it.del \in Nat /\ it.old_len \in Nat
         /\ it.del <= it.idx /\ it.idx <= it.old_len /\ it.old_len <= capacity(Q)
  BY Filtering DEF BorrowInv, FilterOK

\* The element in slot idx is kept: q holds it in the slot behind those that
\* were kept before, and the other slots that matter are as they were.
LEMMA FilterKeepsOne ==
  ASSUME BorrowInv, Tests, NEW q,
         Q' = q, it'.d = it.d, it'.idx = it.idx + 1, it'.del = it.del, it'.old_len = it.old_len,
         it'.pre = it.pre, it'.kept = Append(it.kept, Read(Q, it.idx)),
         Read(q, it.idx - it.del) = Read(Q, it.idx),
         \A l \in 0 .. it.idx - it.del - 1 : Read(q, l) = Read(Q, l),
         \A l \in it.idx + 1 .. it.old_len - 1 : Read(q, l) = Read(Q, l)
  PROVE  FilterHas'
<1>1. /\ FilterHas /\ it.idx \in Nat /\ it.del \in Nat /\ it.old_len \in Nat
      /\ it.del <= it.idx /\ it.idx <= it.old_len /\ it.idx # it.old_len
  BY FilterFinds DEF Tests
<1> DEFINE k == it.idx - it.del
           e == Read(Q, it.idx)
           s == it.kept
           u == Append(s, e)
<1>2. /\ it.pre \in Seq(Slot) /\ s \in Seq(Slot) /\ Len(it.pre) = it.old_len /\ Len(s) = k
      /\ \A l \in 0 .. k - 1 : Read(Q, l) = s[l + 1]
      /\ \A l \in it.idx .. it.old_len - 1 : Read(Q, l) = it.pre[l + 1]
  BY <1>1 DEF FilterHas
<1>3. e \in Slot
  <2>1. it.idx \in it.idx .. it.old_len - 1 /\ it.idx + 1 \in 1 .. Len(it.pre)
    BY <1>1, <1>2
  <2>2. e = it.pre[it.idx + 1]
    BY <1>2, <2>1
  <2> QED
    BY <1>2, <2>1, <2>2
<1>4. /\ Read(q, k) = e
      /\ \A l \in 0 .. k - 1 : Read(q, l) = Read(Q, l)
  OBVIOUS
<1>5. k \in Nat
  BY <1>1
<1> HIDE DEF k, e, s
<1>6. /\ u \in Seq(Slot) /\ Len(u) = k + 1 /\ \A i \in 1 .. k : u[i] = s[i]
      /\ u[k + 1] = e
  BY <1>2, <1>3, AppendAt
<1> HIDE DEF u
<1>7. \A l \in 0 .. (k + 1) - 1 : Read(q, l) = u[l + 1]
  <2> SUFFICES ASSUME NEW l \in 0 .. (k + 1) - 1 PROVE Read(q, l) = u[l + 1]
    OBVIOUS
  <2>1. CASE l = k
    BY <1>4, <1>6, <2>1
  <2>2. CASE l # k
    <3>1. l \in 0 .. k - 1 /\ l + 1 \in 1 .. k
      BY <1>5, <2>2
    <3> QED
      BY <1>2, <1>4, <1>6, <3>1
  <2> QED
    BY <2>1, <2>2
<1>8. \A l \in it.idx + 1 .. it.old_len - 1 : Read(q, l) = it.pre[l + 1]
  <2> SUFFICES ASSUME NEW l \in it.idx + 1 .. it.old_len - 1 PROVE Read(q, l) = it.pre[l + 1]
    OBVIOUS
  <2>1. l \in it.idx .. it.old_len - 1
    BY <1>1
  <2> QED
    BY <1>2, <2>1
<1>9. it'.idx - it'.del = k + 1 /\ it'.kept = u
  BY <1>1 DEF k, u, e, s
<1> QED
  BY <1>2, <1>6, <1>7, <1>8, <1>9 DEF FilterHas

\* The predicate is called for the element in slot idx.
LEMMA FilterReads ==
  ASSUME BorrowInv, Tests
  PROVE  Read(Q, it.idx) = Tested
<1>1. /\ FilterHas /\ it.idx \in Nat /\ it.old_len \in Nat /\ it.idx <= it.old_len
      /\ it.idx # it.old_len
  BY FilterFinds DEF Tests
<1>2. it.idx \in it.idx .. it.old_len - 1
  BY <1>1
<1> QED
  BY <1>1, <1>2 DEF FilterHas, Tested

\* Filter_keep moves the element over the gap.
LEMMA FilterKeepHas ==
  ASSUME BorrowInv, Filter_keep
  PROVE  FilterHas' /\ it'.kind = "filter"
<1>1. it.kind = "filter" /\ Tests
  BY DEF Filter_keep, Tests
<1>2. /\ Inv /\ FilterOK /\ WF(Q) /\ capacity(Q) \in Nat /\ it.d \in DEQS
      /\ DOMAIN it = FilterFields /\ it.idx \in Nat /\ it.del \in Nat /\ it.old_len \in Nat
      /\ it.del <= it.idx /\ it.idx <= it.old_len /\ it.old_len <= capacity(Q)
      /\ it.idx # it.old_len
  BY <1>1, FilterFinds DEF Tests
<1> DEFINE k == it.idx - it.del
           p == IF it.del > 0 THEN Copy(Q, it.idx, Q, k, 1) ELSE Q
<1>3. /\ it'.d = it.d /\ it'.kind = it.kind /\ it'.idx = it.idx + 1 /\ it'.del = it.del
      /\ it'.old_len = it.old_len /\ it'.pre = it.pre
      /\ it'.kept = Append(it.kept, Read(Q, it.idx))
  BY <1>1, <1>2, FilterReads DEF Filter_keep, FilterFields
<1>4. Q' = p
  BY <1>2, <1>3 DEF Filter_keep, Holds, Inv, Q
<1>5. /\ k \in Nat /\ k <= it.idx /\ it.idx < it.old_len /\ (it.del > 0 => k < it.idx)
      /\ (~(it.del > 0) => k = it.idx)
  BY <1>2
<1>6. \A l \in 0 .. it.old_len - 1 :
        Read(p, l) = IF l = k THEN Read(Q, it.idx) ELSE Read(Q, l)
  <2>1. CASE it.del > 0
    <3>1. Within(Q, k, 1) /\ Q.head \in Int /\ k \in Int /\ 1 \in Int /\ it.idx \in Int
      BY <1>2, <1>5 DEF Within, WF, IsDeque
    <3> SUFFICES ASSUME NEW l \in 0 .. it.old_len - 1
                 PROVE  Read(p, l) = IF l = k THEN Read(Q, it.idx) ELSE Read(Q, l)
      OBVIOUS
    <3>2. l \in 0 .. capacity(Q) - 1
      BY <1>2
    <3> HIDE DEF k
    <3>3. Read(Copy(Q, it.idx, Q, k, 1), l)
            = IF k <= l /\ l < k + 1 THEN Read(Q, it.idx + (l - k)) ELSE Read(Q, l)
      BY <1>2, <3>1, <3>2, CopyRead
    <3>4. CASE l = k
      <4>1. k <= l /\ l < k + 1 /\ it.idx + (l - k) = it.idx
        BY <3>1, <3>4
      <4> QED
        BY <2>1, <3>3, <3>4, <4>1
    <3>5. CASE l # k
      <4>1. ~(k <= l /\ l < k + 1)
        BY <3>1, <3>5
      <4> QED
        BY <2>1, <3>3, <3>5, <4>1
    <3> QED
      BY <3>4, <3>5
  <2>2. CASE ~(it.del > 0)
    BY <1>5, <2>2
  <2> QED
    BY <2>1, <2>2
<1> HIDE DEF p
<1>7. /\ Read(p, k) = Read(Q, it.idx)
      /\ \A l \in 0 .. k - 1 : Read(p, l) = Read(Q, l)
      /\ \A l \in it.idx + 1 .. it.old_len - 1 : Read(p, l) = Read(Q, l)
  <2> HIDE DEF k
  <2>1. k \in 0 .. it.old_len - 1
    BY <1>2, <1>5
  <2>2. ASSUME NEW l \in 0 .. k - 1 PROVE l \in 0 .. it.old_len - 1 /\ l # k
    BY <1>2, <1>5
  <2>3. ASSUME NEW l \in it.idx + 1 .. it.old_len - 1 PROVE l \in 0 .. it.old_len - 1 /\ l # k
    BY <1>2, <1>5
  <2> QED
    BY <1>6, <2>1, <2>2, <2>3
<1>8. FilterHas'
  BY <1>1, <1>3, <1>4, <1>7, FilterKeepsOne
<1> QED
  BY <1>1, <1>3, <1>8

\* Steps of DrainFilter that leave the deque alone.
LEMMA FilterStepHas ==
  ASSUME BorrowInv, it.kind = "filter", dq' = dq, it' # NoIter,
         \/ \E pc \in {"next", "drop"} : Filter_call(pc)
         \/ \E boom \in BOOLEAN : Filter_remove(boom)
         \/ Filter_end
         \/ (it.kind = "filter" /\ it.pc = "next" => it.del = 0) /\ Filter_panic
  PROVE  FilterHas' /\ it'.kind = "filter"
<1>1. /\ FilterHas /\ DOMAIN it = FilterFields /\ it.idx \in Nat /\ it.del \in Nat
      /\ it.old_len \in Nat /\ it.del <= it.idx /\ it.idx <= it.old_len
  BY FilterFinds
<1>2. CASE (\E pc \in {"next", "drop"} : Filter_call(pc)) \/ Filter_end
  <2>1. /\ it'.d = it.d /\ it'.kind = it.kind /\ it'.idx = it.idx /\ it'.del = it.del
        /\ it'.old_len = it.old_len /\ it'.pre = it.pre /\ it'.kept = it.kept
    BY <1>1, <1>2 DEF Filter_call, Filter_end, Closes, FilterFields
  <2>2. Q' = Q
    BY <2>1 DEF Q
  <2> QED
    BY <1>1, <2>1, <2>2 DEF FilterHas
<1>3. ASSUME NEW boom \in BOOLEAN, Filter_remove(boom) PROVE FilterHas' /\ it'.kind = "filter"
  <2>1. /\ it'.d = it.d /\ it'.kind = it.kind /\ it'.idx = it.idx + 1 /\ it'.del = it.del + 1
        /\ it'.old_len = it.old_len /\ it'.pre = it.pre /\ it'.kept = it.kept
        /\ it.idx # it.old_len
    BY <1>1, <1>3 DEF Filter_remove, Closes, FilterFields, Tests
  <2>2. Q' = Q
    BY <2>1 DEF Q
  <2>3. it'.idx - it'.del = it.idx - it.del
    BY <1>1, <2>1
  <2>4. ASSUME NEW l \in it'.idx .. it'.old_len - 1 PROVE l \in it.idx .. it.old_len - 1
    BY <1>1, <2>1
  <2> QED
    BY <1>1, <2>1, <2>2, <2>3, <2>4 DEF FilterHas
<1>4. CASE (it.kind = "filter" /\ it.pc = "next" => it.del = 0) /\ Filter_panic
  <2>1. /\ it'.d = it.d /\ it'.kind = it.kind /\ it'.idx = it.idx + 1 /\ it'.del = it.del
        /\ it'.old_len = it.old_len /\ it'.pre = it.pre
        /\ it'.kept = Append(it.kept, Read(Q, it.idx))
        /\ it.idx # it.old_len /\ it.pc = "next" /\ Tests
    <3>1. Tests
      BY <1>4 DEF Filter_panic
    <3>2. Read(Q, it.idx) = Tested
      BY <3>1, FilterReads
    <3> QED
      BY <1>1, <1>4, <3>1, <3>2 DEF Filter_panic, Closes, FilterFields, Tests
  <2>2. Q' = Q
    BY <2>1 DEF Q
  <2>3. it.idx - it.del = it.idx
    BY <1>1, <1>4, <2>1
  <2> DEFINE q == Q
  <2>4. /\ Q' = q /\ Read(q, it.idx - it.del) = Read(Q, it.idx)
        /\ \A l \in 0 .. it.idx - it.del - 1 : Read(q, l) = Read(Q, l)
        /\ \A l \in it.idx + 1 .. it.old_len - 1 : Read(q, l) = Read(Q, l)
    BY <2>2, <2>3
  <2> HIDE DEF q
  <2>5. FilterHas'
    BY <2>1, <2>4, FilterKeepsOne
  <2> QED
    BY <2>1, <2>5
<1> QED
  BY <1>2, <1>3, <1>4

\* The length is restored to what was kept.
LEMMA FilterEndHas ==
  ASSUME BorrowInv, Filter_end, it.pc = "drop"
  PROVE  Contents(dq'[it.d]) = it.kept /\ it.kept \in Seq(Slot) /\ it' = NoIter
<1>1. it.kind = "filter" /\ it.idx = it.old_len
  BY DEF Filter_end
<1>2. /\ Inv /\ FilterOK /\ FilterHas /\ WF(Q) /\ capacity(Q) \in Nat /\ it.d \in DEQS
      /\ it.idx \in Nat /\ it.del \in Nat /\ it.old_len \in Nat
      /\ it.del <= it.idx /\ it.old_len <= capacity(Q)
  BY <1>1, FilterFinds
<1> DEFINE n == it.old_len - it.del
           p == move_tail_unchecked(Q, n)
<1>3. /\ it.kept \in Seq(Slot) /\ Len(it.kept) = n
      /\ \A l \in 0 .. n - 1 : Read(Q, l) = it.kept[l + 1]
  BY <1>1, <1>2 DEF FilterHas
<1>4. Q.len = 0 /\ n \in Nat /\ n \in Int /\ Q.len + n \in 0 .. capacity(Q) /\ Q.len + n = n
  BY <1>1, <1>2 DEF FilterOK
<1>5. WF(p) /\ p.len = n
  BY <1>2, <1>4, MoveTailWF
<1>6. \A l : Read(p, l) = Read(Q, l)
  BY <1>2, MoveTailRead
<1>7. Closes(p)
  BY DEF Filter_end
<1> HIDE DEF p, n
<1>8. Contents(p) = it.kept
  BY <1>3, <1>4, <1>5, <1>6, ContentsAre
<1>9. dq'[it.d] = Settle(p) /\ it' = NoIter
  BY <1>2, <1>7 DEF Closes, Becomes, Inv
<1>10. Contents(dq'[it.d]) = Contents(p)
  BY <1>5, <1>9, SettleContents
<1> QED
  BY <1>3, <1>8, <1>9, <1>10

\* What a step of retain or dedup_by finds.
LEMMA SiftFinds ==
  ASSUME BorrowInv, it.kind = "sift"
  PROVE  /\ Inv /\ SiftOK /\ SiftHas /\ WF(Q) /\ Q.len \in Nat /\ it.d \in DEQS
         /\ DOMAIN it = SiftFields /\ it.idx \in Nat /\ it.w \in Nat /\ it.w <= it.idx
         /\ it.idx <= Q.len
<1>1. Inv /\ SiftOK /\ SiftHas
  BY DEF BorrowInv, IterInv, Idle, NoIter, DrainOK, FilterOK
<1>2. WF(Q)
  BY <1>1 DEF Inv, SiftOK, Q
<1> QED
  BY <1>1, <1>2, Basics DEF SiftOK

\* Two elements of a sequence change places.
LEMMA SwappedOwned ==
  ASSUME NEW V, NEW s \in Seq(V), NEW t \in Seq(V), Len(t) = Len(s),
         NEW i \in 1 .. Len(s), NEW j \in 1 .. Len(s),
         \A l \in 1 .. Len(s) : t[l] = IF l = j THEN s[i] ELSE IF l = i THEN s[j] ELSE s[l]
  PROVE  ToSet(t) = ToSet(s) /\ (IsInjective(s) => IsInjective(t))
<1> DEFINE f == [l \in 1 .. Len(s) |-> IF l = j THEN i ELSE IF l = i THEN j ELSE l]
<1>1. /\ \A l \in 1 .. Len(s) : f[l] \in 1 .. Len(s) /\ t[l] = s[f[l]] /\ s[l] = t[f[l]]
      /\ \A k, l \in 1 .. Len(s) : f[k] = f[l] => k = l
  OBVIOUS
<1> HIDE DEF f
<1>2. /\ \A x : x \in ToSet(s) <=> \E k \in 1 .. Len(s) : x = s[k]
      /\ IsInjective(s) <=> \A k, l \in 1 .. Len(s) : s[k] = s[l] => k = l
  BY SetOfSeq
<1>3. /\ \A x : x \in ToSet(t) <=> \E k \in 1 .. Len(s) : x = t[k]
      /\ IsInjective(t) <=> \A k, l \in 1 .. Len(s) : t[k] = t[l] => k = l
  BY SetOfSeq
<1>4. ToSet(t) = ToSet(s)
  <2>1. ASSUME NEW x \in ToSet(t) PROVE x \in ToSet(s)
    <3>1. PICK k \in 1 .. Len(s) : x = t[k]
      BY <1>3, <2>1
    <3> QED
      BY <1>1, <1>2, <3>1
  <2>2. ASSUME NEW x \in ToSet(s) PROVE x \in ToSet(t)
    <3>1. PICK k \in 1 .. Len(s) : x = s[k]
      BY <1>2, <2>2
    <3> QED
      BY <1>1, <1>3, <3>1
  <2> QED
    BY <2>1, <2>2
<1>5. IsInjective(s) => IsInjective(t)
  BY <1>1, <1>2, <1>3
<1> QED
  BY <1>4, <1>5

\* Sift_keep swaps the element behind those that were kept.
LEMMA SiftKeepHas ==
  ASSUME BorrowInv, Sift_keep
  PROVE  /\ SiftHas' /\ it'.kind = "sift" /\ it'.d = it.d
         /\ ToSet(Contents(dq'[it.d])) = ToSet(Contents(Q))
         /\ IsInjective(Contents(Q)) => IsInjective(Contents(dq'[it.d]))
<1>1. it.kind = "sift" /\ it.idx < Q.len
  BY DEF Sift_keep
<1>2. /\ Inv /\ SiftHas /\ WF(Q) /\ Q.len \in Nat /\ it.d \in DEQS
      /\ DOMAIN it = SiftFields /\ it.idx \in Nat /\ it.w \in Nat /\ it.w <= it.idx
  BY <1>1, SiftFinds
<1> DEFINE w == it.w
           x == it.idx
           q == Q
           p == IF it.idx # it.w THEN swap(Q, it.w, it.idx) ELSE Q
<1>3. /\ it'.d = it.d /\ it'.kind = it.kind /\ it'.idx = x + 1 /\ it'.w = w + 1
      /\ it'.pre = it.pre /\ it'.kept = Append(it.kept, Read(q, x))
  <2>1. x \in it.idx .. Q.len - 1
    BY <1>1, <1>2
  <2>2. Read(Q, x) = Tested
    BY <1>2, <2>1 DEF SiftHas, Tested
  <2> QED
    BY <1>2, <2>2 DEF Sift_keep, SiftFields
<1>4. dq'[it.d] = p /\ Q' = p
  BY <1>2, <1>3 DEF Sift_keep, Holds, Inv, Q
<1>5. /\ w \in 0 .. q.len - 1 /\ x \in 0 .. q.len - 1 /\ q.len > 0 /\ w \in Int /\ x \in Int
      /\ w <= x /\ WF(q) /\ q.len \in Nat /\ w \in Nat
  BY <1>1, <1>2
<1>6. /\ WF(p) /\ p.len = q.len
      /\ \A l \in 0 .. q.len - 1 :
           Read(p, l) = IF l = x THEN Read(q, w) ELSE IF l = w THEN Read(q, x) ELSE Read(q, l)
  <2>1. CASE x # w
    <3>1. p = swap(q, w, x)
      BY <2>1
    <3> HIDE DEF p, q, w, x
    <3> QED
      BY <1>5, <3>1, SwapWF, SwapRead
  <2>2. CASE x = w
    BY <1>5, <2>2
  <2> QED
    BY <2>1, <2>2
<1> DEFINE s == Contents(q)
           t == Contents(p)
           k == it.kept
           e == Read(q, x)
           u == Append(k, e)
<1>7. s \in Seq(Slot) /\ Len(s) = q.len /\ (\A i \in 0 .. q.len - 1 : s[i + 1] = Read(q, i))
      /\ \A i \in 0 .. q.len - 1 : Read(q, i) \in Slot
  BY <1>5, ContentsSeq
<1>8. t \in Seq(Slot) /\ Len(t) = q.len /\ \A i \in 0 .. q.len - 1 : t[i + 1] = Read(p, i)
  BY <1>6, ContentsSeq
<1>9. /\ it.pre \in Seq(Slot) /\ k \in Seq(Slot) /\ Len(it.pre) = q.len /\ Len(k) = w
      /\ \A l \in 0 .. w - 1 : Read(q, l) = k[l + 1]
      /\ \A l \in x .. q.len - 1 : Read(q, l) = it.pre[l + 1]
      /\ ToSet(s) = ToSet(it.pre)
  BY <1>2 DEF SiftHas
<1> HIDE DEF p, q, w, x, s, t, k
<1>10. ToSet(t) = ToSet(s) /\ (IsInjective(s) => IsInjective(t))
  <2> DEFINE i == w + 1
             j == x + 1
  <2>1. i \in 1 .. Len(s) /\ j \in 1 .. Len(s)
    BY <1>5, <1>7
  <2>2. s[i] = Read(q, w) /\ s[j] = Read(q, x)
    BY <1>5, <1>7
  <2>3. ASSUME NEW l \in 1 .. Len(s)
        PROVE  t[l] = IF l = j THEN s[i] ELSE IF l = i THEN s[j] ELSE s[l]
    <3> DEFINE m == l - 1
    <3>1. m \in 0 .. q.len - 1 /\ m + 1 = l /\ (l = j <=> m = x) /\ (l = i <=> m = w)
      BY <1>5, <1>7
    <3> HIDE DEF m, i, j
    <3>2. t[m + 1] = Read(p, m) /\ s[m + 1] = Read(q, m)
      BY <1>7, <1>8, <3>1
    <3> QED
      BY <1>6, <2>2, <3>1, <3>2
  <2> HIDE DEF i, j
  <2> QED
    BY <1>7, <1>8, <2>1, <2>3, SwappedOwned
<1>11. /\ u \in Seq(Slot) /\ Len(u) = w + 1 /\ \A i \in 1 .. w : u[i] = k[i]
       /\ u[w + 1] = e
  BY <1>5, <1>7, <1>9, AppendAt
<1> HIDE DEF u
<1>12. ASSUME NEW l \in 0 .. (w + 1) - 1 PROVE Read(p, l) = u[l + 1]
  <2>1. l \in 0 .. q.len - 1
    BY <1>5
  <2>2. CASE l = w
    BY <1>6, <1>11, <2>1, <2>2
  <2>3. CASE l # w
    <3>1. l \in 0 .. w - 1 /\ l + 1 \in 1 .. w /\ l # x
      BY <1>5, <2>3
    <3> QED
      BY <1>6, <1>9, <1>11, <2>1, <2>3, <3>1
  <2> QED
    BY <2>2, <2>3
<1>13. it'.kept = u
  BY <1>3 DEF u, k
<1>14. ASSUME NEW l \in x + 1 .. q.len - 1 PROVE Read(p, l) = it.pre[l + 1]
  <2>1. l \in 0 .. q.len - 1 /\ l \in x .. q.len - 1 /\ l # x /\ l # w
    BY <1>5
  <2> QED
    BY <1>6, <1>9, <2>1
<1>15. SiftHas'
  BY <1>3, <1>4, <1>6, <1>9, <1>10, <1>11, <1>12, <1>13, <1>14 DEF SiftHas, t
<1> QED
  BY <1>1, <1>3, <1>4, <1>10, <1>15 DEF s, t, q

\* Sift_remove moves on.
LEMMA SiftRemoveHas ==
  ASSUME BorrowInv, Sift_remove
  PROVE  SiftHas' /\ it'.kind = "sift"
<1>1. it.kind = "sift" /\ dq' = dq
  BY DEF Sift_remove
<1>2. SiftHas /\ DOMAIN it = SiftFields /\ it.idx \in Nat /\ Q.len \in Nat
  BY <1>1, SiftFinds
<1>3. /\ it'.d = it.d /\ it'.kind = it.kind /\ it'.idx = it.idx + 1 /\ it'.w = it.w
      /\ it'.pre = it.pre /\ it'.kept = it.kept
  BY <1>2 DEF Sift_remove, SiftFields
<1>4. Q' = Q
  BY <1>1, <1>3 DEF Q
<1>5. \A l \in it.idx + 1 .. Q.len - 1 : l \in it.idx .. Q.len - 1
  BY <1>2
<1> QED
  BY <1>1, <1>2, <1>3, <1>4, <1>5 DEF SiftHas

\* At the end of the loop the slice is cut to what was kept.
LEMMA SiftEndHas ==
  ASSUME BorrowInv, Sift_end
  PROVE  Contents(dq'[it.d]) = it.kept
<1>1. it.kind = "sift" /\ it.idx = Q.len /\ truncate_back(it.d, it.w)
  BY DEF Sift_end
<1>2. /\ Inv /\ SiftHas /\ WF(Q) /\ Q.len \in Nat /\ it.d \in DEQS
      /\ it.w \in Nat /\ it.w <= Q.len
  BY <1>1, SiftFinds
<1> DEFINE q == Q
           w == it.w
           u == it.kept
           c == Contents(q)
           n == q.len - w
           p == drop_in_place(move_tail_unchecked(q, -n), q, w, n)
<1>3. u \in Seq(Slot) /\ Len(u) = w /\ \A l \in 0 .. w - 1 : Read(q, l) = u[l + 1]
  BY <1>2 DEF SiftHas
<1>4. w \in 0 .. q.len /\ WF(q) /\ q.len \in Nat /\ w \in Nat
  BY <1>2
<1>5. c \in Seq(Slot) /\ Len(c) = q.len /\ \A i \in 0 .. q.len - 1 : c[i + 1] = Read(q, i)
  BY <1>4, ContentsSeq
<1>6. SubSeq(c, 1, w) = u
  <2> HIDE DEF c, q, w, u
  <2> DEFINE v == SubSeq(c, 1, w)
  <2>1. v \in Seq(Slot) /\ Len(v) = w /\ \A i \in 1 .. w : v[i] = c[i]
    BY <1>4, <1>5
  <2> HIDE DEF v
  <2>2. ASSUME NEW i \in 1 .. w PROVE v[i] = u[i]
    <3> DEFINE m == i - 1
    <3>1. m \in 0 .. w - 1 /\ m \in 0 .. q.len - 1 /\ m + 1 = i
      BY <1>4
    <3> HIDE DEF m
    <3> QED
      BY <1>3, <1>5, <2>1, <3>1
  <2>3. v = u
    BY <1>3, <2>1, <2>2
  <2> QED
    BY <2>3 DEF v
<1>7. WF(p) /\ Contents(p) = SubSeq(c, 1, w)
  <2> HIDE DEF w, q
  <2> QED
    BY <1>4, TruncateBackContents
<1>8. CASE dq' = dq /\ it.w >= Q.len
  <2>1. w = q.len /\ SubSeq(c, 1, q.len) = c
    <3>1. w = q.len
      BY <1>4, <1>8
    <3> HIDE DEF c, q, w
    <3> QED
      BY <1>4, <1>5, <3>1
  <2> QED
    BY <1>6, <1>8, <2>1 DEF Q
<1>9. CASE Becomes(it.d, p)
  <2> HIDE DEF p, c, u, w
  <2>1. dq'[it.d] = Settle(p)
    BY <1>2, <1>9 DEF Becomes, Inv
  <2>2. Contents(Settle(p)) = Contents(p)
    BY <1>7, SettleContents
  <2> QED
    BY <1>6, <1>7, <2>1, <2>2 DEF u
<1> QED
  BY <1>1, <1>8, <1>9 DEF truncate_back, Stays, Q

-----------------------------------------------------------------------------
(* The invariant.                                                          *)

\* A step that leaves no deque borrowed.
LEMMA IdleHas == IterInv /\ Idle => BorrowInv
  BY DEF BorrowInv, Idle, NoIter, Drains

\* A borrowing call.
LEMMA OpensHas ==
  ASSUME BorrowInv, IterInv', NEW d \in DEQS,
         Opens(d) \/ \E n \in 0 .. MaxItems : Splices(d, n)
  PROVE  BorrowInv'
<1>1. Args \subseteq Nat /\ 0 .. MaxItems \subseteq Nat /\ IterInv
  BY BoundAssumption DEF Args, BorrowInv
<1>2. ASSUME NEW i \in Args, NEW j \in Args, NEW kind \in {"drain", "splice"}, NEW n \in Nat,
             drain(d, i, j, kind, n)
      PROVE  BorrowInv'
  <2>1. CASE it' = it
    <3>1. Idle'
      BY <1>2, <2>1 DEF drain, Idle
    <3> QED
      BY <3>1, IdleHas, PTL
  <2>2. CASE it' # it
    <3>1. DrainHas' /\ it'.kind = kind
      BY <1>1, <1>2, <2>2, DrainOpensHas
    <3> QED
      BY <3>1 DEF BorrowInv, Drains
  <2> QED
    BY <2>1, <2>2
<1>3. CASE \E i, j \in Args : drain(d, i, j, "drain", 0)
  BY <1>2, <1>3, 0 \in Nat
<1>4. CASE drain_filter(d)
  <2>1. FilterHas' /\ it'.kind = "filter"
    BY <1>1, <1>4, FilterOpensHas
  <2> QED
    BY <2>1 DEF BorrowInv, Drains
<1>5. CASE retain(d) \/ dedup_by(d)
  <2>1. dq[d].len \in Nat
    BY <1>1, Basics DEF IterInv, Inv
  <2>2. SiftHas' /\ it'.kind = "sift"
    <3>1. CASE retain(d)
      BY <1>1, <2>1, <3>1, SiftOpensHas, 0 \in Nat DEF retain
    <3>2. CASE dedup_by(d)
      BY <1>1, <2>1, <3>2, SiftOpensHas, 1 \in Nat DEF dedup_by
    <3> QED
      BY <1>5, <3>1, <3>2
  <2> QED
    BY <2>2 DEF BorrowInv, Drains
<1>6. ASSUME NEW n \in 0 .. MaxItems, Splices(d, n) PROVE BorrowInv'
  BY <1>1, <1>2, <1>6 DEF Splices
<1> QED
  BY <1>3, <1>4, <1>5, <1>6 DEF Opens

\* SoundIterNext has no other steps than IterNext.
LEMMA SoundIsIterNext == SoundIterNext => IterNext
  BY DEF SoundIterNext, IterNext

\* Every step keeps the invariant.
LEMMA BorrowNextInv ==
  ASSUME BorrowInv, SoundIterNext
  PROVE  BorrowInv'
<1>1. IterInv /\ IterInv'
  BY FullNextInv, SoundIsIterNext DEF BorrowInv, FullNext
<1>2. /\ Args \subseteq Nat /\ 0 .. MaxItems \subseteq Nat /\ Unborn \subseteq Elem
      /\ Fresh \subseteq Elem /\ UnbornSeqs \subseteq Seq(Elem)
  BY BoundAssumption, UnbornElems DEF Args, Fresh
<1>3. CASE Idle'
  BY <1>1, <1>3, IdleHas, PTL
<1>4. CASE DrainHas' /\ it'.kind \in {"drain", "splice"}
  BY <1>1, <1>4 DEF BorrowInv, Drains
<1>5. CASE FilterHas' /\ it'.kind = "filter"
  BY <1>1, <1>5 DEF BorrowInv, Drains
<1>6. CASE SiftHas' /\ it'.kind = "sift"
  BY <1>1, <1>6 DEF BorrowInv, Drains
<1>7. ASSUME NEW d \in DEQS, Between(d) PROVE BorrowInv'
  BY <1>3, <1>7 DEF Between, Idle
<1>8. CASE CallerStep
  <2>1. CASE Drain_next \/ Drain_next_back \/ drop_iterator
    BY <1>4, <2>1, DrainStepHas
  <2>2. CASE \E pc \in {"next", "drop"} : Filter_call(pc)
    <3>1. it.kind = "filter" /\ dq' = dq
      BY <2>2 DEF Filter_call
    <3>2. DOMAIN it = FilterFields /\ it' # NoIter
      BY <2>2, <3>1, FilterFinds DEF Filter_call, FilterFields, NoIter
    <3> QED
      BY <1>5, <2>2, <3>1, <3>2, FilterStepHas
  <2>3. CASE forget
    BY <1>3, <2>3 DEF forget, Closes, Idle
  <2> QED
    BY <1>8, <2>1, <2>2, <2>3 DEF CallerStep
<1>9. CASE DropStep
  <2>1. ASSUME NEW boom \in BOOLEAN, exhaust(boom) PROVE BorrowInv'
    <3>1. CASE it' = NoIter
      BY <1>3, <3>1 DEF Idle
    <3>2. CASE it' # NoIter
      <4>1. dq' = dq
        BY <2>1, <3>2 DEF exhaust, Closes
      <4> QED
        BY <1>4, <2>1, <3>2, <4>1, ExhaustHas
    <3> QED
      BY <3>1, <3>2
  <2>2. CASE restore_tail
    BY <1>3, <2>2 DEF restore_tail, Closes, Idle
  <2>3. CASE Splice_start \/ Splice_panic \/ Splice_none \/ filled
    BY <1>4, <2>3, DrainStepHas
  <2>4. ASSUME NEW e \in Fresh, NEW hint \in Args, NEW oom \in BOOLEAN,
               Splice_extend(e, hint, oom)
        PROVE  BorrowInv'
    BY <1>2, <1>4, <2>4, SpliceWritesHas
  <2>5. ASSUME NEW e \in Fresh, fill(e) PROVE BorrowInv'
    BY <1>2, <1>4, <2>5, SpliceWritesHas
  <2>6. CASE Splice_last
    BY <1>4, <2>6, LastHas
  <2>7. CASE Filter_keep
    BY <1>5, <2>7, FilterKeepHas
  <2>8. ASSUME NEW boom \in BOOLEAN, Filter_remove(boom) PROVE BorrowInv'
    <3>1. it.kind = "filter"
      BY <2>8 DEF Filter_remove, Tests
    <3>2. CASE it' = NoIter
      BY <1>3, <3>2 DEF Idle
    <3>3. CASE it' # NoIter
      <4>1. dq' = dq
        BY <2>8, <3>3 DEF Filter_remove, Closes
      <4> QED
        BY <1>5, <2>8, <3>1, <3>3, <4>1, FilterStepHas
    <3> QED
      BY <3>2, <3>3
  <2>9. CASE Filter_end
    <3>1. it.kind = "filter"
      BY <2>9 DEF Filter_end
    <3>2. CASE it' = NoIter
      BY <1>3, <3>2 DEF Idle
    <3>3. CASE it' # NoIter
      <4>1. dq' = dq
        BY <2>9, <3>3 DEF Filter_end, Closes
      <4> QED
        BY <1>5, <2>9, <3>1, <3>3, <4>1, FilterStepHas
    <3> QED
      BY <3>2, <3>3
  <2>10. CASE Sift_keep
    BY <1>6, <2>10, SiftKeepHas
  <2>11. CASE Sift_remove
    BY <1>6, <2>11, SiftRemoveHas
  <2>12. CASE Sift_panic \/ Sift_end
    BY <1>3, <2>12 DEF Sift_panic, Sift_end, Idle
  <2> QED
    BY <1>9, <2>1, <2>2, <2>3, <2>4, <2>5, <2>6, <2>7, <2>8, <2>9, <2>10, <2>11, <2>12
       DEF DropStep
<1>10. CASE TailStep /\ TailStays
  <2>1. ASSUME NEW lower \in Args, NEW oom \in BOOLEAN, Splice_hint(lower, oom) PROVE BorrowInv'
    BY <1>2, <1>4, <1>10, <2>1, HintHas
  <2>2. ASSUME NEW s \in UnbornSeqs, NEW oom \in BOOLEAN, Splice_collect(s, oom) PROVE BorrowInv'
    BY <1>2, <1>4, <1>10, <2>2, CollectHas
  <2> QED
    BY <1>10, <2>1, <2>2 DEF TailStep
<1>11. CASE (it.kind = "filter" /\ it.pc = "next" => it.del = 0) /\ Filter_panic
  <2>1. it.kind = "filter"
    BY <1>11 DEF Filter_panic, Tests
  <2>2. CASE it' = NoIter
    BY <1>3, <2>2 DEF Idle
  <2>3. CASE it' # NoIter
    <3>1. dq' = dq
      BY <1>11, <2>3 DEF Filter_panic, Closes
    <3> QED
      BY <1>5, <1>11, <2>1, <2>3, <3>1, FilterStepHas
  <2> QED
    BY <2>2, <2>3
<1> QED
  BY <1>1, <1>7, <1>8, <1>9, <1>10, <1>11, OpensHas DEF SoundIterNext

\* What the end of Drop for Drain leaves.
LEMMA Restores ==
  ASSUME BorrowInv, restore_tail
  PROVE  Contents(dq'[it.d]) = SubSeq(it.pre, 1, it.start) \o it.ins
                               \o SubSeq(it.pre, it.end + 1, Len(it.pre))
<1>1. Contents(Q) = SubSeq(it.pre, 1, it.start) \o it.ins
  BY DEF BorrowInv, Drains, restore_tail, DrainHas
<1>2. Contents(dq'[it.d]) = Contents(Q) \o SubSeq(it.pre, it.end + 1, Len(it.pre))
  BY RestoreHas
<1> QED
  BY <1>1, <1>2

\* What drain_filter, retain and dedup_by leave, at their end or when the closure
\* panics.
LEMMA Keeps ==
  ASSUME BorrowInv
  PROVE  /\ (Filter_end /\ it' = NoIter) \/ Sift_end => Contents(dq'[it.d]) = it.kept
         /\ Sift_panic => /\ Len(Contents(dq'[it.d])) = Len(it.pre)
                          /\ ToSet(Contents(dq'[it.d])) = ToSet(it.pre)
<1>1. ASSUME Filter_end, it' = NoIter PROVE Contents(dq'[it.d]) = it.kept
  <2>1. DOMAIN it = FilterFields
    BY <1>1, FilterFinds DEF Filter_end
  <2>2. it.pc = "drop"
    BY <1>1, <2>1 DEF Filter_end, NoIter, FilterFields
  <2> QED
    BY <1>1, <2>2, FilterEndHas
<1>2. ASSUME Sift_panic PROVE /\ Len(Contents(dq'[it.d])) = Len(it.pre)
                              /\ ToSet(Contents(dq'[it.d])) = ToSet(it.pre)
  <2>1. SiftHas /\ WF(Q) /\ dq'[it.d] = Q
    BY <1>2, SiftFinds DEF Sift_panic, Q
  <2> QED
    BY <2>1, ContentsSeq DEF SiftHas
<1> QED
  BY <1>1, <1>2, SiftEndHas
-----------------------------------------------------------------------------
(* Parts of a sequence whose elements are distinct, as sets.               *)

\* The elements behind the first m, up to the n-th.
Part(s, m, n) == {s[l] : l \in m + 1 .. n}

\* A part is in the sequence, parts that do not overlap share nothing, and parts
\* that touch make a part.
LEMMA PartSets ==
  ASSUME NEW V, NEW s \in Seq(V), IsInjective(s), NEW m \in Nat, NEW n \in Nat, n <= Len(s)
  PROVE  /\ Part(s, m, n) \subseteq ToSet(s) /\ Part(s, m, m) = {}
         /\ \A k \in Nat, j \in Nat : n <= k /\ j <= Len(s) => Part(s, m, n) \cap Part(s, k, j) = {}
         /\ \A k \in Nat : m <= k /\ k <= n => Part(s, m, n) = Part(s, m, k) \cup Part(s, k, n)
<1>1. \A x : x \in ToSet(s) <=> \E i \in 1 .. Len(s) : x = s[i]
  BY SetOfSeq
<1>2. \A i, j \in 1 .. Len(s) : s[i] = s[j] => i = j
  BY SetOfSeq
<1>3. Part(s, m, n) \subseteq ToSet(s)
  <2> SUFFICES ASSUME NEW l \in m + 1 .. n PROVE s[l] \in ToSet(s)
    BY DEF Part
  <2>1. l \in 1 .. Len(s)
    OBVIOUS
  <2> QED
    BY <1>1, <2>1
<1>4. Part(s, m, m) = {}
  <2>1. m + 1 .. m = {}
    OBVIOUS
  <2> QED
    BY <2>1 DEF Part
<1>5. ASSUME NEW k \in Nat, NEW j \in Nat, n <= k, j <= Len(s), NEW x \in Part(s, m, n), x \in Part(s, k, j)
      PROVE  FALSE
  <2>1. PICK a \in m + 1 .. n : x = s[a]
    BY <1>5 DEF Part
  <2>2. PICK b \in k + 1 .. j : x = s[b]
    BY <1>5 DEF Part
  <2>3. a \in 1 .. Len(s) /\ b \in 1 .. Len(s) /\ a # b
    BY <1>5
  <2> QED
    BY <1>2, <2>1, <2>2, <2>3
<1>6. ASSUME NEW k \in Nat, m <= k, k <= n
      PROVE  Part(s, m, n) = Part(s, m, k) \cup Part(s, k, n)
  <2>1. m + 1 .. n = (m + 1 .. k) \cup (k + 1 .. n)
    BY <1>6
  <2> QED
    BY <2>1 DEF Part
<1> QED
  BY <1>3, <1>4, <1>5, <1>6

\* The first and the last element of a part.
LEMMA PartEnds ==
  ASSUME NEW V, NEW s \in Seq(V), IsInjective(s), NEW m \in Nat, NEW n \in Nat, n <= Len(s), m < n
  PROVE  /\ Part(s, m, n) = {s[m + 1]} \cup Part(s, m + 1, n) /\ s[m + 1] \notin Part(s, m + 1, n)
         /\ Part(s, m, n) = Part(s, m, n - 1) \cup {s[n]} /\ s[n] \notin Part(s, m, n - 1)
<1>1. \A i, j \in 1 .. Len(s) : s[i] = s[j] => i = j
  BY SetOfSeq
<1>2. m + 1 .. n = {m + 1} \cup (m + 1 + 1 .. n) /\ m + 1 .. n = (m + 1 .. n - 1) \cup {n}
  OBVIOUS
<1>3. Part(s, m, n) = {s[m + 1]} \cup Part(s, m + 1, n)
  BY <1>2 DEF Part
<1>4. Part(s, m, n) = Part(s, m, n - 1) \cup {s[n]}
  BY <1>2 DEF Part
<1>5. ASSUME NEW l \in m + 1 + 1 .. n PROVE s[l] # s[m + 1]
  <2>1. l \in 1 .. Len(s) /\ m + 1 \in 1 .. Len(s) /\ l # m + 1
    OBVIOUS
  <2> QED
    BY <1>1, <2>1
<1>6. ASSUME NEW l \in m + 1 .. n - 1 PROVE s[l] # s[n]
  <2>1. l \in 1 .. Len(s) /\ n \in 1 .. Len(s) /\ l # n
    OBVIOUS
  <2> QED
    BY <1>1, <2>1
<1>7. s[m + 1] \notin Part(s, m + 1, n) /\ s[n] \notin Part(s, m, n - 1)
  BY <1>5, <1>6 DEF Part
<1> QED
  BY <1>3, <1>4, <1>7

\* A part as a sequence.
LEMMA PartIsSeq ==
  ASSUME NEW V, NEW s \in Seq(V), IsInjective(s), NEW m \in Nat, NEW n \in Nat, n <= Len(s), m <= n
  PROVE  LET u == SubSeq(s, m + 1, n)
         IN  u \in Seq(V) /\ IsInjective(u) /\ ToSet(u) = Part(s, m, n)
<1> DEFINE a == m + 1
           u == SubSeq(s, a, n)
<1>1. a \in Nat \ {0} /\ a <= n + 1
  OBVIOUS
<1> HIDE DEF a
<1>2. /\ u \in Seq(V) /\ IsInjective(u) /\ \A x : x \in ToSet(u) <=> \E i \in a .. n : x = s[i]
  BY <1>1, PartOwned
<1> HIDE DEF u
<1>3. ToSet(u) = Part(s, m, n)
  BY <1>2 DEF Part, a
<1> QED
  BY <1>2, <1>3 DEF u, a

\* All of a sequence.
LEMMA PartIsAll ==
  ASSUME NEW V, NEW s \in Seq(V)
  PROVE  Part(s, 0, Len(s)) = ToSet(s) /\ Len(s) \in Nat
<1>1. \A x : x \in ToSet(s) <=> \E i \in 1 .. Len(s) : x = s[i]
  BY SetOfSeq
<1>2. 0 + 1 .. Len(s) = 1 .. Len(s) /\ Len(s) \in Nat
  OBVIOUS
<1> QED
  BY <1>1, <1>2 DEF Part

-----------------------------------------------------------------------------
(* Who owns the values while a deque is borrowed.                          *)

\* What the iterator owns: the slots it has left, the tail and what it has
\* collected; the slots that DrainFilter has kept or has not tested.
Beside ==
  IF Drains
  THEN Part(it.pre, it.next, it.back) \cup Part(it.pre, it.end, Len(it.pre)) \cup ToSet(it.collected)
  ELSE IF it.kind = "filter"
  THEN ToSet(it.kept) \cup Part(it.pre, it.idx, it.old_len)
  ELSE {}

\* The elements at the call were distinct, and so are those on their way back.
History ==
  /\ Drains => /\ IsInjective(it.pre) /\ IsInjective(it.collected)
               /\ ToSet(it.collected) \cap Part(it.pre, it.end, Len(it.pre)) = {}
  /\ it.kind = "filter" => /\ IsInjective(it.pre) /\ IsInjective(it.kept)
                           /\ ToSet(it.kept) \subseteq Part(it.pre, 0, it.idx)

\* The live values are the elements of the deques, what the iterator owns, and
\* what was leaked, each in one place.
Apart == Owned(leaked \cup Beside) /\ leaked \cap Beside = {}

\* A step that changes the borrowed deque and what the iterator owns.
LEMMA ApartStep ==
  ASSUME Apart, ~ub, NEEDS_DROP, NEW d \in DEQS, NEW t, NEW B, Beside' = B, leaked' = leaked,
         Elems' = [Elems EXCEPT ![d] = t],
         NEW created, NEW dropped, Own(created, dropped), created \cap live = {},
         IsInjective(t), IsInjective(dropped), ToSet(t) \cap B = {},
         ToSet(dropped) \subseteq ToSet(Elems[d]) \cup Beside \cup created,
         ToSet(t) \cup B = (ToSet(Elems[d]) \cup Beside \cup created) \ ToSet(dropped)
  PROVE  Apart' /\ ~ub'
<1>1. PICK K : K = leaked \cup Beside
  OBVIOUS
<1>2. PICK L : L = leaked \cup B
  OBVIOUS
<1>3. Owned(K)
  BY <1>1 DEF Apart
<1>4. /\ leaked \cap Beside = {} /\ leaked \subseteq live /\ ToSet(Elems[d]) \cap leaked = {}
      /\ ToSet(Elems[d]) \cap Beside = {}
  BY DEF Apart, Owned
<1>5. leaked \cap (ToSet(Elems[d]) \cup Beside \cup created) = {}
  BY <1>4
<1>6. /\ ToSet(t) \cap L = {} /\ leaked \cap B = {}
      /\ ToSet(dropped) \subseteq ToSet(Elems[d]) \cup K \cup created
      /\ ToSet(t) \cup L = (ToSet(Elems[d]) \cup K \cup created) \ ToSet(dropped)
  <2> DEFINE T == ToSet(t)
             D == ToSet(dropped)
             E == ToSet(Elems[d])
             l == leaked
             b == Beside
  <2>1. /\ l \cap (E \cup b \cup created) = {} /\ T \cap B = {} /\ D \subseteq E \cup b \cup created
        /\ T \cup B = (E \cup b \cup created) \ D /\ K = l \cup b /\ L = l \cup B
    BY <1>1, <1>2, <1>5
  <2> HIDE DEF T, D, E, l, b
  <2>2. l \cap B = {} /\ T \cap L = {} /\ D \subseteq E \cup K \cup created
    BY <2>1
  <2>3. T \cup L = (E \cup K \cup created) \ D
    BY <2>1
  <2> QED
    BY <2>2, <2>3 DEF T, D, E, l, b
<1>7. /\ Owned(K) /\ ~ub /\ NEEDS_DROP
      /\ Elems' = [Elems EXCEPT ![d] = t] /\ Own(created, dropped) /\ created \cap live = {}
      /\ IsInjective(t) /\ IsInjective(dropped) /\ ToSet(t) \cap L = {}
      /\ ToSet(dropped) \subseteq ToSet(Elems[d]) \cup K \cup created
      /\ ToSet(t) \cup L = (ToSet(Elems[d]) \cup K \cup created) \ ToSet(dropped)
  BY <1>3, <1>6
<1>8. Owned(L)' /\ ~ub'
  BY ONLY <1>7, d \in DEQS, MovesOwned, ZenonT(200)
<1>9. leaked' \cup Beside' = L /\ leaked' \cap Beside' = {}
  BY <1>2, <1>6
<1> QED
  BY <1>8, <1>9 DEF Apart, Owned

\* A step that leaves the deques alone and takes nothing from the iterator.
LEMMA ApartStays ==
  ASSUME Apart, UNCHANGED <<dq, live, ub, leaked>>, Beside' = Beside
  PROVE  Apart' /\ ub' = ub
<1>1. Elems' = Elems
  BY DEF Elems
<1> QED
  BY <1>1 DEF Apart, Owned

\* The elements when the deques stay, or when one is replaced.
LEMMA SameElems ==
  ASSUME NEW d \in DEQS, UNCHANGED dq
  PROVE  Elems' = [Elems EXCEPT ![d] = Elems[d]]
  BY DEF Elems

\* See SameElems.
LEMMA NewElems ==
  ASSUME Inv, NEW d \in DEQS, NEW q, dq' = [dq EXCEPT ![d] = q]
  PROVE  Elems' = [Elems EXCEPT ![d] = Contents(q)]
  BY DEF Elems, Inv

\* See SameElems.
LEMMA ClosesElems ==
  ASSUME Inv, it.d \in DEQS, NEW q, WF(q), Closes(q)
  PROVE  Elems' = [Elems EXCEPT ![it.d] = Contents(q)]
<1>1. dq' = [dq EXCEPT ![it.d] = Settle(q)] /\ Contents(Settle(q)) = Contents(q)
  BY SettleContents DEF Closes, Becomes
<1> QED
  BY <1>1 DEF Elems, Inv

\* A step that leaves the deques alone and drops one value of the iterator.
LEMMA ApartTakes ==
  ASSUME Inv, Apart, ~ub, NEEDS_DROP, it.d \in DEQS, UNCHANGED <<dq, leaked>>, NEW v \in Beside,
         Own({}, <<v>>), Beside' = Beside \ {v}
  PROVE  Apart' /\ ~ub'
<1>1. Elems' = Elems /\ Elems[it.d] \in Seq(Slot) /\ DOMAIN Elems = DEQS
  BY View DEF Elems
<1>2. PICK d \in DEQS : d = it.d
  OBVIOUS
<1>3. PICK t : t = Elems[d]
  OBVIOUS
<1>4. PICK B : B = Beside \ {v}
  OBVIOUS
<1>5. IsInjective(t) /\ ToSet(t) \cap Beside = {}
  BY <1>3 DEF Apart, Owned
<1>6. IsInjective(<<v>>) /\ ToSet(<<v>>) = {v}
  BY SetOfOne
<1>7. Elems' = [Elems EXCEPT ![d] = t]
  BY <1>3, SameElems
<1>8. /\ ToSet(<<v>>) \subseteq ToSet(Elems[d]) \cup Beside \cup {} /\ ToSet(t) \cap B = {}
      /\ ToSet(t) \cup B = (ToSet(Elems[d]) \cup Beside \cup {}) \ ToSet(<<v>>)
  BY <1>3, <1>4, <1>5, <1>6
<1>9. {} \cap live = {} /\ Beside' = B /\ leaked' = leaked
  BY <1>4
<1> QED
  BY ONLY <1>5, <1>6, <1>7, <1>8, <1>9, Apart, ~ub, NEEDS_DROP, d \in DEQS, Own({}, <<v>>), ApartStep,
     ZenonT(60)

\* The values of the iterator are leaked: the borrow ends and nobody owns them.
LEMMA ApartLeaks ==
  ASSUME Inv, Apart, ~ub, NEEDS_DROP, it.d \in DEQS, WF(Q), Closes(Q), Leaks,
         \/ UNCHANGED <<live, ub>>
         \/ \E v \in Beside : Own({}, <<v>>)
  PROVE  Apart' /\ ~ub'
<1> DEFINE E == Elems
<1>1. Elems' = Elems
  BY ClosesElems DEF Elems, Q
<1>2. /\ live = leaked \cup Beside \cup UNION {ToSet(E[d]) : d \in DEQS}
      /\ \A d \in DEQS : IsInjective(E[d]) /\ ToSet(E[d]) \cap (leaked \cup Beside) = {}
      /\ \A c, d \in DEQS : c # d => ToSet(E[c]) \cap ToSet(E[d]) = {}
      /\ leaked \cap Beside = {}
  BY DEF Apart, Owned
<1>3. PICK B \in SUBSET Beside : live' = live \ B /\ ~ub'
  <2>1. ASSUME UNCHANGED <<live, ub>> PROVE live' = live \ {} /\ ~ub' /\ {} \in SUBSET Beside
    BY <2>1
  <2>2. ASSUME NEW v \in Beside, Own({}, <<v>>) PROVE live' = live \ {v} /\ ~ub'
    <3>1. IsInjective(<<v>>) /\ ToSet(<<v>>) = {v}
      BY SetOfOne
    <3> QED
      BY <1>2, <2>2, <3>1 DEF Own
  <2>3. \A v \in Beside : {v} \in SUBSET Beside
    OBVIOUS
  <2> QED
    BY <2>1, <2>2, <2>3
<1> DEFINE H == UNION {ToSet(E[d]) : d \in DEQS}
<1>4. Held' = H
  <2>1. \A d \in DEQS : Contents(dq'[d]) = E[d]
    BY <1>1 DEF Elems
  <2> QED
    BY <2>1 DEF Held
<1>5. H \cap (leaked \cup Beside) = {}
  BY <1>2
<1>6. leaked' = (leaked \cup Beside) \ B
  <2>1. leaked' = leaked \cup (live' \ H)
    BY <1>4 DEF Leaks
  <2>2. live' = (leaked \cup Beside \cup H) \ B
    BY <1>2, <1>3
  <2> HIDE DEF H
  <2> QED
    BY <1>2, <1>5, <2>1, <2>2
<1>7. live' = leaked' \cup H
  <2> HIDE DEF H
  <2>1. live' = (leaked \cup Beside \cup H) \ B
    BY <1>2, <1>3 DEF H
  <2> QED
    BY <1>5, <1>6, <2>1
<1>8. \A d \in DEQS : IsInjective(E[d]) /\ ToSet(E[d]) \cap leaked' = {}
  BY <1>2, <1>6
<1>9. Beside' = {}
  BY DEF Closes, Beside, NoIter, Drains
<1>10. Owned(leaked \cup Beside)'
  <2>1. live' = (leaked' \cup Beside') \cup UNION {ToSet(Elems'[d]) : d \in DEQS}
    BY <1>1, <1>7, <1>9
  <2>2. \A d \in DEQS : IsInjective(Elems'[d]) /\ ToSet(Elems'[d]) \cap (leaked' \cup Beside') = {}
    BY <1>1, <1>8, <1>9
  <2>3. \A c, d \in DEQS : c # d => ToSet(Elems'[c]) \cap ToSet(Elems'[d]) = {}
    BY <1>1, <1>2
  <2> QED
    BY <2>1, <2>2, <2>3 DEF Owned
<1> QED
  BY <1>3, <1>9, <1>10 DEF Apart

\* What ownership says while an iterator is open.
Kept == Apart /\ History /\ ~ub

\* A step that neither makes nor drops a value.
LEMMA NothingDropped ==
  ASSUME Inv, NEEDS_DROP, UNCHANGED <<live, ub>>
  PROVE  Own({}, <<>>)
<1>1. ub \in BOOLEAN
  BY DEF Inv
<1>2. IsInjective(<<>>) /\ ToSet(<<>>) = {}
  BY NoDrop
<1>3. ub' = (ub \/ ~IsInjective(<<>>) \/ ~(ToSet(<<>>) \subseteq live \cup {}))
  BY <1>1, <1>2
<1>4. live' = (live \cup {}) \ ToSet(<<>>)
  BY <1>2
<1> QED
  BY <1>3, <1>4 DEF Own

\* No deque is borrowed: there is nothing beside the deques.
LEMMA IdleBeside == Idle => Beside = {} /\ History
  BY DEF Idle, NoIter, Beside, History, Drains

-----------------------------------------------------------------------------
(* Drain and Splice.                                                       *)

\* A call of drain or splice.
LEMMA DrainOpensApart ==
  ASSUME IterInv, Kept, NEEDS_DROP, NEW d \in DEQS, NEW i \in Nat, NEW j \in Nat,
         NEW kind \in {"drain", "splice"}, NEW n \in Nat, drain(d, i, j, kind, n)
  PROVE  Kept'
<1>1. Idle /\ Inv /\ Beside = {} /\ Apart /\ ~ub
  BY IdleBeside DEF drain, IterInv, Kept
<1>2. CASE Stays(kind, <<d>>, "panic") /\ UNCHANGED <<it, leaked>>
  <2>1. UNCHANGED <<dq, live, ub, leaked>> /\ Idle'
    BY <1>1, <1>2 DEF Stays, Idle
  <2>2. Beside' = {} /\ History'
    BY <2>1 DEF Idle, NoIter, Beside, History, Drains
  <2> QED
    BY <1>1, <2>1, <2>2, ApartStays DEF Kept
<1>3. ASSUME i <= j, j <= dq[d].len, dq' = [dq EXCEPT ![d].len = i],
             it' = [kind |-> kind, d |-> d, pc |-> "open", panics |-> FALSE,
                    next |-> i, back |-> j, left |-> n, collected |-> <<>>,
                    tail_start |-> j, tail_len |-> dq[d].len - j,
                    pre |-> Contents(dq[d]), start |-> i, end |-> j, ins |-> <<>>],
             Borrows(kind, d)
      PROVE  Kept'
  <2> DEFINE E == Elems[d]
             m == dq[d].len
             t == SubSeq(E, 0 + 1, i)
             B == Part(E, i, m)
  <2>1. /\ E \in Seq(Slot) /\ Contents(dq[d]) = E /\ Len(E) = m /\ m \in Nat /\ IsInjective(E)
    <3>1. PICK K : K = leaked \cup Beside
      OBVIOUS
    <3>2. Owned(K)
      BY <1>1, <3>1 DEF Apart
    <3> QED
      BY <1>1, <3>2, ElemsOwned
  <2>2. Elems' = [Elems EXCEPT ![d] = t]
    <3>1. i <= dq[d].len
      BY <1>3, <2>1
    <3>2. Contents(dq'[d]) = SubSeq(E, 0 + 1, i)
      <4>1. Contents(dq'[d]) = SubSeq(Contents(dq[d]), 1, i)
        BY <1>1, <1>3, <3>1, CutHas
      <4>2. 0 + 1 = 1
        OBVIOUS
      <4> QED
        BY <2>1, <4>1, <4>2
    <3>3. \A c \in DEQS : c # d => dq'[c] = dq[c]
      BY <1>1, <1>3 DEF Inv
    <3> QED
      BY <1>1, <1>3, <3>2, <3>3 DEF Elems, Inv
  <2> HIDE DEF m
  <2>3. /\ it'.kind = kind /\ it'.next = i /\ it'.back = j /\ it'.end = j /\ it'.pre = E
        /\ it'.collected = <<>>
    BY <1>3, <2>1
  <2>4. /\ t \in Seq(Slot) /\ IsInjective(t) /\ ToSet(t) = Part(E, 0, i)
    <3>1. 0 \in Nat /\ 0 <= i /\ i <= Len(E)
      BY <1>3, <2>1 DEF m
    <3> HIDE DEF E
    <3> QED
      BY <2>1, <3>1, PartIsSeq, SMTT(30)
  <2>5. /\ ToSet(E) = Part(E, 0, i) \cup B /\ Part(E, 0, i) \cap B = {}
        /\ B = Part(E, i, j) \cup Part(E, j, m)
    <3>1. i <= m /\ j <= m /\ 0 \in Nat /\ 0 <= i
      BY <1>3, <2>1 DEF m
    <3>2. Part(E, 0, m) = ToSet(E)
      BY <2>1, PartIsAll
    <3>3. Part(E, 0, m) = Part(E, 0, i) \cup Part(E, i, m)
      BY <2>1, <3>1, PartSets
    <3>4. Part(E, 0, i) \cap Part(E, i, m) = {}
      BY <2>1, <3>1, PartSets
    <3>5. Part(E, i, m) = Part(E, i, j) \cup Part(E, j, m)
      BY <1>3, <2>1, <3>1, PartSets
    <3> QED
      BY <3>2, <3>3, <3>4, <3>5
  <2>6. ToSet(<<>>) = {} /\ IsInjective(<<>>)
    BY NoDrop
  <2>7. Beside' = B
    BY <2>1, <2>3, <2>5, <2>6 DEF Beside, Drains
  <2>8. History'
    BY <2>1, <2>3, <2>6 DEF History, Drains
  <2>9. Own({}, <<>>) /\ leaked' = leaked
    BY <1>1, <1>3, NothingDropped DEF Borrows
  <2> HIDE DEF t, B
  <2>10. /\ ToSet(<<>>) \subseteq ToSet(E) \cup Beside \cup {} /\ ToSet(t) \cap B = {}
         /\ ToSet(t) \cup B = (ToSet(E) \cup Beside \cup {}) \ ToSet(<<>>) /\ {} \cap live = {}
    BY <1>1, <2>4, <2>5, <2>6
  <2>11. Apart' /\ ~ub'
    BY ONLY <1>1, <2>2, <2>4, <2>6, <2>7, <2>9, <2>10, NEEDS_DROP, d \in DEQS, ApartStep, ZenonT(60)
  <2> QED
    BY <2>8, <2>11 DEF Kept
<1> QED
  BY <1>2, <1>3 DEF drain

\* A step takes the first or the last of the slots that the iterator has left.
LEMMA DrainTakesApart ==
  ASSUME BorrowInv, Kept, NEEDS_DROP, Drains, it.pc \in {"open", "exhaust"}, it.next < it.back,
         UNCHANGED <<dq, leaked>>, NEW a, NEW b, NEW v, Own({}, <<v>>),
         it'.kind \in {"drain", "splice"}, it'.pre = it.pre, it'.end = it.end,
         it'.collected = it.collected, it'.next = a, it'.back = b,
         \/ v = Read(Q, it.next) /\ a = it.next + 1 /\ b = it.back
         \/ v = Read(Q, it.back - 1) /\ a = it.next /\ b = it.back - 1
  PROVE  Kept'
<1> DEFINE s == it.pre
           m == it.next
           n == it.back
           T == Part(s, it.end, Len(s))
<1>1. /\ Inv /\ it.d \in DEQS /\ DrainHas /\ Apart /\ ~ub /\ History /\ m \in Nat /\ n \in Nat
      /\ n <= it.end /\ it.end <= Len(s) /\ it.end \in Nat /\ s \in Seq(Slot)
      /\ \A l \in m .. n - 1 : Read(Q, l) = s[l + 1]
  BY DrainFinds DEF DrainHas, Kept
<1>2. IsInjective(s) /\ it.collected = <<>> /\ ToSet(<<>>) = {} /\ Len(s) \in Nat /\ n <= Len(s)
  BY <1>1, NoDrop DEF History, DrainHas
<1>3. Beside = Part(s, m, n) \cup T /\ Beside' = Part(s, a, b) \cup T
  BY <1>2 DEF Beside, Drains
<1>4. v \in Part(s, m, n) /\ Part(s, a, b) = Part(s, m, n) \ {v}
  <2>1. /\ Part(s, m, n) = {s[m + 1]} \cup Part(s, m + 1, n) /\ s[m + 1] \notin Part(s, m + 1, n)
        /\ Part(s, m, n) = Part(s, m, n - 1) \cup {s[n]} /\ s[n] \notin Part(s, m, n - 1)
    <3> HIDE DEF s, m, n
    <3> QED
      BY <1>1, <1>2, PartEnds DEF m, n
  <2>2. m \in m .. n - 1 /\ n - 1 \in m .. n - 1 /\ (n - 1) + 1 = n
    BY <1>1
  <2>3. Read(Q, m) = s[m + 1] /\ Read(Q, n - 1) = s[n]
    <3>1. Read(Q, n - 1) = s[(n - 1) + 1]
      BY <1>1, <2>2
    <3> QED
      BY <1>1, <2>2, <3>1
  <2>4. \/ v = s[m + 1] /\ a = m + 1 /\ b = n
        \/ v = s[n] /\ a = m /\ b = n - 1
    BY <2>3
  <2> HIDE DEF s, m, n
  <2> QED
    BY <2>1, <2>4
<1>5. Part(s, m, n) \cap T = {}
  <2> HIDE DEF s, m, n
  <2> QED
    BY <1>1, <1>2, PartSets
<1>6. v \in Beside /\ Beside' = Beside \ {v}
  <2> HIDE DEF s, m, n, T
  <2> QED
    BY <1>3, <1>4, <1>5
<1>7. Apart' /\ ~ub'
  BY <1>1, <1>6, ApartTakes
<1>8. History'
  BY <1>1 DEF History, Drains
<1> QED
  BY <1>7, <1>8 DEF Kept

\* A step of the caller or of Drop that moves nothing.
LEMMA DrainStaysApart ==
  ASSUME Kept, Drains, UNCHANGED <<dq, live, ub, leaked>>,
         it'.kind \in {"drain", "splice"}, it'.pre = it.pre, it'.end = it.end,
         it'.collected = it.collected, it'.next = it.next, it'.back = it.back
  PROVE  Kept'
<1>1. Beside' = Beside /\ History' /\ Apart /\ ~ub
  BY DEF Beside, History, Drains, Kept
<1> QED
  BY <1>1, ApartStays DEF Kept

\* The steps that move the iterator and not the memory.
LEMMA DrainStepApart ==
  ASSUME BorrowInv, Kept, NEEDS_DROP,
         \/ Drain_next \/ Drain_next_back \/ drop_iterator
         \/ Splice_start \/ Splice_panic \/ Splice_none \/ filled
         \/ /\ it.kind = "splice" /\ it.pc = "hint" /\ it' = [it EXCEPT !.pc = "collect"]
            /\ UNCHANGED dq /\ DropsNothing
         \/ /\ it.kind = "splice" /\ \E p \in BOOLEAN : LeavesSplice(p)
            /\ UNCHANGED dq /\ DropsNothing
  PROVE  Kept'
<1>1. Drains
  BY DEF Drains, Drain_next, Drain_next_back, drop_iterator, Splice_start, Splice_panic,
     Splice_none, filled
<1>2. DOMAIN it = DrainFields /\ it.kind \in {"drain", "splice"} /\ it.next \in Nat /\ it.back \in Nat
  BY <1>1, DrainFinds
<1>3. CASE Drain_next
  <2>1. /\ it.pc \in {"open", "exhaust"} /\ it.next < it.back /\ UNCHANGED <<dq, leaked>>
        /\ Own({}, <<Read(Q, it.next)>>) /\ it'.kind \in {"drain", "splice"} /\ it'.pre = it.pre
        /\ it'.end = it.end /\ it'.collected = it.collected
        /\ it'.next = it.next + 1 /\ it'.back = it.back
    BY <1>2, <1>3 DEF Drain_next, JustDrops, DrainFields
  <2> QED
    BY <1>1, <2>1, DrainTakesApart
<1>4. CASE Drain_next_back
  <2>1. /\ it.pc \in {"open", "exhaust"} /\ it.next < it.back /\ UNCHANGED <<dq, leaked>>
        /\ Own({}, <<Read(Q, it.back - 1)>>) /\ it'.kind \in {"drain", "splice"} /\ it'.pre = it.pre
        /\ it'.end = it.end /\ it'.collected = it.collected
        /\ it'.next = it.next /\ it'.back = it.back - 1
    BY <1>2, <1>4 DEF Drain_next_back, JustDrops, DrainFields
  <2> QED
    BY <1>1, <2>1, DrainTakesApart
<1>5. CASE ~Drain_next /\ ~Drain_next_back
  <2>1. /\ UNCHANGED <<dq, live, ub, leaked>> /\ it'.kind \in {"drain", "splice"}
        /\ it'.pre = it.pre /\ it'.end = it.end
        /\ it'.collected = it.collected /\ it'.next = it.next /\ it'.back = it.back
    BY <1>2, <1>5 DEF drop_iterator, Splice_start, Splice_panic, Splice_none, filled, LeavesSplice,
       DropsNothing, DrainFields
  <2> QED
    BY <1>1, <2>1, DrainStaysApart
<1> QED
  BY <1>3, <1>4, <1>5

\* exhaust drops the slots that are left, and leaks the rest when one panics.
LEMMA ExhaustApart ==
  ASSUME BorrowInv, Kept, NEEDS_DROP, NEW boom \in BOOLEAN, exhaust(boom)
  PROVE  Kept'
<1>1. Drains /\ it.pc = "exhaust" /\ it.next < it.back /\ Own({}, <<Read(Q, it.next)>>)
  BY DEF exhaust
<1>2. /\ DOMAIN it = DrainFields /\ it.kind \in {"drain", "splice"} /\ it.next \in Nat
      /\ it.back \in Nat /\ Inv /\ WF(Q) /\ it.d \in DEQS
  BY <1>1, DrainFinds
<1>3. CASE UNCHANGED <<dq, leaked>> /\ ~(Closes(Q) /\ Leaks)
  <2>1. /\ it'.kind \in {"drain", "splice"} /\ it'.pre = it.pre
        /\ it'.end = it.end /\ it'.collected = it.collected
        /\ it'.next = it.next + 1 /\ it'.back = it.back
    BY <1>2, <1>3 DEF exhaust, DrainFields
  <2> QED
    BY <1>1, <1>3, <2>1, DrainTakesApart
<1>4. CASE Closes(Q) /\ Leaks
  <2> DEFINE s == it.pre
  <2>1. /\ s \in Seq(Slot) /\ IsInjective(s) /\ it.back <= Len(s) /\ Read(Q, it.next) = s[it.next + 1]
    <3>1. /\ s \in Seq(Slot) /\ IsInjective(s) /\ it.back <= it.end /\ it.end <= Len(s) /\ it.end \in Nat
          /\ \A l \in it.next .. it.back - 1 : Read(Q, l) = it.pre[l + 1]
      BY <1>1, DrainFinds DEF DrainHas, Kept, History
    <3>2. it.next \in it.next .. it.back - 1 /\ Len(s) \in Nat
      BY <1>1, <1>2, <3>1
    <3> QED
      BY <1>2, <3>1, <3>2
  <2>2. s[it.next + 1] \in Part(s, it.next, it.back)
    BY <1>1, <1>2 DEF Part
  <2>3. Read(Q, it.next) \in Beside
    BY <1>1, <2>1, <2>2 DEF Beside
  <2>4. Apart' /\ ~ub'
    BY <1>1, <1>2, <1>4, <2>3, ApartLeaks DEF Kept
  <2>5. History'
    BY <1>4 DEF Closes, NoIter, History, Drains
  <2> QED
    BY <2>4, <2>5 DEF Kept
<1> QED
  BY <1>3, <1>4 DEF exhaust

\* Values that the splice writes behind the slice.
LEMMA DrainGains ==
  ASSUME BorrowInv, Drains, DrainHas', it'.d = it.d, it'.pre = it.pre, it'.start = it.start,
         NEW s \in Seq(Slot), it'.ins = it.ins \o s, NEW q, Holds(q)
  PROVE  Elems' = [Elems EXCEPT ![it.d] = Elems[it.d] \o s]
<1> DEFINE a == SubSeq(it.pre, 1, it.start)
           b == it.ins
<1>1. /\ Inv /\ it.d \in DEQS /\ Contents(Q) = a \o b /\ it.pre \in Seq(Slot) /\ b \in Seq(Elem)
      /\ it.start \in Nat
  BY DrainFinds DEF DrainHas
<1>2. a \in Seq(Slot) /\ b \in Seq(Slot)
  <2>1. b \in Seq(Slot)
    BY <1>1 DEF Slot
  <2>2. \A i \in 1 .. it.start : it.start <= Len(it.pre) => it.pre[i] \in Slot
    BY <1>1
  <2>3. it.start <= Len(it.pre)
    <3>1. /\ it.start <= it.next /\ it.next <= it.back /\ it.back <= it.end /\ it.end <= Len(it.pre)
          /\ it.next \in Nat /\ it.back \in Nat /\ it.end \in Nat /\ Len(it.pre) \in Nat
      BY <1>1, DrainFinds DEF DrainHas
    <3> QED
      BY <1>1, <3>1
  <2> QED
    BY <1>1, <2>1, <2>3
<1>3. Contents(dq'[it.d]) = a \o (b \o s)
  BY DEF DrainHas, Q
<1>4. (a \o b) \o s = a \o (b \o s)
  <2> HIDE DEF a, b
  <2> QED
    BY <1>2, ConcatAppend
<1>5. Elems[it.d] = Contents(Q)
  BY <1>1 DEF Elems, Q
<1>6. Contents(q) = Elems[it.d] \o s
  BY <1>1, <1>3, <1>4, <1>5 DEF Holds, Inv
<1>7. Elems' = [Elems EXCEPT ![it.d] = Contents(q)]
  <2>1. Inv /\ it.d \in DEQS /\ dq' = [dq EXCEPT ![it.d] = q]
    BY <1>1 DEF Holds
  <2> QED
    BY ONLY <2>1, NewElems
<1> QED
  BY <1>6, <1>7

\* The owned sets when values are written, moved or collected: s and what is
\* created go where t and B say.
LEMMA DrainOwnsApart ==
  ASSUME BorrowInv, Kept, NEEDS_DROP, Drains, leaked' = leaked, NEW s \in Seq(Slot), IsInjective(s),
         Elems' = [Elems EXCEPT ![it.d] = Elems[it.d] \o s], NEW B, Beside' = B,
         NEW created, Own(created, <<>>), created \cap live = {},
         ToSet(s) \subseteq Beside \cup created, B = (Beside \cup created) \ ToSet(s)
  PROVE  Apart' /\ ~ub'
<1>1. Inv /\ it.d \in DEQS /\ Apart /\ ~ub
  BY DrainFinds DEF Kept
<1>2. PICK d \in DEQS : d = it.d
  BY <1>1
<1> DEFINE E == Elems[d]
           t == E \o s
<1>3. E \in Seq(Slot) /\ IsInjective(E) /\ ToSet(E) \subseteq live /\ ToSet(E) \cap Beside = {}
  <2>1. PICK K : K = leaked \cup Beside
    OBVIOUS
  <2>2. Owned(K)
    BY <1>1, <2>1 DEF Apart
  <2> QED
    BY <1>1, <2>1, <2>2, ElemsOwned DEF Owned
<1> HIDE DEF E
<1>4. ToSet(E) \cap ToSet(s) = {}
  BY <1>3
<1>5. IsInjective(t) /\ ToSet(t) = ToSet(E) \cup ToSet(s)
  BY <1>3, <1>4, ConcatOwned
<1>6. IsInjective(<<>>) /\ ToSet(<<>>) = {}
  BY NoDrop
<1>7. Elems' = [Elems EXCEPT ![d] = t] /\ leaked' = leaked
  BY <1>2 DEF E
<1> HIDE DEF t
<1>8. /\ ToSet(<<>>) \subseteq ToSet(E) \cup Beside \cup created /\ ToSet(t) \cap B = {}
      /\ ToSet(t) \cup B = (ToSet(E) \cup Beside \cup created) \ ToSet(<<>>)
  BY <1>3, <1>5, <1>6
<1>9. /\ ToSet(<<>>) \subseteq ToSet(Elems[d]) \cup Beside \cup created
      /\ ToSet(t) \cup B = (ToSet(Elems[d]) \cup Beside \cup created) \ ToSet(<<>>)
  BY <1>8 DEF E
<1> QED
  BY ONLY <1>1, <1>5, <1>6, <1>7, <1>8, <1>9, NEEDS_DROP, d \in DEQS, Own(created, <<>>),
     created \cap live = {}, Beside' = B, ApartStep, ZenonT(60)

\* fill, and a turn of extend.
LEMMA SpliceWritesApart ==
  ASSUME BorrowInv, Kept, NEEDS_DROP, NEW e \in Unborn,
         fill(e) \/ \E hint \in Nat, oom \in BOOLEAN : Splice_extend(e, hint, oom)
  PROVE  Kept'
<1>1. Drains /\ it.kind = "splice" /\ e \in Elem /\ e \notin live
  BY UnbornAreNew DEF fill, Splice_extend, Drains
<1>2. DrainHas' /\ DOMAIN it = DrainFields /\ Inv /\ it.ins \in Seq(Elem)
  BY <1>1, SpliceWritesHas, DrainFinds DEF DrainHas
<1>3. CASE \E p \in BOOLEAN : LeavesSplice(p) /\ UNCHANGED dq /\ DropsNothing
  BY <1>1, <1>3, DrainStepApart
<1>4. ASSUME NEW q, Holds(q), it' = [it EXCEPT !.left = @ - 1, !.ins = Append(@, e)],
             Own({e}, <<>>), UNCHANGED <<ret, leaked>>
      PROVE  Kept'
  <2> DEFINE s == <<e>>
  <2>1. /\ it'.kind = "splice" /\ it'.d = it.d /\ it'.pre = it.pre /\ it'.start = it.start
        /\ it'.end = it.end /\ it'.next = it.next /\ it'.back = it.back
        /\ it'.collected = it.collected /\ it'.ins = Append(it.ins, e)
    BY <1>1, <1>2, <1>4 DEF DrainFields
  <2>2. it.ins \o s = Append(it.ins, e)
    BY <1>1, <1>2
  <2>3. s \in Seq(Slot) /\ IsInjective(s) /\ ToSet(s) = {e}
    BY <1>1, SetOfOne DEF Slot
  <2> HIDE DEF s
  <2>4. Elems' = [Elems EXCEPT ![it.d] = Elems[it.d] \o s]
    BY <1>1, <1>2, <1>4, <2>1, <2>2, <2>3, DrainGains
  <2>5. Beside' = Beside /\ History' /\ Beside \subseteq live
    BY <1>1, <2>1 DEF Beside, History, Drains, Kept, Apart, Owned
  <2>6. Beside' = (Beside \cup {e}) \ ToSet(s)
    BY <1>1, <2>3, <2>5
  <2>7. {e} \cap live = {} /\ ToSet(s) \subseteq Beside \cup {e} /\ leaked' = leaked
    BY <1>1, <1>4, <2>3
  <2>8. Apart' /\ ~ub'
    BY <1>1, <1>4, <2>3, <2>4, <2>6, <2>7, DrainOwnsApart
  <2> QED
    BY <2>5, <2>8 DEF Kept
<1> QED
  BY <1>3, <1>4 DEF fill, Splice_extend

\* The tail moves back, and the values that are left are collected.
LEMMA MakeRoomApart ==
  ASSUME BorrowInv, Kept, NEEDS_DROP, it.kind = "splice", it.pc \in {"hint", "collect"},
         NEW pc \in {"refill", "last"}, NEW extra \in Nat, NEW s \in Seq(Elem), NEW oom,
         MakeRoom(pc, extra, s, oom), TailStays, pc = "refill" => s = <<>>,
         IsInjective(s), ToSet(s) \cap live = {}, ToSet(s) \cap ToSet(it.pre) = {}
  PROVE  Kept'
<1>1. Drains
  BY DEF Drains
<1>2. /\ DrainHas' /\ DOMAIN it = DrainFields /\ Inv /\ it.collected = <<>> /\ it.ins \in Seq(Elem)
      /\ it.end \in Nat /\ it.pre \in Seq(Slot) /\ IsInjective(it.pre)
  BY <1>1, MakeRoomHas, DrainFinds DEF DrainHas, Kept, History
<1>3. CASE LeavesSplice(TRUE) /\ UNCHANGED dq /\ DropsNothing
  BY <1>1, <1>3, DrainStepApart
<1>4. ASSUME NEW q, Holds(q), it' = [it EXCEPT !.pc = pc, !.tail_start = @ + extra,
                                               !.collected = s, !.left = @ - Len(s)],
             Own(ToSet(s), <<>>), UNCHANGED <<ret, leaked>>
      PROVE  Kept'
  <2> DEFINE u == <<>>
             S == ToSet(s)
             T == Part(it.pre, it.end, Len(it.pre))
             B == Beside \cup S
  <2>1. /\ it'.kind = "splice" /\ it'.d = it.d /\ it'.pre = it.pre /\ it'.start = it.start
        /\ it'.end = it.end /\ it'.next = it.next /\ it'.back = it.back
        /\ it'.collected = s /\ it'.ins = it.ins
    BY <1>2, <1>4 DEF DrainFields
  <2>2. it.ins \o u = it.ins
    BY <1>2
  <2>3. u \in Seq(Slot) /\ IsInjective(u) /\ ToSet(u) = {}
    BY NoDrop
  <2> HIDE DEF u
  <2>4. Elems' = [Elems EXCEPT ![it.d] = Elems[it.d] \o u]
    BY <1>1, <1>2, <1>4, <2>1, <2>2, <2>3, DrainGains
  <2>5. Beside' = B
    <3>1. ToSet(<<>>) = {}
      BY NoDrop
    <3> QED
      BY <1>1, <1>2, <2>1, <3>1 DEF Beside, Drains
  <2>6. T \subseteq ToSet(it.pre)
    BY <1>2, PartSets
  <2>7. History'
    BY <1>1, <2>1, <2>6 DEF History, Drains, Kept
  <2>8. S \cap live = {} /\ ToSet(u) \subseteq Beside \cup S /\ leaked' = leaked
        /\ B = (Beside \cup S) \ ToSet(u)
    BY <1>4, <2>3
  <2>9. Apart' /\ ~ub'
    <3> HIDE DEF B, S
    <3> QED
      BY <1>1, <1>4, <2>3, <2>4, <2>5, <2>8, DrainOwnsApart DEF S
  <2> QED
    BY <2>7, <2>9 DEF Kept
<1> QED
  BY <1>3, <1>4 DEF MakeRoom

\* The lower bound of size_hint(), and the values that are collected.
LEMMA RoomApart ==
  ASSUME BorrowInv, Kept, NEEDS_DROP, NEW oom \in BOOLEAN,
         \/ \E lower \in Args : Splice_hint(lower, oom)
         \/ \E s \in UnbornSeqs : ToSet(s) \subseteq Fresh /\ Splice_collect(s, oom),
         TailStays
  PROVE  Kept'
<1>1. Drains /\ it.kind = "splice"
  BY DEF Drains, Splice_hint, Splice_collect
<1>2. Args \subseteq Nat
  BY BoundAssumption DEF Args
<1>3. ASSUME NEW lower \in Args, Splice_hint(lower, oom)
      PROVE  Kept'
  <2>1. CASE it' = [it EXCEPT !.pc = "collect"] /\ UNCHANGED dq /\ DropsNothing
    BY <1>1, <1>3, <2>1, DrainStepApart DEF Splice_hint
  <2>2. CASE MakeRoom("refill", lower, <<>>, oom)
    <3> DEFINE s == <<>>
    <3>1. /\ s \in Seq(Elem) /\ IsInjective(s) /\ ToSet(s) = {}
      BY NoDrop
    <3>2. lower \in Nat /\ it.pc \in {"hint", "collect"}
      BY <1>2, <1>3 DEF Splice_hint
    <3>3. MakeRoom("refill", lower, s, oom) /\ "refill" \in {"refill", "last"} /\ s = <<>>
      BY <2>2
    <3>4. ToSet(s) \cap live = {} /\ ToSet(s) \cap ToSet(it.pre) = {}
      BY <3>1
    <3> HIDE DEF s
    <3> QED
      BY <1>1, <3>1, <3>2, <3>3, <3>4, MakeRoomApart
  <2> QED
    BY <1>3, <2>1, <2>2 DEF Splice_hint
<1>4. ASSUME NEW s \in UnbornSeqs, ToSet(s) \subseteq Fresh, Splice_collect(s, oom)
      PROVE  Kept'
  <2>1. /\ s \in Seq(Elem) /\ IsInjective(s) /\ ToSet(s) \cap live = {} /\ Len(s) \in Nat
    BY UnbornAreNew
  <2>2. CASE LeavesSplice(FALSE) /\ UNCHANGED dq /\ DropsNothing
    BY <1>1, <2>2, DrainStepApart
  <2>3. CASE MakeRoom("last", Len(s), s, oom)
    <3>1. it.pc \in {"hint", "collect"}
      BY <1>4 DEF Splice_collect
    <3>2. ToSet(s) \cap ToSet(it.pre) = {}
      BY <1>4 DEF Fresh
    <3> QED
      BY <1>1, <2>1, <2>3, <3>1, <3>2, MakeRoomApart
  <2> QED
    BY <1>4, <2>2, <2>3 DEF Splice_collect
<1> QED
  BY <1>3, <1>4

\* The collected values become elements.
LEMMA LastApart ==
  ASSUME BorrowInv, Kept, NEEDS_DROP, Splice_last
  PROVE  Kept'
<1>1. Drains /\ it.kind = "splice" /\ it.pc = "last"
  BY DEF Splice_last, Drains
<1> DEFINE s == it.collected
           T == Part(it.pre, it.end, Len(it.pre))
<1>2. /\ DrainHas' /\ DOMAIN it = DrainFields /\ Inv /\ s \in Seq(Elem) /\ IsInjective(s)
      /\ it.pre \in Seq(Slot) /\ IsInjective(it.pre) /\ it.next = it.back /\ it.back \in Nat
      /\ it.back <= Len(it.pre) /\ ToSet(s) \cap T = {}
  <2>1. /\ DrainOK /\ DrainHas /\ it.end \in Nat
    BY <1>1, DrainFinds DEF DrainHas
  <2>2. /\ it.back <= it.end /\ it.end <= Len(it.pre) /\ it.back \in Nat /\ it.pre \in Seq(Slot)
        /\ it.next = it.back
    BY <1>1, <2>1 DEF DrainHas
  <2>3. it.back <= Len(it.pre)
    BY <2>1, <2>2
  <2>4. IsInjective(s) /\ IsInjective(it.pre) /\ ToSet(s) \cap T = {}
    BY <1>1 DEF Kept, History
  <2>5. DrainHas'
    BY LastHas
  <2> QED
    BY <1>1, <2>1, <2>2, <2>3, <2>4, <2>5, DrainFinds DEF DrainOK
<1>3. /\ it'.kind = "drain" /\ it'.d = it.d /\ it'.pre = it.pre /\ it'.start = it.start
      /\ it'.end = it.end /\ it'.next = it.next /\ it'.back = it.back
      /\ it'.collected = <<>> /\ it'.ins = it.ins \o s
  BY <1>2 DEF Splice_last, DrainFields
<1>4. s \in Seq(Slot)
  BY <1>2 DEF Slot
<1>5. Elems' = [Elems EXCEPT ![it.d] = Elems[it.d] \o s]
  <2>1. Holds(PushAll(Q, s))
    BY DEF Splice_last
  <2> HIDE DEF s
  <2> QED
    BY <1>1, <1>2, <1>3, <1>4, <2>1, DrainGains
<1>6. ToSet(<<>>) = {} /\ IsInjective(<<>>)
  BY NoDrop
<1>7. Part(it.pre, it.next, it.back) = {}
  BY <1>2, PartSets
<1>8. Beside = T \cup ToSet(s) /\ Beside' = T
  BY <1>1, <1>3, <1>6, <1>7 DEF Beside, Drains
<1>9. History'
  BY <1>2, <1>3, <1>6 DEF History, Drains
<1>10. Own({}, <<>>) /\ leaked' = leaked
  BY <1>2, NothingDropped DEF Splice_last, DropsNothing
<1> HIDE DEF s, T
<1>11. {} \cap live = {} /\ ToSet(s) \subseteq Beside \cup {} /\ T = (Beside \cup {}) \ ToSet(s)
  BY <1>2, <1>8
<1>12. Apart' /\ ~ub'
  BY <1>1, <1>2, <1>4, <1>5, <1>8, <1>10, <1>11, DrainOwnsApart
<1> QED
  BY <1>9, <1>12 DEF Kept

\* The tail comes back.
LEMMA RestoreApart ==
  ASSUME BorrowInv, Kept, NEEDS_DROP, restore_tail
  PROVE  Kept'
<1>1. Drains /\ it.kind = "drain" /\ it.pc = "exhaust" /\ it.next = it.back
  BY DEF restore_tail, Drains
<1> DEFINE m == it.end
           u == SubSeq(it.pre, m + 1, Len(it.pre))
           T == Part(it.pre, m, Len(it.pre))
<1>2. /\ Inv /\ it.d \in DEQS /\ it.pre \in Seq(Slot) /\ IsInjective(it.pre) /\ m \in Nat
      /\ m <= Len(it.pre) /\ it.back \in Nat /\ it.back <= Len(it.pre) /\ it.collected = <<>>
  <2>1. DrainHas /\ Inv /\ it.d \in DEQS
    BY <1>1, DrainFinds
  <2>2. it.back <= it.end /\ it.end <= Len(it.pre) /\ it.back \in Nat /\ it.end \in Nat
    BY <2>1 DEF DrainHas
  <2> QED
    BY <1>1, <2>1, <2>2 DEF DrainHas, Kept, History
<1>3. Contents(dq'[it.d]) = Contents(Q) \o u
  BY RestoreHas
<1>4. /\ u \in Seq(Slot) /\ IsInjective(u) /\ ToSet(u) = T
  <2> HIDE DEF m
  <2>1. Len(it.pre) \in Nat
    BY <1>2
  <2> QED
    BY <1>2, <2>1, PartIsSeq
<1> HIDE DEF u
<1>5. Elems' = [Elems EXCEPT ![it.d] = Elems[it.d] \o u]
  <2>1. \A c \in DEQS : c # it.d => dq'[c] = dq[c]
    BY <1>2 DEF restore_tail, Closes, Becomes, Inv
  <2>2. Elems[it.d] = Contents(Q)
    BY <1>2 DEF Elems, Q
  <2> QED
    BY <1>2, <1>3, <2>1, <2>2 DEF Elems
<1>6. ToSet(<<>>) = {} /\ IsInjective(<<>>)
  BY NoDrop
<1>7. Part(it.pre, it.next, it.back) = {}
  BY <1>1, <1>2, PartSets
<1>8. Beside = T /\ Beside' = {}
  BY <1>1, <1>2, <1>6, <1>7 DEF Beside, Drains, restore_tail, Closes, NoIter
<1>9. History'
  BY DEF History, Drains, restore_tail, Closes, NoIter
<1>10. Own({}, <<>>) /\ leaked' = leaked
  BY <1>2, NothingDropped DEF restore_tail, DropsNothing
<1> HIDE DEF T
<1>11. {} \cap live = {} /\ ToSet(u) \subseteq Beside \cup {} /\ {} = (Beside \cup {}) \ ToSet(u)
  BY <1>4, <1>8
<1>12. Apart' /\ ~ub'
  BY <1>1, <1>4, <1>5, <1>8, <1>10, <1>11, DrainOwnsApart
<1> QED
  BY <1>9, <1>12 DEF Kept
-----------------------------------------------------------------------------
(* DrainFilter.                                                            *)

\* A call of drain_filter.
LEMMA FilterOpensApart ==
  ASSUME IterInv, Kept, NEEDS_DROP, NEW d \in DEQS, drain_filter(d)
  PROVE  Kept'
<1>1. Idle /\ Inv /\ Beside = {} /\ Apart /\ ~ub
  BY IdleBeside DEF drain_filter, IterInv, Kept
<1> DEFINE E == Elems[d]
           t == <<>>
           B == ToSet(E)
<1>2. /\ E \in Seq(Slot) /\ Contents(dq[d]) = E /\ Len(E) = dq[d].len /\ dq[d].len \in Nat
      /\ IsInjective(E)
  <2>1. PICK K : K = leaked \cup Beside
    OBVIOUS
  <2>2. Owned(K)
    BY <1>1, <2>1 DEF Apart
  <2> QED
    BY <1>1, <2>2, ElemsOwned
<1>3. Elems' = [Elems EXCEPT ![d] = t]
  <2>1. Contents(dq'[d]) = SubSeq(Contents(dq[d]), 1, 0)
    <3>1. 0 \in Nat /\ 0 <= dq[d].len /\ dq' = [dq EXCEPT ![d].len = 0]
      BY <1>2 DEF drain_filter
    <3> QED
      BY <1>1, <3>1, CutHas
  <2>2. SubSeq(Contents(dq[d]), 1, 0) = <<>>
    BY <1>2
  <2>3. \A c \in DEQS : c # d => dq'[c] = dq[c]
    BY <1>1 DEF drain_filter, Inv
  <2> QED
    BY <1>1, <2>1, <2>2, <2>3 DEF Elems, Inv
<1>4. /\ it'.kind = "filter" /\ it'.idx = 0 /\ it'.old_len = Len(E) /\ it'.pre = E
      /\ it'.kept = <<>>
  BY <1>2 DEF drain_filter
<1>5. ToSet(<<>>) = {} /\ IsInjective(<<>>)
  BY NoDrop
<1>6. Part(E, 0, Len(E)) = ToSet(E)
  BY <1>2, PartIsAll
<1>7. Beside' = B
  BY <1>4, <1>5, <1>6 DEF Beside, Drains
<1>8. History'
  BY <1>2, <1>4, <1>5 DEF History, Drains
<1>9. Own({}, <<>>) /\ leaked' = leaked
  BY <1>1, NothingDropped DEF drain_filter, Borrows
<1>10. /\ ToSet(<<>>) \subseteq ToSet(E) \cup Beside \cup {} /\ ToSet(t) \cap B = {}
       /\ ToSet(t) \cup B = (ToSet(E) \cup Beside \cup {}) \ ToSet(<<>>) /\ {} \cap live = {}
  BY <1>1, <1>5
<1>11. IsInjective(t)
  BY <1>5
<1> HIDE DEF t, B
<1>12. Apart' /\ ~ub'
  BY ONLY <1>1, <1>3, <1>5, <1>7, <1>9, <1>10, <1>11, NEEDS_DROP, d \in DEQS, ApartStep, ZenonT(60)
<1> QED
  BY <1>8, <1>12 DEF Kept

\* The element that the predicate is called for.
LEMMA FilterTested ==
  ASSUME BorrowInv, Kept, Tests
  PROVE  LET s == it.pre
             m == it.idx
             n == it.old_len
         IN  /\ s \in Seq(Slot) /\ IsInjective(s) /\ n = Len(s) /\ m \in Nat /\ n \in Nat /\ m < n
             /\ Read(Q, m) = s[m + 1] /\ s[m + 1] \in Slot
             /\ Part(s, m, n) = {s[m + 1]} \cup Part(s, m + 1, n) /\ s[m + 1] \notin Part(s, m + 1, n)
             /\ Part(s, 0, m + 1) = Part(s, 0, m) \cup {s[m + 1]} /\ s[m + 1] \notin Part(s, 0, m)
             /\ Part(s, 0, m) \cap Part(s, m, n) = {}
<1> DEFINE s == it.pre
           m == it.idx
           n == it.old_len
<1>1. /\ FilterHas /\ m \in Nat /\ n \in Nat /\ m <= n /\ m # n /\ it.del \in Nat
      /\ it.kind = "filter"
  BY FilterFinds DEF Tests
<1>2. s \in Seq(Slot) /\ IsInjective(s) /\ n = Len(s) /\ \A l \in m .. n - 1 : Read(Q, l) = s[l + 1]
  BY <1>1 DEF FilterHas, Kept, History
<1> HIDE DEF s, m, n
<1>3. m < n /\ m \in m .. n - 1 /\ m + 1 \in 1 .. Len(s) /\ m + 1 \in Nat /\ m + 1 <= Len(s)
      /\ 0 < m + 1 /\ (m + 1) - 1 = m
  BY <1>1, <1>2
<1>4. Read(Q, m) = s[m + 1] /\ s[m + 1] \in Slot
  BY <1>2, <1>3
<1>5. Part(s, m, n) = {s[m + 1]} \cup Part(s, m + 1, n) /\ s[m + 1] \notin Part(s, m + 1, n)
  BY <1>1, <1>2, <1>3, PartEnds
<1>6. Part(s, 0, m + 1) = Part(s, 0, m) \cup {s[m + 1]} /\ s[m + 1] \notin Part(s, 0, m)
  <2> DEFINE k == m + 1
  <2>1. k \in Nat /\ k <= Len(s) /\ 0 < k /\ k - 1 = m /\ 0 \in Nat
    BY <1>3
  <2> HIDE DEF k
  <2>2. Part(s, 0, k) = Part(s, 0, k - 1) \cup {s[k]} /\ s[k] \notin Part(s, 0, k - 1)
    BY <1>2, <2>1, PartEnds
  <2> QED
    BY <2>1, <2>2 DEF k
<1>7. Part(s, 0, m) \cap Part(s, m, n) = {}
  <2>1. m <= Len(s) /\ 0 \in Nat
    BY <1>2, <1>3, <1>1
  <2> QED
    BY <1>1, <1>2, <2>1, PartSets
<1> QED
  BY <1>1, <1>2, <1>3, <1>4, <1>5, <1>6, <1>7 DEF s, m, n

\* One more element is kept.
LEMMA FilterKeepsApart ==
  ASSUME BorrowInv, Kept, Tests, Elems' = Elems, UNCHANGED <<live, ub, leaked>>,
         it'.kind = "filter", it'.pre = it.pre, it'.old_len = it.old_len, it'.idx = it.idx + 1,
         it'.kept = Append(it.kept, Read(Q, it.idx))
  PROVE  Kept'
<1> DEFINE s == it.pre
           m == it.idx
           n == it.old_len
           k == it.kept
           e == s[m + 1]
           o == <<e>>
<1>1. /\ s \in Seq(Slot) /\ IsInjective(s) /\ m \in Nat /\ n \in Nat
      /\ Read(Q, m) = e /\ e \in Slot
      /\ Part(s, m, n) = {e} \cup Part(s, m + 1, n) /\ e \notin Part(s, m + 1, n)
      /\ Part(s, 0, m + 1) = Part(s, 0, m) \cup {e} /\ e \notin Part(s, 0, m)
  BY FilterTested
<1>2. /\ k \in Seq(Slot) /\ IsInjective(k) /\ ToSet(k) \subseteq Part(s, 0, m) /\ it.kind = "filter"
  BY FilterFinds DEF FilterHas, Kept, History, Tests
<1>3. Append(k, e) = k \o o
  <2> HIDE DEF k, e
  <2> QED
    BY <1>1, <1>2
<1>4. o \in Seq(Slot) /\ IsInjective(o) /\ ToSet(o) = {e}
  BY <1>1, SetOfOne
<1> HIDE DEF e, o
<1>5. IsInjective(k \o o) /\ ToSet(k \o o) = ToSet(k) \cup {e}
  <2>1. ToSet(k) \cap ToSet(o) = {}
    BY <1>1, <1>2, <1>4
  <2> HIDE DEF k
  <2> QED
    BY <1>2, <1>4, <2>1, ConcatOwned
<1>6. it'.kept = k \o o
  BY <1>1, <1>3
<1>7. Beside = ToSet(k) \cup Part(s, m, n) /\ Beside' = ToSet(k \o o) \cup Part(s, m + 1, n)
  BY <1>2, <1>6 DEF Beside, Drains
<1> HIDE DEF s, m, n, k
<1>8. Beside' = Beside
  BY <1>1, <1>5, <1>7
<1>9. History'
  <2>1. ToSet(k \o o) \subseteq Part(s, 0, m + 1)
    BY <1>1, <1>2, <1>5
  <2> QED
    BY <1>1, <1>5, <1>6, <2>1 DEF History, Drains, s, m, k
<1>10. Apart'
  BY <1>8 DEF Kept, Apart, Owned
<1> QED
  BY <1>9, <1>10 DEF Kept

\* A kept element moves in the memory behind the empty slice.
LEMMA FilterKeepApart ==
  ASSUME BorrowInv, Kept, Filter_keep
  PROVE  Kept'
<1>1. /\ FilterOK /\ Inv /\ DOMAIN it = FilterFields /\ Tests /\ it.d \in DEQS /\ WF(Q)
      /\ it.kind = "filter" /\ Q.len = 0
  BY FilterFinds DEF Filter_keep, Tests, FilterOK
<1>2. /\ it'.kind = "filter" /\ it'.pre = it.pre /\ it'.old_len = it.old_len /\ it'.idx = it.idx + 1
      /\ it'.kept = Append(it.kept, Read(Q, it.idx)) /\ UNCHANGED <<live, ub, leaked>>
  BY <1>1, FilterReads DEF Filter_keep, FilterFields, DropsNothing
<1>3. Elems' = Elems
  <2>1. PICK q : Holds(q) /\ q = IF it.del > 0 THEN Copy(Q, it.idx, Q, it.idx - it.del, 1) ELSE Q
    BY DEF Filter_keep
  <2>2. q.len = 0
    BY <1>1, <2>1 DEF Copy, WF, IsDeque
  <2>3. Contents(q) = Contents(Q)
    BY <1>1, <2>2 DEF Contents, Reads
  <2> QED
    BY <1>1, <2>1, <2>3 DEF Holds, Elems, Inv, Q
<1> QED
  BY <1>1, <1>2, <1>3, FilterKeepsApart

\* The steps of DrainFilter that leave the memory alone and go on.
LEMMA FilterStepApart ==
  ASSUME BorrowInv, Kept, NEEDS_DROP, it.kind = "filter", UNCHANGED <<dq, leaked>>, it' # NoIter,
         \/ \E pc \in {"next", "drop"} : Filter_call(pc)
         \/ \E boom \in BOOLEAN : Filter_remove(boom)
         \/ Filter_end
         \/ Filter_panic
  PROVE  Kept'
<1>1. /\ DOMAIN it = FilterFields /\ Inv /\ it.d \in DEQS /\ Apart /\ ~ub /\ History /\ Elems' = Elems
      /\ it.idx \in Nat /\ it.old_len \in Nat
  BY FilterFinds DEF Elems, Kept
<1>2. CASE (\E pc \in {"next", "drop"} : Filter_call(pc)) \/ Filter_end
  <2>1. /\ it'.kind = "filter" /\ it'.pre = it.pre /\ it'.old_len = it.old_len /\ it'.idx = it.idx
        /\ it'.kept = it.kept /\ UNCHANGED <<live, ub>>
    BY <1>1, <1>2 DEF Filter_call, Filter_end, FilterFields, DropsNothing, Closes
  <2>2. Beside' = Beside /\ History'
    BY <1>1, <2>1 DEF Beside, History, Drains
  <2> QED
    BY <1>1, <2>1, <2>2, ApartStays DEF Kept
<1>3. CASE Filter_panic
  <2>1. /\ it'.kind = "filter" /\ it'.pre = it.pre /\ it'.old_len = it.old_len
        /\ it'.idx = it.idx + 1 /\ it'.kept = Append(it.kept, Read(Q, it.idx))
        /\ UNCHANGED <<live, ub, leaked>> /\ Tests
    <3>1. Tests
      BY <1>3 DEF Filter_panic
    <3>2. Read(Q, it.idx) = Tested
      BY <3>1, FilterReads
    <3> QED
      BY <1>1, <1>3, <3>1, <3>2 DEF Filter_panic, FilterFields, Closes
  <2> QED
    BY <1>1, <2>1, FilterKeepsApart
<1>4. ASSUME NEW boom \in BOOLEAN, Filter_remove(boom) PROVE Kept'
  <2> DEFINE s == it.pre
             m == it.idx
             n == it.old_len
             k == it.kept
             e == s[m + 1]
  <2>1. /\ it'.kind = "filter" /\ it'.pre = s /\ it'.old_len = n /\ it'.idx = m + 1
        /\ it'.kept = k /\ Own({}, <<Read(Q, m)>>) /\ Tests
    BY <1>1, <1>4 DEF Filter_remove, FilterFields, Closes
  <2>2. /\ Read(Q, m) = e /\ Part(s, m, n) = {e} \cup Part(s, m + 1, n) /\ e \notin Part(s, m + 1, n)
        /\ Part(s, 0, m + 1) = Part(s, 0, m) \cup {e} /\ e \notin Part(s, 0, m)
        /\ Part(s, 0, m) \cap Part(s, m, n) = {}
    BY <2>1, FilterTested
  <2>3. IsInjective(s) /\ IsInjective(k) /\ ToSet(k) \subseteq Part(s, 0, m)
    BY <1>1 DEF History
  <2>4. Beside = ToSet(k) \cup Part(s, m, n) /\ Beside' = ToSet(k) \cup Part(s, m + 1, n)
    BY <2>1 DEF Beside, Drains
  <2>5. History'
    <3>1. ToSet(k) \subseteq Part(s, 0, m + 1)
      BY <2>2, <2>3
    <3> QED
      BY <2>1, <2>3, <3>1 DEF History, Drains
  <2> HIDE DEF s, m, n, k, e
  <2>6. e \in Beside /\ Beside' = Beside \ {e}
    BY <2>2, <2>3, <2>4
  <2>7. Own({}, <<e>>)
    BY <2>1, <2>2
  <2>8. Apart' /\ ~ub'
    BY <1>1, <2>6, <2>7, ApartTakes
  <2> QED
    BY <2>5, <2>8 DEF Kept
<1> QED
  BY <1>2, <1>3, <1>4

\* The kept elements become the slice.
LEMMA FilterEndApart ==
  ASSUME BorrowInv, Kept, NEEDS_DROP, Filter_end, it.pc = "drop"
  PROVE  Kept'
<1> DEFINE t == it.kept
           n == it.old_len
<1>1. /\ it.kind = "filter" /\ it.idx = n /\ Contents(dq'[it.d]) = t /\ t \in Seq(Slot) /\ it' = NoIter
      /\ DropsNothing
  BY FilterEndHas DEF Filter_end
<1>2. /\ Inv /\ it.d \in DEQS /\ Apart /\ ~ub /\ IsInjective(t) /\ FilterOK /\ FilterHas
      /\ it.pre \in Seq(Slot) /\ IsInjective(it.pre) /\ n = Len(it.pre) /\ n \in Nat
  BY <1>1, FilterFinds DEF Kept, History, FilterHas
<1>3. PICK d \in DEQS : d = it.d
  BY <1>2
<1>4. Elems' = [Elems EXCEPT ![d] = t]
  <2>1. \A c \in DEQS : c # it.d => dq'[c] = dq[c]
    BY <1>2 DEF Filter_end, Closes, Becomes, Inv
  <2> QED
    BY <1>1, <1>2, <1>3, <2>1 DEF Elems
<1>5. Elems[d] = <<>>
  <2>1. Q.len = 0
    BY <1>2 DEF FilterOK
  <2> QED
    BY <1>3, <2>1 DEF Elems, Q, Contents, Reads
<1>6. ToSet(<<>>) = {} /\ IsInjective(<<>>)
  BY NoDrop
<1>7. Part(it.pre, n, n) = {}
  BY <1>2, PartSets
<1>8. Beside = ToSet(t) /\ Beside' = {} /\ History'
  BY <1>1, <1>7 DEF Beside, Drains, NoIter, History
<1>9. Own({}, <<>>) /\ leaked' = leaked
  BY <1>1, <1>2, NothingDropped DEF DropsNothing
<1> HIDE DEF t
<1>10. /\ ToSet(<<>>) \subseteq ToSet(Elems[d]) \cup Beside \cup {} /\ ToSet(t) \cap {} = {}
       /\ ToSet(t) \cup {} = (ToSet(Elems[d]) \cup Beside \cup {}) \ ToSet(<<>>) /\ {} \cap live = {}
  BY <1>5, <1>6, <1>8
<1>11. Apart' /\ ~ub'
  BY ONLY <1>2, <1>4, <1>6, <1>8, <1>9, <1>10, NEEDS_DROP, d \in DEQS, ApartStep, ZenonT(60)
<1> QED
  BY <1>8, <1>11 DEF Kept

\* The iterator is forgotten, or its Drop is left by a panic.
LEMMA LeavesApart ==
  ASSUME BorrowInv, Kept, NEEDS_DROP, Closes(Q), Leaks,
         forget \/ Filter_panic \/ \E boom \in BOOLEAN : Filter_remove(boom)
  PROVE  Kept'
<1>1. ~Idle /\ Inv
  BY DEF forget, Filter_panic, Filter_remove, Tests, Idle, NoIter, BorrowInv, IterInv
<1>2. it.d \in DEQS
  BY <1>1 DEF BorrowInv, IterInv, DrainOK, FilterOK, SiftOK
<1>3. WF(Q)
  BY <1>1, <1>2 DEF Inv, Q
<1>4. \/ UNCHANGED <<live, ub>>
      \/ \E v \in Beside : Own({}, <<v>>)
  <2>1. CASE forget \/ Filter_panic
    BY <2>1 DEF forget, Filter_panic
  <2>2. ASSUME NEW boom \in BOOLEAN, Filter_remove(boom)
        PROVE  Read(Q, it.idx) \in Beside /\ Own({}, <<Read(Q, it.idx)>>)
    <3>1. Tests /\ it.kind = "filter" /\ Own({}, <<Read(Q, it.idx)>>)
      BY <2>2 DEF Filter_remove, Tests
    <3>2. Read(Q, it.idx) \in Part(it.pre, it.idx, it.old_len)
      BY <3>1, FilterTested
    <3> QED
      BY <3>1, <3>2 DEF Beside, Drains
  <2> QED
    BY <2>1, <2>2
<1>5. Apart' /\ ~ub'
  BY <1>1, <1>2, <1>3, <1>4, ApartLeaks DEF Kept
<1>6. History'
  BY DEF Closes, NoIter, History, Drains
<1> QED
  BY <1>5, <1>6 DEF Kept

-----------------------------------------------------------------------------
(* retain and dedup_by, and the calls between the borrows.                 *)

\* Nothing is beside the deques in the loops and between the borrows.
LEMMA NotBeside ==
  ASSUME it.kind \notin {"drain", "splice", "filter"}
  PROVE  Beside = {} /\ History /\ leaked \cup Beside = leaked
  BY DEF Beside, History, Drains

\* A step of a loop, or a call, under which the deques own what they owned.
LEMMA LoopApart ==
  ASSUME it.kind \notin {"drain", "splice", "filter"}, it'.kind \notin {"drain", "splice", "filter"},
         leaked' = leaked,
         \A K : Owned(K) /\ K = leaked => Owned(K)' /\ ~ub',
         Kept
  PROVE  Kept'
<1>1. PICK K : K = leaked
  OBVIOUS
<1>2. Beside = {} /\ Beside' = {} /\ History'
  BY DEF Beside, History, Drains
<1>3. Owned(K)
  BY <1>1, <1>2 DEF Kept, Apart, Owned
<1>4. Owned(K)' /\ ~ub'
  BY <1>1, <1>3
<1>5. K = leaked' \cup Beside'
  BY <1>1, <1>2
<1>6. Apart'
  BY <1>2, <1>4, <1>5 DEF Apart, Owned
<1> QED
  BY <1>2, <1>4, <1>6 DEF Kept

\* The steps of retain and of dedup_by.
LEMMA SiftApart ==
  ASSUME BorrowInv, Kept, NEEDS_DROP, Sift_keep \/ Sift_remove \/ Sift_panic \/ Sift_end
  PROVE  Kept'
<1>1. it.kind = "sift" /\ leaked' = leaked
  BY DEF Sift_keep, Sift_remove, Sift_panic, Sift_end, DropsNothing
<1>2. Inv /\ it.d \in DEQS /\ it.w \in Nat /\ DOMAIN it = SiftFields /\ ~ub /\ WF(Q)
  BY <1>1, SiftFinds DEF Kept
<1>3. it'.kind \in {"none", "sift"}
  <2>1. CASE Sift_panic \/ Sift_end
    BY <2>1 DEF Sift_panic, Sift_end, NoIter
  <2>2. CASE Sift_keep
    BY <2>2, SiftKeepHas
  <2>3. CASE Sift_remove
    BY <2>3, SiftRemoveHas
  <2> QED
    BY <2>1, <2>2, <2>3
<1>4. ASSUME NEW K, Owned(K), K = leaked PROVE Owned(K)' /\ ~ub'
  <2>1. CASE Sift_remove \/ Sift_panic
    <3>1. UNCHANGED <<dq, live, ub>>
      BY <2>1 DEF Sift_remove, Sift_panic, DropsNothing
    <3>2. Elems' = Elems
      BY <3>1 DEF Elems
    <3> QED
      BY <1>2, <1>4, <3>1, <3>2 DEF Owned
  <2>2. CASE Sift_end
    <3>1. truncate_back(it.d, it.w)
      BY <2>2 DEF Sift_end
    <3> QED
      BY <1>2, <1>4, <3>1, TruncateOwned
  <2>3. CASE Sift_keep
    <3> DEFINE t == Contents(dq'[it.d])
    <3>1. PICK d \in DEQS : d = it.d
      BY <1>2
    <3>2. Elems' = [Elems EXCEPT ![d] = t]
      <4>1. \A c \in DEQS : c # it.d => dq'[c] = dq[c]
        BY <1>2, <2>3 DEF Sift_keep, Holds, Inv
      <4> QED
        BY <1>2, <3>1, <4>1 DEF Elems
    <3>3. Elems[d] = Contents(Q) /\ IsInjective(Elems[d])
      BY <1>4, <3>1 DEF Elems, Q, Owned
    <3>4. ToSet(t) = ToSet(Elems[d]) /\ IsInjective(t)
      BY <2>3, <3>3, SiftKeepHas
    <3>5. Own({}, <<>>)
      BY <1>2, <2>3, NothingDropped DEF Sift_keep, DropsNothing
    <3>6. ToSet(<<>>) = {} /\ IsInjective(<<>>)
      BY NoDrop
    <3> HIDE DEF t
    <3>7. /\ ToSet(<<>>) \subseteq ToSet(Elems[d]) \cup {} /\ {} \cap live = {}
          /\ ToSet(t) = (ToSet(Elems[d]) \cup {}) \ ToSet(<<>>)
      BY <3>4, <3>6
    <3> QED
      BY ONLY <1>2, <1>4, <3>2, <3>4, <3>5, <3>6, <3>7, NEEDS_DROP, d \in DEQS, OneOwned, ZenonT(200)
  <2> QED
    BY <2>1, <2>2, <2>3
<1>5. \A K : Owned(K) /\ K = leaked => Owned(K)' /\ ~ub'
  BY <1>4
<1>6. it.kind \notin {"drain", "splice", "filter"} /\ it'.kind \notin {"drain", "splice", "filter"}
  BY <1>1, <1>3
<1> QED
  BY ONLY <1>1, <1>5, <1>6, Kept, LoopApart

\* retain and dedup_by begin.
LEMMA SiftOpensApart ==
  ASSUME Kept, NEW d \in DEQS, NEW first, Sifts(d, first)
  PROVE  Kept'
<1>1. UNCHANGED <<dq, live, ub, leaked>> /\ it'.kind = "sift" /\ it.kind = "none" /\ Apart /\ ~ub
  BY DEF Sifts, Borrows, Idle, NoIter, Kept
<1>2. Beside' = {} /\ Beside = {} /\ History'
  BY <1>1 DEF Beside, History, Drains
<1> QED
  BY <1>1, <1>2, ApartStays DEF Kept

\* The calls between the borrows.
LEMMA BetweenApart ==
  ASSUME Inv, Kept, NEEDS_DROP, NEW d \in DEQS, Between(d)
  PROVE  Kept'
<1>1. it.kind = "none" /\ it'.kind = "none" /\ leaked' = leaked /\ ~ub
  BY DEF Between, Idle, NoIter, Kept
<1>2. ASSUME NEW K, Owned(K), K = leaked PROVE Owned(K)' /\ ~ub'
  <2>1. ASSUME NEW n \in Args, assign(d, n, FALSE) PROVE Owned(K)' /\ ~ub'
    <3>1. n \in Nat
      BY BoundAssumption DEF Args
    <3> QED
      BY <1>1, <1>2, <2>1, <3>1, CapacityOwned
  <2>2. ASSUME NEW e \in Unborn, push_front(d, e, FALSE) \/ push_back(d, e, FALSE)
        PROVE  Owned(K)' /\ ~ub'
    BY <1>1, <1>2, <2>2, PushOwned
  <2>3. CASE pop_front(d)
    BY <1>1, <1>2, <2>3, PopOwned
  <2> QED
    BY <2>1, <2>2, <2>3 DEF Between
<1>3. \A K : Owned(K) /\ K = leaked => Owned(K)' /\ ~ub'
  BY <1>2
<1>4. it.kind \notin {"drain", "splice", "filter"} /\ it'.kind \notin {"drain", "splice", "filter"}
  BY <1>1
<1> QED
  BY ONLY <1>1, <1>3, <1>4, Kept, LoopApart

\* Every step keeps ownership, when T has a destructor.
LEMMA KeptNext ==
  ASSUME BorrowInv, Kept, NEEDS_DROP, SoundIterNext
  PROVE  Kept'
<1>1. IterInv /\ Inv
  BY DEF BorrowInv, IterInv
<1>2. Args \subseteq Nat /\ 0 .. MaxItems \subseteq Nat /\ Fresh \subseteq Unborn
  BY BoundAssumption DEF Args, Fresh
<1>3. PICK d \in DEQS :
        \/ Between(d)
        \/ Opens(d)
        \/ \E n \in 0 .. MaxItems : Splices(d, n)
        \/ CallerStep
        \/ DropStep
        \/ TailStep /\ TailStays
        \/ (it.kind = "filter" /\ it.pc = "next" => it.del = 0) /\ Filter_panic
  BY DEF SoundIterNext
<1>4. CASE Between(d)
  BY <1>1, <1>4, BetweenApart
<1>5. CASE Opens(d) \/ \E n \in 0 .. MaxItems : Splices(d, n)
  <2>1. ASSUME NEW i \in Args, NEW j \in Args, NEW kind \in {"drain", "splice"}, NEW n \in Nat,
               drain(d, i, j, kind, n)
        PROVE  Kept'
    BY <1>1, <1>2, <2>1, DrainOpensApart
  <2>2. CASE \E i, j \in Args : drain(d, i, j, "drain", 0)
    BY <2>1, <2>2
  <2>3. CASE \E n \in 0 .. MaxItems : Splices(d, n)
    BY <1>2, <2>1, <2>3 DEF Splices
  <2>4. CASE drain_filter(d)
    BY <1>1, <2>4, FilterOpensApart
  <2>5. CASE retain(d) \/ dedup_by(d)
    BY <2>5, SiftOpensApart DEF retain, dedup_by
  <2> QED
    BY <1>5, <2>2, <2>3, <2>4, <2>5 DEF Opens
<1>6. CASE CallerStep
  <2>1. CASE Drain_next \/ Drain_next_back \/ drop_iterator
    BY <2>1, DrainStepApart
  <2>2. ASSUME NEW pc \in {"next", "drop"}, Filter_call(pc) PROVE Kept'
    <3>1. it.kind = "filter" /\ UNCHANGED <<dq, leaked>>
      BY <2>2 DEF Filter_call, DropsNothing
    <3>2. DOMAIN it = FilterFields
      BY <3>1, FilterFinds
    <3>3. it'.kind = "filter"
      BY <2>2, <3>1, <3>2 DEF Filter_call, FilterFields
    <3>4. it' # NoIter
      BY <3>3 DEF NoIter
    <3> QED
      BY <2>2, <3>1, <3>4, FilterStepApart
  <2>3. CASE forget
    BY <2>3, LeavesApart DEF forget
  <2> QED
    BY <1>6, <2>1, <2>2, <2>3 DEF CallerStep
<1>7. CASE DropStep
  <2>1. CASE \E boom \in BOOLEAN : exhaust(boom)
    BY <2>1, ExhaustApart
  <2>2. CASE restore_tail
    BY <2>2, RestoreApart
  <2>3. CASE Splice_start \/ Splice_panic \/ Splice_none \/ filled
    BY <2>3, DrainStepApart
  <2>4. ASSUME NEW e \in Fresh, NEW hint \in Args, NEW oom \in BOOLEAN,
               Splice_extend(e, hint, oom)
        PROVE  Kept'
    <3>1. hint \in Nat /\ e \in Unborn
      BY <1>2, <2>4
    <3> QED
      BY <2>4, <3>1, SpliceWritesApart
  <2>5. ASSUME NEW e \in Fresh, fill(e) PROVE Kept'
    BY <1>2, <2>5, SpliceWritesApart
  <2>6. CASE Splice_last
    BY <2>6, LastApart
  <2>7. CASE Filter_keep
    BY <2>7, FilterKeepApart
  <2>8. ASSUME NEW boom \in BOOLEAN, Filter_remove(boom) PROVE Kept'
    <3>1. it.kind = "filter" /\ DOMAIN it = FilterFields
      BY <2>8, FilterFinds DEF Filter_remove, Tests
    <3>2. CASE Closes(Q) /\ Leaks
      BY <2>8, <3>2, LeavesApart
    <3>3. CASE ~(Closes(Q) /\ Leaks)
      <4>1. it'.kind = "filter" /\ UNCHANGED <<dq, leaked>>
        BY <2>8, <3>1, <3>3 DEF Filter_remove, FilterFields
      <4>2. it' # NoIter
        BY <4>1 DEF NoIter
      <4> QED
        BY <2>8, <3>1, <4>1, <4>2, FilterStepApart
    <3> QED
      BY <3>2, <3>3
  <2>9. CASE Filter_end
    <3>1. it.kind = "filter" /\ DOMAIN it = FilterFields
      BY <2>9, FilterFinds DEF Filter_end
    <3>2. CASE it.pc = "drop"
      BY <2>9, <3>2, FilterEndApart
    <3>3. CASE it.pc # "drop"
      <4>1. it'.kind = "filter" /\ UNCHANGED <<dq, leaked>>
        BY <2>9, <3>1, <3>3 DEF Filter_end, FilterFields, DropsNothing
      <4>2. it' # NoIter
        BY <4>1 DEF NoIter
      <4> QED
        BY <2>9, <3>1, <4>1, <4>2, FilterStepApart
    <3> QED
      BY <3>2, <3>3
  <2>10. CASE Sift_keep \/ Sift_remove \/ Sift_panic \/ Sift_end
    BY <2>10, SiftApart
  <2> QED
    BY <1>7, <2>1, <2>2, <2>3, <2>4, <2>5, <2>6, <2>7, <2>8, <2>9, <2>10 DEF DropStep
<1>8. CASE TailStep /\ TailStays
  <2>1. PICK oom \in BOOLEAN :
          \/ \E lower \in Args : Splice_hint(lower, oom)
          \/ \E s \in UnbornSeqs : ToSet(s) \subseteq Fresh /\ Splice_collect(s, oom)
    BY <1>8 DEF TailStep
  <2> QED
    BY <1>8, <2>1, RoomApart
<1>9. CASE Filter_panic
  <2>1. it.kind = "filter" /\ DOMAIN it = FilterFields
    BY <1>9, FilterFinds DEF Filter_panic, Tests
  <2>2. CASE Closes(Q) /\ Leaks
    BY <1>9, <2>2, LeavesApart
  <2>3. CASE ~(Closes(Q) /\ Leaks)
    <3>1. it'.kind = "filter" /\ UNCHANGED <<dq, leaked>>
      BY <1>9, <2>1, <2>3 DEF Filter_panic, FilterFields
    <3>2. it' # NoIter
      BY <3>1 DEF NoIter
    <3> QED
      BY <1>9, <2>1, <3>1, <3>2, FilterStepApart
  <2> QED
    BY <2>2, <2>3
<1> QED
  BY <1>3, <1>4, <1>5, <1>6, <1>7, <1>8, <1>9

\* A T without a destructor: nothing is dropped.
LEMMA StepNoDropIter ==
  ASSUME ~NEEDS_DROP, SoundIterNext
  PROVE  UNCHANGED ub
<1>1. ASSUME NEW created, NEW dropped, Own(created, dropped) PROVE ub' = ub
  BY <1>1 DEF Own
<1>2. PICK d \in DEQS :
        \/ Between(d)
        \/ Opens(d)
        \/ \E n \in 0 .. MaxItems : Splices(d, n)
        \/ CallerStep
        \/ DropStep
        \/ TailStep /\ TailStays
        \/ (it.kind = "filter" /\ it.pc = "next" => it.del = 0) /\ Filter_panic
  BY DEF SoundIterNext
<1>3. CASE Between(d)
  BY <1>1, <1>3 DEF Between, assign, push_front, push_back, pop_front, Stays
<1>4. CASE Opens(d) \/ \E n \in 0 .. MaxItems : Splices(d, n)
  BY <1>4 DEF Opens, Splices, drain, drain_filter, retain, dedup_by, Sifts, Borrows, Stays
<1>5. CASE CallerStep
  BY <1>1, <1>5 DEF CallerStep, Drain_next, Drain_next_back, drop_iterator, Filter_call, forget,
     JustDrops, DropsNothing
<1>6. CASE DropStep
  <2>1. CASE \E boom \in BOOLEAN : exhaust(boom) \/ Filter_remove(boom)
    BY <1>1, <2>1 DEF exhaust, Filter_remove
  <2>2. CASE \/ restore_tail \/ Splice_start \/ Splice_panic \/ Splice_none \/ filled \/ Splice_last
             \/ Filter_keep \/ Filter_end \/ Sift_keep \/ Sift_remove \/ Sift_panic
    BY <2>2 DEF restore_tail, Splice_start, Splice_panic, Splice_none, filled, Splice_last,
       Filter_keep, Filter_end, Sift_keep, Sift_remove, Sift_panic, DropsNothing
  <2>3. CASE \E e \in Fresh : fill(e) \/ \E hint \in Args, oom \in BOOLEAN : Splice_extend(e, hint, oom)
    BY <1>1, <2>3 DEF fill, Splice_extend, DropsNothing
  <2>4. CASE Sift_end
    BY <1>1, <2>4 DEF Sift_end, truncate_back, Stays
  <2> QED
    BY <1>6, <2>1, <2>2, <2>3, <2>4 DEF DropStep
<1>7. CASE TailStep
  <2>1. ASSUME NEW pc, NEW extra, NEW s, NEW oom, MakeRoom(pc, extra, s, oom) PROVE ub' = ub
    BY <1>1, <2>1 DEF MakeRoom, DropsNothing
  <2> QED
    BY <1>7, <2>1 DEF TailStep, Splice_hint, Splice_collect, DropsNothing
<1>8. CASE Filter_panic
  BY <1>8 DEF Filter_panic
<1> QED
  BY <1>2, <1>3, <1>4, <1>5, <1>6, <1>7, <1>8
=============================================================================
