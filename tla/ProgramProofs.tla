---------------------------- MODULE ProgramProofs ----------------------------
(***************************************************************************)
(* Proofs about IntoIter, about the whole program of DequeProgram, and     *)
(* about the trait implementations of DequeConversions.                    *)
(*                                                                         *)
(* The pointers of an IntoIter are not wrapped, but the mirror makes every *)
(* IntoIter look like a deque: moving ptr back by a region, if it is in    *)
(* the second, gives a well formed deque that reads the same.              *)
(*                                                                         *)
(* The program's invariant puts the parts together: while a deque is       *)
(* borrowed, what IteratorProofs says of the iterator; while none is, that *)
(* every live value is in one slot of one deque or IntoIter, or leaked.    *)
(*                                                                         *)
(* The last part shows that the trait implementations refine Deque.        *)
(***************************************************************************)
EXTENDS DequeProgram, IteratorProofs, WellFoundedInduction

\* The deque that reads the same.
Unwrapped(t) ==
  [blen |-> t.blen, half |-> t.half, mem |-> t.mem,
   head |-> IF t.head < t.half THEN t.head ELSE t.head - t.half, len |-> t.len]

IsIter(t) ==
  /\ t = [blen |-> t.blen, half |-> t.half, mem |-> t.mem, head |-> t.head,
          len |-> t.len, cap |-> t.cap, used |-> t.used]
  /\ t.head \in Nat /\ t.used \in BOOLEAN

\* The iterator's elements end before the second region does, and it
\* remembers the capacity.
IterOK(t) ==
  /\ IsIter(t) /\ WF(Unwrapped(t)) /\ t.cap = capacity(t)
  /\ t.half > 0 => t.head + t.len * SIZE < 2 * t.half
  /\ t.half = 0 => t.head = 0

IntoInv ==
  /\ Inv /\ DOMAIN iters = ITERS
  /\ \A i \in ITERS : IterOK(iters[i])

-----------------------------------------------------------------------------
(* An iterator and the deque that reads the same.                          *)

\* The numbers of an iterator.
LEMMA IterBasics ==
  ASSUME NEW t, IterOK(t)
  PROVE  /\ t.blen \in Nat /\ t.half \in Nat /\ t.head \in Nat /\ t.len \in Nat
         /\ t.cap \in Nat /\ t.len <= t.cap /\ t.cap = capacity(Unwrapped(t))
         /\ t.mem \in [0 .. t.half - 1 -> Byte] /\ SIZE \in Nat \ {0}
         /\ t.blen > 0 <=> t.half > 0
         /\ t.len > 0 => t.blen > 0
         /\ t.half > 0 => t.cap * SIZE <= t.half
<1> DEFINE q == Unwrapped(t)
<1>1. /\ q.blen = t.blen /\ q.half = t.half /\ q.mem = t.mem /\ q.len = t.len
      /\ capacity(q) = t.cap
  BY DEF Unwrapped, IterOK, capacity
<1> HIDE DEF q
<1>2. WF(q) /\ t.head \in Nat /\ SIZE \in Nat \ {0}
  BY LayoutAssumption DEF IterOK, IsIter, q
<1>3. capacity(q) \in Nat /\ (q.len > 0 => q.blen > 0)
  BY <1>2, Basics
<1> QED
  BY <1>1, <1>2, <1>3 DEF WF, IsDeque, BufferFits, q

\* Both reach the same physical bytes.
LEMMA ViewPhys ==
  ASSUME NEW t, IterOK(t), NEW x \in Int
  PROVE  Phys(t, t.head + x) = Phys(Unwrapped(t), Unwrapped(t).head + x)
<1>1. t.head \in Nat /\ t.half \in Nat
  BY IterBasics
<1>2. CASE t.head < t.half
  BY <1>2 DEF Unwrapped, Phys
<1>3. CASE ~(t.head < t.half) /\ t.half > 0
  <2> DEFINE a == t.head + x
  <2>1. a \in Int /\ t.half \in Nat \ {0}
    BY <1>1, <1>3
  <2>2. Unwrapped(t).head + x = a - t.half /\ Unwrapped(t).half = t.half
    BY <1>1, <1>3 DEF Unwrapped
  <2> HIDE DEF a
  <2>3. (a - t.half) % t.half = a % t.half
    BY <2>1, ModShift
  <2> QED
    BY <2>2, <2>3 DEF Phys, a
<1>4. CASE t.half = 0
  <2>1. t.head = 0
    BY <1>4 DEF IterOK
  <2>2. Unwrapped(t).head = t.head /\ Unwrapped(t).half = t.half
    BY <1>4, <2>1 DEF Unwrapped
  <2> QED
    BY <2>2 DEF Phys
<1> QED
  BY <1>1, <1>2, <1>3, <1>4

\* They read the same.
LEMMA UnwrappedRead ==
  ASSUME NEW t, IterOK(t), NEW i \in Int
  PROVE  Read(t, i) = Read(Unwrapped(t), i)
<1> SUFFICES ASSUME NEW k \in 0 .. SIZE - 1
             PROVE  SlotByte(t, i, k) = SlotByte(Unwrapped(t), i, k)
  BY SameRead
<1> DEFINE x == i * SIZE + k
           q == Unwrapped(t)
<1>1. x \in Int /\ t.head \in Int /\ q.head \in Int
  <2>1. t.head \in Nat /\ t.half \in Nat /\ SIZE \in Nat
    BY IterBasics
  <2>2. q.head \in Int
    BY <2>1 DEF Unwrapped
  <2> QED
    BY <2>1, <2>2
<1>2. t.head + i * SIZE + k = t.head + x /\ q.head + i * SIZE + k = q.head + x
  <2>1. SIZE \in Int /\ i * SIZE \in Int /\ k \in Int
    BY IterBasics
  <2> QED
    BY <1>1, <2>1
<1>3. q.mem = t.mem
  BY DEF Unwrapped
<1> HIDE DEF x, q
<1>4. Phys(t, t.head + x) = Phys(q, q.head + x)
  BY <1>1, ViewPhys DEF q
<1> QED
  BY <1>2, <1>3, <1>4 DEF SlotByte, q

\* The elements that are left are the elements of the deque.
LEMMA ViewContents ==
  ASSUME NEW t, IterOK(t)
  PROVE  /\ as_slice(t) = Contents(Unwrapped(t)) /\ WF(Unwrapped(t)) /\ Unwrapped(t).len = t.len
         /\ capacity(Unwrapped(t)) = t.cap /\ Unwrapped(t).blen = t.blen
<1>1. Unwrapped(t).len = t.len /\ Unwrapped(t).blen = t.blen
  BY DEF Unwrapped
<1>2. \A j \in 1 .. t.len : Read(t, 0 + j - 1) = Read(Unwrapped(t), 0 + j - 1)
  BY IterBasics, UnwrappedRead
<1> QED
  BY <1>1, <1>2, IterBasics DEF as_slice, Contents, Reads, IterOK

\* Forgetting what is outside the slice is the same for both.
LEMMA SettleIter ==
  ASSUME NEW t, IterOK(t)
  PROVE  /\ IterOK(Settle(t)) /\ Unwrapped(Settle(t)) = Settle(Unwrapped(t))
         /\ as_slice(Settle(t)) = as_slice(t) /\ Settle(t).used = t.used
<1> DEFINE q == Unwrapped(t)
           m == [a \in DOMAIN t.mem |->
                  IF (a - t.head) % t.half < t.len * SIZE THEN t.mem[a] ELSE Junk]
           n == [a \in DOMAIN q.mem |->
                  IF (a - q.head) % q.half < q.len * SIZE THEN q.mem[a] ELSE Junk]
           s == Settle(t)
<1>1. /\ t.head \in Nat /\ t.half \in Nat
      /\ t.mem \in [0 .. t.half - 1 -> Byte]
  BY IterBasics
<1>2. /\ q.half = t.half /\ q.mem = t.mem /\ q.len = t.len /\ q.blen = t.blen
      /\ q.head = IF t.head < t.half THEN t.head ELSE t.head - t.half
      /\ q = [blen |-> q.blen, half |-> q.half, mem |-> q.mem, head |-> q.head, len |-> q.len]
  BY DEF Unwrapped
<1> HIDE DEF q
<1>3. m = n
  <2> SUFFICES ASSUME NEW a \in DOMAIN t.mem
               PROVE  (a - t.head) % t.half = (a - q.head) % q.half
    BY <1>2
  <2>1. CASE t.head < t.half
    BY <1>2, <2>1
  <2>2. CASE ~(t.head < t.half)
    <3> DEFINE b == a - t.head
    <3>1. b \in Int /\ t.half \in Nat \ {0} /\ a - q.head = b + t.half
      BY <1>1, <1>2, <2>2
    <3> HIDE DEF b
    <3>2. (b + t.half) % t.half = b % t.half
      BY <3>1, ModShift
    <3> QED
      BY <1>2, <3>1, <3>2 DEF b
  <2> QED
    BY <2>1, <2>2
<1>4. s = [t EXCEPT !.mem = m] /\ Settle(q) = [q EXCEPT !.mem = n]
  BY DEF Settle
<1> HIDE DEF m, n, s
<1>5. s = [blen |-> t.blen, half |-> t.half, mem |-> m, head |-> t.head,
           len |-> t.len, cap |-> t.cap, used |-> t.used]
  BY <1>4 DEF IterOK, IsIter
<1>6. Settle(q) = [blen |-> q.blen, half |-> q.half, mem |-> m, head |-> q.head, len |-> q.len]
  BY <1>2, <1>3, <1>4
<1>7. Unwrapped(s) = Settle(q)
  BY <1>2, <1>5, <1>6 DEF Unwrapped
<1>8. WF(Settle(q)) /\ Contents(Settle(q)) = Contents(q)
  BY SettleContents, ViewContents DEF q
<1>9. IterOK(s)
  <2>1. IsIter(s)
    BY <1>5 DEF IterOK, IsIter
  <2>2. capacity(s) = capacity(t)
    BY <1>5 DEF capacity
  <2> QED
    BY <1>5, <1>7, <1>8, <2>1, <2>2 DEF IterOK
<1>10. as_slice(s) = as_slice(t)
  BY <1>7, <1>8, <1>9, ViewContents DEF q
<1> QED
  BY <1>5, <1>7, <1>9, <1>10 DEF s, q

\* The IntoIter of a deque has its elements.
LEMMA TakeOK ==
  ASSUME NEW q, WF(q)
  PROVE  IterOK(Take(q)) /\ Unwrapped(Take(q)) = q
<1> DEFINE t == Take(q)
<1>1. t = [blen |-> q.blen, half |-> q.half, mem |-> q.mem, head |-> q.head,
           len |-> q.len, cap |-> capacity(q), used |-> TRUE]
  BY DEF Take
<1> HIDE DEF t
<1>2. /\ q = [blen |-> q.blen, half |-> q.half, mem |-> q.mem, head |-> q.head, len |-> q.len]
      /\ q.head \in Nat /\ q.half \in Nat /\ q.blen \in Nat /\ q.len \in Nat
  BY DEF WF, IsDeque
<1>3. IF q.blen = 0 THEN q.half = 0 /\ q.head = 0
                    ELSE q.half > 0 /\ q.head < q.half /\ capacity(q) * SIZE <= q.half
  BY DEF WF, BufferFits
<1>4. Unwrapped(t) = q
  BY <1>1, <1>2, <1>3 DEF Unwrapped
<1>5. IsIter(t) /\ capacity(t) = t.cap
  BY <1>1, <1>2 DEF IsIter, capacity
<1>6. t.half > 0 => t.head + t.len * SIZE < 2 * t.half
  <2> SUFFICES ASSUME t.half > 0 PROVE q.head + q.len * SIZE < 2 * q.half
    BY <1>1
  <2>1. SIZE \in Nat /\ capacity(q) \in Nat /\ q.len <= capacity(q)
    BY Basics, LayoutAssumption
  <2>2. q.len * SIZE <= capacity(q) * SIZE
    BY <1>2, <2>1, MulMonotone
  <2>3. q.head < q.half /\ capacity(q) * SIZE <= q.half
    BY <1>1, <1>3
  <2>4. q.len * SIZE \in Nat /\ capacity(q) * SIZE \in Nat
    BY <1>2, <2>1
  <2> QED
    BY <1>2, <2>2, <2>3, <2>4
<1>7. t.half = 0 => t.head = 0
  BY <1>1, <1>2, <1>3
<1> QED
  BY <1>4, <1>5, <1>6, <1>7 DEF IterOK, t

\* An iterator that is not in use holds nothing.
LEMMA GoneOK == IterOK(Gone)
<1> DEFINE n == [a \in {} |-> Junk]
<1>1. /\ Gone.blen = 0 /\ Gone.half = 0 /\ Gone.head = 0 /\ Gone.len = 0 /\ Gone.cap = 0
      /\ Gone.mem = n /\ IsIter(Gone)
  BY DEF Gone, IsIter
<1>2. Unwrapped(Gone) = new
  BY <1>1 DEF Unwrapped, new, OnBuffer, NewBuffer
<1>3. capacity(Gone) = 0
  BY <1>1 DEF capacity
<1> QED
  BY <1>1, <1>2, <1>3, NewWF DEF IterOK

-----------------------------------------------------------------------------
(* The steps of an iterator.                                               *)

\* ptr moves by one element without wrapping: the deque that reads the same
\* wraps its head.
LEMMA FrontTaken ==
  ASSUME NEW t, IterOK(t), t.len > 0
  PROVE  LET p == [t EXCEPT !.head = @ + SIZE, !.len = @ - 1]
         IN  IterOK(p) /\ as_slice(p) = Tail(as_slice(t)) /\ Read(t, 0) = Head(as_slice(t))
<1> DEFINE p == [t EXCEPT !.head = @ + SIZE, !.len = @ - 1]
           q == Unwrapped(t)
           w == move_head_unchecked(q, 1)
           s == Contents(q)
<1>1. /\ t.head \in Nat /\ t.half \in Nat /\ t.len \in Nat /\ SIZE \in Nat \ {0}
      /\ t.blen > 0 /\ t.half > 0
  BY IterBasics
<1>2. p = [blen |-> t.blen, half |-> t.half, mem |-> t.mem, head |-> t.head + SIZE,
           len |-> t.len - 1, cap |-> t.cap, used |-> t.used]
  <2> DEFINE x == t.head + SIZE
             y == t.len - 1
  <2> HIDE DEF x, y
  <2>1. t = [blen |-> t.blen, half |-> t.half, mem |-> t.mem, head |-> t.head,
             len |-> t.len, cap |-> t.cap, used |-> t.used]
    BY DEF IterOK, IsIter
  <2>2. [t EXCEPT !.head = x, !.len = y]
          = [blen |-> t.blen, half |-> t.half, mem |-> t.mem, head |-> x,
             len |-> y, cap |-> t.cap, used |-> t.used]
    <3> DEFINE u == [t EXCEPT !.head = x]
    <3>1. u = [blen |-> t.blen, half |-> t.half, mem |-> t.mem, head |-> x,
               len |-> t.len, cap |-> t.cap, used |-> t.used]
      BY <2>1
    <3>2. [t EXCEPT !.head = x, !.len = y] = [u EXCEPT !.len = y]
      OBVIOUS
    <3> HIDE DEF u
    <3> QED
      BY <3>1, <3>2
  <2> QED
    BY <2>2 DEF x, y
<1> HIDE DEF p
<1>3. WF(q) /\ q.len = t.len /\ q.blen = t.blen /\ as_slice(t) = s /\ capacity(q) = t.cap
  BY ViewContents
<1>4. /\ q.half = t.half /\ q.mem = t.mem
      /\ q.head = IF t.head < t.half THEN t.head ELSE t.head - t.half
  BY DEF Unwrapped
<1> HIDE DEF q, s
<1>5. size_in_bytes(q.blen) \div 2 = t.half
  <2>1. size_in_bytes(q.blen) = 2 * t.half
    BY <1>1, <1>3, <1>4 DEF WF, BufferFits
  <2> QED
    BY <1>1, <2>1
<1>6. t.head + t.len * SIZE < 2 * t.half
  BY <1>1 DEF IterOK
<1>7. /\ t.head + SIZE < 2 * t.half
      /\ (t.head + SIZE) + (t.len - 1) * SIZE < 2 * t.half
  <2>1. 1 * SIZE <= t.len * SIZE
    BY <1>1, MulMonotone
  <2>2. t.len * SIZE = SIZE + (t.len - 1) * SIZE /\ (t.len - 1) * SIZE \in Nat
    BY <1>1
  <2> QED
    BY <1>1, <1>6, <2>1, <2>2
<1> DEFINE b == q.head + 1 * SIZE
           region == size_in_bytes(q.blen) \div 2
           h == IF b < 0 THEN b + region ELSE IF b >= region THEN b - region ELSE b
<1>8. w = [q EXCEPT !.head = h, !.len = q.len - 1]
  BY DEF move_head_unchecked
<1>9. h = IF t.head + SIZE < t.half THEN t.head + SIZE ELSE t.head + SIZE - t.half
  BY <1>1, <1>4, <1>5, <1>7
<1> HIDE DEF h
<1>10. w = [blen |-> t.blen, half |-> t.half, mem |-> t.mem, head |-> h, len |-> t.len - 1]
  <2>1. q = [blen |-> q.blen, half |-> q.half, mem |-> q.mem, head |-> q.head, len |-> q.len]
    BY DEF Unwrapped, q
  <2> QED
    BY <1>3, <1>4, <1>8, <2>1
<1> HIDE DEF w
<1>11. Unwrapped(p) = w
  <2>1. /\ p.blen = t.blen /\ p.half = t.half /\ p.mem = t.mem /\ p.len = t.len - 1
        /\ p.head = t.head + SIZE
    BY <1>2
  <2>2. h = IF p.head < p.half THEN p.head ELSE p.head - p.half
    BY <1>1, <1>9, <2>1
  <2> HIDE DEF p
  <2> QED
    BY <1>10, <2>1, <2>2 DEF Unwrapped
<1>12. WF(w) /\ Contents(w) = SubSeq(s, 1 + 1, q.len)
  <2>1. 1 \in 0 .. q.len /\ q.len > 0
    BY <1>1, <1>3
  <2> QED
    BY <1>3, <2>1, HeadCut DEF s, w
<1>13. IterOK(p)
  <2>1. IsIter(p)
    BY <1>1, <1>2 DEF IterOK, IsIter
  <2>2. capacity(p) = capacity(t) /\ p.cap = t.cap
    BY <1>2 DEF capacity
  <2>3. p.half > 0 /\ p.head + p.len * SIZE < 2 * p.half
    BY <1>1, <1>2, <1>7
  <2> QED
    BY <1>11, <1>12, <2>1, <2>2, <2>3 DEF IterOK
<1>14. as_slice(p) = SubSeq(s, 2, q.len)
  <2>1. 1 + 1 = 2
    OBVIOUS
  <2>2. as_slice(p) = Contents(Unwrapped(p))
    BY <1>13, ViewContents
  <2> QED
    BY <1>11, <1>12, <2>1, <2>2
<1>15. s \in Seq(Slot) /\ Len(s) = q.len /\ s[0 + 1] = Read(q, 0)
  BY <1>1, <1>3, ContentsSeq DEF s
<1>16. Read(t, 0) = Read(q, 0)
  BY UnwrappedRead DEF q
<1>17. Tail(s) = SubSeq(s, 2, q.len) /\ Head(s) = s[1]
  BY <1>15
<1> QED
  BY <1>3, <1>13, <1>14, <1>15, <1>16, <1>17, SMTT(30) DEF p

\* end moves by one element.
LEMMA BackTaken ==
  ASSUME NEW t, IterOK(t), t.len > 0
  PROVE  LET p == [t EXCEPT !.len = @ - 1]
         IN  /\ IterOK(p) /\ as_slice(p) = Front(as_slice(t))
             /\ Read(t, t.len - 1) = Last(as_slice(t))
<1> DEFINE p == [t EXCEPT !.len = @ - 1]
           q == Unwrapped(t)
           n == q.len - 1
           w == move_tail_unchecked(q, -(q.len - n))
           s == Contents(q)
<1>1. /\ t.head \in Nat /\ t.half \in Nat /\ t.len \in Nat /\ SIZE \in Nat \ {0}
      /\ t.blen > 0 /\ t.half > 0
  BY IterBasics
<1>2. p = [blen |-> t.blen, half |-> t.half, mem |-> t.mem, head |-> t.head,
           len |-> t.len - 1, cap |-> t.cap, used |-> t.used]
  <2>1. t = [blen |-> t.blen, half |-> t.half, mem |-> t.mem, head |-> t.head,
             len |-> t.len, cap |-> t.cap, used |-> t.used]
    BY DEF IterOK, IsIter
  <2> QED
    BY <2>1
<1> HIDE DEF p
<1>3. WF(q) /\ q.len = t.len /\ as_slice(t) = s
  BY ViewContents
<1>4. Unwrapped(p) = w
  <2>1. w = [q EXCEPT !.len = q.len + (-(q.len - n))]
    BY DEF move_tail_unchecked
  <2>2. q.len + (-(q.len - n)) = t.len - 1
    BY <1>1, <1>3
  <2> QED
    BY <1>2, <2>1, <2>2 DEF Unwrapped
<1> HIDE DEF q
<1>5. n \in 0 .. q.len
  BY <1>1, <1>3
<1> HIDE DEF n, s
<1>6. WF(w) /\ Contents(w) = SubSeq(s, 1, n)
  BY <1>3, <1>5, TailCut DEF s
<1> HIDE DEF w
<1>7. t.head + (t.len - 1) * SIZE < 2 * t.half
  <2>1. t.head + t.len * SIZE < 2 * t.half
    BY <1>1 DEF IterOK
  <2>2. t.len * SIZE = SIZE + (t.len - 1) * SIZE /\ (t.len - 1) * SIZE \in Nat
    BY <1>1
  <2> QED
    BY <1>1, <2>1, <2>2
<1>8. IterOK(p)
  <2>1. IsIter(p)
    BY <1>1, <1>2 DEF IterOK, IsIter
  <2>2. capacity(p) = capacity(t) /\ p.cap = t.cap
    BY <1>2 DEF capacity
  <2>3. p.half > 0 /\ p.head + p.len * SIZE < 2 * p.half
    BY <1>1, <1>2, <1>7
  <2> QED
    BY <1>4, <1>6, <2>1, <2>2, <2>3 DEF IterOK
<1>9. as_slice(p) = SubSeq(s, 1, n)
  BY <1>4, <1>6, <1>8, ViewContents
<1>10. s \in Seq(Slot) /\ Len(s) = q.len /\ s[(q.len - 1) + 1] = Read(q, q.len - 1)
  BY <1>1, <1>3, ContentsSeq DEF s
<1>11. Read(t, t.len - 1) = Read(q, q.len - 1)
  BY <1>1, <1>3, UnwrappedRead DEF q
<1>12. Front(s) = SubSeq(s, 1, n) /\ Last(s) = s[q.len]
  BY <1>10 DEF Front, Last, n
<1>13. (q.len - 1) + 1 = q.len
  BY <1>1, <1>3
<1> QED
  BY <1>3, <1>8, <1>9, <1>10, <1>11, <1>12, <1>13 DEF p

\* A deque to which the elements left are appended has them behind its own.
LEMMA AppendIter ==
  ASSUME NEW q, NEW t, NEW oom, WF(q), IterOK(t), append_elements(q, t, oom).ok
  PROVE  LET p == append_elements(q, t, oom).q
         IN  WF(p) /\ Contents(p) = Contents(q) \o as_slice(t)
<1> DEFINE v == Unwrapped(t)
           r == try_reserve(q, t.len, oom)
           j == r.q.len
<1>1. WF(v) /\ v.len = t.len /\ as_slice(t) = Contents(v)
  BY ViewContents
<1>2. r.ok
  BY DEF append_elements
<1>3. t.len \in Nat /\ SIZE \in Nat \ {0}
  BY IterBasics
<1>4. WF(r.q)
  BY <1>2, <1>3, TryReserveWF
<1>5. Copy(t, 0, r.q, j, t.len) = Copy(v, 0, r.q, j, t.len)
  <2> DEFINE K(a) == (a - (r.q.head + j * SIZE)) % r.q.half
             F(src, a) == IF K(a) < t.len * SIZE
                          THEN src.mem[Phys(src, src.head + 0 * SIZE + K(a))]
                          ELSE r.q.mem[a]
  <2>1. ASSUME NEW a \in DOMAIN r.q.mem
        PROVE  F(t, a) = F(v, a)
    <3>1. K(a) \in Int
      <4> DEFINE o == a - (r.q.head + j * SIZE)
      <4>1. DOMAIN r.q.mem = 0 .. r.q.half - 1 /\ r.q.half \in Nat /\ r.q.head \in Nat /\ j \in Nat
        BY <1>4 DEF WF, IsDeque
      <4>2. o \in Int /\ r.q.half \in Nat \ {0}
        BY <1>3, <2>1, <4>1, SMTT(30)
      <4> HIDE DEF o, j, r
      <4>3. o % r.q.half \in Int
        BY <4>2, ModRange
      <4> QED
        BY <4>3 DEF o
    <3> DEFINE k == K(a)
    <3> HIDE DEF K, k, r, v
    <3>2. t.head \in Int /\ v.head \in Int /\ 0 * SIZE = 0 /\ k \in Int
      BY <1>1, <1>3, <3>1, IterBasics DEF WF, IsDeque, k
    <3>3. t.head + 0 * SIZE + k = t.head + k /\ v.head + 0 * SIZE + k = v.head + k
      BY <3>2
    <3>4. Phys(t, t.head + k) = Phys(v, v.head + k)
      BY <3>2, ViewPhys DEF v
    <3>5. v.mem = t.mem
      BY DEF v, Unwrapped
    <3> QED
      BY <3>3, <3>4, <3>5 DEF k
  <2>2. /\ Copy(t, 0, r.q, j, t.len) = [r.q EXCEPT !.mem = [a \in DOMAIN r.q.mem |-> F(t, a)]]
        /\ Copy(v, 0, r.q, j, t.len) = [r.q EXCEPT !.mem = [a \in DOMAIN r.q.mem |-> F(v, a)]]
    BY DEF Copy
  <2>3. [a \in DOMAIN r.q.mem |-> F(t, a)] = [a \in DOMAIN r.q.mem |-> F(v, a)]
    <3> HIDE DEF F, r, v
    <3> QED
      BY <2>1
  <2> HIDE DEF F, r, v, j
  <2> QED
    BY <2>2, <2>3
<1>6. append_elements(q, t, oom) = append_elements(q, v, oom)
  <2> HIDE DEF v
  <2> QED
    BY <1>1, <1>5 DEF append_elements
<1> HIDE DEF v
<1> QED
  BY <1>1, <1>6, AppendContents

\* from_raw_parts gives the buffer to a deque, whose length in elements is then
\* twice the capacity.
LEMMA RawParts ==
  ASSUME NEW t, IterOK(t), t.head = 0
  PROVE  WF(from_raw_parts(t)) /\ Contents(from_raw_parts(t)) = as_slice(t)
<1> DEFINE p == from_raw_parts(t)
           q == Unwrapped(t)
<1>1. p = [blen |-> 2 * t.cap, half |-> t.half, mem |-> t.mem, head |-> 0, len |-> t.len]
  BY DEF from_raw_parts
<1>2. WF(q) /\ q.len = t.len /\ capacity(q) = t.cap /\ q.blen = t.blen /\ as_slice(t) = Contents(q)
  BY ViewContents
<1>3. /\ t.blen \in Nat /\ t.half \in Nat /\ t.len \in Nat /\ t.cap \in Nat /\ t.len <= t.cap
      /\ t.mem \in [0 .. t.half - 1 -> Byte]
  BY IterBasics
<1>4. q.half = t.half /\ q.mem = t.mem /\ q.head = 0
  BY <1>3 DEF Unwrapped
<1> HIDE DEF p, q
<1>5. capacity(p) = t.cap
  BY <1>1, <1>3 DEF capacity
<1>6. IsDeque(p) /\ p.len <= capacity(p)
  BY <1>1, <1>3, <1>5 DEF IsDeque
<1>7. BufferFits(p)
  <2>1. CASE t.blen = 0
    <3>1. t.cap = 0 /\ t.half = 0
      BY <1>2, <1>4, <2>1 DEF WF, BufferFits, capacity
    <3> QED
      BY <1>1, <3>1 DEF BufferFits
  <2>2. CASE t.blen # 0
    <3>1. /\ t.cap > 0 /\ t.half > 0 /\ t.half % ALIGN = 0 /\ 0 % ALIGN = 0
          /\ size_in_bytes(2 * t.cap) = 2 * t.half /\ t.cap * SIZE <= t.half
      BY <1>2, <1>4, <2>2 DEF WF, BufferFits
    <3>2. p.blen = 2 * t.cap /\ p.blen # 0 /\ p.half = t.half /\ p.head = 0
      BY <1>1, <1>3, <3>1
    <3> QED
      BY <1>5, <3>1, <3>2 DEF BufferFits
  <2> QED
    BY <2>1, <2>2
<1>8. Contents(p) = Contents(q)
  <2>1. ASSUME NEW i \in Int
        PROVE  Read(p, i) = Read(q, i)
    BY <1>1, <1>4, SameRead DEF SlotByte, Phys
  <2>2. \A j \in 1 .. t.len : Read(p, 0 + j - 1) = Read(q, 0 + j - 1)
    BY <1>3, <2>1
  <2> QED
    BY <1>1, <1>2, <2>2 DEF Contents, Reads
<1> QED
  BY <1>2, <1>6, <1>7, <1>8 DEF WF, p

-----------------------------------------------------------------------------
(* The actions.                                                            *)

\* A step that replaces one iterator.
LEMMA IterBecomes ==
  ASSUME NEW i \in ITERS, NEW t, IntoInv, Inv', IterOK(t), iters' = [iters EXCEPT ![i] = t]
  PROVE  IntoInv' /\ iters'[i] = t
<1>1. DOMAIN iters' = ITERS /\ \A j \in ITERS : iters'[j] = IF j = i THEN t ELSE iters[j]
  BY DEF IntoInv
<1> QED
  BY <1>1 DEF IntoInv

\* A step of an iterator that leaves the deques alone.
LEMMA DequesStay ==
  ASSUME NEW created, NEW dropped, IntoInv, UNCHANGED dq, created \subseteq Elem,
         Own(created, dropped) \/ UNCHANGED <<live, ub>>
  PROVE  Inv'
  BY OwnInv DEF IntoInv, Inv

\* i = d.into_iter(), which leaves a new deque behind.
LEMMA IntoIterInv ==
  ASSUME NEW d \in DEQS, NEW i \in ITERS, IntoInv, into_iter(d, i)
  PROVE  IntoInv'
<1>1. WF(dq[d]) /\ Inv
  BY DEF IntoInv, Inv
<1>2. Inv'
  BY <1>1, NewWF, BecomesInv, {} \subseteq Elem DEF into_iter
<1>3. IterOK(Take(dq[d]))
  BY <1>1, TakeOK
<1> QED
  BY <1>2, <1>3, IterBecomes DEF into_iter

\* next yields the first element and leaves the others.
LEMMA NextSteps ==
  ASSUME NEW i \in ITERS, IntoInv, next(i)
  PROVE  /\ IntoInv'
         /\ iters'[i] # iters[i] => /\ ret'.val = Head(as_slice(iters[i]))
                                    /\ as_slice(iters'[i]) = Tail(as_slice(iters[i]))
<1> DEFINE t == iters[i]
           p == [t EXCEPT !.head = @ + SIZE, !.len = @ - 1]
<1>1. IterOK(t)
  BY DEF IntoInv
<1>2. CASE t.len = 0
  <2>1. UNCHANGED <<dq, live, ub, iters>>
    BY <1>2 DEF next
  <2> QED
    BY <2>1 DEF IntoInv, Inv
<1>3. CASE t.len # 0
  <2>1. t.len > 0
    BY <1>1, <1>3, IterBasics
  <2>2. /\ iters' = [iters EXCEPT ![i] = Settle(p)] /\ UNCHANGED dq
        /\ Own({}, <<Read(t, 0)>>) /\ Returns("next", <<i>>, Read(t, 0))
    BY <1>3 DEF next
  <2>3. /\ IterOK(p) /\ as_slice(p) = Tail(as_slice(t))
        /\ Read(t, 0) = Head(as_slice(t))
    BY <1>1, <2>1, FrontTaken
  <2> HIDE DEF p
  <2>4. IterOK(Settle(p)) /\ as_slice(Settle(p)) = as_slice(p)
    BY <2>3, SettleIter
  <2>5. Inv'
    BY <2>2, DequesStay, {} \subseteq Elem
  <2>6. IntoInv' /\ iters'[i] = Settle(p)
    BY <2>2, <2>4, <2>5, IterBecomes
  <2>7. ret'.val = Read(t, 0)
    BY <2>2 DEF Returns
  <2> QED
    BY <2>3, <2>4, <2>6, <2>7
<1> QED
  BY <1>2, <1>3

\* next_back yields the last.
LEMMA NextBackSteps ==
  ASSUME NEW i \in ITERS, IntoInv, next_back(i)
  PROVE  /\ IntoInv'
         /\ iters'[i] # iters[i] => /\ ret'.val = Last(as_slice(iters[i]))
                                    /\ as_slice(iters'[i]) = Front(as_slice(iters[i]))
<1> DEFINE t == iters[i]
           p == [t EXCEPT !.len = @ - 1]
           v == Read(t, t.len - 1)
<1>1. IterOK(t)
  BY DEF IntoInv
<1>2. CASE t.len = 0
  <2>1. UNCHANGED <<dq, live, ub, iters>>
    BY <1>2 DEF next_back
  <2> QED
    BY <2>1 DEF IntoInv, Inv
<1>3. CASE t.len # 0
  <2>1. t.len > 0
    BY <1>1, <1>3, IterBasics
  <2>2. /\ iters' = [iters EXCEPT ![i] = Settle(p)] /\ UNCHANGED dq
        /\ Own({}, <<v>>) /\ Returns("next_back", <<i>>, v)
    BY <1>3 DEF next_back
  <2>3. /\ IterOK(p) /\ as_slice(p) = Front(as_slice(t))
        /\ v = Last(as_slice(t))
    BY <1>1, <2>1, BackTaken
  <2> HIDE DEF p, v
  <2>4. IterOK(Settle(p)) /\ as_slice(Settle(p)) = as_slice(p)
    BY <2>3, SettleIter
  <2>5. Inv'
    BY <2>2, DequesStay, {} \subseteq Elem
  <2>6. IntoInv' /\ iters'[i] = Settle(p)
    BY <2>2, <2>4, <2>5, IterBecomes
  <2>7. ret'.val = v
    BY <2>2 DEF Returns
  <2> QED
    BY <2>3, <2>4, <2>6, <2>7
<1> QED
  BY <1>2, <1>3

\* Drop leaves no iterator.
LEMMA DropInv ==
  ASSUME NEW i \in ITERS, IntoInv, drop(i)
  PROVE  IntoInv'
<1>1. Inv'
  BY DequesStay, {} \subseteq Elem DEF drop
<1> QED
  BY <1>1, GoneOK, IterBecomes DEF drop

\* A deque takes over the elements that are left, behind its own.
LEMMA TakesOverSteps ==
  ASSUME NEW op, NEW d \in DEQS, NEW i \in ITERS, NEW q, NEW dropped, NEW oom, IntoInv,
         WF(q), TakesOver(op, d, i, q, dropped, oom)
  PROVE  Inv' /\ (ret'.val = "ok" => Contents(dq'[d]) = Contents(q) \o as_slice(iters[i]))
<1> DEFINE t == iters[i]
           r == append_elements(q, t, oom)
<1>1. IterOK(t) /\ Inv /\ DOMAIN dq = DEQS
  BY DEF IntoInv, Inv
<1>2. CASE ~r.ok
  <2>1. UNCHANGED dq /\ Own({}, as_slice(t)) /\ Returns(op, <<d, i>>, "oom")
    BY <1>2 DEF TakesOver
  <2>2. Inv'
    BY <2>1, DequesStay, {} \subseteq Elem
  <2>3. ret'.val = "oom"
    BY <2>1 DEF Returns
  <2> QED
    BY <2>2, <2>3
<1>3. CASE r.ok
  <2>1. Becomes(d, r.q) /\ Own({}, dropped)
    BY <1>3 DEF TakesOver
  <2>2. WF(r.q) /\ Contents(r.q) = Contents(q) \o as_slice(t)
    BY <1>1, <1>3, AppendIter
  <2> HIDE DEF r
  <2>3. Inv'
    BY <1>1, <2>1, <2>2, BecomesInv, {} \subseteq Elem
  <2>4. dq'[d] = Settle(r.q)
    BY <1>1, <2>1 DEF Becomes
  <2> QED
    BY <2>2, <2>3, <2>4, SettleContents
<1> QED
  BY <1>2, <1>3

\* collect makes a deque of the elements that are left, whether or not it takes
\* the buffer over.
LEMMA CollectSteps ==
  ASSUME NEW d \in DEQS, NEW i \in ITERS, NEW oom, IntoInv, collect(d, i, oom)
  PROVE  IntoInv' /\ (ret'.val = "ok" => Contents(dq'[d]) = as_slice(iters[i]))
<1> DEFINE t == iters[i]
           p == from_raw_parts(t)
<1>1. IterOK(t) /\ Inv /\ DOMAIN dq = DEQS
  BY DEF IntoInv, Inv
<1>2. Inv' => IntoInv'
  BY GoneOK, IterBecomes DEF collect
<1>3. CASE t.head = 0
  <2>1. Becomes(d, p) /\ Own({}, Contents(dq[d]))
    BY <1>3 DEF collect
  <2>2. WF(p) /\ Contents(p) = as_slice(t)
    BY <1>1, <1>3, RawParts
  <2> HIDE DEF p
  <2>3. Inv'
    BY <1>1, <2>1, <2>2, BecomesInv, {} \subseteq Elem
  <2>4. dq'[d] = Settle(p)
    BY <1>1, <2>1 DEF Becomes
  <2> QED
    BY <1>2, <2>2, <2>3, <2>4, SettleContents
<1>4. CASE t.head # 0
  <2>1. TakesOver("collect", d, i, new, Contents(dq[d]), oom)
    BY <1>4 DEF collect
  <2>2. Inv' /\ (ret'.val = "ok" => Contents(dq'[d]) = Contents(new) \o as_slice(t))
    BY <2>1, NewWF, TakesOverSteps
  <2>3. Contents(new) = <<>>
    <3>1. new.len = 0
      BY NewWF
    <3> QED
      BY <3>1 DEF Contents, Reads
  <2>4. as_slice(t) \in Seq(Slot)
    BY <1>1, ViewContents, ContentsSeq
  <2>5. <<>> \o as_slice(t) = as_slice(t)
    <3> DEFINE s == as_slice(t)
    <3>1. s \in Seq(Slot)
      BY <2>4
    <3> HIDE DEF s
    <3> QED
      BY <3>1 DEF s
  <2> QED
    BY <1>2, <2>2, <2>3, <2>5
<1> QED
  BY <1>3, <1>4

\* extend adds them to a deque.
LEMMA SpecExtendSteps ==
  ASSUME NEW d \in DEQS, NEW i \in ITERS, NEW oom, IntoInv, spec_extend(d, i, oom)
  PROVE  /\ IntoInv'
         /\ ret'.val = "ok" => Contents(dq'[d]) = Contents(dq[d]) \o as_slice(iters[i])
<1>1. Inv' => IntoInv'
  BY GoneOK, IterBecomes DEF spec_extend
<1>2. WF(dq[d])
  BY DEF IntoInv, Inv
<1>3. TakesOver("spec_extend", d, i, dq[d], <<>>, oom)
  BY DEF spec_extend
<1> QED
  BY <1>1, <1>2, <1>3, TakesOverSteps

\* j = i.clone(), faulty as its copy of the elements' bits is.
LEMMA CloneIterInv ==
  ASSUME NEW i \in ITERS, NEW j \in ITERS, NEW oom, IntoInv, clone_iter(i, j, oom)
  PROVE  IntoInv'
<1> DEFINE t == iters[i]
           b == with_capacity(t.len)
           r == append_elements(b, t, oom)
<1>1. IterOK(t) /\ t.len \in Nat
  BY IterBasics DEF IntoInv
<1>2. CASE ~Allocates(2 * t.len, oom)
  <2>1. UNCHANGED <<dq, live, ub, iters>>
    BY <1>2 DEF clone_iter
  <2> QED
    BY <2>1 DEF IntoInv, Inv
<1>3. CASE Allocates(2 * t.len, oom)
  <2>1. WF(b) /\ b.len = 0 /\ capacity(b) >= t.len
    BY <1>1, WithCapacityWF
  <2> HIDE DEF b
  <2>2. grow_policy(b, t.len) <= capacity(b)
    BY <1>1, <2>1, Basics DEF grow_policy
  <2>3. r.ok
    BY <2>2 DEF append_elements, try_reserve, reserve_capacity, Ok
  <2>4. WF(r.q)
    BY <1>1, <2>1, <2>3, AppendIter
  <2>5. iters' = [iters EXCEPT ![j] = Take(Settle(r.q))] /\ UNCHANGED dq /\ Own({}, <<>>)
    BY <1>3 DEF clone_iter, b
  <2> HIDE DEF r
  <2>6. IterOK(Take(Settle(r.q)))
    BY <2>4, SettleWF, TakeOK
  <2>7. Inv'
    BY <2>5, DequesStay, {} \subseteq Elem
  <2> QED
    BY <2>5, <2>6, <2>7, IterBecomes
<1> QED
  BY <1>2, <1>3

\* Between iterations the deques are used as before.
LEMMA BuildsInv ==
  ASSUME NEW d \in DEQS, IntoInv, Builds(d)
  PROVE  IntoInv'
<1>1. Unborn \subseteq Elem /\ Inv /\ Args \subseteq Nat
  BY UnbornElems, BoundAssumption DEF IntoInv, Args
<1>2. Inv'
  BY <1>1, CapacityInv, PushInv, PopInv DEF Builds
<1> QED
  BY <1>2 DEF Builds, IntoInv

\* Every step keeps the invariant.
LEMMA NextIntoInv ==
  ASSUME IntoInv, [(\E d \in DEQS : Builds(d)) \/ Consumes \/ Collects \/ Clones]_intovars
  PROVE  IntoInv'
<1>1. CASE \E d \in DEQS : Builds(d)
  BY <1>1, BuildsInv
<1>2. CASE Consumes
  BY <1>2, IntoIterInv, NextSteps, NextBackSteps, DropInv DEF Consumes
<1>3. CASE Collects
  BY <1>3, CollectSteps, SpecExtendSteps DEF Collects
<1>4. CASE Clones
  BY <1>4, CloneIterInv DEF Clones
<1>5. CASE UNCHANGED intovars
  BY <1>5 DEF intovars, vars, IntoInv, Inv
<1> QED
  BY <1>1, <1>2, <1>3, <1>4, <1>5

\* The program starts with new deques and no iterators.
LEMMA InitIntoInv == IntoInit => IntoInv
BY InitInv, GoneOK DEF IntoInit, IntoInv

\* Of an IntoIter that satisfies the invariant.
LEMMA InBufferFromInv == IntoInv => IntoIterInBuffer
<1> SUFFICES ASSUME IntoInv, NEW i \in ITERS
             PROVE  /\ iters[i].head + iters[i].len * SIZE <= 2 * iters[i].half
                    /\ iters[i].blen > 0 =>
                         size_in_bytes(2 * iters[i].cap) = 2 * iters[i].half
  BY DEF IntoIterInBuffer
<1> DEFINE t == iters[i]
<1>1. IterOK(t)
  BY DEF IntoInv
<1> HIDE DEF t
<1>2. /\ t.head \in Nat /\ t.half \in Nat /\ t.len \in Nat /\ SIZE \in Nat
      /\ t.len > 0 => t.blen > 0
      /\ t.blen > 0 <=> t.half > 0
      /\ t.blen \in Nat
  BY <1>1, IterBasics
<1>3. t.head + t.len * SIZE <= 2 * t.half
  <2>1. CASE t.half > 0
    <3>1. t.head + t.len * SIZE < 2 * t.half
      BY <1>1, <2>1 DEF IterOK
    <3> QED
      BY <1>2, <3>1
  <2>2. CASE t.half = 0
    BY <1>1, <1>2, <2>2 DEF IterOK
  <2> QED
    BY <1>2, <2>1, <2>2
<1>4. t.blen > 0 => size_in_bytes(2 * t.cap) = 2 * t.half
  <2>1. WF(Unwrapped(t)) /\ capacity(Unwrapped(t)) = t.cap /\ Unwrapped(t).blen = t.blen
    BY <1>1, ViewContents
  <2>2. Unwrapped(t).half = t.half
    BY DEF Unwrapped
  <2> QED
    BY <1>2, <2>1, <2>2 DEF WF, BufferFits
<1> QED
  BY <1>3, <1>4 DEF t
\* What YieldsInOrder says of one IntoIter.
YieldsAt(i) ==
  LET s == as_slice(iters[i])
      t == as_slice(iters'[i])
  IN  /\ next(i) => ret'.val = Head(s) /\ t = Tail(s)
      /\ next_back(i) => ret'.val = Last(s) /\ t = Front(s)
      /\ \A d \in DEQS, oom \in BOOLEAN :
           /\ collect(d, i, oom) /\ ret'.val = "ok" => Contents(dq'[d]) = s
           /\ spec_extend(d, i, oom) /\ ret'.val = "ok" =>
                Contents(dq'[d]) = Contents(dq[d]) \o s

\* It is true of any step.
LEMMA YieldsFromInv ==
  IntoInv => [\A i \in ITERS : iters'[i] # iters[i] => YieldsAt(i)]_intovars
<1>1. ASSUME IntoInv, NEW i \in ITERS, iters'[i] # iters[i]
      PROVE  YieldsAt(i)
  BY <1>1, NextSteps, NextBackSteps, CollectSteps, SpecExtendSteps DEF YieldsAt
<1> QED
  BY <1>1

-----------------------------------------------------------------------------
(* The theorems about IntoIter alone.                                      *)

\* The invariant holds in every behaviour of deques and their IntoIters.
THEOREM IntoInvCorrect == IntoSpec => []IntoInv
BY InitIntoInv, NextIntoInv, PTL DEF IntoSpec

\* The pointers of an IntoIter stay inside the two regions, and the size that its
\* Drop computes from twice the capacity is the size that was allocated.
THEOREM IntoIterInBufferCorrect == IntoSpec => []IntoIterInBuffer
  BY InBufferFromInv, IntoInvCorrect, PTL

\* next and next_back yield the elements in the deque's order, and collect and
\* extend make or extend a deque with those that are left.
THEOREM YieldsInOrderCorrect == IntoSpec => YieldsInOrder
  BY YieldsFromInv, IntoInvCorrect, PTL DEF YieldsInOrder, YieldsAt

-----------------------------------------------------------------------------
(* A loop over a sequence, by induction over the numbers up to its length. *)

\* A set of numbers has a least one.
LEMMA LeastNumber ==
  ASSUME NEW T, T \subseteq Nat, T # {}
  PROVE  \E n \in T : \A m \in T : n <= m
<1> DEFINE R == OpToRel(<, Nat)
<1>1. IsWellFoundedOn(R, Nat)
  BY NatLessThanWellFounded
<1>2. \A m, n \in Nat : m < n => <<m, n>> \in R
  BY DEF OpToRel
<1> HIDE DEF R
<1>3. PICK n \in T : \A m \in T : ~(<<m, n>> \in R)
  BY <1>1, WFMin
<1>4. ASSUME NEW m \in T PROVE n <= m
  <2>1. ~(<<m, n>> \in R) /\ m \in Nat /\ n \in Nat
    BY <1>3
  <2>2. ~(m < n)
    BY <1>2, <2>1
  <2> QED
    BY <2>1, <2>2
<1> QED
  BY <1>4

\* A set with 0 and, with each number, the next one.
LEMMA UpTo ==
  ASSUME NEW T, NEW N \in Nat, 0 \in T, \A n \in 0 .. N - 1 : n \in T => n + 1 \in T
  PROVE  N \in T
<1> DEFINE U == (0 .. N) \ T
<1> SUFFICES ASSUME N \notin T PROVE FALSE
  OBVIOUS
<1>1. U \subseteq Nat /\ U # {}
  OBVIOUS
<1> HIDE DEF U
<1>2. PICK n \in U : \A m \in U : n <= m
  BY <1>1, LeastNumber
<1>3. n # 0 /\ n - 1 \in 0 .. N - 1 /\ n - 1 \notin U
  BY <1>2 DEF U
<1>4. n - 1 \in T
  BY <1>3 DEF U
<1>5. (n - 1) + 1 \in T /\ (n - 1) + 1 = n
  BY <1>1, <1>2, <1>3, <1>4
<1> QED
  BY <1>2, <1>5 DEF U

\* The loop of push_back, as far as its first k turns.
Loop(g, q, s, k) == g = [n \in 0 .. k |-> IF n = 0 THEN Ok(q) ELSE PushBack(g[n - 1], s[n])]

\* There is such a loop.
LEMMA LoopExists ==
  ASSUME NEW q, NEW s, NEW N \in Nat
  PROVE  \E g : Loop(g, q, s, N)
<1> DEFINE T == {k \in 0 .. N : \E g : Loop(g, q, s, k)}
<1>1. 0 \in T
  <2> DEFINE h == [n \in 0 .. 0 |-> Ok(q)]
             m == [n \in 0 .. 0 |-> IF n = 0 THEN Ok(q) ELSE PushBack(h[n - 1], s[n])]
  <2>1. \A n \in 0 .. 0 : h[n] = m[n]
    OBVIOUS
  <2>2. h = m
    BY <2>1, Zenon
  <2>3. Loop(h, q, s, 0)
    BY <2>2 DEF Loop
  <2>4. \E g : Loop(g, q, s, 0)
    BY <2>3
  <2>5. 0 \in 0 .. N
    OBVIOUS
  <2> QED
    BY <2>4, <2>5
<1>2. ASSUME NEW k \in 0 .. N - 1, k \in T PROVE k + 1 \in T
  <2>1. PICK g : Loop(g, q, s, k)
    BY <1>2
  <2> DEFINE h == [n \in 0 .. k + 1 |-> IF n = k + 1 THEN PushBack(g[k], s[k + 1]) ELSE g[n]]
             m == [n \in 0 .. k + 1 |-> IF n = 0 THEN Ok(q) ELSE PushBack(h[n - 1], s[n])]
  <2>2. ASSUME NEW n \in 0 .. k + 1 PROVE h[n] = m[n]
    <3>1. CASE n = k + 1
      <4>1. h[n - 1] = g[k]
        BY <3>1
      <4> QED
        BY <3>1, <4>1
    <3>2. CASE n # k + 1
      <4>1. n \in 0 .. k /\ h[n] = g[n]
        BY <3>2
      <4>2. g[n] = IF n = 0 THEN Ok(q) ELSE PushBack(g[n - 1], s[n])
        BY <2>1, <4>1 DEF Loop
      <4>3. n # 0 => h[n - 1] = g[n - 1]
        BY <4>1
      <4> QED
        BY <4>1, <4>2, <4>3
    <3> QED
      BY <3>1, <3>2
  <2>3. h = m
    BY <2>2, Zenon
  <2>4. Loop(h, q, s, k + 1)
    BY <2>3 DEF Loop
  <2>5. \E f : Loop(f, q, s, k + 1)
    BY <2>4
  <2>6. k + 1 \in 0 .. N
    OBVIOUS
  <2> QED
    BY <2>5, <2>6
<1>3. N \in T
  <2> HIDE DEF T
  <2> QED
    BY <1>1, <1>2, UpTo
<1> QED
  BY <1>3

\* PushEach is its last turn.
LEMMA PushEachIsLoop ==
  ASSUME NEW q, NEW s, Len(s) \in Nat
  PROVE  \E g : Loop(g, q, s, Len(s)) /\ PushEach(q, s) = g[Len(s)]
<1> DEFINE N == Len(s)
           f == CHOOSE g : g = [n \in 0 .. Len(s) |-> IF n = 0 THEN Ok(q) ELSE PushBack(g[n - 1], s[n])]
<1>1. \E g : g = [n \in 0 .. Len(s) |-> IF n = 0 THEN Ok(q) ELSE PushBack(g[n - 1], s[n])]
  BY LoopExists DEF Loop
<1>2. f = [n \in 0 .. Len(s) |-> IF n = 0 THEN Ok(q) ELSE PushBack(f[n - 1], s[n])]
  BY <1>1
<1>3. PushEach(q, s) = f[Len(s)]
  BY DEF PushEach
<1> HIDE DEF f
<1> QED
  BY <1>2, <1>3 DEF Loop

\* One turn adds one element, or fails for good.
LEMMA PushBackContents ==
  ASSUME NEW r, NEW e \in Elem, PushBack(r, e).ok, r.ok => WF(r.q)
  PROVE  /\ r.ok /\ WF(PushBack(r, e).q)
         /\ Contents(PushBack(r, e).q) = Contents(r.q) \o <<e>>
<1> DEFINE room == IF r.ok THEN RoomForOne(r.q, FALSE) ELSE r
           s == <<e>>
<1>1. room.ok /\ PushBack(r, e) = Ok(PushAll(room.q, s))
  BY DEF PushBack
<1>2. r.ok /\ room = RoomForOne(r.q, FALSE) /\ WF(r.q)
  BY <1>1
<1>3. WF(room.q) /\ room.q.len = r.q.len /\ capacity(room.q) >= r.q.len + 1
  BY <1>1, <1>2, RoomForOneWF
<1>4. Contents(room.q) = Contents(r.q)
  <2>1. CASE is_full(r.q)
    <3>1. room = try_reserve(r.q, 1, FALSE)
      BY <1>2, <2>1 DEF RoomForOne
    <3> HIDE DEF room
    <3>2. /\ 1 \in Nat /\ WF(r.q) /\ try_reserve(r.q, 1, FALSE).ok
      BY <1>1, <1>2, <3>1
    <3>3. Contents(try_reserve(r.q, 1, FALSE).q) = Contents(r.q)
      BY <3>2, TryReserveContents
    <3> QED
      BY <3>1, <3>3
  <2>2. CASE ~is_full(r.q)
    BY <1>2, <2>2 DEF RoomForOne, Ok
  <2> QED
    BY <2>1, <2>2
<1>5. s \in Seq(Elem) /\ Len(s) = 1 /\ room.q.len + Len(s) <= capacity(room.q)
  <2>1. room.q.len \in Nat /\ capacity(room.q) \in Nat
    BY <1>3, Basics
  <2>2. s \in Seq(Elem) /\ Len(s) = 1
    OBVIOUS
  <2> HIDE DEF room, s
  <2> QED
    BY <1>3, <2>1, <2>2
<1> HIDE DEF room, s
<1>6. WF(PushAll(room.q, s)) /\ Contents(PushAll(room.q, s)) = Contents(room.q) \o s
  BY <1>3, <1>5, PushAllWF, PushAllContents
<1>7. PushBack(r, e).q = PushAll(room.q, s)
  BY <1>1 DEF Ok
<1> QED
  BY <1>2, <1>4, <1>6, <1>7 DEF s

\* The loop adds all the values, in order, when it gets to its end.
LEMMA PushEachContents ==
  ASSUME NEW q, WF(q), q.len = 0, NEW s \in Seq(Elem), PushEach(q, s).ok
  PROVE  WF(PushEach(q, s).q) /\ Contents(PushEach(q, s).q) = s
<1>1. Len(s) \in Nat
  OBVIOUS
<1>2. PICK g : Loop(g, q, s, Len(s)) /\ PushEach(q, s) = g[Len(s)]
  BY <1>1, PushEachIsLoop
<1> DEFINE Good(n) == g[n].ok => WF(g[n].q) /\ Contents(g[n].q) = SubSeq(s, 1, n)
           T == {n \in 0 .. Len(s) : Good(n)}
<1>3. 0 \in T
  <2>1. g[0] = Ok(q)
    BY <1>1, <1>2 DEF Loop
  <2>2. Contents(q) = <<>> /\ SubSeq(s, 1, 0) = <<>>
    BY DEF Contents, Reads
  <2>3. Good(0)
    BY <2>1, <2>2 DEF Ok
  <2>4. 0 \in 0 .. Len(s)
    BY <1>1
  <2> QED
    BY <2>3, <2>4
<1>4. ASSUME NEW n \in 0 .. Len(s) - 1, n \in T PROVE n + 1 \in T
  <2> DEFINE m == n + 1
             e == s[m]
  <2>1. m \in 0 .. Len(s) /\ m # 0 /\ m - 1 = n /\ m \in 1 .. Len(s)
    OBVIOUS
  <2>2. e \in Elem
    BY <2>1
  <2>3. Good(n)
    BY <1>4
  <2>4. g[m] = PushBack(g[n], e)
    BY <1>2, <2>1 DEF Loop
  <2>5. SubSeq(s, 1, n) \o <<e>> = SubSeq(s, 1, m)
    BY <2>1, <2>2
  <2> HIDE DEF m, e
  <2>6. Good(m)
    BY <2>2, <2>3, <2>4, <2>5, PushBackContents
  <2> QED
    BY <2>1, <2>6 DEF m
<1>5. Len(s) \in T
  <2> HIDE DEF T
  <2> QED
    BY <1>1, <1>3, <1>4, UpTo
<1>6. SubSeq(s, 1, Len(s)) = s
  OBVIOUS
<1> QED
  BY <1>2, <1>5, <1>6
-----------------------------------------------------------------------------
(* clone_from, front_mut and back_mut.                                     *)

\* The elements when a deque is replaced.
LEMMA BecomesElems ==
  ASSUME Inv, NEW d \in DEQS, NEW q, WF(q), Becomes(d, q)
  PROVE  Elems' = [Elems EXCEPT ![d] = Contents(q)]
<1>1. DOMAIN dq = DEQS /\ dq' = [dq EXCEPT ![d] = Settle(q)]
  BY DEF Inv, Becomes
<1>2. Contents(Settle(q)) = Contents(q)
  BY SettleContents
<1>3. \A c \in DEQS : Contents(dq'[c]) = IF c = d THEN Contents(q) ELSE Contents(dq[c])
  BY <1>1, <1>2
<1> QED
  BY <1>3 DEF Elems

\* The clones take the place of the elements.
LEMMA CloneFromSteps ==
  ASSUME Inv, NEW d \in DEQS, NEW n, NEW s \in UnbornSeqs, NEW oom, clone_from(d, n, s, oom)
  PROVE  /\ Inv' /\ Elems' = [Elems EXCEPT ![d] = s]
         /\ Own(ToSet(s), Elems[d])
<1> DEFINE q == dq[d]
           p == move_tail_unchecked(q, -q.len)
           r == PushEach(p, s)
<1>1. r.ok /\ Becomes(d, r.q) /\ Own(ToSet(s), Contents(q))
  BY DEF clone_from
<1>2. s \in Seq(Elem) /\ WF(q) /\ q.len \in Nat
  BY UnbornAreNew, Basics DEF Inv
<1>3. WF(p) /\ p.len = 0
  <2> HIDE DEF q
  <2>1. 0 \in 0 .. q.len /\ q.len - 0 = q.len
    BY <1>2
  <2>2. WF(move_tail_unchecked(q, -(q.len - 0))) /\ move_tail_unchecked(q, -(q.len - 0)).len = 0
    BY <1>2, <2>1, TailCut
  <2> QED
    BY <2>1, <2>2
<1> HIDE DEF p
<1>4. WF(r.q) /\ Contents(r.q) = s
  BY <1>1, <1>2, <1>3, PushEachContents
<1> HIDE DEF r
<1>5. ToSet(s) \subseteq Elem
  BY <1>2, SetOfSeq
<1>6. Inv'
  BY <1>1, <1>4, <1>5, BecomesInv
<1>7. Elems' = [Elems EXCEPT ![d] = s]
  BY <1>1, <1>4, BecomesElems
<1>8. Elems[d] = Contents(q)
  BY DEF Elems
<1> QED
  BY <1>1, <1>6, <1>7, <1>8
\* One element is overwritten by a new one.
LEMMA ReplaceOwned ==
  ASSUME NEW V, NEW s \in Seq(V), IsInjective(s), NEW n \in 1 .. Len(s), NEW e, e \notin ToSet(s),
         NEW u \in Seq(V), Len(u) = Len(s), \A i \in 1 .. Len(s) : u[i] = IF i = n THEN e ELSE s[i]
  PROVE  IsInjective(u) /\ s[n] \in ToSet(s) /\ ToSet(u) = (ToSet(s) \cup {e}) \ {s[n]}
<1>1. Len(u) = Len(s) /\ \A i \in 1 .. Len(s) : u[i] = IF i = n THEN e ELSE s[i]
  OBVIOUS
<1>2. /\ \A x : x \in ToSet(s) <=> \E i \in 1 .. Len(s) : x = s[i]
      /\ \A i, j \in 1 .. Len(s) : s[i] = s[j] => i = j
  BY SetOfSeq
<1>3. /\ \A x : x \in ToSet(u) <=> \E i \in 1 .. Len(s) : x = u[i]
      /\ IsInjective(u) <=> \A i, j \in 1 .. Len(s) : u[i] = u[j] => i = j
  BY <1>1, SetOfSeq
<1>4. \A i \in 1 .. Len(s) : s[i] # e
  BY <1>2
<1>5. IsInjective(u)
  BY <1>1, <1>2, <1>3, <1>4
<1>6. ASSUME NEW x PROVE x \in ToSet(u) <=> x \in (ToSet(s) \cup {e}) \ {s[n]}
  <2>1. ASSUME NEW i \in 1 .. Len(s), x = u[i] PROVE x \in (ToSet(s) \cup {e}) \ {s[n]}
    BY <1>1, <1>2, <1>4, <2>1
  <2>2. ASSUME NEW i \in 1 .. Len(s), x = s[i], x # s[n] PROVE x = u[i]
    BY <1>1, <2>2
  <2>3. e = u[n]
    BY <1>1
  <2> QED
    BY <1>2, <1>3, <2>1, <2>2, <2>3
<1> QED
  BY <1>2, <1>5, <1>6

\* The n-th element of d becomes e.
Overwrites(d, n, e) ==
  /\ n \in 1 .. Len(Elems[d])
  /\ \E t \in Seq(Slot) :
       /\ Len(t) = Len(Elems[d])
       /\ \A l \in 1 .. Len(t) : t[l] = IF l = n THEN e ELSE Elems[d][l]
       /\ Elems' = [Elems EXCEPT ![d] = t] /\ Own({e}, <<Elems[d][n]>>)

\* *slot = e writes one element.
LEMMA AssignAtSteps ==
  ASSUME Inv, NEW op, NEW d \in DEQS, NEW i \in Nat, NEW e \in Elem, AssignAt(op, d, i, e)
  PROVE  /\ Inv'
         /\ \/ Stays(op, <<d, e>>, "panic")
            \/ Overwrites(d, i + 1, e)
<1> DEFINE q == dq[d]
           c == Elems[d]
           s == <<e>>
           w == Write(q, i, s)
           m == i + 1
           t == [c EXCEPT ![m] = e]
<1>1. /\ WF(q) /\ c = Contents(q) /\ c \in Seq(Slot) /\ Len(c) = q.len /\ q.len \in Nat
      /\ capacity(q) \in Nat /\ q.len <= capacity(q)
  BY View
<1>2. CASE i >= q.len
  <2>1. ~(i < dq[d].len)
    BY <1>1, <1>2
  <2>2. Stays(op, <<d, e>>, "panic")
    BY <2>1 DEF AssignAt
  <2>3. Inv'
    BY <2>2 DEF Stays, Inv
  <2> QED
    BY <2>2, <2>3
<1>3. CASE ~(i >= q.len)
  <2>1. Becomes(d, w) /\ Own({e}, <<Read(q, i)>>) /\ i < q.len
    BY <1>1, <1>3 DEF AssignAt
  <2>2. s \in Seq(Elem) /\ Len(s) = 1 /\ s[1] = e /\ i \in Int
    OBVIOUS
  <2>3. m \in 1 .. Len(c) /\ c[m] = Read(q, i)
    <3>1. i \in 0 .. q.len - 1
      BY <1>1, <2>1
    <3> HIDE DEF q, c
    <3> QED
      BY <1>1, <3>1, ContentsSeq
  <2>4. WF(w) /\ w.len = q.len
    BY <1>1, <2>2, WriteWF
  <2>5. t \in Seq(Slot) /\ Len(t) = q.len /\ \A l \in 1 .. q.len : t[l] = IF l = m THEN e ELSE c[l]
    <3>1. e \in Slot
      BY DEF Slot
    <3> HIDE DEF c, q, m
    <3> QED
      BY <1>1, <2>3, <3>1
  <2>6. ASSUME NEW l \in 0 .. q.len - 1 PROVE Read(w, l) = t[l + 1]
    <3>1. Within(q, i, Len(s)) /\ l \in 0 .. capacity(q) - 1 /\ l + 1 \in 1 .. q.len
      BY <1>1, <2>1, <2>2 DEF Within
    <3>2. Read(w, l) = IF i <= l /\ l < i + Len(s) THEN s[l - i + 1] ELSE Read(q, l)
      BY <1>1, <2>2, <3>1, WriteRead
    <3>3. c[l + 1] = Read(q, l)
      BY <1>1, <2>6, ContentsSeq
    <3>4. CASE l = i
      <4>1. Read(w, l) = s[l - i + 1] /\ l - i + 1 = 1 /\ l + 1 = m
        BY <2>2, <3>2, <3>4
      <4> HIDE DEF w, t, m, s, c, q
      <4> QED
        BY <2>2, <2>5, <3>1, <4>1
    <3>5. CASE l # i
      <4>1. Read(w, l) = Read(q, l) /\ l + 1 # m
        BY <2>2, <3>2, <3>5
      <4> HIDE DEF w, t, m, s, c, q
      <4> QED
        BY <2>5, <3>1, <3>3, <4>1
    <3> QED
      BY <3>4, <3>5
  <2> HIDE DEF w
  <2>7. Contents(w) = t
    <3> HIDE DEF t, q, c
    <3> QED
      BY <1>1, <2>4, <2>5, <2>6, ContentsAre
  <2>8. Inv'
    BY <2>1, <2>4, BecomesInv
  <2>9. Elems' = [Elems EXCEPT ![d] = t]
    BY <2>1, <2>4, <2>7, BecomesElems
  <2> HIDE DEF t, m
  <2>10. /\ Len(t) = Len(c) /\ \A l \in 1 .. Len(t) : t[l] = IF l = m THEN e ELSE c[l]
         /\ Own({e}, <<c[m]>>)
    BY <1>1, <2>1, <2>3, <2>5
  <2> QED
    BY <2>3, <2>5, <2>8, <2>9, <2>10 DEF m, Overwrites
<1> QED
  BY <1>2, <1>3

\* clone_from, front_mut and back_mut keep ownership.
LEMMA RefillsOwned ==
  ASSUME NEW K, Inv, Owned(K), ~ub, NEEDS_DROP, NEW d \in DEQS, NEW oom, Refills(d, oom)
  PROVE  Owned(K)' /\ ~ub'
<1> DEFINE E == Elems[d]
<1>1. /\ E \in Seq(Slot) /\ IsInjective(E) /\ ToSet(E) \subseteq live /\ Len(E) \in Nat
      /\ dq[d].len \in Nat
  BY ElemsOwned
<1>2. ASSUME NEW n, NEW s \in UnbornSeqs, clone_from(d, n, s, oom)
      PROVE  Owned(K)' /\ ~ub'
  <2>1. /\ Elems' = [Elems EXCEPT ![d] = s] /\ Own(ToSet(s), E)
    BY <1>2, CloneFromSteps
  <2>2. IsInjective(s) /\ ToSet(s) \cap live = {}
    BY UnbornAreNew
  <2>3. /\ ToSet(E) \subseteq ToSet(Elems[d]) \cup ToSet(s)
        /\ ToSet(s) = (ToSet(Elems[d]) \cup ToSet(s)) \ ToSet(E)
    BY <1>1, <2>2
  <2> HIDE DEF E
  <2> QED
    BY ONLY <1>1, <2>1, <2>2, <2>3, Owned(K), ~ub, NEEDS_DROP, d \in DEQS, OneOwned, ZenonT(200)
<1>3. ASSUME NEW op, NEW i \in Nat, NEW e \in Unborn, AssignAt(op, d, i, e)
      PROVE  Owned(K)' /\ ~ub'
  <2>1. e \in Elem /\ e \notin live /\ e \in Slot
    BY UnbornAreNew DEF Slot
  <2>2. CASE Stays(op, <<d, e>>, "panic")
    BY <2>2, StaysOwned
  <2>3. ASSUME NEW t \in Seq(Slot), NEW n \in 1 .. Len(E), Len(t) = Len(E),
               \A l \in 1 .. Len(t) : t[l] = IF l = n THEN e ELSE E[l],
               Elems' = [Elems EXCEPT ![d] = t], Own({e}, <<E[n]>>)
        PROVE  Owned(K)' /\ ~ub'
    <3> DEFINE v == E[n]
               s == <<v>>
    <3>1. e \notin ToSet(E) /\ v \in Slot
      BY <1>1, <2>1, <2>3
    <3>2. IsInjective(t) /\ v \in ToSet(E) /\ ToSet(t) = (ToSet(E) \cup {e}) \ {v}
      <4> HIDE DEF E
      <4> QED
        BY <1>1, <2>3, <3>1, ReplaceOwned
    <3>3. IsInjective(s) /\ ToSet(s) = {v}
      BY <3>1, SetOfOne
    <3>4. Own({e}, s) /\ Elems' = [Elems EXCEPT ![d] = t]
      BY <2>3
    <3> HIDE DEF s, v
    <3>5. /\ ToSet(s) \subseteq ToSet(Elems[d]) \cup {e} /\ {e} \cap live = {}
          /\ ToSet(t) = (ToSet(Elems[d]) \cup {e}) \ ToSet(s)
      BY <2>1, <3>2, <3>3
    <3> QED
      BY ONLY <3>2, <3>3, <3>4, <3>5, Owned(K), ~ub, NEEDS_DROP, d \in DEQS, OneOwned, ZenonT(200)
  <2>4. \/ Stays(op, <<d, e>>, "panic")
        \/ Overwrites(d, i + 1, e)
    BY <1>3, <2>1, AssignAtSteps
  <2> QED
    BY <2>2, <2>3, <2>4 DEF Overwrites
<1>4. 0 \in Nat /\ last_idx(dq[d]) \in Nat
  <2>1. dq[d].len - 1 \in Int /\ USIZE_MAX + 1 \in Nat \ {0}
    BY <1>1, ConversionAssumption
  <2> QED
    BY <2>1, ModRange DEF last_idx
<1> QED
  BY <1>2, <1>3, <1>4 DEF Refills, front_mut, back_mut

\* They keep the deques well formed.
LEMMA RefillsInv ==
  ASSUME Inv, NEW d \in DEQS, NEW oom, Refills(d, oom)
  PROVE  Inv'
<1>1. 0 \in Nat /\ last_idx(dq[d]) \in Nat
  <2>1. dq[d].len \in Nat
    BY View
  <2>2. dq[d].len - 1 \in Int /\ USIZE_MAX + 1 \in Nat \ {0}
    BY <2>1, ConversionAssumption
  <2> QED
    BY <2>2, ModRange DEF last_idx
<1> QED
  BY <1>1, UnbornElems, CloneFromSteps, AssignAtSteps DEF Refills, front_mut, back_mut

-----------------------------------------------------------------------------
(* Who owns a value while no deque is borrowed.                            *)

Slice(i) == as_slice(iters[i])

\* An IntoIter has each of its values once, shares none of them with another,
\* and none of them is leaked.
ItersApart ==
  /\ \A i \in ITERS : IsInjective(Slice(i)) /\ ToSet(Slice(i)) \cap leaked = {}
  /\ \A i, j \in ITERS : i # j => ToSet(Slice(i)) \cap ToSet(Slice(j)) = {}

\* The live values are the elements of the deques and of the IntoIters, and
\* what was leaked, each in one place.
Divided == Owned(leaked \cup HeldByIters) /\ ItersApart

\* The step leaves u to the IntoIter i, and the others as they were.
Leaves(i, u) == leaked' = leaked /\ \A j \in ITERS : Slice(j)' = IF j = i THEN u ELSE Slice(j)

\* The values of the IntoIters, one by one.
LEMMA HeldHas == \A x : x \in HeldByIters <=> \E i \in ITERS : x \in ToSet(Slice(i))
  BY DEF HeldByIters, Slice

\* The same in the next state.
LEMMA HeldHasNext == \A x : x \in HeldByIters' <=> \E i \in ITERS : x \in ToSet(Slice(i)')
  BY DEF HeldByIters, Slice

\* What the others hold is not touched.
LEMMA IterLeaves ==
  ASSUME ItersApart, NEW i \in ITERS, NEW u, Leaves(i, u), IsInjective(u),
         NEW X, ToSet(u) \subseteq ToSet(Slice(i)) \cup X, X \cap HeldByIters = {}, X \cap leaked = {}
  PROVE  /\ ItersApart' /\ HeldByIters' \cap leaked = {}
         /\ HeldByIters' = (HeldByIters \ ToSet(Slice(i))) \cup ToSet(u)
<1>1. \A x : x \in HeldByIters <=> \E j \in ITERS : x \in ToSet(Slice(j))
  BY HeldHas
<1>2. \A x : x \in HeldByIters' <=> \E j \in ITERS : x \in ToSet(Slice(j)')
  BY HeldHasNext
<1>3. leaked' = leaked /\ \A j \in ITERS : Slice(j)' = IF j = i THEN u ELSE Slice(j)
  BY DEF Leaves
<1>4. /\ \A j \in ITERS : IsInjective(Slice(j)) /\ ToSet(Slice(j)) \cap leaked = {}
      /\ \A j, k \in ITERS : j # k => ToSet(Slice(j)) \cap ToSet(Slice(k)) = {}
  BY DEF ItersApart
<1>5. \A j \in ITERS : j # i => ToSet(u) \cap ToSet(Slice(j)) = {}
  BY <1>1, <1>4
<1>6. ToSet(u) \cap leaked = {}
  BY <1>4
<1>7. /\ \A j \in ITERS : IsInjective(Slice(j)') /\ ToSet(Slice(j)') \cap leaked = {}
      /\ \A j, k \in ITERS : j # k => ToSet(Slice(j)') \cap ToSet(Slice(k)') = {}
  BY <1>3, <1>4, <1>5, <1>6
<1>8. HeldByIters' = (HeldByIters \ ToSet(Slice(i))) \cup ToSet(u)
  <2>1. ASSUME NEW x \in HeldByIters' PROVE x \in (HeldByIters \ ToSet(Slice(i))) \cup ToSet(u)
    BY <1>1, <1>2, <1>3, <1>4
  <2>2. ASSUME NEW x \in ToSet(u) PROVE x \in HeldByIters'
    BY <1>2, <1>3
  <2>3. ASSUME NEW x \in HeldByIters, x \notin ToSet(Slice(i)) PROVE x \in HeldByIters'
    BY <1>1, <1>2, <1>3, <2>3
  <2> QED
    BY <2>1, <2>2, <2>3
<1>9. HeldByIters' \cap leaked = {}
  BY <1>2, <1>7
<1>10. ItersApart'
  BY <1>3, <1>7 DEF ItersApart
<1> QED
  BY <1>8, <1>9, <1>10

\* A step of an IntoIter that drops some of what it had, and no deque changes.
LEMMA DividedTakes ==
  ASSUME Divided, ~ub, NEEDS_DROP, NEW i \in ITERS, NEW u, Leaves(i, u), UNCHANGED dq,
         NEW dropped, Own({}, dropped), IsInjective(u), IsInjective(dropped),
         ToSet(dropped) \subseteq ToSet(Slice(i)), ToSet(u) = ToSet(Slice(i)) \ ToSet(dropped)
  PROVE  Divided' /\ ~ub'
<1>1. PICK K : K = leaked \cup HeldByIters
  OBVIOUS
<1>2. PICK L : L = leaked' \cup HeldByIters'
  OBVIOUS
<1>3. Owned(K) /\ ItersApart
  BY <1>1 DEF Divided
<1>4. PICK X : X = {}
  OBVIOUS
<1>5. /\ ItersApart' /\ HeldByIters' \cap leaked = {}
      /\ HeldByIters' = (HeldByIters \ ToSet(Slice(i))) \cup ToSet(u)
  <2>1. ToSet(u) \subseteq ToSet(Slice(i)) \cup X /\ X \cap HeldByIters = {} /\ X \cap leaked = {}
    BY <1>4
  <2> QED
    BY <1>3, <2>1, IterLeaves
<1>6. L = K \ ToSet(dropped)
  <2>1. ToSet(Slice(i)) \subseteq HeldByIters /\ leaked \cap ToSet(Slice(i)) = {} /\ leaked' = leaked
    BY <1>3, HeldHas DEF ItersApart, Leaves
  <2> DEFINE D == ToSet(dropped)
             S == ToSet(Slice(i))
             U == ToSet(u)
             H == HeldByIters
             G == HeldByIters'
             l == leaked
  <2>2. /\ S \subseteq H /\ l \cap S = {} /\ D \subseteq S /\ U = S \ D /\ G = (H \ S) \cup U
        /\ K = l \cup H /\ L = l \cup G
    BY <1>1, <1>2, <1>5, <2>1
  <2> HIDE DEF D, S, U, H, G, l
  <2>3. L = K \ D
    BY <2>2
  <2> QED
    BY <2>3 DEF D
<1>7. Elems' = Elems
  BY DEF Elems
<1>8. ToSet(dropped) \subseteq K
  BY <1>1, HeldHas
<1>9. live' = live \ ToSet(dropped) /\ ~ub'
  <2>1. /\ live' = (live \cup {}) \ ToSet(dropped)
        /\ ub' = (ub \/ ~IsInjective(dropped) \/ ~(ToSet(dropped) \subseteq live \cup {}))
    BY DEF Own
  <2>2. K \subseteq live
    BY <1>3 DEF Owned
  <2>3. ToSet(dropped) \subseteq live \cup {}
    BY <1>8, <2>2
  <2> QED
    BY <2>1, <2>3
<1>10. Owned(L)'
  <2>1. /\ \A d \in DEQS : IsInjective(Elems[d]) /\ ToSet(Elems[d]) \cap K = {}
        /\ \A c, d \in DEQS : c # d => ToSet(Elems[c]) \cap ToSet(Elems[d]) = {}
        /\ live = K \cup UNION {ToSet(Elems[d]) : d \in DEQS}
    BY <1>3 DEF Owned
  <2>2. live' = L \cup UNION {ToSet(Elems[d]) : d \in DEQS}
    <3> DEFINE V == UNION {ToSet(Elems[d]) : d \in DEQS}
               D == ToSet(dropped)
    <3>1. V \cap K = {} /\ live = K \cup V /\ live' = live \ D /\ D \subseteq K /\ L = K \ D
      BY <1>6, <1>8, <1>9, <2>1
    <3> HIDE DEF V, D
    <3>2. live' = L \cup V
      BY <3>1
    <3> QED
      BY <3>2 DEF V
  <2>3. \A d \in DEQS : IsInjective(Elems[d]) /\ ToSet(Elems[d]) \cap L = {}
    BY <1>6, <2>1
  <2> QED
    BY <1>7, <2>1, <2>2, <2>3 DEF Owned
<1> QED
  BY <1>2, <1>5, <1>9, <1>10 DEF Divided, Owned

\* A step that moves values between a deque and an IntoIter, or drops them.
LEMMA DividedMoves ==
  ASSUME Divided, ~ub, NEEDS_DROP, NEW d \in DEQS, NEW i \in ITERS, NEW t, NEW u, Leaves(i, u),
         Elems' = [Elems EXCEPT ![d] = t],
         NEW dropped, Own({}, dropped), IsInjective(t), IsInjective(u), IsInjective(dropped),
         ToSet(t) \cap ToSet(u) = {}, ToSet(dropped) \subseteq ToSet(Elems[d]) \cup ToSet(Slice(i)),
         ToSet(t) \cup ToSet(u) = (ToSet(Elems[d]) \cup ToSet(Slice(i))) \ ToSet(dropped)
  PROVE  Divided' /\ ~ub'
<1>1. PICK K : K = leaked \cup HeldByIters
  OBVIOUS
<1>2. PICK L : L = leaked' \cup HeldByIters'
  OBVIOUS
<1>3. Owned(K) /\ ItersApart
  BY <1>1 DEF Divided
<1>4. ToSet(Elems[d]) \cap K = {}
  BY <1>3 DEF Owned
<1>5. PICK X : X = ToSet(Elems[d])
  OBVIOUS
<1>6. /\ ItersApart' /\ HeldByIters' \cap leaked = {}
      /\ HeldByIters' = (HeldByIters \ ToSet(Slice(i))) \cup ToSet(u)
  <2>1. ToSet(u) \subseteq ToSet(Slice(i)) \cup X /\ X \cap HeldByIters = {} /\ X \cap leaked = {}
    BY <1>1, <1>4, <1>5
  <2> QED
    BY <1>3, <2>1, IterLeaves
<1>7. PICK created : created = {}
  OBVIOUS
<1>8. /\ ToSet(t) \cap L = {} /\ ToSet(dropped) \subseteq ToSet(Elems[d]) \cup K \cup created
      /\ ToSet(t) \cup L = (ToSet(Elems[d]) \cup K \cup created) \ ToSet(dropped)
  <2>1. ToSet(Slice(i)) \subseteq HeldByIters /\ leaked \cap ToSet(Slice(i)) = {} /\ leaked' = leaked
    BY <1>3, HeldHas DEF ItersApart, Leaves
  <2> DEFINE D == ToSet(dropped)
             S == ToSet(Slice(i))
             U == ToSet(u)
             T == ToSet(t)
             E == ToSet(Elems[d])
             H == HeldByIters
             G == HeldByIters'
             l == leaked
  <2>2. /\ S \subseteq H /\ l \cap S = {} /\ D \subseteq E \cup S /\ T \cup U = (E \cup S) \ D
        /\ T \cap U = {} /\ G = (H \ S) \cup U
        /\ K = l \cup H /\ L = l \cup G /\ E \cap K = {} /\ created = {}
    BY <1>1, <1>2, <1>4, <1>6, <1>7, <2>1
  <2> HIDE DEF D, S, U, T, E, H, G, l
  <2>3. T \cap L = {} /\ D \subseteq E \cup K \cup created
    BY <2>2
  <2>4. T \cup L = (E \cup K \cup created) \ D
    <3>1. ASSUME NEW x \in T \cup L PROVE x \in (E \cup K \cup created) \ D
      BY <2>2
    <3>2. ASSUME NEW x \in (E \cup K \cup created) \ D PROVE x \in T \cup L
      BY <2>2
    <3> QED
      BY <3>1, <3>2
  <2> QED
    BY <2>3, <2>4 DEF D, T, E
<1>9. /\ Owned(K) /\ ~ub /\ NEEDS_DROP
      /\ Elems' = [Elems EXCEPT ![d] = t] /\ Own(created, dropped) /\ created \cap live = {}
      /\ IsInjective(t) /\ IsInjective(dropped) /\ ToSet(t) \cap L = {}
      /\ ToSet(dropped) \subseteq ToSet(Elems[d]) \cup K \cup created
      /\ ToSet(t) \cup L = (ToSet(Elems[d]) \cup K \cup created) \ ToSet(dropped)
  BY <1>3, <1>7, <1>8
<1>10. Owned(L)' /\ ~ub'
  BY ONLY <1>9, d \in DEQS, MovesOwned, ZenonT(200)
<1> QED
  BY <1>2, <1>6, <1>10 DEF Divided, Owned
\* What an IntoIter has left is a sequence of its length.
LEMMA SliceSeq ==
  ASSUME IntoInv, NEW i \in ITERS
  PROVE  /\ IterOK(iters[i]) /\ Slice(i) \in Seq(Slot) /\ Len(Slice(i)) = iters[i].len
         /\ iters[i].len \in Nat
  BY ViewContents, ContentsSeq, IterBasics DEF IntoInv, Slice

\* An IntoIter that is not in use has nothing.
LEMMA GoneSlice == as_slice(Gone) = <<>>
<1>1. Gone.len = 0
  BY DEF Gone
<1> QED
  BY <1>1 DEF as_slice, Contents, Reads

\* The step changes the IntoIter i.
LEMMA LeavesSlice ==
  ASSUME IntoInv, NEW i \in ITERS, NEW p, iters' = [iters EXCEPT ![i] = p], leaked' = leaked
  PROVE  Leaves(i, as_slice(p))
<1>1. \A j \in ITERS : iters'[j] = IF j = i THEN p ELSE iters[j]
  BY DEF IntoInv
<1>2. \A j \in ITERS : as_slice(iters'[j]) = IF j = i THEN as_slice(p) ELSE as_slice(iters[j])
  BY <1>1
<1> QED
  BY <1>2 DEF Leaves, Slice

\* A step that changes nothing that is owned.
LEMMA DividedStays ==
  ASSUME Divided, ~ub, UNCHANGED <<dq, live, ub, iters, leaked>>
  PROVE  Divided' /\ ~ub'
<1>1. Elems' = Elems /\ HeldByIters' = HeldByIters /\ \A i \in ITERS : Slice(i)' = Slice(i)
  BY DEF Elems, HeldByIters, Slice
<1>2. Owned(leaked \cup HeldByIters)'
  BY <1>1 DEF Divided, Owned
<1>3. ItersApart'
  BY <1>1 DEF Divided, ItersApart
<1> QED
  BY <1>2, <1>3 DEF Divided

\* next and next_back give one element away, the first or the last.
LEMMA YieldDivided ==
  ASSUME IntoInv, Divided, ~ub, NEEDS_DROP, NEW i \in ITERS, next(i) \/ next_back(i),
         UNCHANGED leaked
  PROVE  Divided' /\ ~ub'
<1> DEFINE s == Slice(i)
           x == iters[i]
<1>1. IterOK(x) /\ s \in Seq(Slot) /\ Len(s) = x.len /\ x.len \in Nat /\ s = as_slice(x)
  BY SliceSeq DEF Slice
<1>2. IsInjective(s)
  BY DEF Divided, ItersApart
<1>3. CASE x.len = 0
  <2>1. UNCHANGED <<dq, live, ub, iters, leaked>>
    BY <1>3 DEF next, next_back
  <2> QED
    BY <2>1, DividedStays
<1>4. CASE x.len > 0 /\ next(i)
  <2> DEFINE p == [x EXCEPT !.head = @ + SIZE, !.len = @ - 1]
  <2>1. /\ iters' = [iters EXCEPT ![i] = Settle(p)] /\ UNCHANGED dq
        /\ Own({}, <<Read(x, 0)>>)
    BY <1>4 DEF next
  <2>2. /\ IterOK(p) /\ as_slice(p) = Tail(s) /\ Read(x, 0) = Head(s)
    BY <1>1, <1>4, FrontTaken
  <2> HIDE DEF p
  <2>3. as_slice(Settle(p)) = Tail(s)
    BY <2>2, SettleIter
  <2> DEFINE n == 1
             u == Tail(s)
             o == <<Head(s)>>
  <2>4. n \in 1 .. Len(s) /\ [s EXCEPT ![n] = Head(s)] = s /\ Head(s) = s[n]
    BY <1>1, <1>4
  <2> HIDE DEF s, n
  <2>5. IsInjective(Tail(s)) /\ ToSet(Tail(s)) = ToSet(s) \ {s[n]} /\ s[n] \in ToSet(s)
    BY <1>1, <1>2, <2>4, SwapFrontOwned
  <2>6. ToSet(o) = {s[n]} /\ IsInjective(o)
    BY <2>4, SetOfOne
  <2> HIDE DEF u, o
  <2>7. Leaves(i, u)
    <3>1. u = as_slice(Settle(p))
      BY <2>3 DEF u
    <3> QED
      BY <2>1, <3>1, LeavesSlice
  <2>8. Own({}, o)
    BY <2>1, <2>2 DEF o
  <2>9. IsInjective(u) /\ ToSet(u) = ToSet(Slice(i)) \ ToSet(o) /\ ToSet(o) \subseteq ToSet(Slice(i))
    BY <2>5, <2>6 DEF u, s
  <2> QED
    BY <2>1, <2>6, <2>7, <2>8, <2>9, DividedTakes
<1>5. CASE x.len > 0 /\ next_back(i)
  <2> DEFINE p == [x EXCEPT !.len = @ - 1]
             v == Read(x, x.len - 1)
  <2>1. /\ iters' = [iters EXCEPT ![i] = Settle(p)] /\ UNCHANGED dq
        /\ Own({}, <<v>>)
    BY <1>5 DEF next_back
  <2>2. /\ IterOK(p) /\ as_slice(p) = Front(s) /\ v = Last(s)
    BY <1>1, <1>5, BackTaken
  <2> HIDE DEF p, v
  <2>3. as_slice(Settle(p)) = Front(s)
    BY <2>2, SettleIter
  <2> DEFINE n == Len(s)
             u == Front(s)
             o == <<Last(s)>>
  <2>4. n \in 1 .. Len(s) /\ [s EXCEPT ![n] = Last(s)] = s /\ Last(s) = s[n]
    BY <1>1, <1>5 DEF Last
  <2> HIDE DEF s, n
  <2>5. IsInjective(Front(s)) /\ ToSet(Front(s)) = ToSet(s) \ {s[n]} /\ s[n] \in ToSet(s)
    BY <1>1, <1>2, <2>4, SwapBackOwned
  <2>6. ToSet(o) = {s[n]} /\ IsInjective(o)
    BY <2>4, SetOfOne
  <2> HIDE DEF u, o
  <2>7. Leaves(i, u)
    <3>1. u = as_slice(Settle(p))
      BY <2>3 DEF u
    <3> QED
      BY <2>1, <3>1, LeavesSlice
  <2>8. Own({}, o)
    BY <2>1, <2>2 DEF o
  <2>9. IsInjective(u) /\ ToSet(u) = ToSet(Slice(i)) \ ToSet(o) /\ ToSet(o) \subseteq ToSet(Slice(i))
    BY <2>5, <2>6 DEF u, s
  <2> QED
    BY <2>1, <2>6, <2>7, <2>8, <2>9, DividedTakes
<1> QED
  BY <1>1, <1>3, <1>4, <1>5

\* An IntoIter that goes away with all it had.
LEMMA DropDivided ==
  ASSUME IntoInv, Divided, ~ub, NEEDS_DROP, NEW i \in ITERS, UNCHANGED <<dq, leaked>>,
         iters' = [iters EXCEPT ![i] = Gone], Own({}, as_slice(iters[i]))
  PROVE  Divided' /\ ~ub'
<1> DEFINE u == <<>>
           s == Slice(i)
<1>1. IsInjective(u) /\ ToSet(u) = {} /\ IsInjective(s) /\ Own({}, s)
  BY NoDrop DEF Divided, ItersApart, Slice
<1>2. Leaves(i, u)
  BY LeavesSlice, GoneSlice
<1> HIDE DEF u, s
<1>3. ToSet(s) \subseteq ToSet(Slice(i)) /\ ToSet(u) = ToSet(Slice(i)) \ ToSet(s)
  BY <1>1 DEF s
<1> QED
  BY <1>1, <1>2, <1>3, DividedTakes

\* into_iter moves the elements of a deque to an IntoIter.
LEMMA IntoIterDivided ==
  ASSUME IntoInv, Divided, ~ub, NEEDS_DROP, NEW d \in DEQS, NEW i \in ITERS, into_iter(d, i),
         iters[i] = Gone, UNCHANGED leaked
  PROVE  Divided' /\ ~ub'
<1> DEFINE q == dq[d]
           t == <<>>
           u == Elems[d]
           o == <<>>
<1>1. WF(q) /\ Inv /\ Contents(q) = u
  BY DEF IntoInv, Inv, Elems
<1>2. iters' = [iters EXCEPT ![i] = Take(q)] /\ Becomes(d, new) /\ Own({}, o)
  BY DEF into_iter
<1>3. as_slice(Take(q)) = u
  BY <1>1, TakeOK, ViewContents
<1>4. Leaves(i, u)
  BY <1>2, <1>3, LeavesSlice
<1>5. Elems' = [Elems EXCEPT ![d] = t]
  <2>1. Contents(new) = t
    BY NewWF DEF Contents, Reads
  <2> QED
    BY <1>1, <1>2, <2>1, NewWF, BecomesElems
<1>6. Slice(i) = <<>>
  BY GoneSlice DEF Slice
<1>7. /\ IsInjective(t) /\ ToSet(t) = {} /\ IsInjective(u) /\ IsInjective(o) /\ ToSet(o) = {}
      /\ ToSet(Slice(i)) = {}
  BY <1>6, NoDrop DEF Divided, Owned
<1> HIDE DEF t, u, o
<1>8. /\ ToSet(t) \cap ToSet(u) = {} /\ ToSet(o) \subseteq ToSet(Elems[d]) \cup ToSet(Slice(i))
      /\ ToSet(t) \cup ToSet(u) = (ToSet(Elems[d]) \cup ToSet(Slice(i))) \ ToSet(o)
  BY <1>7 DEF u
<1>9. /\ Leaves(i, u) /\ Elems' = [Elems EXCEPT ![d] = t] /\ Own({}, o)
      /\ IsInjective(t) /\ IsInjective(u) /\ IsInjective(o)
      /\ ToSet(t) \cap ToSet(u) = {} /\ ToSet(o) \subseteq ToSet(Elems[d]) \cup ToSet(Slice(i))
      /\ ToSet(t) \cup ToSet(u) = (ToSet(Elems[d]) \cup ToSet(Slice(i))) \ ToSet(o)
      /\ Divided /\ ~ub /\ NEEDS_DROP /\ d \in DEQS /\ i \in ITERS
  BY <1>2, <1>4, <1>5, <1>7, <1>8
<1> QED
  BY ONLY <1>9, DividedMoves, ZenonT(60)

\* An IntoIter goes away and the deque d gets t; what d loses is dropped.
LEMMA GivesDivided ==
  ASSUME IntoInv, Divided, ~ub, NEEDS_DROP, NEW d \in DEQS, NEW i \in ITERS, NEW t, NEW o,
         iters' = [iters EXCEPT ![i] = Gone], UNCHANGED leaked,
         Elems' = [Elems EXCEPT ![d] = t], Own({}, o),
         \/ t = Slice(i) /\ o = Elems[d]
         \/ t = Elems[d] \o Slice(i) /\ o = <<>>
  PROVE  Divided' /\ ~ub'
<1> DEFINE u == <<>>
           s == Slice(i)
           E == Elems[d]
<1>1. /\ IsInjective(s) /\ IsInjective(E) /\ IsInjective(u) /\ ToSet(u) = {}
  BY NoDrop DEF Divided, ItersApart, Owned
<1>2. ToSet(s) \cap ToSet(E) = {}
  <2>1. ToSet(s) \subseteq leaked \cup HeldByIters
    BY HeldHas
  <2>2. ToSet(E) \cap (leaked \cup HeldByIters) = {}
    BY DEF Divided, Owned
  <2> QED
    BY <2>1, <2>2
<1>3. Leaves(i, u)
  BY LeavesSlice, GoneSlice
<1>4. s \in Seq(Slot) /\ E \in Seq(Slot)
  <2>1. WF(dq[d])
    BY DEF IntoInv, Inv
  <2> QED
    BY <2>1, SliceSeq, ContentsSeq DEF Elems
<1>5. /\ IsInjective(t) /\ IsInjective(o) /\ ToSet(o) \subseteq ToSet(E) \cup ToSet(s)
      /\ ToSet(t) = (ToSet(E) \cup ToSet(s)) \ ToSet(o)
  <2>1. CASE t = s /\ o = E
    BY <1>1, <1>2, <2>1
  <2>2. CASE t = E \o s /\ o = u
    <3> HIDE DEF E, s, u
    <3>1. IsInjective(E \o s) /\ ToSet(E \o s) = ToSet(E) \cup ToSet(s)
      BY <1>1, <1>2, <1>4, ConcatOwned
    <3> QED
      BY <1>1, <2>2, <3>1
  <2> QED
    BY <2>1, <2>2
<1> HIDE DEF u
<1>6. /\ Leaves(i, u) /\ Elems' = [Elems EXCEPT ![d] = t] /\ Own({}, o)
      /\ IsInjective(t) /\ IsInjective(u) /\ IsInjective(o)
      /\ ToSet(t) \cap ToSet(u) = {} /\ ToSet(o) \subseteq ToSet(Elems[d]) \cup ToSet(Slice(i))
      /\ ToSet(t) \cup ToSet(u) = (ToSet(Elems[d]) \cup ToSet(Slice(i))) \ ToSet(o)
      /\ Divided /\ ~ub /\ NEEDS_DROP /\ d \in DEQS /\ i \in ITERS
  BY <1>1, <1>3, <1>5
<1> QED
  BY ONLY <1>6, DividedMoves, ZenonT(60)

\* collect and extend move what is left to a deque, or drop it when there is no
\* memory.
LEMMA CollectsDivided ==
  ASSUME IntoInv, Divided, ~ub, NEEDS_DROP, NEW d \in DEQS, NEW i \in ITERS, NEW oom,
         collect(d, i, oom) \/ spec_extend(d, i, oom), UNCHANGED leaked
  PROVE  Divided' /\ ~ub'
<1> DEFINE x == iters[i]
           s == Slice(i)
           E == Elems[d]
<1>1. /\ IterOK(x) /\ Inv /\ WF(dq[d]) /\ Contents(dq[d]) = E /\ s = as_slice(x)
      /\ s \in Seq(Slot)
  BY SliceSeq DEF IntoInv, Inv, Elems, Slice
<1>2. iters' = [iters EXCEPT ![i] = Gone]
  BY DEF collect, spec_extend
<1>3. ASSUME NEW op, NEW q, NEW o, WF(q), TakesOver(op, d, i, q, o, oom)
      PROVE  \/ UNCHANGED dq /\ Own({}, as_slice(x))
             \/ Elems' = [Elems EXCEPT ![d] = Contents(q) \o s] /\ Own({}, o)
  <2> DEFINE r == append_elements(q, x, oom)
  <2>1. CASE ~r.ok
    BY <1>3, <2>1 DEF TakesOver
  <2>2. CASE r.ok
    <3>1. Becomes(d, r.q) /\ Own({}, o)
      BY <1>3, <2>2 DEF TakesOver
    <3>2. WF(r.q) /\ Contents(r.q) = Contents(q) \o s
      BY <1>1, <1>3, <2>2, AppendIter
    <3> HIDE DEF r
    <3>3. Elems' = [Elems EXCEPT ![d] = Contents(r.q)]
      BY <1>1, <3>1, <3>2, BecomesElems
    <3> QED
      BY <3>1, <3>2, <3>3
  <2> QED
    BY <2>1, <2>2
<1>4. CASE spec_extend(d, i, oom)
  <2>1. \/ UNCHANGED dq /\ Own({}, as_slice(x))
        \/ Elems' = [Elems EXCEPT ![d] = E \o s] /\ Own({}, <<>>)
    BY <1>1, <1>3, <1>4 DEF spec_extend
  <2>2. CASE UNCHANGED dq /\ Own({}, as_slice(x))
    BY <1>2, <2>2, DropDivided
  <2>3. CASE Elems' = [Elems EXCEPT ![d] = E \o s] /\ Own({}, <<>>)
    BY <1>2, <2>3, GivesDivided
  <2> QED
    BY <2>1, <2>2, <2>3
<1>5. CASE collect(d, i, oom)
  <2>1. \/ UNCHANGED dq /\ Own({}, as_slice(x))
        \/ Elems' = [Elems EXCEPT ![d] = s] /\ Own({}, E)
    <3>1. CASE x.head = 0
      <4> DEFINE p == from_raw_parts(x)
      <4>1. Becomes(d, p) /\ Own({}, E)
        BY <1>1, <1>5, <3>1 DEF collect
      <4>2. WF(p) /\ Contents(p) = s
        BY <1>1, <3>1, RawParts
      <4> HIDE DEF p
      <4> QED
        BY <1>1, <4>1, <4>2, BecomesElems
    <3>2. CASE x.head # 0
      <4>1. TakesOver("collect", d, i, new, E, oom)
        BY <1>1, <1>5, <3>2 DEF collect
      <4>2. Contents(new) = <<>>
        BY NewWF DEF Contents, Reads
      <4>3. <<>> \o s = s
        <5> HIDE DEF s
        <5> QED
          BY <1>1
      <4> QED
        BY <1>3, <4>1, <4>2, <4>3, NewWF
    <3> QED
      BY <3>1, <3>2
  <2>2. CASE UNCHANGED dq /\ Own({}, as_slice(x))
    BY <1>2, <2>2, DropDivided
  <2>3. CASE Elems' = [Elems EXCEPT ![d] = s] /\ Own({}, E)
    BY <1>2, <2>3, GivesDivided
  <2> QED
    BY <2>1, <2>2, <2>3
<1> QED
  BY <1>4, <1>5

\* Calls between the iterators leave what is beside the deques where it is.
LEMMA DividedBuilds ==
  ASSUME IntoInv, Divided, ~ub, NEEDS_DROP, NEW d \in DEQS, UNCHANGED <<iters, leaked>>,
         Builds(d) \/ \E oom \in BOOLEAN : Refills(d, oom)
  PROVE  Divided' /\ ~ub'
<1>1. PICK K : K = leaked \cup HeldByIters
  OBVIOUS
<1>2. Owned(K) /\ ItersApart /\ Inv
  BY <1>1 DEF Divided, IntoInv
<1>3. Owned(K)' /\ ~ub'
  <2>1. Args \subseteq Nat
    BY BoundAssumption DEF Args
  <2>2. CASE Builds(d)
    <3>1. \/ \E n \in Nat : assign(d, n, FALSE)
          \/ \E e \in Unborn : push_front(d, e, FALSE) \/ push_back(d, e, FALSE)
          \/ pop_front(d)
      BY <2>1, <2>2 DEF Builds
    <3> QED
      BY <1>2, <3>1, CapacityOwned, PushOwned, PopOwned
  <2>3. CASE \E oom \in BOOLEAN : Refills(d, oom)
    BY <1>2, <2>3, RefillsOwned
  <2> QED
    BY <2>2, <2>3
<1>4. HeldByIters' = HeldByIters /\ \A i \in ITERS : Slice(i)' = Slice(i)
  BY DEF HeldByIters, Slice
<1>5. ItersApart'
  BY <1>2, <1>4 DEF ItersApart
<1>6. K = leaked' \cup HeldByIters'
  BY <1>1, <1>4
<1> QED
  BY <1>3, <1>5, <1>6 DEF Divided, Owned

-----------------------------------------------------------------------------
(* The program's invariant.                                                *)

\* An IntoIter that is not in use has no buffer.
Unused == \A i \in ITERS : ~iters[i].used => iters[i] = Gone

\* IntoIters and borrowing iterators are not used at the same time, and
\* whichever is used, each live value has one owner.
ProgramInv ==
  /\ BorrowInv /\ IntoInv /\ Unused /\ (Idle \/ NoneUsed) /\ ~ub
  /\ NEEDS_DROP => (Idle => Divided) /\ (~Idle => Kept)

\* IntoIters that are not in use hold nothing.
LEMMA NoneHeld == Unused /\ NoneUsed => HeldByIters = {} /\ \A i \in ITERS : Slice(i) = <<>>
<1> SUFFICES ASSUME Unused, NoneUsed PROVE HeldByIters = {} /\ \A i \in ITERS : Slice(i) = <<>>
  OBVIOUS
<1>1. \A i \in ITERS : iters[i] = Gone
  BY DEF Unused, NoneUsed
<1>2. \A i \in ITERS : Slice(i) = <<>>
  BY <1>1, GoneSlice DEF Slice
<1>3. \A i \in ITERS : ToSet(Slice(i)) = {}
  BY <1>2, NoDrop
<1> QED
  BY <1>2, <1>3, HeldHas

\* Between two borrows both forms of the invariant say the same.
LEMMA KeptIsDivided == Idle /\ NoneUsed /\ Unused /\ ~ub => (Divided <=> Kept)
<1> SUFFICES ASSUME Idle, NoneUsed, Unused, ~ub PROVE Divided <=> Kept
  OBVIOUS
<1>1. HeldByIters = {} /\ \A i \in ITERS : Slice(i) = <<>>
  BY NoneHeld
<1>2. Beside = {} /\ History
  BY IdleBeside
<1>3. ItersApart
  BY <1>1, NoDrop DEF ItersApart
<1>4. leaked \cup HeldByIters = leaked /\ leaked \cup Beside = leaked /\ leaked \cap Beside = {}
  BY <1>1, <1>2
<1>5. Divided <=> Owned(leaked)
  BY <1>3, <1>4 DEF Divided
<1>6. Kept <=> Owned(leaked)
  BY <1>2, <1>4 DEF Kept, Apart
<1> QED
  BY <1>5, <1>6

\* The program starts with new deques, no iterator and nothing leaked.
LEMMA InitProgram == ProgramInit => ProgramInv
<1> SUFFICES ASSUME ProgramInit PROVE ProgramInv
  OBVIOUS
<1>1. Init /\ it = NoIter /\ leaked = {} /\ iters = [i \in ITERS |-> Gone]
  BY DEF ProgramInit, IterInit
<1>2. OwnershipInv
  BY <1>1, InitOwned
<1>3. Idle /\ IterInv
  BY <1>1, <1>2 DEF Idle, IterInv, OwnershipInv
<1>4. BorrowInv
  BY <1>3, IdleHas
<1>5. IntoInv
  BY <1>1, <1>2, GoneOK DEF IntoInv, OwnershipInv
<1>6. Unused /\ NoneUsed
  BY <1>1 DEF Unused, NoneUsed, Gone
<1>7. ~ub /\ (NEEDS_DROP => Owned({}))
  BY <1>2 DEF OwnershipInv
<1>8. NEEDS_DROP => Divided
  <2>1. HeldByIters = {} /\ \A i \in ITERS : Slice(i) = <<>>
    BY <1>6, NoneHeld
  <2>2. ItersApart
    BY <2>1, NoDrop DEF ItersApart
  <2>3. leaked \cup HeldByIters = {}
    BY <1>1, <2>1
  <2> QED
    BY <1>7, <2>2, <2>3 DEF Divided
<1> QED
  BY <1>3, <1>4, <1>5, <1>6, <1>7, <1>8 DEF ProgramInv

\* A step of a borrowing iterator, or a call between two of them.
LEMMA BorrowStep ==
  ASSUME ProgramInv, NoneUsed, SoundIterNext, UNCHANGED iters
  PROVE  ProgramInv'
<1>1. /\ BorrowInv /\ IntoInv /\ Unused /\ ~ub
      /\ NEEDS_DROP => (Idle => Divided) /\ (~Idle => Kept)
  BY DEF ProgramInv
<1>2. BorrowInv'
  BY <1>1, BorrowNextInv
<1>3. IntoInv'
  BY <1>1, <1>2 DEF BorrowInv, IterInv, IntoInv
<1>4. Unused' /\ NoneUsed'
  BY <1>1 DEF Unused, NoneUsed
<1>5. CASE NEEDS_DROP
  <2>1. Kept
    BY <1>1, <1>5, KeptIsDivided
  <2>2. Kept'
    BY <1>1, <1>5, <2>1, KeptNext
  <2>3. ~ub'
    BY <2>2 DEF Kept
  <2>4. Idle' => Divided'
    BY <1>4, <2>2, <2>3, KeptIsDivided, PTL
  <2> QED
    BY <1>2, <1>3, <1>4, <2>2, <2>3, <2>4 DEF ProgramInv
<1>6. CASE ~NEEDS_DROP
  <2>1. ~ub'
    BY <1>1, <1>6, StepNoDropIter
  <2> QED
    BY <1>2, <1>3, <1>4, <1>6, <2>1 DEF ProgramInv
<1> QED
  BY <1>5, <1>6

\* A step while no deque is borrowed.
LEMMA IdleStep ==
  ASSUME Idle, UNCHANGED it, IntoInv', Unused', ~ub', NEEDS_DROP => Divided'
  PROVE  ProgramInv'
<1>1. Idle'
  BY DEF Idle
<1>2. IterInv'
  BY <1>1 DEF IterInv, IntoInv
<1>3. BorrowInv'
  BY <1>1, <1>2, IdleHas, PTL
<1> QED
  BY <1>1, <1>3 DEF ProgramInv

\* A step that leaves the IntoIter i in use, or gone.
LEMMA UnusedStep ==
  ASSUME IntoInv, Unused, NEW i \in ITERS, NEW p, iters' = [iters EXCEPT ![i] = p],
         p.used \/ p = Gone
  PROVE  Unused'
<1>1. \A j \in ITERS : iters'[j] = IF j = i THEN p ELSE iters[j]
  BY DEF IntoInv
<1> QED
  BY <1>1 DEF Unused

\* What the calls of an IntoIter leave in use.
LEMMA ConsumesUnused ==
  ASSUME IntoInv, Unused, Consumes \/ Collects
  PROVE  Unused'
<1>1. ASSUME NEW d \in DEQS, NEW i \in ITERS, into_iter(d, i) PROVE Unused'
  <2>1. Take(dq[d]).used
    BY DEF Take
  <2> QED
    BY <1>1, <2>1, UnusedStep DEF into_iter
<1>2. ASSUME NEW i \in ITERS, next(i) PROVE Unused'
  <2> DEFINE t == iters[i]
             p == [t EXCEPT !.head = @ + SIZE, !.len = @ - 1]
  <2>1. IterOK(t) /\ t.used
    BY <1>2 DEF IntoInv, next
  <2>2. CASE t.len = 0
    BY <1>2, <2>2 DEF next, Unused
  <2>3. CASE t.len > 0
    <3>1. IterOK(p) /\ p.used
      <4>1. IterOK(p)
        BY <2>1, <2>3, FrontTaken
      <4>2. t = [blen |-> t.blen, half |-> t.half, mem |-> t.mem, head |-> t.head,
                 len |-> t.len, cap |-> t.cap, used |-> t.used]
        BY <2>1 DEF IterOK, IsIter
      <4>3. p.used = t.used
        BY <4>2
      <4> QED
        BY <2>1, <4>1, <4>3
    <3>2. iters' = [iters EXCEPT ![i] = Settle(p)]
      BY <1>2, <2>3 DEF next
    <3> HIDE DEF p
    <3>3. Settle(p).used
      BY <3>1, SettleIter
    <3> QED
      BY <3>2, <3>3, UnusedStep
  <2> QED
    BY <1>2, <2>2, <2>3 DEF next
<1>3. ASSUME NEW i \in ITERS, next_back(i) PROVE Unused'
  <2> DEFINE t == iters[i]
             p == [t EXCEPT !.len = @ - 1]
  <2>1. IterOK(t) /\ t.used
    BY <1>3 DEF IntoInv, next_back
  <2>2. CASE t.len = 0
    BY <1>3, <2>2 DEF next_back, Unused
  <2>3. CASE t.len > 0
    <3>1. IterOK(p) /\ p.used
      <4>1. IterOK(p)
        BY <2>1, <2>3, BackTaken
      <4>2. t = [blen |-> t.blen, half |-> t.half, mem |-> t.mem, head |-> t.head,
                 len |-> t.len, cap |-> t.cap, used |-> t.used]
        BY <2>1 DEF IterOK, IsIter
      <4>3. p.used = t.used
        BY <4>2
      <4> QED
        BY <2>1, <4>1, <4>3
    <3>2. iters' = [iters EXCEPT ![i] = Settle(p)]
      BY <1>3, <2>3 DEF next_back
    <3> HIDE DEF p
    <3>3. Settle(p).used
      BY <3>1, SettleIter
    <3> QED
      BY <3>2, <3>3, UnusedStep
  <2> QED
    BY <1>3, <2>2, <2>3 DEF next_back
<1>4. ASSUME NEW i \in ITERS, iters' = [iters EXCEPT ![i] = Gone] PROVE Unused'
  BY <1>4, UnusedStep
<1> QED
  BY <1>1, <1>2, <1>3, <1>4 DEF Consumes, Collects, drop, collect, spec_extend

\* A T without a destructor is never dropped.
LEMMA StepNoDropIntoIter ==
  ASSUME ~NEEDS_DROP,
         \/ Consumes \/ Collects
         \/ \E d \in DEQS, oom \in BOOLEAN : Refills(d, oom) \/ Builds(d)
  PROVE  UNCHANGED ub
<1>1. ASSUME NEW created, NEW dropped, Own(created, dropped) PROVE ub' = ub
  BY <1>1 DEF Own
<1>2. CASE Consumes
  BY <1>1, <1>2 DEF Consumes, into_iter, next, next_back, drop
<1>3. CASE Collects
  BY <1>1, <1>3 DEF Collects, collect, spec_extend, TakesOver
<1>4. ASSUME NEW d \in DEQS, Builds(d) PROVE ub' = ub
  BY <1>1, <1>4 DEF Builds, assign, push_front, push_back, pop_front, Stays
<1>5. ASSUME NEW d \in DEQS, NEW oom \in BOOLEAN, Refills(d, oom) PROVE ub' = ub
  BY <1>1, <1>5 DEF Refills, clone_from, front_mut, back_mut, AssignAt, Stays
<1> QED
  BY <1>2, <1>3, <1>4, <1>5

\* A call of an IntoIter, or one that makes or extends a deque of it.
LEMMA IntoStep ==
  ASSUME ProgramInv, Idle, Consumes \/ Collects, UNCHANGED <<it, leaked>>
  PROVE  ProgramInv'
<1>1. IntoInv /\ Unused /\ ~ub /\ (NEEDS_DROP => Divided)
  BY DEF ProgramInv
<1>2. IntoInv'
  <2>1. (\E d \in DEQS : Builds(d)) \/ Consumes \/ Collects \/ Clones
    OBVIOUS
  <2> QED
    BY <1>1, <2>1, NextIntoInv
<1>3. Unused'
  BY <1>1, ConsumesUnused
<1>4. NEEDS_DROP => Divided' /\ ~ub'
  <2> SUFFICES ASSUME NEEDS_DROP PROVE Divided' /\ ~ub'
    OBVIOUS
  <2>1. ASSUME NEW d \in DEQS, NEW i \in ITERS, into_iter(d, i) PROVE Divided' /\ ~ub'
    <3>1. iters[i] = Gone
      BY <1>1, <2>1 DEF Unused, into_iter
    <3> QED
      BY <1>1, <2>1, <3>1, IntoIterDivided
  <2>2. ASSUME NEW i \in ITERS, next(i) \/ next_back(i) PROVE Divided' /\ ~ub'
    BY <1>1, <2>2, YieldDivided
  <2>3. ASSUME NEW i \in ITERS, drop(i) PROVE Divided' /\ ~ub'
    BY <1>1, <2>3, DropDivided DEF drop
  <2>4. ASSUME NEW d \in DEQS, NEW i \in ITERS, NEW oom \in BOOLEAN,
               collect(d, i, oom) \/ spec_extend(d, i, oom)
        PROVE  Divided' /\ ~ub'
    BY <1>1, <2>4, CollectsDivided
  <2> QED
    BY <2>1, <2>2, <2>3, <2>4 DEF Consumes, Collects
<1>5. ~ub'
  BY <1>1, <1>4, StepNoDropIntoIter
<1> QED
  BY <1>2, <1>3, <1>4, <1>5, IdleStep

\* A call of a deque while IntoIters may be in use.
LEMMA DequeStep ==
  ASSUME ProgramInv, Idle, NEW d \in DEQS, UNCHANGED <<it, leaked, iters>>,
         Builds(d) \/ \E oom \in BOOLEAN : Refills(d, oom)
  PROVE  ProgramInv'
<1>1. IntoInv /\ Unused /\ ~ub /\ (NEEDS_DROP => Divided)
  BY DEF ProgramInv
<1>2. IntoInv'
  <2>1. CASE Builds(d)
    BY <1>1, <2>1, BuildsInv
  <2>2. CASE \E oom \in BOOLEAN : Refills(d, oom)
    <3>1. Inv'
      BY <1>1, <2>2, RefillsInv DEF IntoInv
    <3> QED
      BY <1>1, <3>1 DEF IntoInv
  <2> QED
    BY <2>1, <2>2
<1>3. Unused'
  BY <1>1 DEF Unused
<1>4. NEEDS_DROP => Divided' /\ ~ub'
  BY <1>1, DividedBuilds
<1>5. ~ub'
  BY <1>1, <1>4, StepNoDropIntoIter
<1> QED
  BY <1>2, <1>3, <1>4, <1>5, IdleStep

\* Every step of the program preserves the invariant.
LEMMA NextProgram == ProgramInv /\ [ProgramNext]_programvars => ProgramInv'
<1> SUFFICES ASSUME ProgramInv, [ProgramNext]_programvars PROVE ProgramInv'
  OBVIOUS
<1>1. CASE NoneUsed /\ SoundIterNext /\ UNCHANGED iters
  BY <1>1, BorrowStep
<1>2. CASE Idle /\ (Consumes \/ Collects) /\ UNCHANGED <<it, leaked>>
  BY <1>2, IntoStep
<1>3. CASE /\ Idle /\ UNCHANGED <<it, leaked, iters>>
           /\ \E d \in DEQS, oom \in BOOLEAN : Refills(d, oom)
  BY <1>3, DequeStep
<1>4. CASE ~NoneUsed /\ UNCHANGED <<it, leaked>> /\ \E d \in DEQS : Builds(d)
  <2>1. Idle
    BY <1>4 DEF ProgramInv
  <2>2. PICK d \in DEQS : Builds(d)
    BY <1>4
  <2>3. UNCHANGED <<it, leaked, iters>>
    BY <1>4, <2>2 DEF Builds
  <2> QED
    BY <2>1, <2>2, <2>3, DequeStep
<1>5. CASE UNCHANGED programvars
  <2>1. UNCHANGED <<dq, live, ub, ret, it, leaked, iters>>
    BY <1>5 DEF programvars, allvars, vars
  <2>2. BorrowInv' /\ IntoInv' /\ Unused' /\ (Idle' \/ NoneUsed') /\ ~ub'
    <3>1. IntoInv' /\ Unused' /\ (Idle' \/ NoneUsed') /\ ~ub'
      BY <2>1 DEF ProgramInv, IntoInv, Inv, Unused, Idle, NoneUsed
    <3>2. BorrowInv'
      BY <2>1, ZenonT(60) DEF ProgramInv, BorrowInv, IterInv, Inv, Idle, DrainOK, FilterOK, SiftOK,
         Drains, DrainHas, FilterHas, SiftHas, Q
    <3> QED
      BY <3>1, <3>2
  <2>3. ASSUME NEEDS_DROP, Idle' PROVE Divided'
    BY <2>1, <2>3, DividedStays DEF ProgramInv, Idle
  <2>4. ASSUME NEEDS_DROP, ~Idle' PROVE Kept'
    <3>1. Kept
      BY <2>1, <2>4 DEF ProgramInv, Idle
    <3>2. Elems' = Elems /\ Beside' = Beside /\ (History <=> History')
      BY <2>1 DEF Elems, Beside, History, Drains
    <3> QED
      BY <2>1, <3>1, <3>2 DEF Kept, Apart, Owned
  <2> QED
    BY <2>2, <2>3, <2>4 DEF ProgramInv
<1> QED
  BY <1>1, <1>2, <1>3, <1>4, <1>5 DEF ProgramNext

-----------------------------------------------------------------------------
(* The theorems about the program.                                         *)

\* Every live value is in one slot of one deque or IntoIter, or leaked.
LEMMA LostFromInv == ProgramInv => NothingLost
<1> SUFFICES ASSUME ProgramInv, NEEDS_DROP, Idle
             PROVE  NothingLost
  BY DEF NothingLost
<1> DEFINE owners == DEQS \cup ITERS
           q(o) == IF o \in DEQS THEN dq[o] ELSE iters[o]
           C(o) == IF o \in DEQS THEN Elems[o] ELSE Slice(o)
<1>1. IntoInv /\ Divided
  BY DEF ProgramInv
<1>2. live = Held \cup HeldByIters \cup leaked
  <2>1. live = (leaked \cup HeldByIters) \cup UNION {ToSet(Elems[d]) : d \in DEQS}
    BY <1>1 DEF Divided, Owned
  <2>2. Held = UNION {ToSet(Elems[d]) : d \in DEQS}
    BY DEF Held, Elems
  <2> QED
    BY <2>1, <2>2
<1>3. ASSUME NEW o \in owners
      PROVE  /\ C(o) \in Seq(Slot) /\ Len(C(o)) = q(o).len /\ q(o).len \in Nat /\ IsInjective(C(o))
             /\ \A i \in 0 .. q(o).len - 1 : C(o)[i + 1] = Read(q(o), i)
  <2>1. CASE o \in DEQS
    <3>1. WF(dq[o]) /\ Elems[o] = Contents(dq[o])
      BY <1>1, <2>1 DEF IntoInv, Inv, Elems
    <3>2. IsInjective(Elems[o])
      BY <1>1, <2>1 DEF Divided, Owned
    <3>3. dq[o].len \in Nat
      BY <3>1, Basics
    <3> QED
      BY <2>1, <3>1, <3>2, <3>3, ContentsSeq
  <2>2. CASE o \notin DEQS
    <3> DEFINE t == iters[o]
               w == Unwrapped(t)
    <3>1. o \in ITERS /\ C(o) = Slice(o) /\ q(o) = t
      BY <2>2
    <3>2. /\ IterOK(t) /\ Slice(o) \in Seq(Slot) /\ Len(Slice(o)) = t.len /\ t.len \in Nat
      BY <1>1, <3>1, SliceSeq
    <3>3. IsInjective(Slice(o))
      BY <1>1, <3>1 DEF Divided, ItersApart
    <3>4. WF(w) /\ w.len = t.len /\ Slice(o) = Contents(w)
      BY <3>2, ViewContents DEF Slice
    <3>5. \A i \in 0 .. t.len - 1 : Contents(w)[i + 1] = Read(w, i)
      BY <3>4, ContentsSeq
    <3>6. \A i \in 0 .. t.len - 1 : Read(t, i) = Read(w, i)
      <4>1. ASSUME NEW i \in 0 .. t.len - 1 PROVE Read(t, i) = Read(w, i)
        <5>1. i \in Int
          OBVIOUS
        <5> QED
          BY <3>2, <5>1, UnwrappedRead
      <4> QED
        BY <4>1
    <3>7. \A i \in 0 .. t.len - 1 : Slice(o)[i + 1] = Read(t, i)
      BY <3>4, <3>5, <3>6
    <3> QED
      BY <3>1, <3>2, <3>3, <3>7
  <2> QED
    BY <2>1, <2>2
<1>4. ASSUME NEW o \in owners, NEW p \in owners, o # p
      PROVE  ToSet(C(o)) \cap ToSet(C(p)) = {}
  <2>1. \A d \in DEQS, i \in ITERS : ToSet(Elems[d]) \cap ToSet(Slice(i)) = {}
    <3>1. ASSUME NEW d \in DEQS, NEW i \in ITERS PROVE ToSet(Elems[d]) \cap ToSet(Slice(i)) = {}
      <4>1. ToSet(Slice(i)) \subseteq leaked \cup HeldByIters
        BY HeldHas
      <4>2. ToSet(Elems[d]) \cap (leaked \cup HeldByIters) = {}
        BY <1>1 DEF Divided, Owned
      <4> QED
        BY <4>1, <4>2
    <3> QED
      BY <3>1
  <2>2. \A c, d \in DEQS : c # d => ToSet(Elems[c]) \cap ToSet(Elems[d]) = {}
    BY <1>1 DEF Divided, Owned
  <2>3. \A i, j \in ITERS : i # j => ToSet(Slice(i)) \cap ToSet(Slice(j)) = {}
    BY <1>1 DEF Divided, ItersApart
  <2> QED
    BY <1>4, <2>1, <2>2, <2>3
<1> HIDE DEF q, C
<1>5. ASSUME NEW o \in owners, NEW p \in owners,
             NEW i \in 0 .. q(o).len - 1, NEW j \in 0 .. q(p).len - 1,
             Read(q(o), i) = Read(q(p), j)
      PROVE  o = p /\ i = j
  <2> DEFINE m == i + 1
             n == j + 1
             s == C(o)
             t == C(p)
  <2>1. /\ s \in Seq(Slot) /\ t \in Seq(Slot) /\ IsInjective(s)
        /\ m \in 1 .. Len(s) /\ n \in 1 .. Len(t) /\ s[m] = t[n]
    BY <1>3, <1>5
  <2>2. o = p => s = t
    OBVIOUS
  <2>3. o # p => ToSet(s) \cap ToSet(t) = {}
    BY <1>4
  <2> HIDE DEF s, t
  <2>4. /\ s[m] \in ToSet(s) /\ t[n] \in ToSet(t)
        /\ \A k, l \in 1 .. Len(s) : s[k] = s[l] => k = l
    BY <2>1, SetOfSeq
  <2>5. o = p
    BY <2>1, <2>3, <2>4
  <2>6. m = n
    BY <2>1, <2>2, <2>4, <2>5
  <2> QED
    BY <2>5, <2>6
<1> QED
  BY <1>2, <1>5 DEF NothingLost, q

\* The deques' slices hold live values only, each once, none of them leaked.
LEMMA LeakSafeFromInv == ProgramInv => LeakSafe
<1> SUFFICES ASSUME ProgramInv, NEEDS_DROP PROVE LeakSafe
  BY DEF LeakSafe
<1>1. Inv /\ \E K : Owned(K) /\ leaked \subseteq K
  BY DEF ProgramInv, IntoInv, Divided, Kept, Apart
<1>2. PICK K : Owned(K) /\ leaked \subseteq K
  BY <1>1
<1>3. Held = UNION {ToSet(Elems[d]) : d \in DEQS}
  BY DEF Held, Elems
<1>4. Held \subseteq live \ leaked
  BY <1>2, <1>3 DEF Owned
<1>5. \A c, d \in DEQS : \A i \in 0 .. dq[c].len - 1, j \in 0 .. dq[d].len - 1 :
        Read(dq[c], i) = Read(dq[d], j) => c = d /\ i = j
  BY <1>1, <1>2, OwnedApart
<1> QED
  BY <1>4, <1>5 DEF LeakSafe

\* The invariant holds in every behaviour of the program.
THEOREM ProgramInvCorrect == ProgramSpec => []ProgramInv
  BY InitProgram, NextProgram, PTL DEF ProgramSpec

\* When no deque is borrowed, every live value is in exactly one slot of one deque
\* or IntoIter, or was leaked by mem::forget or by a panic in an iterator's Drop,
\* whatever the closures, replacement iterators, their size_hint(), allocations and
\* destructors did, except that no splice moves its tail to a new buffer (TailStays).
THEOREM NothingLostCorrect == ProgramSpec => []NothingLost
  BY LostFromInv, ProgramInvCorrect, PTL

\* Also while a Drain, Splice or DrainFilter is open, half dropped or forgotten,
\* no slot of a deque's slice holds a value that is dropped, leaked, or in another
\* slot.
THEOREM LeakSafeCorrect == ProgramSpec => []LeakSafe
  BY LeakSafeFromInv, ProgramInvCorrect, PTL

\* No iterator and no conversion drops a value twice or drops memory that holds
\* none, wherever a closure or a destructor panics.
THEOREM ProgramDropsCorrect == ProgramSpec => []NoInvalidDrop
<1>1. ProgramInv => NoInvalidDrop
  BY DEF ProgramInv, NoInvalidDrop
<1> QED
  BY <1>1, ProgramInvCorrect, PTL

\* The buffers of deques and IntoIters are freed with the size they were allocated
\* with, after any of the program's steps.
THEOREM ProgramBuffersCorrect == ProgramSpec => [](FreedAsAllocated /\ IntoIterInBuffer)
<1>1. ProgramInv => FreedAsAllocated /\ IntoIterInBuffer
  BY FreedFromInv, InBufferFromInv DEF ProgramInv, IntoInv
<1> QED
  BY <1>1, ProgramInvCorrect, PTL

\* A dropped Drain or Splice leaves the elements in front of the range, the values
\* that replaced it and all the elements behind it, in this order, for every lower
\* bound that size_hint() gave, as long as the tail stayed in its buffer (TailStays).
THEOREM DrainRestoresCorrect == ProgramSpec => DrainRestores
<1>1. ProgramInv => [restore_tail =>
        Contents(dq'[it.d]) = SubSeq(it.pre, 1, it.start) \o it.ins
                              \o SubSeq(it.pre, it.end + 1, Len(it.pre))]_allvars
  BY Restores DEF ProgramInv
<1> QED
  BY <1>1, ProgramInvCorrect, PTL DEF DrainRestores

\* drain_filter, retain and dedup_by leave what the closure kept, in its order; a
\* closure of retain or dedup_by that panics leaves all the elements.
THEOREM FilterKeepsCorrect == ProgramSpec => FilterKeeps
<1>1. ProgramInv =>
        [/\ (Filter_end /\ it' = NoIter) \/ Sift_end => Contents(dq'[it.d]) = it.kept
         /\ Sift_panic => /\ Len(Contents(dq'[it.d])) = Len(it.pre)
                          /\ ToSet(Contents(dq'[it.d])) = ToSet(it.pre)]_allvars
  BY Keeps DEF ProgramInv
<1> QED
  BY <1>1, ProgramInvCorrect, PTL DEF FilterKeeps

\* The IntoIters of the program yield in the deque's order, too, after whatever the
\* borrowing iterators left of the deque.
THEOREM ProgramYieldsCorrect == ProgramSpec => YieldsInOrder
<1>1. ProgramInv => [\A i \in ITERS : iters'[i] # iters[i] => YieldsAt(i)]_intovars
  BY YieldsFromInv DEF ProgramInv
<1> QED
  BY <1>1, ProgramInvCorrect, PTL DEF YieldsInOrder, YieldsAt

-----------------------------------------------------------------------------
(* A deque is never longer than the largest number of its machine: its     *)
(* region is at most as large as what can be allocated.                    *)

DequeFields == {"blen", "half", "mem", "head", "len"}

Small(q) == DOMAIN q = DequeFields /\ q.half \in Nat /\ q.half <= MaxAlloc

AllSmall == DOMAIN dq = DEQS /\ \A d \in DEQS : Small(dq[d])

\* Writing, moving and forgetting happen inside the region.
LEMMA SmallMoves ==
  /\ \A q : Small(q) => Small(Settle(q))
  /\ \A q, x : Small(q) => Small(move_tail_unchecked(q, x))
  /\ \A q, x : Small(q) => Small(move_head_unchecked(q, x))
  /\ \A q, p, i, n : Small(q) => Small(drop_in_place(q, p, i, n))
  /\ \A q, i, s : Small(q) => Small(Write(q, i, s))
  /\ \A p, i, q, j, n : Small(q) => Small(Copy(p, i, q, j, n))
  /\ \A q : Small(q) => Small([q EXCEPT !.head = 0, !.len = 0])
<1>1. \A q, m : Small(q) => Small([q EXCEPT !.mem = m])
  BY DEF Small, DequeFields
<1>2. \A q, l : Small(q) => Small([q EXCEPT !.len = l])
  BY DEF Small, DequeFields
<1>3. \A q, h, l : Small(q) => Small([q EXCEPT !.head = h, !.len = l])
  BY DEF Small, DequeFields
<1> QED
  BY <1>1, <1>2, <1>3 DEF Settle, move_tail_unchecked, move_head_unchecked, drop_in_place, Write, Copy

\* So do the operators that are made of these.
LEMMA SmallParts ==
  /\ \A q, i, j : Small(q) => Small(swap(q, i, j))
  /\ \A q, i : Small(q) => Small(MakeHole(q, i))
  /\ \A q, i : Small(q) => Small(CloseHole(q, i))
  /\ \A q, s : Small(q) => Small(PushAll(q, s))
  /\ \A q, n, s : Small(q) => Small(AssignAll(q, n, s))
  BY SmallMoves DEF swap, MakeHole, CloseHole, PushAll, AssignAll

\* A buffer that was allocated.
LEMMA SmallBuffer ==
  ASSUME NEW n \in Nat, NEW l, NEW oom, Allocates(2 * n, oom)
  PROVE  Small(OnBuffer(uninitialized(2 * n), l))
<1> DEFINE z == size_in_bytes(2 * n)
           b == uninitialized(2 * n)
<1>1. MaxAlloc \in Nat
  BY BoundAssumption
<1>2. CASE n = 0
  <2>1. b.half = 0
    BY <1>2 DEF uninitialized, NewBuffer
  <2> QED
    BY <1>1, <2>1 DEF Small, OnBuffer, DequeFields
<1>3. CASE n # 0
  <2>1. PICK h \in Nat \ {0} : z = 2 * h /\ z \div 2 = h
    <3>1. 2 * n \in Nat
      OBVIOUS
    <3> QED
      BY <3>1, Sizes
  <2>2. 2 * n # 0
    BY <1>3
  <2>3. b.half = z \div 2 /\ z <= MaxAlloc
    BY <2>2 DEF uninitialized, Allocates
  <2>4. b.half \in Nat /\ b.half <= MaxAlloc
    BY <1>1, <2>1, <2>3
  <2> QED
    BY <2>4 DEF Small, OnBuffer, DequeFields
<1> QED
  BY <1>2, <1>3

\* Reserving keeps the region or allocates one.
LEMMA SmallReserve ==
  ASSUME NEW q, Small(q), NEW n \in Nat, NEW oom
  PROVE  /\ reserve_capacity(q, n, oom).ok => Small(reserve_capacity(q, n, oom).q)
<1>1. CASE n <= capacity(q)
  BY <1>1 DEF reserve_capacity, Ok
<1>2. CASE ~(n <= capacity(q)) /\ ~Allocates(2 * n, oom)
  BY <1>2 DEF reserve_capacity, Err
<1>3. CASE ~(n <= capacity(q)) /\ Allocates(2 * n, oom)
  <2> DEFINE b == OnBuffer(uninitialized(2 * n), q.len)
             c == Copy(q, 0, b, 0, q.len)
  <2>1. reserve_capacity(q, n, oom).q = c
    BY <1>3 DEF reserve_capacity, Ok
  <2>2. Small(b)
    BY <1>3, SmallBuffer
  <2> HIDE DEF b
  <2>3. Small(c)
    BY <2>2, SmallMoves
  <2> QED
    BY <2>1, <2>3
<1> QED
  BY <1>1, <1>2, <1>3

\* Also by the amortized policy, and for one element more.
LEMMA SmallGrow ==
  ASSUME NEW q, Small(q), WF(q), NEW n \in Nat, NEW oom
  PROVE  /\ try_reserve(q, n, oom).ok => Small(try_reserve(q, n, oom).q)
         /\ RoomForOne(q, oom).ok => Small(RoomForOne(q, oom).q)
<1>1. q.len \in Nat /\ capacity(q) \in Nat
  BY Basics
<1>2. \A k \in Nat : grow_policy(q, k) \in Nat
  BY <1>1 DEF grow_policy
<1>3. \A k \in Nat : try_reserve(q, k, oom).ok => Small(try_reserve(q, k, oom).q)
  BY <1>2, SmallReserve DEF try_reserve
<1>4. RoomForOne(q, oom).ok => Small(RoomForOne(q, oom).q)
  BY <1>3 DEF RoomForOne, Ok
<1> QED
  BY <1>3, <1>4

\* A call that leaves small deques.
LEMMA SmallBecomes ==
  ASSUME AllSmall, NEW d \in DEQS, NEW q, Small(q), Becomes(d, q)
  PROVE  AllSmall'
<1>1. Small(Settle(q))
  BY SmallMoves
<1> QED
  BY <1>1 DEF AllSmall, Becomes

\* The same for two.
LEMMA SmallBothBecome ==
  ASSUME AllSmall, NEW d \in DEQS, NEW o \in DEQS, NEW q, NEW p, Small(q), Small(p),
         BothBecome(d, q, o, p)
  PROVE  AllSmall'
<1>1. Small(Settle(q)) /\ Small(Settle(p))
  BY SmallMoves
<1> QED
  BY <1>1 DEF AllSmall, BothBecome

\* A call that leaves the deques as they were.
LEMMA SmallStays ==
  ASSUME AllSmall, UNCHANGED dq
  PROVE  AllSmall'
  BY DEF AllSmall

\* Capacity and construction.
LEMMA SmallCapacity ==
  ASSUME Inv, AllSmall, NEW d \in DEQS, NEW n \in Nat, NEW oom,
         \/ assign(d, n, oom) \/ reserve(d, n, oom) \/ reserve_exact(d, n, oom)
         \/ shrink_to_fit(d, oom)
  PROVE  AllSmall'
<1> DEFINE q == dq[d]
<1>1. Small(q) /\ WF(q) /\ q.len \in Nat /\ q.len + n \in Nat
  BY View DEF AllSmall
<1>2. CASE assign(d, n, oom)
  <2>1. Allocates(2 * n, oom) => Small(with_capacity(n))
    BY SmallBuffer DEF with_capacity
  <2> QED
    BY <1>2, <2>1, SmallBecomes, SmallStays DEF assign, Stays
<1>3. CASE reserve(d, n, oom)
  BY <1>1, <1>3, SmallGrow, SmallBecomes, SmallStays DEF reserve, Stays
<1>4. CASE reserve_exact(d, n, oom)
  BY <1>1, <1>4, SmallReserve, SmallBecomes, SmallStays DEF reserve_exact, Stays
<1>5. CASE shrink_to_fit(d, oom)
  <2>1. Allocates(2 * q.len, oom) => Small(with_capacity(q.len))
    BY <1>1, SmallBuffer DEF with_capacity
  <2> DEFINE p == Copy(q, 0, move_tail_unchecked(with_capacity(q.len), q.len), 0, q.len)
  <2>2. Allocates(2 * q.len, oom) => Small(p)
    BY <2>1, SmallMoves
  <2>3. UNCHANGED dq \/ (Allocates(2 * q.len, oom) /\ Becomes(d, p))
    BY <1>5 DEF shrink_to_fit, Stays
  <2> HIDE DEF p
  <2> QED
    BY <2>2, <2>3, SmallBecomes, SmallStays
<1> QED
  BY <1>2, <1>3, <1>4, <1>5

\* One element more.
LEMMA SmallGains ==
  ASSUME Inv, AllSmall, NEW d \in DEQS, NEW e, NEW n \in Nat, NEW oom,
         \/ push_front(d, e, oom) \/ push_back(d, e, oom) \/ insert(d, n, e, oom)
         \/ extend_desugared(d, e, n, oom) \/ from_iter_default(d, e, n, oom)
  PROVE  AllSmall'
<1> DEFINE q == dq[d]
           r == RoomForOne(q, oom)
<1>1. Small(q) /\ WF(q)
  BY View DEF AllSmall
<1>2. r.ok => Small(r.q)
  BY <1>1, SmallGrow
<1>3. CASE push_front(d, e, oom)
  <2> DEFINE p == Write(move_head_unchecked(r.q, -1), 0, <<e>>)
  <2>1. UNCHANGED dq \/ (r.ok /\ Becomes(d, p))
    BY <1>3 DEF push_front, Stays
  <2>2. r.ok => Small(p)
    BY <1>2, SmallMoves
  <2> HIDE DEF p
  <2> QED
    BY <2>1, <2>2, SmallBecomes, SmallStays
<1>4. CASE push_back(d, e, oom)
  <2> DEFINE p == Write(move_tail_unchecked(r.q, 1), r.q.len, <<e>>)
  <2>1. UNCHANGED dq \/ (r.ok /\ Becomes(d, p))
    BY <1>4 DEF push_back, Stays
  <2>2. r.ok => Small(p)
    BY <1>2, SmallMoves
  <2> HIDE DEF p
  <2> QED
    BY <2>1, <2>2, SmallBecomes, SmallStays
<1>5. CASE insert(d, n, e, oom)
  <2> DEFINE p == Write(MakeHole(r.q, n), n, <<e>>)
  <2>1. UNCHANGED dq \/ (r.ok /\ Becomes(d, p))
    BY <1>5 DEF insert, Stays
  <2>2. r.ok => Small(p)
    BY <1>2, SmallMoves, SmallParts
  <2> HIDE DEF p
  <2> QED
    BY <2>1, <2>2, SmallBecomes, SmallStays
<1>6. CASE extend_desugared(d, e, n, oom)
  <2> DEFINE x == IF q.len = capacity(q) THEN try_reserve(q, n + 1, oom) ELSE Ok(q)
             p == PushAll(x.q, <<e>>)
  <2>1. UNCHANGED dq \/ (x.ok /\ Becomes(d, p))
    BY <1>6 DEF extend_desugared, Stays
  <2>2. x.ok => Small(x.q)
    <3>1. n + 1 \in Nat
      OBVIOUS
    <3>2. try_reserve(q, n + 1, oom).ok => Small(try_reserve(q, n + 1, oom).q)
      BY <1>1, <3>1, SmallGrow
    <3> QED
      BY <1>1, <3>2 DEF Ok
  <2>3. x.ok => Small(p)
    BY <2>2, SmallParts
  <2> HIDE DEF p, x
  <2> QED
    BY <2>1, <2>3, SmallBecomes, SmallStays
<1>7. CASE from_iter_default(d, e, n, oom)
  <2> DEFINE x == with_capacity(n + 1)
             p == PushAll(x, <<e>>)
  <2>1. UNCHANGED dq \/ (Allocates(2 * (n + 1), oom) /\ Becomes(d, p))
    BY <1>7 DEF from_iter_default, Stays
  <2>2. Allocates(2 * (n + 1), oom) => Small(x)
    <3>1. n + 1 \in Nat
      OBVIOUS
    <3> QED
      BY <3>1, SmallBuffer DEF with_capacity
  <2>3. Allocates(2 * (n + 1), oom) => Small(p)
    BY <2>2, SmallParts
  <2> HIDE DEF p, x
  <2> QED
    BY <2>1, <2>3, SmallBecomes, SmallStays
<1> QED
  BY <1>3, <1>4, <1>5, <1>6, <1>7

\* Fewer elements.
LEMMA SmallLosses ==
  ASSUME Inv, AllSmall, NEW d \in DEQS, NEW n,
         \/ pop_front(d) \/ pop_back(d) \/ truncate_back(d, n) \/ truncate_front(d, n)
         \/ swap_remove_back(d, n) \/ swap_remove_front(d, n) \/ remove(d, n) \/ remove_item(d, n)
  PROVE  AllSmall'
<1>1. Small(dq[d])
  BY DEF AllSmall
<1>2. CASE pop_front(d) \/ pop_back(d)
  BY <1>1, <1>2, SmallMoves, SmallBecomes, SmallStays DEF pop_front, pop_back, Stays
<1>3. CASE truncate_back(d, n) \/ truncate_front(d, n)
  BY <1>1, <1>3, SmallMoves, SmallBecomes, SmallStays DEF truncate_back, truncate_front, Stays
<1>4. CASE swap_remove_back(d, n) \/ swap_remove_front(d, n)
  BY <1>1, <1>4, SmallMoves, SmallParts, SmallBecomes, SmallStays
     DEF swap_remove_back, swap_remove_front, Stays
<1>5. CASE remove(d, n) \/ remove_item(d, n)
  BY <1>1, <1>5, SmallParts, SmallBecomes, SmallStays DEF remove, remove_item, Stays
<1> QED
  BY <1>2, <1>3, <1>4, <1>5

\* Several elements more.
LEMMA SmallExtends ==
  ASSUME Inv, AllSmall, NEW d \in DEQS, NEW n \in Nat, NEW s, NEW oom,
         resize(d, n, s, oom) \/ extend_from_slice(d, n, s, oom) \/ move_tail(d, s)
  PROVE  AllSmall'
<1> DEFINE q == dq[d]
<1>1. Small(q) /\ WF(q) /\ q.len \in Nat
  BY View DEF AllSmall
<1>2. CASE resize(d, n, s, oom)
  <2> DEFINE k == n - q.len
             r == try_reserve(q, k, oom)
  <2>1. truncate_back(d, n) \/ UNCHANGED dq \/ (k > 0 /\ r.ok /\ Becomes(d, PushAll(r.q, s)))
    BY <1>2 DEF resize, Stays
  <2>2. ASSUME k > 0, r.ok PROVE Small(PushAll(r.q, s))
    <3>1. k \in Nat
      BY <1>1, <2>2
    <3>2. Small(r.q)
      BY <1>1, <2>2, <3>1, SmallGrow
    <3> QED
      BY <3>2, SmallParts
  <2> HIDE DEF r, k
  <2> QED
    BY <2>1, <2>2, SmallBecomes, SmallStays, SmallLosses
<1>3. CASE extend_from_slice(d, n, s, oom)
  <2> DEFINE r == try_reserve(q, n, oom)
  <2>1. UNCHANGED dq \/ (r.ok /\ Becomes(d, AssignAll(r.q, n, s)))
    BY <1>3 DEF extend_from_slice, Stays
  <2>2. r.ok => Small(AssignAll(r.q, n, s))
    BY <1>1, SmallGrow, SmallParts
  <2> HIDE DEF r
  <2> QED
    BY <2>1, <2>2, SmallBecomes, SmallStays
<1>4. CASE move_tail(d, s)
  <2>1. Small(move_tail_unchecked(Write(q, q.len, s), Len(s)))
    BY <1>1, SmallMoves
  <2>2. UNCHANGED dq \/ Becomes(d, move_tail_unchecked(Write(q, q.len, s), Len(s)))
    BY <1>4 DEF move_tail, Stays
  <2> QED
    BY <2>1, <2>2, SmallBecomes, SmallStays
<1> QED
  BY <1>2, <1>3, <1>4

\* Two deques.
LEMMA SmallTwo ==
  ASSUME Inv, AllSmall, NEW d \in DEQS, NEW o \in DEQS, NEW n \in Nat, NEW s, NEW oom,
         append(d, o, oom) \/ split_off(d, o, n, oom) \/ clone(d, o, s, oom)
  PROVE  AllSmall'
<1> DEFINE q == dq[d]
           p == dq[o]
<1>1. /\ Small(q) /\ WF(q) /\ q.len \in Nat
      /\ Small(p) /\ WF(p) /\ p.len \in Nat
  BY View DEF AllSmall
<1>2. CASE append(d, o, oom)
  <2> DEFINE r == append_elements(q, p, oom)
             x == [p EXCEPT !.head = 0, !.len = 0]
  <2>1. UNCHANGED dq \/ (r.ok /\ BothBecome(d, r.q, o, x))
    BY <1>2 DEF append, Stays
  <2>2. r.ok => Small(r.q)
    <3> DEFINE y == try_reserve(q, p.len, oom)
               c == move_tail_unchecked(Copy(p, 0, y.q, y.q.len, p.len), p.len)
    <3>1. y.ok => Small(y.q)
      BY <1>1, SmallGrow
    <3>2. r = IF y.ok THEN Ok(c) ELSE y
      BY DEF append_elements
    <3>3. y.ok => Small(c)
      BY <3>1, SmallMoves
    <3> HIDE DEF y, c, r
    <3> QED
      BY <3>2, <3>3 DEF Ok
  <2>3. Small(x)
    BY <1>1, SmallMoves
  <2> HIDE DEF r, x
  <2> QED
    BY <2>1, <2>2, <2>3, SmallBothBecome, SmallStays
<1>3. CASE split_off(d, o, n, oom)
  <2> DEFINE k == q.len - n
             w == with_capacity(k)
             x == move_tail_unchecked(q, -k)
             y == Copy(q, n, move_tail_unchecked(w, k), 0, k)
  <2>1. UNCHANGED dq \/ (n <= q.len /\ Allocates(2 * k, oom) /\ BothBecome(d, x, o, y))
    BY <1>3 DEF split_off, Stays
  <2>2. Small(x)
    BY <1>1, SmallMoves
  <2>3. ASSUME n <= q.len, Allocates(2 * k, oom) PROVE Small(y)
    <3>1. k \in Nat
      BY <1>1, <2>3
    <3>2. Small(w)
      BY <2>3, <3>1, SmallBuffer DEF with_capacity
    <3> HIDE DEF w
    <3> QED
      BY <3>2, SmallMoves
  <2> HIDE DEF k, x, y
  <2> QED
    BY <2>1, <2>2, <2>3, SmallBothBecome, SmallStays
<1>4. CASE clone(d, o, s, oom)
  <2> DEFINE w == with_capacity(q.len)
             y == PushAll(w, s)
  <2>1. UNCHANGED dq \/ (Allocates(2 * q.len, oom) /\ Becomes(o, y))
    BY <1>4 DEF clone, Stays
  <2>2. Allocates(2 * q.len, oom) => Small(w)
    BY <1>1, SmallBuffer DEF with_capacity
  <2>3. Allocates(2 * q.len, oom) => Small(y)
    BY <2>2, SmallParts
  <2> HIDE DEF y, w
  <2> QED
    BY <2>1, <2>3, SmallBecomes, SmallStays
<1> QED
  BY <1>2, <1>3, <1>4

\* Any call of SliceDeque.
LEMMA SmallNext ==
  ASSUME Inv, AllSmall, Next
  PROVE  AllSmall'
<1>1. PICK d \in DEQS, oom \in BOOLEAN :
        \/ CommonNext(d, oom) \/ Inserts(d, oom) \/ ExtendsFromSlice(d, oom)
        \/ shrink_to_fit(d, oom)
  BY DEF Next
<1>2. Args \subseteq Nat /\ 0 .. MaxItems \subseteq Nat /\ 0 \in Nat
  BY BoundAssumption DEF Args
<1>3. CASE CommonNext(d, oom)
  <2>1. CASE \E n \in Args : assign(d, n, oom) \/ reserve(d, n, oom) \/ reserve_exact(d, n, oom)
    BY <1>2, <2>1, SmallCapacity
  <2>2. CASE \E e \in Unborn : push_front(d, e, oom) \/ push_back(d, e, oom)
    BY <1>2, <2>2, SmallGains
  <2>3. CASE \E e \in Unborn, n \in Args : extend_desugared(d, e, n, oom) \/ from_iter_default(d, e, n, oom)
    BY <1>2, <2>3, SmallGains
  <2>4. CASE pop_front(d) \/ pop_back(d)
    BY <2>4, SmallLosses
  <2>5. CASE \/ \E n \in Args : \/ truncate_back(d, n) \/ truncate_front(d, n) \/ remove(d, n)
                                \/ swap_remove_back(d, n) \/ swap_remove_front(d, n)
             \/ \E n \in SUBSET (0 .. dq[d].len - 1) : remove_item(d, n)
    BY <2>5, SmallLosses
  <2>6. CASE \E n \in Args, s \in UnbornSeqs : resize(d, n, s, oom)
    BY <1>2, <2>6, SmallExtends
  <2>7. CASE \E s \in UnbornSeqs : move_tail(d, s)
    BY <1>2, <2>7, SmallExtends
  <2>8. CASE \E o \in DEQS \ {d} : append(d, o, oom)
    BY <1>2, <2>8, SmallTwo
  <2>9. CASE \E o \in DEQS \ {d}, n \in Args : split_off(d, o, n, oom)
    BY <1>2, <2>9, SmallTwo
  <2>10. CASE \E o \in DEQS \ {d}, s \in UnbornSeqs : clone(d, o, s, oom)
    BY <1>2, <2>10, SmallTwo
  <2> QED
    BY <1>3, <2>1, <2>2, <2>3, <2>4, <2>5, <2>6, <2>7, <2>8, <2>9, <2>10 DEF CommonNext
<1>4. CASE Inserts(d, oom)
  BY <1>2, <1>4, SmallGains DEF Inserts
<1>5. CASE ExtendsFromSlice(d, oom)
  BY <1>2, <1>5, SmallExtends DEF ExtendsFromSlice
<1>6. CASE shrink_to_fit(d, oom)
  BY <1>2, <1>6, SmallCapacity
<1> QED
  BY <1>1, <1>3, <1>4, <1>5, <1>6

-----------------------------------------------------------------------------
(* The conversions keep the deques small and well formed.                  *)

\* One turn of the loop adds one element, and keeps the capacity while that
\* is enough.
LEMMA PushBackRoom ==
  ASSUME NEW r, NEW e \in Elem, PushBack(r, e).ok, r.ok => WF(r.q) /\ Small(r.q)
  PROVE  LET p == PushBack(r, e).q
         IN  /\ r.ok /\ WF(p) /\ Small(p) /\ p.len = r.q.len + 1
             /\ r.q.len + 1 <= capacity(r.q) => capacity(p) = capacity(r.q)
<1> DEFINE room == IF r.ok THEN RoomForOne(r.q, FALSE) ELSE r
           s == <<e>>
<1>1. room.ok /\ PushBack(r, e) = Ok(PushAll(room.q, s))
  BY DEF PushBack
<1>2. r.ok /\ room = RoomForOne(r.q, FALSE) /\ WF(r.q) /\ Small(r.q)
  BY <1>1
<1>3. WF(room.q) /\ room.q.len = r.q.len /\ capacity(room.q) >= r.q.len + 1
  BY <1>1, <1>2, RoomForOneWF
<1>4. Small(room.q)
  BY <1>1, <1>2, SmallGrow, 1 \in Nat
<1>5. /\ room.q.len \in Nat /\ capacity(room.q) \in Nat
      /\ r.q.len \in Nat /\ capacity(r.q) \in Nat
  BY <1>2, <1>3, Basics
<1>6. s \in Seq(Elem) /\ Len(s) = 1
  OBVIOUS
<1>7. r.q.len + 1 <= capacity(r.q) => room.q = r.q
  <2>1. r.q.len + 1 <= capacity(r.q) => ~is_full(r.q)
    BY <1>5 DEF is_full
  <2>2. ~is_full(r.q) => RoomForOne(r.q, FALSE).q = r.q
    BY DEF RoomForOne, Ok
  <2> QED
    BY <1>2, <2>1, <2>2
<1> HIDE DEF room, s
<1>8. room.q.len + Len(s) <= capacity(room.q)
  BY <1>3, <1>5, <1>6
<1> DEFINE p == PushAll(room.q, s)
<1>9. WF(p) /\ p.len = room.q.len + Len(s) /\ capacity(p) = capacity(room.q)
  BY <1>3, <1>6, <1>8, PushAllWF
<1>10. Small(p)
  BY <1>4, SmallParts
<1>11. PushBack(r, e).q = p
  BY <1>1 DEF Ok
<1> HIDE DEF p
<1> QED
  BY <1>2, <1>3, <1>6, <1>7, <1>9, <1>10, <1>11

\* So does the loop.
LEMMA PushEachRoom ==
  ASSUME NEW q, WF(q), Small(q), q.len = 0, NEW s \in Seq(Elem), PushEach(q, s).ok
  PROVE  LET p == PushEach(q, s).q
         IN  /\ WF(p) /\ Small(p) /\ p.len = Len(s)
             /\ Len(s) <= capacity(q) => capacity(p) = capacity(q)
<1>1. Len(s) \in Nat /\ capacity(q) \in Nat
  BY Basics
<1>2. PICK g : Loop(g, q, s, Len(s)) /\ PushEach(q, s) = g[Len(s)]
  BY <1>1, PushEachIsLoop
<1> DEFINE Good(n) == g[n].ok => /\ WF(g[n].q) /\ Small(g[n].q) /\ g[n].q.len = n
                                 /\ n <= capacity(q) => capacity(g[n].q) = capacity(q)
           T == {n \in 0 .. Len(s) : Good(n)}
<1>3. 0 \in T
  <2>1. g[0] = Ok(q)
    BY <1>1, <1>2 DEF Loop
  <2>2. Good(0)
    BY <2>1 DEF Ok
  <2>3. 0 \in 0 .. Len(s)
    BY <1>1
  <2> QED
    BY <2>2, <2>3
<1>4. ASSUME NEW n \in 0 .. Len(s) - 1, n \in T PROVE n + 1 \in T
  <2> DEFINE m == n + 1
             e == s[m]
             r == g[n]
  <2>1. m \in 0 .. Len(s) /\ m # 0 /\ m - 1 = n /\ m \in 1 .. Len(s)
    OBVIOUS
  <2>2. e \in Elem
    BY <2>1
  <2>3. Good(n)
    BY <1>4
  <2>4. g[m] = PushBack(r, e)
    BY <1>2, <2>1 DEF Loop
  <2>5. m <= capacity(q) => n <= capacity(q) /\ n + 1 <= capacity(q)
    BY <1>1
  <2>6. n + 1 = m
    OBVIOUS
  <2> HIDE DEF m, e, r
  <2>7. ASSUME g[m].ok
        PROVE  /\ r.ok /\ WF(g[m].q) /\ Small(g[m].q) /\ g[m].q.len = r.q.len + 1
               /\ r.q.len + 1 <= capacity(r.q) => capacity(g[m].q) = capacity(r.q)
    <3>1. PushBack(r, e).ok /\ (r.ok => WF(r.q) /\ Small(r.q))
      BY <2>3, <2>4, <2>7 DEF r
    <3> QED
      BY <2>2, <2>4, <3>1, PushBackRoom
  <2>8. Good(m)
    BY <2>3, <2>5, <2>6, <2>7 DEF r
  <2> QED
    BY <2>1, <2>8 DEF m
<1>5. Len(s) \in T
  <2> HIDE DEF T
  <2> QED
    BY <1>1, <1>3, <1>4, UpTo
<1> QED
  BY <1>1, <1>2, <1>5

\* A small deque is no longer than the largest usize.
LEMMA SmallLength ==
  ASSUME NEW q, WF(q), Small(q)
  PROVE  q.len <= USIZE_MAX
<1>1. q.len \in Nat /\ q.blen \in Nat /\ q.len <= capacity(q) /\ capacity(q) \in Nat
  BY Basics
<1>2. SIZE \in Nat \ {0} /\ MaxAlloc \in Nat /\ USIZE_MAX \in Nat /\ USIZE_MAX >= MaxAlloc
  BY LayoutAssumption, BoundAssumption, ConversionAssumption
<1>3. capacity(q) * SIZE <= q.half
  <2>1. CASE q.blen = 0
    BY <1>2, <2>1 DEF WF, BufferFits, capacity
  <2>2. CASE q.blen # 0
    BY <2>2 DEF WF, BufferFits
  <2> QED
    BY <2>1, <2>2
<1>4. capacity(q) <= capacity(q) * SIZE
  BY <1>1, <1>2
<1>5. q.half \in Nat /\ q.half <= MaxAlloc
  BY DEF Small
<1>6. capacity(q) * SIZE \in Nat
  BY <1>1, <1>2
<1> QED
  BY <1>1, <1>2, <1>3, <1>4, <1>5, <1>6

\* The index of the last element, or one past every element.
LEMMA LastIndex ==
  ASSUME NEW q, WF(q), Small(q)
  PROVE  /\ last_idx(q) \in Nat
         /\ q.len > 0 => last_idx(q) = q.len - 1
         /\ q.len = 0 => last_idx(q) >= q.len
<1>1. q.len \in Nat /\ q.len <= USIZE_MAX /\ USIZE_MAX \in Nat
  BY Basics, SmallLength, ConversionAssumption
<1>2. q.len - 1 \in Int /\ USIZE_MAX + 1 \in Nat \ {0}
  BY <1>1
<1>3. last_idx(q) \in Nat
  BY <1>2, ModRange DEF last_idx
<1>4. ASSUME q.len > 0 PROVE last_idx(q) = q.len - 1
  <2>1. q.len - 1 \in 0 .. (USIZE_MAX + 1) - 1
    BY <1>1, <1>4
  <2>2. q.len - 1 = (USIZE_MAX + 1) * 0 + (q.len - 1) /\ 0 \in Int
    BY <1>1
  <2> QED
    BY <1>2, <2>1, <2>2, ModUnique DEF last_idx
<1> QED
  BY <1>1, <1>3, <1>4

-----------------------------------------------------------------------------
(* The conversions do what Deque promises.                                 *)

\* A call that changes no deque.
LEMMA StaysFine ==
  ASSUME Inv, AllSmall, NEW op, NEW arg, NEW v, Stays(op, arg, v)
  PROVE  Inv' /\ AllSmall'
<1>1. UNCHANGED <<dq, live, ub>>
  BY DEF Stays
<1> QED
  BY <1>1 DEF Inv, AllSmall

\* A new deque of n values, or none.
LEMMA AssignsRefines ==
  ASSUME Inv, AllSmall, NEW d \in DEQS, NEW n \in Nat, NEW r, NEW s \in UnbornSeqs,
         ~r.ok => n > 0,
         r.ok => WF(r.q) /\ Small(r.q) /\ r.q.len = 0 /\ capacity(r.q) >= n,
         Assigns(d, n, r, s)
  PROVE  Inv' /\ AllSmall' /\ Abstract!Next
<1>1. s \in Seq(Elem) /\ ToSet(s) \subseteq Elem
  BY UnbornElems
<1>2. CASE n > 0 /\ Stays("from", <<d, n, s>>, "oom")
  <2>1. Abstract!Stays("oom") /\ ret'.op = "from" /\ ret'.arg = <<d, n, s>>
    BY <1>2, StaysView
  <2>2. Abstract!from(d, n, s)
    BY <1>2, <2>1 DEF Abstract!from
  <2>3. Inv' /\ AllSmall'
    BY <1>2, StaysFine
  <2>4. Abstract!Next
    BY <2>1, <2>2 DEF Abstract!Next
  <2> QED
    BY <2>3, <2>4
<1>3. CASE n > 0 /\ Stays("from", <<d, n, s>>, "panic")
  <2>1. Abstract!Stays("panic") /\ ret'.op = "from" /\ ret'.arg = <<d, n, s>>
    BY <1>3, StaysView
  <2>2. Abstract!from(d, n, s)
    BY <1>3, <2>1 DEF Abstract!from
  <2>3. Inv' /\ AllSmall'
    BY <1>3, StaysFine
  <2>4. Abstract!Next
    BY <2>1, <2>2 DEF Abstract!Next
  <2> QED
    BY <2>3, <2>4
<1>4. CASE /\ r.ok /\ Len(s) = n /\ Becomes(d, PushAll(r.q, s))
           /\ Own(ToSet(s), Contents(dq[d])) /\ Returns("from", <<d, n, s>>, "ok")
  <2> DEFINE p == PushAll(r.q, s)
  <2>1. Len(s) <= capacity(r.q)
    BY <1>4, Basics
  <2>2. WF(p) /\ capacity(p) = capacity(r.q) /\ Contents(p) = s
    BY <1>1, <1>4, <2>1, EmptyConcat
  <2>3. Small(p)
    BY <1>4, SmallParts
  <2> HIDE DEF p
  <2>4. Inv' /\ AllSmall'
    BY <1>1, <1>4, <2>2, <2>3, BecomesInv, SmallBecomes DEF p
  <2>5. Abstract!Holds(d, s) /\ Abstract!OnlyCapacityOf(d) /\ Caps'[d] = capacity(p)
    BY <1>4, <2>2, BecomesView DEF p
  <2>6. Caps'[d] >= n
    BY <1>4, <2>2, <2>5
  <2>7. ret'.op = "from" /\ ret'.arg = <<d, n, s>> /\ ret'.val = "ok"
    BY <1>4 DEF Returns
  <2>8. Abstract!from(d, n, s)
    BY <1>4, <2>5, <2>6, <2>7 DEF Abstract!from, Abstract!Returns, Caps
  <2> QED
    BY <2>4, <2>7, <2>8 DEF Abstract!Next
<1>5. \/ n > 0 /\ Stays("from", <<d, n, s>>, "oom")
      \/ n > 0 /\ Stays("from", <<d, n, s>>, "panic")
      \/ /\ r.ok /\ Len(s) = n /\ Becomes(d, PushAll(r.q, s))
         /\ Own(ToSet(s), Contents(dq[d])) /\ Returns("from", <<d, n, s>>, "ok")
  BY DEF Assigns
<1> QED
  BY <1>2, <1>3, <1>4, <1>5

\* The rooms that are reserved for a new deque.
LEMMA NewRooms ==
  ASSUME NEW n \in Nat, NEW oom
  PROVE  LET Fine(r) == /\ ~r.ok => n > 0
                        /\ r.ok => WF(r.q) /\ Small(r.q) /\ r.q.len = 0 /\ capacity(r.q) >= n
             a == Allocated(n, oom)
         IN  /\ Fine(try_reserve(new, n, oom))
             /\ Fine(a)
             /\ Fine(IF a.ok THEN try_reserve(a.q, n, oom) ELSE a)
<1> DEFINE Fine(r) == /\ ~r.ok => n > 0
                      /\ r.ok => WF(r.q) /\ Small(r.q) /\ r.q.len = 0 /\ capacity(r.q) >= n
           a == Allocated(n, oom)
<1>1. ASSUME NEW q, WF(q), Small(q), q.len = 0
      PROVE  Fine(try_reserve(q, n, oom))
  <2> DEFINE r == try_reserve(q, n, oom)
  <2>1. capacity(q) \in Nat
    BY <1>1, Basics
  <2>2. ASSUME ~r.ok PROVE n > 0
    <3>1. SUFFICES ASSUME n = 0 PROVE FALSE
      OBVIOUS
    <3>2. grow_policy(q, n) <= capacity(q)
      BY <1>1, <2>1, <3>1 DEF grow_policy
    <3> QED
      BY <2>2, <3>2 DEF try_reserve, reserve_capacity, Ok
  <2>3. r.ok => WF(r.q) /\ r.q.len = 0 /\ capacity(r.q) >= 0 + n
    BY <1>1, TryReserveWF
  <2>4. r.ok => Small(r.q)
    BY <1>1, SmallGrow
  <2> HIDE DEF r
  <2> QED
    BY <2>2, <2>3, <2>4 DEF r
<1>2. WF(new) /\ Small(new) /\ new.len = 0
  <2>1. Small(new)
    BY BoundAssumption DEF Small, DequeFields, new, OnBuffer, NewBuffer
  <2> QED
    BY <2>1, NewWF
<1>3. Fine(a)
  <2>1. CASE Allocates(2 * n, oom)
    <3> DEFINE w == with_capacity(n)
    <3>1. WF(w) /\ w.len = 0 /\ capacity(w) >= n
      BY WithCapacityWF
    <3>2. Small(w)
      BY <2>1, SmallBuffer DEF with_capacity
    <3>3. a = Ok(w)
      BY <2>1 DEF Allocated
    <3> HIDE DEF w, a
    <3> QED
      BY <3>1, <3>2, <3>3 DEF Ok
  <2>2. CASE ~Allocates(2 * n, oom)
    <3>1. 2 * n # 0
      BY <2>2 DEF Allocates
    <3>2. a = Err(new)
      BY <2>2 DEF Allocated
    <3> HIDE DEF a
    <3> QED
      BY <3>1, <3>2 DEF Err
  <2> QED
    BY <2>1, <2>2
<1> HIDE DEF a
<1>4. a.ok => Fine(try_reserve(a.q, n, oom))
  BY <1>1, <1>3
<1>5. Fine(try_reserve(new, n, oom))
  BY <1>1, <1>2
<1>6. Fine(IF a.ok THEN try_reserve(a.q, n, oom) ELSE a)
  BY <1>3, <1>4
<1> QED
  BY <1>3, <1>5, <1>6 DEF a

\* sdeq!, from_elem, From and FromIterator.
LEMMA MakesRefines ==
  ASSUME Inv, AllSmall, NEW d \in DEQS, NEW oom, Makes(d, oom)
  PROVE  Inv' /\ AllSmall' /\ Abstract!Next
<1>1. /\ 0 .. MaxItems \subseteq Nat /\ \A s \in UnbornSeqs : Len(s) \in Nat
  BY BoundAssumption, UnbornElems
<1>2. ASSUME NEW s \in UnbornSeqs, steal_from_slice(d, s, oom)
      PROVE  Inv' /\ AllSmall' /\ Abstract!Next
  <2> DEFINE n == Len(s)
             r == try_reserve(new, n, oom)
  <2>1. n \in Nat /\ Assigns(d, n, r, s)
    BY <1>1, <1>2 DEF steal_from_slice
  <2>2. /\ ~r.ok => n > 0
        /\ r.ok => WF(r.q) /\ Small(r.q) /\ r.q.len = 0 /\ capacity(r.q) >= n
    BY <2>1, NewRooms
  <2> HIDE DEF n, r
  <2> QED
    BY <2>1, <2>2, AssignsRefines
<1>3. ASSUME NEW n \in 0 .. MaxItems, NEW s \in UnbornSeqs, from_elem(d, n, s, oom)
      PROVE  Inv' /\ AllSmall' /\ Abstract!Next
  <2> DEFINE a == Allocated(n, oom)
             r == IF a.ok THEN try_reserve(a.q, n, oom) ELSE a
  <2>1. n \in Nat /\ Assigns(d, n, r, s)
    BY <1>1, <1>3 DEF from_elem
  <2>2. /\ ~r.ok => n > 0
        /\ r.ok => WF(r.q) /\ Small(r.q) /\ r.q.len = 0 /\ capacity(r.q) >= n
    BY <2>1, NewRooms
  <2> HIDE DEF r
  <2> QED
    BY <2>1, <2>2, AssignsRefines
<1>4. ASSUME NEW n \in 0 .. MaxItems, NEW s \in UnbornSeqs, from(d, n, s, oom)
      PROVE  Inv' /\ AllSmall' /\ Abstract!Next
  <2> DEFINE r == Allocated(n, oom)
  <2>1. n \in Nat /\ Assigns(d, n, r, s)
    BY <1>1, <1>4 DEF from
  <2>2. /\ ~r.ok => n > 0
        /\ r.ok => WF(r.q) /\ Small(r.q) /\ r.q.len = 0 /\ capacity(r.q) >= n
    BY <2>1, NewRooms
  <2> HIDE DEF r
  <2> QED
    BY <2>1, <2>2, AssignsRefines
<1>5. ASSUME NEW n \in 0 .. MaxItems, NEW s \in UnbornSeqs, from_iter_trusted(d, n, s, oom)
      PROVE  Inv' /\ AllSmall' /\ Abstract!Next
  <2> DEFINE r == try_reserve(new, n, oom)
  <2>1. n \in Nat /\ Assigns(d, n, r, s)
    BY <1>1, <1>5 DEF from_iter_trusted
  <2>2. /\ ~r.ok => n > 0
        /\ r.ok => WF(r.q) /\ Small(r.q) /\ r.q.len = 0 /\ capacity(r.q) >= n
    BY <2>1, NewRooms
  <2> HIDE DEF r
  <2> QED
    BY <2>1, <2>2, AssignsRefines
<1> QED
  BY <1>2, <1>3, <1>4, <1>5 DEF Makes

\* clone_from, which may end early.
LEMMA CloneFromRefines ==
  ASSUME Inv, AllSmall, NEW d \in DEQS, NEW n \in Nat, NEW s \in UnbornSeqs, NEW oom,
         clone_from(d, n, s, oom)
  PROVE  Inv' /\ AllSmall' /\ Abstract!Next
<1> DEFINE q == dq[d]
           p == move_tail_unchecked(q, -q.len)
           r == PushEach(p, s)
           c == r.q
<1>1. /\ r.ok /\ Becomes(d, c)
      /\ \/ Len(s) = n /\ Returns("clone_from", <<d, n, s>>, "ok")
         \/ Len(s) < n /\ Returns("clone_from", <<d, n, s>>, "panic")
         \/ /\ Len(s) < n /\ ~RoomForOne(c, oom).ok
            /\ Returns("clone_from", <<d, n, s>>, "oom")
  BY DEF clone_from
<1>2. /\ s \in Seq(Elem) /\ WF(q) /\ Small(q) /\ q.len \in Nat /\ Len(s) \in Nat
      /\ capacity(q) \in Nat /\ Caps[d] = capacity(q)
  BY UnbornElems, View DEF AllSmall
<1>3. WF(p) /\ Small(p) /\ p.len = 0 /\ capacity(p) = capacity(q)
  <2>1. q.len + (-q.len) \in 0 .. capacity(q) /\ -q.len \in Int /\ q.len + (-q.len) = 0
    BY <1>2
  <2> HIDE DEF q
  <2> QED
    BY <1>2, <2>1, MoveTailWF, SmallMoves
<1> HIDE DEF p, q
<1>4. /\ WF(c) /\ Small(c) /\ c.len = Len(s) /\ Contents(c) = s
      /\ Len(s) <= capacity(q) => capacity(c) = capacity(q)
  BY <1>1, <1>2, <1>3, PushEachRoom, PushEachContents
<1>5. capacity(c) \in Nat /\ c.len <= capacity(c)
  BY <1>4, Basics
<1>6. ~RoomForOne(c, oom).ok => c.len = capacity(c)
  BY DEF RoomForOne, is_full, Ok
<1> HIDE DEF r, c
<1>7. AllSmall'
  BY <1>1, <1>4, SmallBecomes
<1>8. Inv'
  BY CloneFromSteps
<1>9. /\ Abstract!Holds(d, s) /\ Abstract!OnlyCapacityOf(d) /\ Caps'[d] = capacity(c)
      /\ capacity(c) = capacity(q) => Abstract!KeepsCapacity
  BY <1>1, <1>4, BecomesView DEF q
<1>10. /\ ret'.op = "clone_from" /\ ret'.arg = <<d, n, s>>
       /\ \/ Len(s) = n /\ ret'.val = "ok"
          \/ Len(s) < n /\ ret'.val = "panic"
          \/ Len(s) < n /\ Len(s) = Caps'[d] /\ ret'.val = "oom"
  BY <1>1, <1>4, <1>6, <1>9 DEF Returns
<1>11. /\ Len(s) <= n /\ Caps'[d] >= Len(s)
       /\ Len(s) <= Caps[d] => Abstract!KeepsCapacity
  BY <1>2, <1>4, <1>5, <1>9, <1>10
<1>12. Abstract!clone_from(d, n, s)
  BY <1>9, <1>10, <1>11 DEF Abstract!clone_from, Abstract!Returns, Caps
<1> QED
  BY <1>7, <1>8, <1>10, <1>12 DEF Abstract!Next

\* Writing through a reference to the first or the last element.
LEMMA AssignAtRefines ==
  ASSUME Inv, AllSmall, NEW op, NEW d \in DEQS, NEW i \in Nat, NEW k \in Nat, NEW e \in Elem,
         AssignAt(op, d, i, e),
         dq[d].len > 0 => i < dq[d].len /\ k = i + 1
  PROVE  /\ Inv' /\ AllSmall' /\ Abstract!Assigned(d, k, e)
         /\ ret'.op = op /\ ret'.arg = <<d, e>>
<1> DEFINE q == dq[d]
           c == Elems[d]
           w == Write(q, i, <<e>>)
<1>1. /\ WF(q) /\ Small(q) /\ c \in Seq(Slot) /\ Len(c) = q.len /\ q.len \in Nat
      /\ (c = <<>>) <=> (q.len = 0)
  BY View DEF AllSmall
<1>2. Inv' /\ (Stays(op, <<d, e>>, "panic") \/ Overwrites(d, i + 1, e))
  BY AssignAtSteps
<1>3. CASE i >= q.len
  <2>1. Stays(op, <<d, e>>, "panic")
    BY <1>1, <1>3 DEF AssignAt
  <2>2. c = <<>>
    BY <1>1, <1>3
  <2>3. Abstract!Stays("panic") /\ ret'.op = op /\ ret'.arg = <<d, e>>
    BY <2>1, StaysView
  <2>4. AllSmall'
    BY <2>1, StaysFine
  <2>5. Abstract!Assigned(d, k, e)
    BY <2>2, <2>3 DEF Abstract!Assigned, Elems
  <2> QED
    BY <1>2, <2>3, <2>4, <2>5
<1>4. CASE ~(i >= q.len)
  <2>1. Becomes(d, w) /\ Returns(op, <<d, e>>, "ok") /\ i < q.len
    BY <1>1, <1>4 DEF AssignAt
  <2>2. WF(w) /\ capacity(w) = capacity(q) /\ Small(w)
    <3>1. <<e>> \in Seq(Elem) /\ i \in Int
      OBVIOUS
    <3> HIDE DEF q
    <3> QED
      BY <1>1, <3>1, WriteWF, SmallMoves
  <2> HIDE DEF w
  <2>3. AllSmall'
    BY <2>1, <2>2, SmallBecomes
  <2>4. Abstract!KeepsCapacity
    BY <2>1, <2>2, BecomesView
  <2>5. k = i + 1 /\ k \in 1 .. Len(c) /\ c # <<>>
    BY <1>1, <2>1
  <2>6. ret' = [op |-> op, arg |-> <<d, e>>, val |-> "ok"]
    BY <2>1 DEF Returns
  <2> DEFINE u == [c EXCEPT ![k] = e]
  <2>7. Elems' = [Elems EXCEPT ![d] = u]
    <3>1. Overwrites(d, i + 1, e)
      BY <1>2, <2>6 DEF Stays, Returns
    <3>2. PICK t \in Seq(Slot) :
            /\ Len(t) = Len(c) /\ \A l \in 1 .. Len(t) : t[l] = IF l = i + 1 THEN e ELSE c[l]
            /\ Elems' = [Elems EXCEPT ![d] = t]
      BY <3>1 DEF Overwrites
    <3>3. u \in Seq(Slot) /\ Len(u) = Len(c) /\ \A l \in 1 .. Len(c) : u[l] = IF l = k THEN e ELSE c[l]
      <4>1. e \in Slot
        BY DEF Slot
      <4> HIDE DEF c
      <4> QED
        BY <1>1, <2>5, <4>1
    <3> HIDE DEF u, c
    <3>4. \A l \in 1 .. Len(u) : u[l] = t[l]
      BY <2>5, <3>2, <3>3
    <3>5. t = u
      BY <3>2, <3>3, <3>4
    <3> QED
      BY <3>2, <3>5
  <2>8. Abstract!Shrinks(d, u, "ok")
    BY <2>4, <2>6, <2>7 DEF Abstract!Shrinks, Abstract!Holds, Abstract!Returns, Elems
  <2>9. Abstract!Assigned(d, k, e)
    BY <2>5, <2>8 DEF Abstract!Assigned, Elems
  <2> QED
    BY <1>2, <2>3, <2>6, <2>9
<1> QED
  BY <1>3, <1>4

\* clone_from, front_mut and back_mut.
LEMMA RefillsRefines ==
  ASSUME Inv, AllSmall, NEW d \in DEQS, NEW oom, Refills(d, oom)
  PROVE  Inv' /\ AllSmall' /\ Abstract!Next
<1>1. /\ 0 .. MaxItems \subseteq Nat /\ Unborn \subseteq Elem
      /\ WF(dq[d]) /\ Small(dq[d]) /\ dq[d].len \in Nat /\ Len(Elems[d]) = dq[d].len
  BY BoundAssumption, UnbornElems, View DEF AllSmall
<1>2. CASE \E n \in 0 .. MaxItems, s \in UnbornSeqs : clone_from(d, n, s, oom)
  BY <1>1, <1>2, CloneFromRefines
<1>3. ASSUME NEW e \in Unborn, front_mut(d, e)
      PROVE  Inv' /\ AllSmall' /\ Abstract!Next
  <2>1. AssignAt("front_mut", d, 0, e) /\ 0 \in Nat /\ 1 \in Nat /\ e \in Elem
        /\ (dq[d].len > 0 => 0 < dq[d].len /\ 1 = 0 + 1)
    BY <1>1, <1>3 DEF front_mut
  <2>2. /\ Inv' /\ AllSmall' /\ Abstract!Assigned(d, 1, e)
        /\ ret'.op = "front_mut" /\ ret'.arg = <<d, e>>
    BY <2>1, AssignAtRefines
  <2>3. Abstract!Next
    BY <2>2 DEF Abstract!Next, Abstract!front_mut
  <2> QED
    BY <2>2, <2>3
<1>4. ASSUME NEW e \in Unborn, back_mut(d, e)
      PROVE  Inv' /\ AllSmall' /\ Abstract!Next
  <2> DEFINE i == last_idx(dq[d])
             k == Len(Elems[d])
  <2>1. AssignAt("back_mut", d, i, e) /\ i \in Nat /\ k \in Nat /\ e \in Elem
    BY <1>1, <1>4, LastIndex DEF back_mut
  <2>2. dq[d].len > 0 => i < dq[d].len /\ k = i + 1
    BY <1>1, LastIndex
  <2> HIDE DEF i
  <2>3. /\ Inv' /\ AllSmall' /\ Abstract!Assigned(d, k, e)
        /\ ret'.op = "back_mut" /\ ret'.arg = <<d, e>>
    <3> HIDE DEF k
    <3> QED
      BY <2>1, <2>2, AssignAtRefines
  <2>4. Abstract!Next
    BY <2>3 DEF Abstract!Next, Abstract!back_mut, Elems
  <2> QED
    BY <2>3, <2>4
<1> QED
  BY <1>2, <1>3, <1>4 DEF Refills

\* spec_extend of an iterator of known length, which may panic.
LEMMA ExtendTrustedRefines ==
  ASSUME Inv, AllSmall, NEW d \in DEQS, NEW n \in Nat, NEW s \in UnbornSeqs, NEW oom,
         extend_trusted(d, n, s, oom)
  PROVE  Inv' /\ AllSmall' /\ Abstract!Next
<1> DEFINE q == dq[d]
           r == try_reserve(q, n, oom)
<1>1. /\ ~r.ok => ~(dq[d].len + n <= capacity(dq[d]))
      /\ r.ok => /\ WF(r.q) /\ r.q.len = q.len /\ Contents(r.q) = Contents(q)
                 /\ capacity(r.q) >= q.len + n /\ HasGrown(d, n, r.q)
  BY TryReserveView
<1>2. /\ s \in Seq(Elem) /\ ToSet(s) \subseteq Elem /\ WF(q) /\ Small(q) /\ q.len \in Nat
      /\ n \in Int
  BY UnbornElems, View DEF AllSmall
<1>3. r.ok => Small(r.q)
  BY <1>2, SmallGrow
<1>4. CASE ~r.ok /\ Stays("extend_from_slice", <<d, n, s>>, "oom")
  <2>1. /\ Abstract!OutOfMemory(d, n)
        /\ ret'.op = "extend_from_slice" /\ ret'.arg = <<d, n, s>>
    BY <1>1, <1>2, <1>4, OomView
  <2>2. Abstract!Next
    BY <2>1 DEF Abstract!Next, Abstract!extend_from_slice
  <2> QED
    BY <1>4, <2>2, StaysFine
<1>5. CASE /\ r.ok /\ Len(s) <= n /\ Becomes(d, PushAll(r.q, s)) /\ Own(ToSet(s), <<>>)
           /\ Returns("extend_from_slice", <<d, n, s>>, IF Len(s) = n THEN "ok" ELSE "panic")
  <2> HIDE DEF r
  <2>1. Abstract!MakesRoom(d, n) /\ Abstract!Holds(d, Elems[d] \o s)
    BY <1>1, <1>2, <1>5, PushedView
  <2> DEFINE p == PushAll(r.q, s)
  <2>2. WF(p) /\ Small(p)
    <3>1. r.q.len + Len(s) <= capacity(r.q)
      <4>1. Len(s) \in Nat /\ capacity(r.q) \in Nat /\ r.q.len \in Nat
        BY <1>1, <1>2, <1>5, Basics
      <4> QED
        BY <1>1, <1>2, <1>5, <4>1
    <3>2. WF(p)
      BY <1>1, <1>2, <1>5, <3>1, PushAllWF
    <3> QED
      BY <1>3, <1>5, <3>2, SmallParts
  <2>3. Inv' /\ AllSmall'
    <3>1. Becomes(d, p) /\ Own(ToSet(s), <<>>)
      BY <1>5
    <3> HIDE DEF p
    <3> QED
      BY <1>2, <2>2, <3>1, BecomesInv, SmallBecomes
  <2>4. /\ ret'.op = "extend_from_slice" /\ ret'.arg = <<d, n, s>>
        /\ ret'.val = IF Len(s) = n THEN "ok" ELSE "panic"
    BY <1>5 DEF Returns
  <2>5. Abstract!extend_from_slice(d, n, s)
    BY <1>5, <2>1, <2>4 DEF Abstract!extend_from_slice, Abstract!Returns, Elems
  <2>6. Abstract!Next
    BY <2>4, <2>5 DEF Abstract!Next
  <2> QED
    BY <2>3, <2>6
<1>6. \/ ~r.ok /\ Stays("extend_from_slice", <<d, n, s>>, "oom")
      \/ /\ r.ok /\ Len(s) <= n /\ Becomes(d, PushAll(r.q, s)) /\ Own(ToSet(s), <<>>)
         /\ Returns("extend_from_slice", <<d, n, s>>, IF Len(s) = n THEN "ok" ELSE "panic")
  BY DEF extend_trusted
<1> QED
  BY <1>4, <1>5, <1>6

\* spec_extend of a slice whose elements are copied as bytes.
LEMMA ExtendCopyRefines ==
  ASSUME Inv, AllSmall, NEW d \in DEQS, NEW s \in UnbornSeqs, NEW oom, extend_copy(d, s, oom)
  PROVE  Inv' /\ AllSmall' /\ Abstract!Next
<1> DEFINE n == Len(s)
           r == try_reserve(dq[d], n, oom)
<1>1. s \in Seq(Elem) /\ n \in Nat
  BY UnbornElems
<1>2. AssignAll(r.q, n, s) = PushAll(r.q, s)
  BY DEF AssignAll, PushAll
<1>3. CASE ~r.ok /\ Stays("extend_from_slice", <<d, n, s>>, "oom")
  <2>1. ~(dq[d].len + n <= capacity(dq[d])) /\ n \in Int
    BY <1>1, <1>3, TryReserveView
  <2>2. /\ Abstract!OutOfMemory(d, n)
        /\ ret'.op = "extend_from_slice" /\ ret'.arg = <<d, n, s>>
    <3> HIDE DEF n
    <3> QED
      BY <1>3, <2>1, OomView
  <2>3. Abstract!Next
    BY <2>2 DEF Abstract!Next, Abstract!extend_from_slice
  <2> QED
    BY <1>3, <2>3, StaysFine
<1>4. CASE /\ r.ok /\ Becomes(d, PushAll(r.q, s)) /\ Own(ToSet(s), <<>>)
           /\ Returns("extend_from_slice", <<d, n, s>>, "ok")
  <2>1. extend_trusted(d, n, s, oom)
    BY <1>1, <1>4 DEF extend_trusted
  <2> QED
    BY <1>1, <2>1, ExtendTrustedRefines
<1> QED
  BY <1>2, <1>3, <1>4 DEF extend_copy

\* The smaller of two numbers.
LEMMA MinOfTwo ==
  ASSUME NEW a \in Nat, NEW b \in Nat
  PROVE  Min({a, b}) \in {a, b} /\ Min({a, b}) <= a /\ Min({a, b}) <= b
<1>1. \E x \in {a, b} : \A y \in {a, b} : x <= y
  OBVIOUS
<1> QED
  BY <1>1 DEF Min

\* One turn of BufMut::put makes progress: bytes_mut gives out room.
LEMMA PutRefines ==
  ASSUME Inv, AllSmall, NEW d \in DEQS, NEW s \in UnbornSeqs, NEW oom, put(d, s, oom)
  PROVE  Inv' /\ AllSmall' /\ Abstract!Next
<1> DEFINE q   == dq[d]
           r   == bytes_mut(q, oom)
           m   == capacity(r.q) - r.q.len
           cnt == Min({Len(s), m})
           u   == SubSeq(s, 1, cnt)
           a   == advance_mut(Write(r.q, r.q.len, u), cnt, oom)
           p   == PushAll(r.q, u)
<1>1. /\ s \in Seq(Elem) /\ ToSet(s) \subseteq Elem /\ Len(s) \in Nat
      /\ WF(q) /\ Small(q) /\ q.len \in Nat /\ capacity(q) \in Nat /\ q.len <= capacity(q)
      /\ Elems[d] = Contents(q) /\ Caps[d] = capacity(q)
      /\ (Abstract!HasRoom(d, 1) <=> q.len + 1 <= capacity(q))
  <2>1. s \in Seq(Elem) /\ ToSet(s) \subseteq Elem /\ Len(s) \in Nat
    BY UnbornElems
  <2>2. Small(q)
    BY DEF AllSmall
  <2>3. Abstract!HasRoom(d, 1) <=> q.len + 1 <= capacity(q)
    BY RoomView, 1 \in Int
  <2>4. /\ WF(q) /\ q.len \in Nat /\ capacity(q) \in Nat /\ q.len <= capacity(q)
        /\ Elems[d] = Contents(q) /\ Caps[d] = capacity(q)
    BY View
  <2> QED
    BY <2>1, <2>2, <2>3, <2>4
<1>2. /\ s # <<>>
      /\ \/ ~r.ok /\ Stays("put", <<d, s>>, "oom")
         \/ /\ r.ok /\ Becomes(d, a.q) /\ Own(ToSet(u), <<>>)
            /\ Returns("put", <<d, s>>, "ok")
  BY DEF put
<1>3. /\ ~r.ok => ~(q.len + 1 <= capacity(q))
      /\ r.ok => /\ WF(r.q) /\ Small(r.q) /\ r.q.len = q.len /\ Contents(r.q) = Contents(q)
                 /\ capacity(r.q) >= q.len + 1
                 /\ IF q.len + 1 <= capacity(q) THEN capacity(r.q) = capacity(q)
                                                ELSE capacity(r.q) > capacity(q)
  <2>1. CASE is_full(q)
    <3>1. r = try_reserve(q, BUF_GROW, oom) /\ BUF_GROW \in Nat \ {0}
      BY <2>1, ConversionAssumption DEF bytes_mut
    <3>2. q.len = capacity(q)
      BY <2>1 DEF is_full
    <3> HIDE DEF r
    <3>3. r.ok => /\ WF(r.q) /\ r.q.len = q.len /\ Contents(r.q) = Contents(q)
                  /\ capacity(r.q) >= q.len + BUF_GROW
      BY <1>1, <3>1, TryReserveContents
    <3>4. r.ok => Small(r.q)
      BY <1>1, <3>1, SmallGrow
    <3>5. r.ok => capacity(r.q) \in Nat
      BY <3>3, Basics
    <3> HIDE DEF q
    <3> QED
      BY <1>1, <3>1, <3>2, <3>3, <3>4, <3>5
  <2>2. CASE ~is_full(q)
    <3>1. r.ok /\ r.q = q
      BY <2>2 DEF bytes_mut, Ok
    <3>2. q.len + 1 <= capacity(q)
      BY <1>1, <2>2 DEF is_full
    <3> HIDE DEF r, q
    <3> QED
      BY <1>1, <3>1, <3>2
  <2> QED
    BY <2>1, <2>2
<1> HIDE DEF r
<1>4. CASE ~r.ok /\ Stays("put", <<d, s>>, "oom")
  <2>1. Abstract!Stays("oom") /\ ret'.op = "put" /\ ret'.arg = <<d, s>>
    BY <1>4, StaysView
  <2>2. Abstract!put(d, s)
    BY <1>1, <1>3, <1>4, <2>1 DEF Abstract!put
  <2>3. Abstract!Next
    BY <2>1, <2>2 DEF Abstract!Next
  <2> QED
    BY <1>4, <2>3, StaysFine
<1>5. CASE /\ r.ok /\ Becomes(d, a.q) /\ Own(ToSet(u), <<>>) /\ Returns("put", <<d, s>>, "ok")
  <2>1. r.q.len \in Nat /\ capacity(r.q) \in Nat /\ m \in Nat /\ m >= 1
    BY <1>1, <1>3, <1>5, Basics
  <2>2. Len(s) >= 1
    BY <1>1, <1>2
  <2>3. cnt \in Nat /\ cnt >= 1 /\ cnt <= Len(s) /\ r.q.len + cnt <= capacity(r.q)
    <3>1. cnt \in {Len(s), m} /\ cnt <= Len(s) /\ cnt <= m
      BY <1>1, <2>1, MinOfTwo
    <3> HIDE DEF cnt
    <3> QED
      BY <1>1, <2>1, <2>2, <3>1
  <2> HIDE DEF cnt
  <2>4. u \in Seq(Elem) /\ Len(u) = cnt
    BY <1>1, <2>3
  <2>5. ToSet(u) \subseteq Elem
    <3>1. \A x : x \in ToSet(u) <=> \E i \in 1 .. Len(u) : x = u[i]
      BY <2>4, SetOfSeq
    <3>2. \A i \in 1 .. Len(u) : u[i] \in Elem
      BY <2>4
    <3> QED
      BY <3>1, <3>2
  <2> HIDE DEF u
  <2>6. a.q = p
    <3> DEFINE w == Write(r.q, r.q.len, u)
    <3>1. w.len = r.q.len /\ capacity(w) = capacity(r.q)
      BY <1>3, <1>5, <2>1, <2>4, WriteWF, r.q.len \in Int
    <3>2. ~(cnt > capacity(w) - w.len)
      BY <2>1, <2>3, <3>1
    <3>3. a = Ok(move_tail_unchecked(w, cnt))
      <4> HIDE DEF w
      <4>1. advance_mut(w, cnt, oom) = Ok(move_tail_unchecked(w, cnt))
        BY <3>2, Zenon DEF advance_mut, Ok
      <4> QED
        BY <4>1 DEF w
    <3>4. move_tail_unchecked(w, cnt) = p
      BY <1>3, <1>5, <2>4, Zenon DEF move_tail_unchecked, Write, PushAll, WF, IsDeque
    <3> QED
      BY <3>3, <3>4 DEF Ok
  <2>7. WF(p) /\ capacity(p) = capacity(r.q) /\ Contents(p) = Contents(r.q) \o u
    BY <1>3, <1>5, <2>3, <2>4, PushAllWF, PushAllContents
  <2>8. Small(p)
    BY <1>3, <1>5, SmallParts
  <2>9. Becomes(d, p) /\ Own(ToSet(u), <<>>)
    BY <1>5, <2>6
  <2> HIDE DEF p
  <2>10. Inv' /\ AllSmall'
    BY <2>5, <2>7, <2>8, <2>9, BecomesInv, SmallBecomes
  <2>11. /\ Abstract!Holds(d, Contents(p)) /\ Abstract!OnlyCapacityOf(d) /\ Caps'[d] = capacity(p)
         /\ capacity(p) = capacity(q) => Abstract!KeepsCapacity
    BY <2>7, <2>9, BecomesView
  <2>12. Contents(p) = Elems[d] \o SubSeq(s, 1, cnt)
    BY <1>1, <1>3, <1>5, <2>7 DEF u
  <2>13. ret'.op = "put" /\ ret'.arg = <<d, s>> /\ ret'.val = "ok"
    BY <1>5 DEF Returns
  <2>14. IF Abstract!HasRoom(d, 1) THEN Abstract!KeepsCapacity
         ELSE Abstract!OnlyCapacityOf(d) /\ Caps'[d] > Caps[d]
    BY <1>1, <1>3, <1>5, <2>7, <2>11
  <2>15. \E n \in 1 .. Len(s) : Abstract!Holds(d, Elems[d] \o SubSeq(s, 1, n))
    <3>1. cnt \in 1 .. Len(s)
      BY <1>1, <2>3
    <3> QED
      BY <2>11, <2>12, <3>1
  <2>16. Abstract!put(d, s)
    BY <2>13, <2>14, <2>15 DEF Abstract!put, Abstract!Returns, Elems, Caps
  <2>17. Abstract!Next
    BY <2>13, <2>16 DEF Abstract!Next
  <2> QED
    BY <2>10, <2>17
<1> QED
  BY <1>2, <1>4, <1>5

\* The slice, and the element that front and back return.
LEMMA ObserversRefine ==
  ASSUME Inv, AllSmall, NEW d \in DEQS, as_slices(d) \/ front(d) \/ back(d)
  PROVE  Inv' /\ AllSmall' /\ Abstract!Next
<1> DEFINE q == dq[d]
           c == Elems[d]
<1>1. /\ WF(q) /\ Small(q) /\ c \in Seq(Slot) /\ Len(c) = q.len /\ q.len \in Nat
      /\ c = Contents(q) /\ ((c = <<>>) <=> (q.len = 0))
  BY View DEF AllSmall
<1>2. \A i \in 0 .. q.len - 1 : c[i + 1] = Read(q, i)
  <2>1. \A i \in 0 .. q.len - 1 : Contents(q)[i + 1] = Read(q, i)
    BY <1>1, ContentsSeq
  <2> QED
    BY <1>1, <2>1
<1>3. CASE as_slices(d)
  <2>1. Stays("as_slices", <<d>>, <<c, <<>>>>)
    <3>1. Contents(dq[d]) = c
      BY <1>1
    <3> HIDE DEF c
    <3> QED
      BY <1>3, <3>1 DEF as_slices
  <2>2. Abstract!Stays(<<c, <<>>>>) /\ ret'.op = "as_slices" /\ ret'.arg = <<d>>
    BY <2>1, StaysView
  <2>3. Abstract!Next
    BY <2>2 DEF Abstract!Next, Elems
  <2> QED
    BY <2>1, <2>3, StaysFine
<1>4. CASE front(d)
  <2> DEFINE v == get(q, 0)
  <2>1. Stays("front", <<d>>, v)
    BY <1>4 DEF front
  <2>2. v = IF c = <<>> THEN None ELSE Head(c)
    <3>1. q.len > 0 => 0 \in 0 .. q.len - 1 /\ Head(c) = c[0 + 1]
      BY <1>1
    <3> HIDE DEF q, c
    <3> QED
      BY <1>1, <1>2, <3>1 DEF get
  <2>3. Abstract!Stays(v) /\ ret'.op = "front" /\ ret'.arg = <<d>>
    BY <2>1, StaysView
  <2>4. Abstract!front(d)
    BY <2>2, <2>3 DEF Abstract!front, Elems
  <2>5. Abstract!Next
    BY <2>3, <2>4 DEF Abstract!Next
  <2> QED
    BY <2>1, <2>5, StaysFine
<1>5. CASE back(d)
  <2> DEFINE i == last_idx(q)
             v == get(q, i)
  <2>1. Stays("back", <<d>>, v)
    BY <1>5 DEF back
  <2>2. v = IF c = <<>> THEN None ELSE Last(c)
    <3>1. /\ i \in Nat
          /\ q.len > 0 => i = q.len - 1 /\ i \in 0 .. q.len - 1 /\ i + 1 = Len(c)
          /\ q.len = 0 => ~(i < q.len)
      BY <1>1, LastIndex
    <3> HIDE DEF q, c, i
    <3> QED
      BY <1>1, <1>2, <3>1 DEF get, Last
  <2>3. Abstract!Stays(v) /\ ret'.op = "back" /\ ret'.arg = <<d>>
    BY <2>1, StaysView
  <2>4. Abstract!back(d)
    BY <2>2, <2>3 DEF Abstract!back, Abstract!Last, Last, Elems
  <2>5. Abstract!Next
    BY <2>3, <2>4 DEF Abstract!Next
  <2> QED
    BY <2>1, <2>5, StaysFine
<1> QED
  BY <1>3, <1>4, <1>5

\* Extend, BufMut and the observers.
LEMMA ExtendsRefines ==
  ASSUME Inv, AllSmall, NEW d \in DEQS, NEW oom, Extends(d, oom)
  PROVE  Inv' /\ AllSmall' /\ Abstract!Next
<1>1. 0 .. MaxItems \subseteq Nat
  BY BoundAssumption
<1> QED
  BY <1>1, ExtendTrustedRefines, ExtendCopyRefines, PutRefines, ObserversRefine DEF Extends

-----------------------------------------------------------------------------
(* The refinement.                                                         *)

\* The calls of the module DequeConversions.
ConversionNext ==
  \/ SoundNext
  \/ \E d \in DEQS, oom \in BOOLEAN : Makes(d, oom) \/ Refills(d, oom) \/ Extends(d, oom)

\* Every step keeps the deques well formed and small, and is the step of
\* Deque that ret' names.
LEMMA ConversionStep ==
  ASSUME Inv, AllSmall, [ConversionNext]_vars
  PROVE  Inv' /\ AllSmall' /\ [Abstract!Next]_(Abstract!vars)
<1>1. CASE [SoundNext]_vars
  <2>1. [Next]_vars
    BY <1>1, SoundIsNext
  <2>2. Inv'
    BY <2>1, NextInv
  <2>3. AllSmall'
    <3>1. UNCHANGED vars => UNCHANGED dq
      BY DEF vars
    <3> QED
      BY <2>1, <3>1, SmallNext, SmallStays
  <2> QED
    BY <1>1, <2>2, <2>3, StepRefines
<1>2. ASSUME NEW d \in DEQS, NEW oom \in BOOLEAN, Makes(d, oom) \/ Refills(d, oom) \/ Extends(d, oom)
      PROVE  Inv' /\ AllSmall' /\ Abstract!Next
  BY <1>2, MakesRefines, RefillsRefines, ExtendsRefines
<1> QED
  BY <1>1, <1>2 DEF ConversionNext

\* The deques are empty at the start.
LEMMA InitSmall == Init => AllSmall
  BY BoundAssumption DEF Init, AllSmall, Small, DequeFields, new, OnBuffer, NewBuffer

\* The trait implementations too do to the elements, and return, what Deque
\* says: sdeq!, From, clone_from, FromIterator and Extend, also when clone()
\* or next() panics, BufMut's put, which makes progress and never moves a
\* deque that has room, and front, back and back_mut, for which 0 - 1 is an
\* index out of every slice.
THEOREM ConversionsCorrect == ConversionSpec => ImplementsDeque
<1>1. Init => Abstract!Init /\ Inv /\ AllSmall
  BY InitRefines, InitInv, InitSmall
<1>2. Inv /\ AllSmall /\ [ConversionNext]_vars
        => Inv' /\ AllSmall' /\ [Abstract!Next]_(Abstract!vars)
  BY ConversionStep
<1> QED
  BY <1>1, <1>2, PTL DEF ConversionSpec, ConversionNext, ImplementsDeque, Abstract!Spec
=============================================================================
