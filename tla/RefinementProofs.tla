-------------------------- MODULE RefinementProofs --------------------------
(***************************************************************************)
(* Proof that every call of SliceDeque that the findings are not about     *)
(* does what the module Deque promises: to the elements, to the capacity   *)
(* and in what it returns, for every page size and T, every number of      *)
(* deques and every sequence of calls and allocation failures.             *)
(***************************************************************************)
EXTENDS ContentsProofs

-----------------------------------------------------------------------------
(* The abstract state, and how a call changes it.                          *)

Elems == [d \in DEQS |-> Contents(dq[d])]

Caps == [d \in DEQS |-> capacity(dq[d])]

\* What the abstract state says of one deque.
LEMMA View ==
  ASSUME Inv, NEW d \in DEQS
  PROVE  /\ WF(dq[d]) /\ Elems[d] = Contents(dq[d]) /\ Caps[d] = capacity(dq[d])
         /\ Elems[d] \in Seq(Slot) /\ Len(Elems[d]) = dq[d].len
         /\ dq[d].len \in Nat /\ capacity(dq[d]) \in Nat /\ dq[d].len <= capacity(dq[d])
         /\ (Elems[d] = <<>>) <=> (dq[d].len = 0)
<1>1. WF(dq[d]) /\ Elems[d] = Contents(dq[d]) /\ Caps[d] = capacity(dq[d])
  BY DEF Inv, Elems, Caps
<1>2. Elems[d] \in Seq(Slot) /\ Len(Elems[d]) = dq[d].len
  BY <1>1, ContentsSeq
<1>3. dq[d].len \in Nat /\ capacity(dq[d]) \in Nat /\ dq[d].len <= capacity(dq[d])
  BY <1>1, Basics
<1> QED
  BY <1>1, <1>2, <1>3

\* A call that fails, or that finds nothing to do, changes nothing.
LEMMA StaysView ==
  ASSUME NEW op, NEW arg, NEW v, Stays(op, arg, v)
  PROVE  Abstract!Stays(v) /\ ret'.op = op /\ ret'.arg = arg
<1>1. Elems' = Elems /\ Caps' = Caps
  BY DEF Stays, Elems, Caps
<1>2. ret' = [op |-> op, arg |-> arg, val |-> v]
  BY DEF Stays, Returns
<1> QED
  BY <1>1, <1>2 DEF Abstract!Stays, Abstract!Returns, Elems, Caps

\* A call that replaces one deque.
LEMMA BecomesView ==
  ASSUME Inv, NEW d \in DEQS, NEW q, WF(q), Becomes(d, q)
  PROVE  /\ Abstract!Holds(d, Contents(q))
         /\ Abstract!OnlyCapacityOf(d) /\ Caps'[d] = capacity(q)
         /\ capacity(q) = capacity(dq[d]) => Abstract!KeepsCapacity
<1>1. WF(Settle(q)) /\ Contents(Settle(q)) = Contents(q) /\ capacity(Settle(q)) = capacity(q)
  BY SettleContents
<1>2. DOMAIN dq = DEQS /\ dq' = [dq EXCEPT ![d] = Settle(q)]
  BY DEF Inv, Becomes
<1>3. dq'[d] = Settle(q) /\ \A o \in DEQS \ {d} : dq'[o] = dq[o]
  BY <1>2
<1>4. Elems' = [Elems EXCEPT ![d] = Contents(q)]
  BY <1>1, <1>3 DEF Elems
<1>5. Caps' = [Caps EXCEPT ![d] = capacity(q)]
  BY <1>1, <1>3 DEF Caps
<1>6. Abstract!Holds(d, Contents(q))
  BY <1>4 DEF Abstract!Holds, Elems
<1>7. Abstract!OnlyCapacityOf(d)
  BY <1>5 DEF Abstract!OnlyCapacityOf, Caps
<1>8. capacity(q) = capacity(dq[d]) => Abstract!KeepsCapacity
  BY <1>5 DEF Abstract!KeepsCapacity, Caps
<1>9. Caps'[d] = capacity(q)
  BY <1>5 DEF Caps
<1> QED
  BY <1>6, <1>7, <1>8, <1>9

\* Room is spare capacity.
LEMMA RoomView ==
  ASSUME Inv, NEW d \in DEQS, NEW n \in Int
  PROVE  Abstract!HasRoom(d, n) <=> dq[d].len + n <= capacity(dq[d])
  BY View DEF Abstract!HasRoom, Elems, Caps

\* Memory can only run out when there is not enough room.
LEMMA OomView ==
  ASSUME Inv, NEW d \in DEQS, NEW n \in Int, NEW op, NEW arg, Stays(op, arg, "oom"),
         ~(dq[d].len + n <= capacity(dq[d]))
  PROVE  Abstract!OutOfMemory(d, n) /\ ret'.op = op /\ ret'.arg = arg
  BY StaysView, RoomView DEF Abstract!OutOfMemory

\* q has the room for n more elements that amortized growth gives a deque d.
HasGrown(d, n, q) ==
  LET c == capacity(dq[d])
  IN  IF dq[d].len + n <= c THEN capacity(q) = c
      ELSE capacity(q) >= dq[d].len + n /\ capacity(q) >= 2 * c

\* A call that makes room for n more elements.
LEMMA MakesRoomView ==
  ASSUME Inv, NEW d \in DEQS, NEW n \in Int, NEW q, WF(q), Becomes(d, q), HasGrown(d, n, q)
  PROVE  Abstract!MakesRoom(d, n) /\ Abstract!Holds(d, Contents(q))
<1>1. /\ Abstract!Holds(d, Contents(q))
      /\ Abstract!OnlyCapacityOf(d) /\ Caps'[d] = capacity(q)
      /\ capacity(q) = capacity(dq[d]) => Abstract!KeepsCapacity
  BY BecomesView
<1>2. Abstract!HasRoom(d, n) <=> dq[d].len + n <= capacity(dq[d])
  BY RoomView
<1>3. Len(Elems[d]) = dq[d].len /\ Caps[d] = capacity(dq[d])
  BY View
<1>4. CASE dq[d].len + n <= capacity(dq[d])
  BY <1>1, <1>2, <1>4 DEF Abstract!MakesRoom, HasGrown
<1>5. CASE ~(dq[d].len + n <= capacity(dq[d]))
  <2>1. Caps'[d] >= Len(Elems[d]) + n /\ Caps'[d] >= 2 * Caps[d]
    BY <1>1, <1>3, <1>5 DEF HasGrown
  <2> QED
    BY <1>1, <1>2, <1>5, <2>1 DEF Abstract!MakesRoom, Elems, Caps
<1> QED
  BY <1>1, <1>4, <1>5

\* try_reserve only fails when it needs memory, and grows amortized.
LEMMA TryReserveView ==
  ASSUME Inv, NEW d \in DEQS, NEW n \in Nat, NEW oom
  PROVE  LET r == try_reserve(dq[d], n, oom)
         IN  /\ ~r.ok => ~(dq[d].len + n <= capacity(dq[d]))
             /\ r.ok => /\ WF(r.q) /\ r.q.len = dq[d].len /\ Contents(r.q) = Contents(dq[d])
                        /\ capacity(r.q) >= dq[d].len + n
                        /\ HasGrown(d, n, r.q)
<1> DEFINE q == dq[d]
           r == try_reserve(q, n, oom)
<1>1. WF(q) /\ q.len \in Nat /\ capacity(q) \in Nat
  BY View
<1>2. ASSUME q.len + n <= capacity(q) PROVE r.ok
  <2>1. grow_policy(q, n) <= capacity(q)
    BY <1>1, <1>2 DEF grow_policy
  <2> QED
    BY <2>1 DEF try_reserve, reserve_capacity, Ok
<1>3. ASSUME r.ok
      PROVE  /\ WF(r.q) /\ r.q.len = q.len /\ Contents(r.q) = Contents(q)
             /\ capacity(r.q) >= q.len + n
             /\ HasGrown(d, n, r.q)
  BY <1>1, <1>3, TryReserveContents DEF HasGrown
<1> QED
  BY <1>2, <1>3

\* So does the room that a push makes.
LEMMA RoomForOneView ==
  ASSUME Inv, NEW d \in DEQS, NEW oom
  PROVE  LET r == RoomForOne(dq[d], oom)
         IN  /\ ~r.ok => ~(dq[d].len + 1 <= capacity(dq[d]))
             /\ r.ok => /\ WF(r.q) /\ r.q.len = dq[d].len /\ Contents(r.q) = Contents(dq[d])
                        /\ capacity(r.q) >= dq[d].len + 1
                        /\ HasGrown(d, 1, r.q)
<1> DEFINE q == dq[d]
<1>1. WF(q) /\ q.len \in Nat /\ capacity(q) \in Nat /\ q.len <= capacity(q)
  BY View
<1>2. CASE is_full(q)
  <2>1. RoomForOne(q, oom) = try_reserve(q, 1, oom)
    BY <1>2 DEF RoomForOne
  <2> QED
    BY <2>1, TryReserveView, 1 \in Nat
<1>3. CASE ~is_full(q)
  <2>1. RoomForOne(q, oom) = Ok(q)
    BY <1>3 DEF RoomForOne
  <2>2. Ok(q).ok /\ Ok(q).q = q
    BY DEF Ok
  <2>3. q.len + 1 <= capacity(q)
    BY <1>1, <1>3 DEF is_full
  <2> QED
    BY <1>1, <2>1, <2>2, <2>3 DEF HasGrown
<1> QED
  BY <1>2, <1>3

-----------------------------------------------------------------------------
(* The calls.                                                              *)

\* with_capacity, reserve and reserve_exact.
LEMMA CapacityRefines ==
  ASSUME Inv, NEW d \in DEQS, NEW n \in Nat, NEW oom,
         assign(d, n, oom) \/ reserve(d, n, oom) \/ reserve_exact(d, n, oom)
  PROVE  Abstract!Next
<1> DEFINE q == dq[d]
<1>1. WF(q) /\ q.len \in Nat /\ capacity(q) \in Nat /\ Contents(q) = Elems[d]
  BY View
<1>2. CASE assign(d, n, oom)
  <2>1. CASE ~Allocates(2 * n, oom) /\ Stays("with_capacity", <<d, n>>, "oom")
    <3>1. n > 0
      BY <2>1 DEF Allocates
    <3>2. Abstract!Stays("oom") /\ ret'.op = "with_capacity" /\ ret'.arg = <<d, n>>
      BY <2>1, StaysView
    <3>3. Abstract!with_capacity(d, n)
      BY <3>1, <3>2 DEF Abstract!with_capacity
    <3> QED
      BY <3>2, <3>3 DEF Abstract!Next
  <2>2. CASE Becomes(d, with_capacity(n)) /\ Returns("with_capacity", <<d, n>>, "ok")
    <3> DEFINE w == with_capacity(n)
    <3>1. WF(w) /\ w.len = 0 /\ capacity(w) >= n
      BY WithCapacityWF
    <3> HIDE DEF w
    <3>2. /\ Abstract!Holds(d, Contents(w)) /\ Abstract!OnlyCapacityOf(d)
          /\ Caps'[d] = capacity(w)
      BY <2>2, <3>1, BecomesView DEF w
    <3>3. Contents(w) = <<>>
      BY <3>1, ContentsSeq
    <3>4. ret'.op = "with_capacity" /\ ret'.arg = <<d, n>> /\ ret'.val = "ok"
      BY <2>2 DEF Returns
    <3>5. Abstract!with_capacity(d, n)
      BY <3>1, <3>2, <3>3, <3>4 DEF Abstract!with_capacity, Abstract!Returns, Caps
    <3> QED
      BY <3>4, <3>5 DEF Abstract!Next
  <2> QED
    BY <1>2, <2>1, <2>2 DEF assign
<1>3. CASE reserve(d, n, oom)
  <2> DEFINE r == try_reserve(q, n, oom)
  <2>1. /\ ~r.ok => ~(dq[d].len + n <= capacity(dq[d]))
        /\ r.ok => WF(r.q) /\ Contents(r.q) = Contents(q) /\ HasGrown(d, n, r.q)
    BY TryReserveView
  <2>2. CASE ~r.ok /\ Stays("reserve", <<d, n>>, "oom")
    <3>1. Abstract!OutOfMemory(d, n) /\ ret'.op = "reserve" /\ ret'.arg = <<d, n>>
      BY <2>1, <2>2, OomView
    <3> QED
      BY <3>1 DEF Abstract!Next, Abstract!reserve
  <2>3. CASE r.ok /\ Becomes(d, r.q) /\ Returns("reserve", <<d, n>>, "ok")
    <3> HIDE DEF r
    <3>1. Abstract!MakesRoom(d, n) /\ Abstract!Holds(d, Contents(r.q))
      BY <2>1, <2>3, MakesRoomView
    <3>2. ret'.op = "reserve" /\ ret'.arg = <<d, n>> /\ ret'.val = "ok"
      BY <2>3 DEF Returns
    <3>3. Abstract!reserve(d, n)
      BY <1>1, <2>1, <2>3, <3>1, <3>2
      DEF Abstract!reserve, Abstract!Grows, Abstract!Returns, Elems
    <3> QED
      BY <3>2, <3>3 DEF Abstract!Next
  <2> QED
    BY <1>3, <2>2, <2>3 DEF reserve
<1>4. CASE reserve_exact(d, n, oom)
  <2> DEFINE m == q.len + n
             r == reserve_capacity(q, m, oom)
  <2>1. m \in Nat
    BY <1>1
  <2>2. CASE ~r.ok /\ Stays("reserve_exact", <<d, n>>, "oom")
    <3>1. ~(q.len + n <= capacity(q))
      BY <2>2 DEF reserve_capacity, Ok
    <3>2. Abstract!OutOfMemory(d, n) /\ ret'.op = "reserve_exact" /\ ret'.arg = <<d, n>>
      BY <2>2, <3>1, OomView
    <3> QED
      BY <3>2 DEF Abstract!Next, Abstract!reserve_exact
  <2>3. CASE r.ok /\ Becomes(d, r.q) /\ Returns("reserve_exact", <<d, n>>, "ok")
    <3> HIDE DEF m
    <3>1. /\ WF(r.q) /\ Contents(r.q) = Contents(q) /\ (m <= capacity(q) => r.q = q)
          /\ capacity(r.q) >= m
      BY <1>1, <2>1, <2>3, ReserveContents
    <3> HIDE DEF r
    <3>2. /\ Abstract!Holds(d, Contents(r.q))
          /\ Abstract!OnlyCapacityOf(d) /\ Caps'[d] = capacity(r.q)
          /\ capacity(r.q) = capacity(q) => Abstract!KeepsCapacity
      BY <2>3, <3>1, BecomesView
    <3>3. Elems' = Elems
      BY <1>1, <3>1, <3>2 DEF Abstract!Holds, Elems
    <3>4. ret'.op = "reserve_exact" /\ ret'.arg = <<d, n>> /\ ret'.val = "ok"
      BY <2>3 DEF Returns
    <3>5. Abstract!HasRoom(d, n) <=> m <= capacity(q)
      BY RoomView DEF m
    <3>6. Abstract!reserve_exact(d, n)
      <4>1. CASE m <= capacity(q)
        BY <3>1, <3>2, <3>3, <3>4, <3>5, <4>1
        DEF Abstract!reserve_exact, Abstract!Stays, Abstract!Returns, Abstract!KeepsCapacity,
            Elems
      <4>2. CASE ~(m <= capacity(q))
        <5>1. Caps'[d] >= Len(Elems[d]) + n
          BY <3>1, <3>2, View DEF m
        <5> QED
          BY <3>2, <3>3, <3>4, <3>5, <4>2, <5>1
          DEF Abstract!reserve_exact, Abstract!Returns, Elems, Caps
      <4> QED
        BY <4>1, <4>2
    <3> QED
      BY <3>4, <3>6 DEF Abstract!Next
  <2> QED
    BY <1>4, <2>2, <2>3 DEF reserve_exact
<1> QED
  BY <1>2, <1>3, <1>4

\* A call that ends with more elements.
LEMMA GrowsView ==
  ASSUME Inv, NEW d \in DEQS, NEW n \in Int, NEW q, WF(q), HasGrown(d, n, q), Becomes(d, q),
         NEW op, NEW arg, Returns(op, arg, "ok")
  PROVE  Abstract!Grows(d, n, Contents(q)) /\ ret'.op = op /\ ret'.arg = arg
<1>1. Abstract!MakesRoom(d, n) /\ Abstract!Holds(d, Contents(q))
  BY MakesRoomView
<1>2. ret'.op = op /\ ret'.arg = arg /\ ret'.val = "ok"
  BY DEF Returns
<1> QED
  BY <1>1, <1>2 DEF Abstract!Grows, Abstract!Returns

\* A call that ends with fewer elements, in the same buffer.
LEMMA ShrinksView ==
  ASSUME Inv, NEW d \in DEQS, NEW q, WF(q), capacity(q) = capacity(dq[d]), Becomes(d, q),
         NEW op, NEW arg, NEW v, Returns(op, arg, v)
  PROVE  Abstract!Shrinks(d, Contents(q), v) /\ ret'.op = op /\ ret'.arg = arg
<1>1. Abstract!KeepsCapacity /\ Abstract!Holds(d, Contents(q))
  BY BecomesView
<1>2. ret'.op = op /\ ret'.arg = arg /\ ret'.val = v
  BY DEF Returns
<1> QED
  BY <1>1, <1>2 DEF Abstract!Shrinks, Abstract!Returns

\* Pushing is concatenating one element.
LEMMA AppendIsConcat ==
  ASSUME NEW c \in Seq(Slot), NEW e \in Elem
  PROVE  c \o <<e>> = Append(c, e)
<1> DEFINE s == <<e>>
           t == c \o s
           u == Append(c, e)
<1>1. s \in Seq(Slot) /\ Len(s) = 1 /\ s[1] = e
  BY DEF Slot
<1> HIDE DEF s
<1>2. /\ t \in Seq(Slot) /\ Len(t) = Len(c) + Len(s)
      /\ \A i \in 1 .. Len(c) + Len(s) : t[i] = IF i <= Len(c) THEN c[i] ELSE s[i - Len(c)]
  BY <1>1, ConcatAt
<1> HIDE DEF t
<1>3. e \in Slot
  BY DEF Slot
<1>4. /\ u \in Seq(Slot) /\ Len(u) = Len(c) + 1
      /\ \A i \in 1 .. Len(c) + 1 : u[i] = IF i <= Len(c) THEN c[i] ELSE e
  BY <1>3
<1> HIDE DEF u
<1>5. \A i \in 1 .. Len(c) + 1 : t[i] = u[i]
  BY <1>1, <1>2, <1>4
<1>6. t = u
  BY <1>1, <1>2, <1>4, <1>5
<1> QED
  BY <1>6 DEF s, t, u

\* push_front and push_back.
LEMMA PushRefines ==
  ASSUME Inv, NEW d \in DEQS, NEW e \in Elem, NEW oom,
         push_front(d, e, oom) \/ push_back(d, e, oom)
  PROVE  Abstract!Next
<1> DEFINE q == dq[d]
           r == RoomForOne(q, oom)
<1>1. WF(q) /\ Contents(q) = Elems[d] /\ Elems[d] \in Seq(Slot)
  BY View
<1>2. /\ ~r.ok => ~(dq[d].len + 1 <= capacity(dq[d]))
      /\ r.ok => /\ WF(r.q) /\ Contents(r.q) = Contents(q) /\ r.q.len = q.len
                 /\ capacity(r.q) >= q.len + 1 /\ HasGrown(d, 1, r.q)
  BY RoomForOneView
<1>3. CASE push_front(d, e, oom)
  <2>1. CASE ~r.ok /\ Stays("push_front", <<d, e>>, "oom")
    <3>1. Abstract!OutOfMemory(d, 1) /\ ret'.op = "push_front" /\ ret'.arg = <<d, e>>
      BY <1>2, <2>1, OomView
    <3> QED
      BY <3>1 DEF Abstract!Next, Abstract!push_front
  <2>2. CASE /\ r.ok /\ Becomes(d, Write(move_head_unchecked(r.q, -1), 0, <<e>>))
             /\ Returns("push_front", <<d, e>>, "ok")
    <3> HIDE DEF r
    <3> DEFINE w == Write(move_head_unchecked(r.q, -1), 0, <<e>>)
    <3>1. WF(w) /\ capacity(w) = capacity(r.q) /\ Contents(w) = <<e>> \o Contents(r.q)
      BY <1>2, <2>2, PrependContents
    <3> HIDE DEF w
    <3>2. HasGrown(d, 1, w)
      BY <1>2, <2>2, <3>1 DEF HasGrown
    <3>3. /\ Abstract!Grows(d, 1, Contents(w))
          /\ ret'.op = "push_front" /\ ret'.arg = <<d, e>>
      BY <2>2, <3>1, <3>2, GrowsView DEF w
    <3>4. Abstract!Grows(d, 1, <<e>> \o Elems[d])
      BY <1>1, <1>2, <2>2, <3>1, <3>3
    <3> QED
      BY <3>3, <3>4 DEF Abstract!Next, Abstract!push_front, Elems
  <2> QED
    BY <1>3, <2>1, <2>2 DEF push_front
<1>4. CASE push_back(d, e, oom)
  <2>1. CASE ~r.ok /\ Stays("push_back", <<d, e>>, "oom")
    <3>1. Abstract!OutOfMemory(d, 1) /\ ret'.op = "push_back" /\ ret'.arg = <<d, e>>
      BY <1>2, <2>1, OomView
    <3> QED
      BY <3>1 DEF Abstract!Next, Abstract!push_back
  <2>2. CASE /\ r.ok /\ Becomes(d, Write(move_tail_unchecked(r.q, 1), r.q.len, <<e>>))
             /\ Returns("push_back", <<d, e>>, "ok")
    <3> HIDE DEF r
    <3> DEFINE s == <<e>>
               w == PushAll(r.q, s)
    <3>1. s \in Seq(Elem) /\ Len(s) = 1
      OBVIOUS
    <3>2. w = Write(move_tail_unchecked(r.q, 1), r.q.len, <<e>>)
      BY <3>1 DEF PushAll
    <3> HIDE DEF s
    <3>3. WF(w) /\ capacity(w) = capacity(r.q) /\ Contents(w) = Contents(r.q) \o s
      BY <1>2, <2>2, <3>1, PushAllContents, PushAllWF
    <3> HIDE DEF w
    <3>4. HasGrown(d, 1, w)
      BY <1>2, <2>2, <3>3 DEF HasGrown
    <3>5. /\ Abstract!Grows(d, 1, Contents(w))
          /\ ret'.op = "push_back" /\ ret'.arg = <<d, e>>
      BY <2>2, <3>2, <3>3, <3>4, GrowsView
    <3>6. Contents(w) = Append(Elems[d], e)
      <4>1. Elems[d] \o <<e>> = Append(Elems[d], e)
        BY <1>1, AppendIsConcat
      <4> QED
        BY <1>1, <1>2, <2>2, <3>3, <4>1 DEF s
    <3>7. Abstract!Grows(d, 1, Append(Elems[d], e))
      BY <3>5, <3>6
    <3> QED
      BY <3>5, <3>7 DEF Abstract!Next, Abstract!push_back, Elems
  <2> QED
    BY <1>4, <2>1, <2>2 DEF push_back
<1> QED
  BY <1>3, <1>4

\* pop_front and pop_back.
LEMMA PopRefines ==
  ASSUME Inv, NEW d \in DEQS, pop_front(d) \/ pop_back(d)
  PROVE  Abstract!Next
<1> DEFINE q == dq[d]
           c == Contents(q)
<1>1. /\ WF(q) /\ c = Elems[d] /\ (Elems[d] = <<>> <=> q.len = 0)
      /\ q.len \in Nat /\ c \in Seq(Slot) /\ Len(c) = q.len
  BY View
<1>2. CASE pop_front(d)
  <2>1. CASE q.len = 0 /\ Stays("pop_front", <<d>>, None)
    <3>1. Abstract!Stays(None) /\ ret'.op = "pop_front" /\ ret'.arg = <<d>>
      BY <2>1, StaysView
    <3> QED
      BY <1>1, <2>1, <3>1 DEF Abstract!Next, Abstract!pop_front, Elems
  <2>2. CASE /\ q.len > 0 /\ Becomes(d, move_head_unchecked(q, 1))
             /\ Returns("pop_front", <<d>>, Read(q, 0))
    <3> DEFINE x == 1
               p == move_head_unchecked(q, x)
    <3>0. x \in 0 .. q.len
      BY <1>1, <2>2
    <3> HIDE DEF x
    <3>1. WF(p) /\ capacity(p) = capacity(q) /\ Contents(p) = SubSeq(c, x + 1, q.len)
      BY <1>1, <2>2, <3>0, HeadCut
    <3>2. Read(q, 0) = c[0 + 1]
      BY <1>1, <2>2, ContentsSeq
    <3> HIDE DEF p
    <3>3. /\ Abstract!Shrinks(d, Contents(p), Read(q, 0))
          /\ ret'.op = "pop_front" /\ ret'.arg = <<d>>
      BY <2>2, <3>1, ShrinksView DEF p, x
    <3> HIDE DEF c
    <3>4. Contents(p) = Tail(c) /\ Read(q, 0) = Head(c)
      BY <1>1, <2>2, <3>1, <3>2 DEF x
    <3>5. Abstract!Shrinks(d, Tail(Elems[d]), Head(Elems[d]))
      BY <1>1, <3>3, <3>4
    <3> QED
      BY <1>1, <2>2, <3>3, <3>5 DEF Abstract!Next, Abstract!pop_front, Elems
  <2> QED
    BY <1>2, <2>1, <2>2 DEF pop_front
<1>3. CASE pop_back(d)
  <2>1. CASE q.len = 0 /\ Stays("pop_back", <<d>>, None)
    <3>1. Abstract!Stays(None) /\ ret'.op = "pop_back" /\ ret'.arg = <<d>>
      BY <2>1, StaysView
    <3> QED
      BY <1>1, <2>1, <3>1 DEF Abstract!Next, Abstract!pop_back, Elems
  <2>2. CASE /\ q.len > 0 /\ Becomes(d, move_tail_unchecked(q, -1))
             /\ Returns("pop_back", <<d>>, Read(q, q.len - 1))
    <3> DEFINE p == move_tail_unchecked(q, -1)
               n == q.len - 1
    <3>1. n \in 0 .. q.len /\ -(q.len - n) = -1
      BY <1>1, <2>2
    <3>2. p = move_tail_unchecked(q, -(q.len - n))
      BY <3>1 DEF move_tail_unchecked
    <3> HIDE DEF n, p
    <3>3. WF(p) /\ capacity(p) = capacity(q) /\ Contents(p) = SubSeq(c, 1, n)
      BY <1>1, <3>1, <3>2, TailCut
    <3>4. Read(q, n) = c[n + 1]
      BY <1>1, <2>2, ContentsSeq DEF n
    <3>5. /\ Abstract!Shrinks(d, Contents(p), Read(q, q.len - 1))
          /\ ret'.op = "pop_back" /\ ret'.arg = <<d>>
      BY <2>2, <3>3, ShrinksView DEF p
    <3> HIDE DEF c
    <3>6. Contents(p) = Front(c) /\ Read(q, q.len - 1) = Last(c)
      BY <1>1, <2>2, <3>3, <3>4 DEF Front, Last, n
    <3>7. Abstract!Shrinks(d, Front(Elems[d]), Last(Elems[d]))
      BY <1>1, <3>5, <3>6
    <3> QED
      BY <1>1, <2>2, <3>5, <3>7 DEF Abstract!Next, Abstract!pop_back, Elems, Front, Last,
         Abstract!Front, Abstract!Last
  <2> QED
    BY <1>3, <2>1, <2>2 DEF pop_back
<1> QED
  BY <1>2, <1>3

\* truncate_back, truncate and clear, and truncate_front.
LEMMA TruncateRefines ==
  ASSUME Inv, NEW d \in DEQS, NEW n \in Nat, truncate_back(d, n) \/ truncate_front(d, n)
  PROVE  Abstract!Next
<1> DEFINE q == dq[d]
           c == Contents(q)
           x == q.len - n
<1>1. /\ WF(q) /\ c = Elems[d] /\ q.len \in Nat /\ c \in Seq(Slot) /\ Len(c) = q.len
  BY View
<1>2. CASE truncate_back(d, n)
  <2>1. CASE n >= q.len /\ Stays("truncate_back", <<d, n>>, "ok")
    <3>1. Abstract!Stays("ok") /\ ret'.op = "truncate_back" /\ ret'.arg = <<d, n>>
      BY <2>1, StaysView
    <3> QED
      BY <1>1, <2>1, <3>1 DEF Abstract!Next, Abstract!truncate_back, Elems
  <2>2. CASE /\ n < q.len
             /\ Becomes(d, drop_in_place(move_tail_unchecked(q, -x), q, n, x))
             /\ \E v \in DropEnds : Returns("truncate_back", <<d, n>>, v)
    <3> DEFINE p == drop_in_place(move_tail_unchecked(q, -x), q, n, x)
    <3>1. n \in 0 .. q.len
      BY <1>1, <2>2
    <3>2. WF(p) /\ capacity(p) = capacity(q) /\ Contents(p) = SubSeq(c, 1, n)
      BY <1>1, <3>1, TruncateBackContents
    <3> HIDE DEF p
    <3> HIDE DEF x
    <3>5. PICK v \in DropEnds : Returns("truncate_back", <<d, n>>, v)
      BY <2>2
    <3>3. /\ v \in {"ok", "panic"} /\ Abstract!Shrinks(d, Contents(p), v)
          /\ ret'.op = "truncate_back" /\ ret'.arg = <<d, n>>
      BY <2>2, <3>2, <3>5, ShrinksView DEF p, DropEnds
    <3>4. Abstract!Drops(d, SubSeq(Elems[d], 1, n)) /\ ~(n >= Len(Elems[d]))
      BY <1>1, <2>2, <3>2, <3>3 DEF Abstract!Drops
    <3> QED
      BY <3>3, <3>4 DEF Abstract!Next, Abstract!truncate_back, Elems
  <2> QED
    BY <1>2, <2>1, <2>2 DEF truncate_back
<1>3. CASE truncate_front(d, n)
  <2>1. CASE n >= q.len /\ Stays("truncate_front", <<d, n>>, "ok")
    <3>1. Abstract!Stays("ok") /\ ret'.op = "truncate_front" /\ ret'.arg = <<d, n>>
      BY <2>1, StaysView
    <3> QED
      BY <1>1, <2>1, <3>1 DEF Abstract!Next, Abstract!truncate_front, Elems
  <2>2. CASE /\ n < q.len
             /\ Becomes(d, drop_in_place(move_head_unchecked(q, x), q, 0, x))
             /\ \E v \in DropEnds : Returns("truncate_front", <<d, n>>, v)
    <3> DEFINE p == drop_in_place(move_head_unchecked(q, x), q, 0, x)
    <3>1. x \in 0 .. q.len /\ q.len > 0
      BY <1>1, <2>2
    <3> HIDE DEF x
    <3>2. WF(p) /\ capacity(p) = capacity(q) /\ Contents(p) = SubSeq(c, x + 1, q.len)
      BY <1>1, <3>1, TruncateFrontContents
    <3> HIDE DEF p
    <3>6. PICK v \in DropEnds : Returns("truncate_front", <<d, n>>, v)
      BY <2>2
    <3>3. /\ v \in {"ok", "panic"} /\ Abstract!Shrinks(d, Contents(p), v)
          /\ ret'.op = "truncate_front" /\ ret'.arg = <<d, n>>
      BY <2>2, <3>2, <3>6, ShrinksView DEF p, x, DropEnds
    <3>4. x + 1 = Len(Elems[d]) - n + 1 /\ q.len = Len(Elems[d])
      BY <1>1 DEF x
    <3>5. /\ ~(n >= Len(Elems[d]))
          /\ Abstract!Drops(d, SubSeq(Elems[d], Len(Elems[d]) - n + 1, Len(Elems[d])))
      BY <1>1, <2>2, <3>2, <3>3, <3>4 DEF Abstract!Drops
    <3> QED
      BY <3>3, <3>5 DEF Abstract!Next, Abstract!truncate_front, Elems
  <2> QED
    BY <1>3, <2>1, <2>2 DEF truncate_front
<1> QED
  BY <1>2, <1>3

\* swap_remove_back and swap_remove_front.
LEMMA SwapRemoveRefines ==
  ASSUME Inv, NEW d \in DEQS, NEW i \in Nat,
         swap_remove_back(d, i) \/ swap_remove_front(d, i)
  PROVE  Abstract!Next
<1> DEFINE q == dq[d]
           c == Contents(q)
<1>1. /\ WF(q) /\ c = Elems[d] /\ q.len \in Nat /\ c \in Seq(Slot) /\ Len(c) = q.len
      /\ (Elems[d] = <<>> <=> q.len = 0)
  BY View
<1>2. CASE swap_remove_back(d, i)
  <2>1. CASE q.len = 0 /\ Stays("swap_remove_back", <<d, i>>, None)
    <3>1. Abstract!Stays(None) /\ ret'.op = "swap_remove_back" /\ ret'.arg = <<d, i>>
      BY <2>1, StaysView
    <3> QED
      BY <1>1, <2>1, <3>1 DEF Abstract!Next, Abstract!swap_remove_back, Elems
  <2>2. CASE q.len > 0 /\ i >= q.len /\ Stays("swap_remove_back", <<d, i>>, "panic")
    <3>1. Abstract!Stays("panic") /\ ret'.op = "swap_remove_back" /\ ret'.arg = <<d, i>>
      BY <2>2, StaysView
    <3>2. Elems[d] # <<>> /\ i >= Len(Elems[d])
      BY <1>1, <2>2
    <3> QED
      BY <3>1, <3>2 DEF Abstract!Next, Abstract!swap_remove_back, Elems
  <2>3. CASE /\ i < q.len
             /\ Becomes(d, move_tail_unchecked(swap(q, i, q.len - 1), -1))
             /\ Returns("swap_remove_back", <<d, i>>, Read(swap(q, i, q.len - 1), q.len - 1))
    <3> DEFINE s == swap(q, i, q.len - 1)
               p == move_tail_unchecked(s, -1)
               v == Read(s, q.len - 1)
    <3>1. i \in 0 .. q.len - 1
      BY <1>1, <2>3
    <3>2. /\ WF(p) /\ capacity(p) = capacity(q) /\ v = c[i + 1]
          /\ Contents(p) = Front([c EXCEPT ![i + 1] = Last(c)])
      BY <1>1, <3>1, SwapRemoveBackContents
    <3> HIDE DEF p, v, s
    <3>3. /\ Abstract!Shrinks(d, Contents(p), v)
          /\ ret'.op = "swap_remove_back" /\ ret'.arg = <<d, i>>
      BY <2>3, <3>2, ShrinksView DEF p, v, s
    <3>4. Abstract!Shrinks(d, Front([Elems[d] EXCEPT ![i + 1] = Last(Elems[d])]), Elems[d][i + 1])
      BY <1>1, <3>2, <3>3
    <3>5. Elems[d] # <<>> /\ ~(i >= Len(Elems[d]))
      BY <1>1, <2>3
    <3> QED
      BY <3>3, <3>4, <3>5 DEF Abstract!Next, Abstract!swap_remove_back, Elems, Front, Last,
         Abstract!Front, Abstract!Last
  <2> QED
    BY <1>2, <2>1, <2>2, <2>3 DEF swap_remove_back
<1>3. CASE swap_remove_front(d, i)
  <2>1. CASE q.len = 0 /\ Stays("swap_remove_front", <<d, i>>, None)
    <3>1. Abstract!Stays(None) /\ ret'.op = "swap_remove_front" /\ ret'.arg = <<d, i>>
      BY <2>1, StaysView
    <3> QED
      BY <1>1, <2>1, <3>1 DEF Abstract!Next, Abstract!swap_remove_front, Elems
  <2>2. CASE q.len > 0 /\ i >= q.len /\ Stays("swap_remove_front", <<d, i>>, "panic")
    <3>1. Abstract!Stays("panic") /\ ret'.op = "swap_remove_front" /\ ret'.arg = <<d, i>>
      BY <2>2, StaysView
    <3>2. Elems[d] # <<>> /\ i >= Len(Elems[d])
      BY <1>1, <2>2
    <3> QED
      BY <3>1, <3>2 DEF Abstract!Next, Abstract!swap_remove_front, Elems
  <2>3. CASE /\ i < q.len
             /\ Becomes(d, move_head_unchecked(swap(q, i, 0), 1))
             /\ Returns("swap_remove_front", <<d, i>>, Read(swap(q, i, 0), 0))
    <3> DEFINE s == swap(q, i, 0)
               p == move_head_unchecked(s, 1)
               v == Read(s, 0)
    <3>1. i \in 0 .. q.len - 1
      BY <1>1, <2>3
    <3>2. /\ WF(p) /\ capacity(p) = capacity(q) /\ v = c[i + 1]
          /\ Contents(p) = Tail([c EXCEPT ![i + 1] = Head(c)])
      BY <1>1, <3>1, SwapRemoveFrontContents
    <3> HIDE DEF p, v, s
    <3>3. /\ Abstract!Shrinks(d, Contents(p), v)
          /\ ret'.op = "swap_remove_front" /\ ret'.arg = <<d, i>>
      BY <2>3, <3>2, ShrinksView DEF p, v, s
    <3>4. Abstract!Shrinks(d, Tail([Elems[d] EXCEPT ![i + 1] = Head(Elems[d])]), Elems[d][i + 1])
      BY <1>1, <3>2, <3>3
    <3>5. Elems[d] # <<>> /\ ~(i >= Len(Elems[d]))
      BY <1>1, <2>3
    <3> QED
      BY <3>3, <3>4, <3>5 DEF Abstract!Next, Abstract!swap_remove_front, Elems
  <2> QED
    BY <1>3, <2>1, <2>2, <2>3 DEF swap_remove_front
<1> QED
  BY <1>2, <1>3

\* insert, where the source shifts the elements correctly.
LEMMA InsertRefines ==
  ASSUME Inv, NEW d \in DEQS, NEW i \in Nat, NEW e \in Elem, NEW oom,
         i < 2 \/ i > dq[d].len \div 2, insert(d, i, e, oom)
  PROVE  Abstract!Next
<1> DEFINE q == dq[d]
           r == RoomForOne(q, oom)
<1>1. WF(q) /\ Contents(q) = Elems[d] /\ Len(Elems[d]) = q.len /\ q.len \in Nat
  BY View
<1>2. /\ ~r.ok => ~(dq[d].len + 1 <= capacity(dq[d]))
      /\ r.ok => /\ WF(r.q) /\ Contents(r.q) = Contents(q) /\ r.q.len = q.len
                 /\ capacity(r.q) >= q.len + 1 /\ HasGrown(d, 1, r.q)
  BY RoomForOneView
<1>3. CASE i > q.len /\ Stays("insert", <<d, i, e>>, "panic")
  <2>1. Abstract!Stays("panic") /\ ret'.op = "insert" /\ ret'.arg = <<d, i, e>>
    BY <1>3, StaysView
  <2> QED
    BY <1>1, <1>3, <2>1 DEF Abstract!Next, Abstract!insert, Elems
<1>4. CASE i <= q.len /\ ~r.ok /\ Stays("insert", <<d, i, e>>, "oom")
  <2>1. Abstract!OutOfMemory(d, 1) /\ ret'.op = "insert" /\ ret'.arg = <<d, i, e>>
    BY <1>2, <1>4, OomView
  <2>2. ~(i > Len(Elems[d]))
    BY <1>1, <1>4
  <2> QED
    BY <2>1, <2>2 DEF Abstract!Next, Abstract!insert, Elems
<1>5. CASE /\ i <= q.len /\ r.ok /\ Becomes(d, Write(MakeHole(r.q, i), i, <<e>>))
           /\ Returns("insert", <<d, i, e>>, "ok")
  <2> HIDE DEF r
  <2> DEFINE w == Write(MakeHole(r.q, i), i, <<e>>)
  <2>1. i \in 0 .. r.q.len /\ (i < 2 \/ i > r.q.len \div 2) /\ r.q.len + 1 <= capacity(r.q)
    BY <1>1, <1>2, <1>5, Basics, SMTT(30)
  <2>2. WF(w) /\ capacity(w) = capacity(r.q) /\ Contents(w) = InsertAt(Contents(r.q), i + 1, e)
    BY <1>2, <1>5, <2>1, InsertContents
  <2> HIDE DEF w
  <2>3. HasGrown(d, 1, w)
    BY <1>2, <1>5, <2>2 DEF HasGrown
  <2>4. /\ Abstract!Grows(d, 1, Contents(w))
        /\ ret'.op = "insert" /\ ret'.arg = <<d, i, e>>
    BY <1>5, <2>2, <2>3, GrowsView DEF w
  <2>5. Abstract!Grows(d, 1, InsertAt(Elems[d], i + 1, e)) /\ ~(i > Len(Elems[d]))
    BY <1>1, <1>2, <1>5, <2>2, <2>4
  <2> QED
    BY <2>4, <2>5 DEF Abstract!Next, Abstract!insert, Elems, InsertAt, Abstract!InsertAt
<1> QED
  BY <1>3, <1>4, <1>5 DEF insert

\* remove and remove_item.
LEMMA RemoveRefines ==
  ASSUME Inv, NEW d \in DEQS,
         \/ \E i \in Nat : remove(d, i)
         \/ \E equal \in SUBSET (0 .. dq[d].len - 1) : remove_item(d, equal)
  PROVE  Abstract!Next
<1> DEFINE q == dq[d]
           c == Contents(q)
<1>1. /\ WF(q) /\ c = Elems[d] /\ q.len \in Nat /\ Len(c) = q.len
  BY View
<1>2. ASSUME NEW i \in 0 .. q.len - 1, NEW op, NEW arg,
             Becomes(d, CloseHole(q, i)), Returns(op, arg, Read(q, i))
      PROVE  Abstract!remove(d, i) /\ ret'.op = op /\ ret'.arg = arg
  <2> DEFINE p == CloseHole(q, i)
  <2>1. WF(p) /\ capacity(p) = capacity(q) /\ Contents(p) = RemoveAt(c, i + 1)
    BY <1>1, CloseHoleContents
  <2>2. Read(q, i) = c[i + 1]
    BY <1>1, ContentsSeq
  <2> HIDE DEF p
  <2>3. Abstract!Shrinks(d, Contents(p), Read(q, i)) /\ ret'.op = op /\ ret'.arg = arg
    BY <1>2, <2>1, ShrinksView DEF p
  <2>4. Abstract!Shrinks(d, RemoveAt(Elems[d], i + 1), Elems[d][i + 1]) /\ ~(i >= Len(Elems[d]))
    BY <1>1, <2>1, <2>2, <2>3
  <2> QED
    BY <2>3, <2>4 DEF Abstract!remove, Elems, RemoveAt, Abstract!RemoveAt
<1>3. ASSUME NEW i \in Nat, remove(d, i) PROVE Abstract!Next
  <2>1. CASE i >= q.len /\ Stays("remove", <<d, i>>, "panic")
    <3>1. Abstract!Stays("panic") /\ ret'.op = "remove" /\ ret'.arg = <<d, i>>
      BY <2>1, StaysView
    <3> QED
      BY <1>1, <2>1, <3>1 DEF Abstract!Next, Abstract!remove, Elems
  <2>2. CASE i < q.len /\ Becomes(d, CloseHole(q, i)) /\ Returns("remove", <<d, i>>, Read(q, i))
    <3>1. i \in 0 .. q.len - 1
      BY <1>1, <2>2
    <3>2. Abstract!remove(d, i) /\ ret'.op = "remove" /\ ret'.arg = <<d, i>>
      BY <1>2, <2>2, <3>1
    <3> QED
      BY <3>2 DEF Abstract!Next
  <2> QED
    BY <1>3, <2>1, <2>2 DEF remove
<1>4. ASSUME NEW equal \in SUBSET (0 .. q.len - 1), remove_item(d, equal) PROVE Abstract!Next
  <2>1. CASE equal = {} /\ Stays("remove_item", <<d, equal>>, None)
    <3>1. Abstract!Stays(None) /\ ret'.op = "remove_item" /\ ret'.arg = <<d, equal>>
      BY <2>1, StaysView
    <3> QED
      BY <2>1, <3>1 DEF Abstract!Next, Abstract!remove_item
  <2>2. ASSUME NEW i \in equal, \A p \in equal : i <= p, Becomes(d, CloseHole(q, i)),
               Returns("remove_item", <<d, equal>>, Read(q, i))
        PROVE  Abstract!Next
    <3>1. i \in 0 .. q.len - 1
      OBVIOUS
    <3>2. Abstract!remove(d, i) /\ ret'.op = "remove_item" /\ ret'.arg = <<d, equal>>
      BY <1>2, <2>2, <3>1
    <3>3. Abstract!remove_item(d, equal)
      BY <2>2, <3>2 DEF Abstract!remove_item
    <3> QED
      BY <3>2, <3>3 DEF Abstract!Next
  <2> QED
    BY <1>4, <2>1, <2>2 DEF remove_item
<1> QED
  BY <1>3, <1>4

\* A fresh deque whose slice already spans the n slots that will be filled.
LEMMA FreshWF ==
  ASSUME NEW n \in Nat
  PROVE  LET b == move_tail_unchecked(with_capacity(n), n)
         IN  WF(b) /\ b.len = n /\ capacity(b) = capacity(with_capacity(n))
<1> DEFINE w == with_capacity(n)
<1>1. WF(w) /\ w.len = 0 /\ capacity(w) >= n
  BY WithCapacityWF
<1> HIDE DEF w
<1>2. w.len + n \in 0 .. capacity(w) /\ n \in Int /\ w.len + n = n
  BY <1>1, Basics
<1>3. /\ WF(move_tail_unchecked(w, n)) /\ move_tail_unchecked(w, n).len = n
      /\ capacity(move_tail_unchecked(w, n)) = capacity(w)
  BY <1>1, <1>2, MoveTailWF
<1> QED
  BY <1>3 DEF w

\* shrink_to_fit: the elements are copied to a buffer of their own size.
LEMMA ShrinkRefines ==
  ASSUME Inv, NEW d \in DEQS, NEW oom, shrink_to_fit(d, oom)
  PROVE  Abstract!Next
<1> DEFINE q == dq[d]
           w == with_capacity(q.len)
           b == move_tail_unchecked(w, q.len)
           p == Copy(q, 0, b, 0, q.len)
<1>1. /\ WF(q) /\ Contents(q) = Elems[d] /\ (Elems[d] = <<>> <=> q.len = 0)
      /\ q.len \in Nat /\ Len(Elems[d]) = q.len /\ Caps[d] = capacity(q)
      /\ capacity(q) \in Nat /\ q.len <= capacity(q)
  BY View
<1>2. CASE q.len > 0 /\ Stays("shrink_to_fit", <<d>>, "oom")
  <2>1. Abstract!Stays("oom") /\ ret'.op = "shrink_to_fit" /\ ret'.arg = <<d>>
    BY <1>2, StaysView
  <2>2. Elems[d] # <<>>
    BY <1>1, <1>2
  <2> QED
    BY <2>1, <2>2 DEF Abstract!Next, Abstract!shrink_to_fit, Elems
<1>3. CASE Stays("shrink_to_fit", <<d>>, "ok")
  <2>1. Abstract!Stays("ok") /\ ret'.op = "shrink_to_fit" /\ ret'.arg = <<d>>
    BY <1>3, StaysView
  <2>2. Elems' = Elems /\ Caps' = Caps
    BY <2>1 DEF Abstract!Stays, Elems, Caps
  <2>3. Abstract!OnlyCapacityOf(d)
    BY <2>2 DEF Abstract!OnlyCapacityOf, Caps
  <2>4. Caps'[d] \in Len(Elems[d]) .. Caps[d]
    BY <1>1, <2>2
  <2> QED
    BY <2>1, <2>2, <2>3, <2>4
    DEF Abstract!Next, Abstract!shrink_to_fit, Abstract!Stays, Elems, Caps
<1>4. CASE /\ capacity(w) < capacity(q) /\ Becomes(d, p)
           /\ Returns("shrink_to_fit", <<d>>, "ok")
  <2>1. capacity(w) >= q.len /\ capacity(w) \in Nat
    BY <1>1, WithCapacityWF, Basics
  <2>2. WF(b) /\ b.len = q.len /\ capacity(b) = capacity(w)
    BY <1>1, FreshWF
  <2> HIDE DEF b, w
  <2>3. 0 \in Nat /\ 0 + q.len <= q.len
    BY <1>1
  <2>4. /\ WF(p) /\ capacity(p) = capacity(b)
        /\ Contents(p) = SubSeq(Contents(q), 0 + 1, 0 + q.len)
    BY <1>1, <2>2, <2>3, FreshContents, SMTT(30)
  <2> HIDE DEF p
  <2>5. Contents(p) = Contents(q)
    BY <1>1, <2>4, SubSeqAll
  <2>6. /\ Abstract!Holds(d, Contents(p)) /\ Abstract!OnlyCapacityOf(d)
        /\ Caps'[d] = capacity(p)
    BY <1>4, <2>4, BecomesView
  <2>7. Elems' = Elems
    BY <1>1, <2>5, <2>6 DEF Abstract!Holds, Elems
  <2>8. Caps'[d] \in Len(Elems[d]) .. Caps[d]
    BY <1>1, <1>4, <2>1, <2>2, <2>4, <2>6
  <2>9. ret'.op = "shrink_to_fit" /\ ret'.arg = <<d>> /\ ret'.val = "ok"
    BY <1>4 DEF Returns
  <2> QED
    BY <2>6, <2>7, <2>8, <2>9
    DEF Abstract!Next, Abstract!shrink_to_fit, Abstract!Returns, Elems, Caps
<1> QED
  BY <1>2, <1>3, <1>4 DEF shrink_to_fit

\* One turn of extend_desugared: it reserves for all that size_hint()
\* promises, and pushes one element.
LEMMA ExtendRefines ==
  ASSUME Inv, NEW d \in DEQS, NEW e \in Elem, NEW hint \in Nat, NEW oom,
         extend_desugared(d, e, hint, oom)
  PROVE  Abstract!Next
<1> DEFINE q == dq[d]
           h == hint + 1
           s == <<e>>
           r == IF q.len = capacity(q) THEN try_reserve(q, h, oom) ELSE Ok(q)
           w == PushAll(r.q, s)
<1>1. /\ WF(q) /\ Contents(q) = Elems[d] /\ Elems[d] \in Seq(Slot)
      /\ q.len \in Nat /\ capacity(q) \in Nat /\ q.len <= capacity(q)
  BY View
<1>2. h \in Nat /\ h >= 1 /\ s \in Seq(Elem) /\ Len(s) = 1
  OBVIOUS
<1> HIDE DEF h, s
<1>3. /\ ~r.ok => ~(q.len + h <= capacity(q))
      /\ r.ok => /\ WF(r.q) /\ r.q.len = q.len /\ Contents(r.q) = Contents(q)
                 /\ r.q.len + 1 <= capacity(r.q) /\ HasGrown(d, 1, r.q)
  <2>1. CASE q.len = capacity(q)
    <3> DEFINE t == try_reserve(q, h, oom)
    <3>1. /\ ~t.ok => ~(q.len + h <= capacity(q))
          /\ t.ok => /\ WF(t.q) /\ t.q.len = q.len /\ Contents(t.q) = Contents(q)
                     /\ capacity(t.q) >= q.len + h /\ HasGrown(d, h, t.q)
      BY <1>2, TryReserveView
    <3>2. r = t
      BY <2>1
    <3> HIDE DEF t, r
    <3>3. ASSUME t.ok PROVE t.q.len + 1 <= capacity(t.q) /\ HasGrown(d, 1, t.q)
      <4>1. capacity(t.q) \in Nat
        BY <3>1, <3>3, Basics
      <4> QED
        BY <1>1, <1>2, <2>1, <3>1, <3>3, <4>1 DEF HasGrown
    <3> QED
      BY <3>1, <3>2, <3>3
  <2>2. CASE q.len # capacity(q)
    <3>1. r.ok /\ r.q = q
      BY <2>2 DEF Ok
    <3> QED
      BY <1>1, <2>2, <3>1 DEF HasGrown
  <2> QED
    BY <2>1, <2>2
<1>4. CASE ~r.ok /\ Stays("extend", <<d, e, hint>>, "oom")
  <2>1. Abstract!OutOfMemory(d, h) /\ ret'.op = "extend" /\ ret'.arg = <<d, e, hint>>
    BY <1>2, <1>3, <1>4, OomView
  <2> QED
    BY <2>1 DEF Abstract!Next, Abstract!extend, h
<1>5. CASE r.ok /\ Becomes(d, w) /\ Returns("extend", <<d, e, hint>>, "ok")
  <2> HIDE DEF r
  <2>1. WF(w) /\ capacity(w) = capacity(r.q) /\ Contents(w) = Contents(r.q) \o s
    BY <1>2, <1>3, <1>5, PushAllContents, PushAllWF
  <2> HIDE DEF w
  <2>2. HasGrown(d, 1, w)
    BY <1>3, <1>5, <2>1 DEF HasGrown
  <2>3. /\ Abstract!Grows(d, 1, Contents(w))
        /\ ret'.op = "extend" /\ ret'.arg = <<d, e, hint>>
    BY <1>5, <2>1, <2>2, GrowsView, 1 \in Int
  <2>4. Contents(w) = Append(Elems[d], e)
    <3>1. Elems[d] \o <<e>> = Append(Elems[d], e)
      BY <1>1, AppendIsConcat
    <3> QED
      BY <1>1, <1>3, <1>5, <2>1, <3>1 DEF s
  <2>5. Abstract!Grows(d, 1, Append(Elems[d], e))
    BY <2>3, <2>4
  <2> QED
    BY <2>3, <2>5 DEF Abstract!Next, Abstract!extend, Elems
<1> QED
  BY <1>4, <1>5 DEF extend_desugared, s, h

\* Nothing precedes what is pushed to an empty deque.
LEMMA EmptyConcat ==
  ASSUME NEW q, WF(q), q.len = 0, NEW s \in Seq(Elem), Len(s) <= capacity(q)
  PROVE  /\ WF(PushAll(q, s)) /\ PushAll(q, s).len = Len(s)
         /\ capacity(PushAll(q, s)) = capacity(q) /\ Contents(PushAll(q, s)) = s
<1>1. q.len + Len(s) <= capacity(q) /\ q.len + Len(s) = Len(s)
  OBVIOUS
<1>2. Contents(q) = <<>>
  BY ContentsSeq
<1>3. <<>> \o s = s
  OBVIOUS
<1> QED
  BY <1>1, <1>2, <1>3, PushAllWF, PushAllContents

\* The first turn of from_iter_default.
LEMMA FromIterRefines ==
  ASSUME Inv, NEW d \in DEQS, NEW e \in Elem, NEW hint \in Nat, NEW oom,
         from_iter_default(d, e, hint, oom)
  PROVE  Abstract!Next
<1> DEFINE h == hint + 1
           s == <<e>>
           w == with_capacity(h)
           p == PushAll(w, s)
<1>1. h \in Nat /\ h > hint /\ h >= 1 /\ s \in Seq(Elem) /\ Len(s) = 1
  OBVIOUS
<1>2. Elems[d] = <<>>
  BY View, NewWF DEF from_iter_default
<1> HIDE DEF h, s
<1>3. WF(w) /\ w.len = 0 /\ capacity(w) >= h /\ capacity(w) \in Nat
  BY <1>1, WithCapacityWF, Basics
<1>4. CASE Stays("from_iter", <<d, e, hint>>, "oom")
  <2>1. Abstract!Stays("oom") /\ ret'.op = "from_iter" /\ ret'.arg = <<d, e, hint>>
    BY <1>4, StaysView
  <2> QED
    BY <1>2, <2>1 DEF Abstract!Next, Abstract!from_iter, Elems
<1>5. CASE Becomes(d, p) /\ Returns("from_iter", <<d, e, hint>>, "ok")
  <2> HIDE DEF w
  <2>1. Len(s) <= capacity(w)
    BY <1>1, <1>3
  <2>2. WF(p) /\ capacity(p) = capacity(w) /\ Contents(p) = s
    BY <1>1, <1>3, <2>1, EmptyConcat
  <2> HIDE DEF p
  <2>3. /\ Abstract!Holds(d, s) /\ Abstract!OnlyCapacityOf(d) /\ Caps'[d] = capacity(p)
    BY <1>5, <2>2, BecomesView
  <2>4. Caps'[d] > hint
    BY <1>1, <1>3, <2>2, <2>3
  <2>5. ret'.op = "from_iter" /\ ret'.arg = <<d, e, hint>> /\ ret'.val = "ok"
    BY <1>5 DEF Returns
  <2> QED
    BY <1>2, <2>3, <2>4, <2>5
    DEF Abstract!Next, Abstract!from_iter, Abstract!Returns, Elems, Caps, s
<1> QED
  BY <1>4, <1>5 DEF from_iter_default, s, h

\* Elements written behind the slice of a deque that has the room for them.
LEMMA PushedView ==
  ASSUME Inv, NEW d \in DEQS, NEW n \in Nat, NEW q, WF(q), q.len = dq[d].len,
         Contents(q) = Contents(dq[d]), HasGrown(d, n, q), capacity(q) >= dq[d].len + n,
         NEW s \in Seq(Elem), Len(s) <= n, Becomes(d, PushAll(q, s))
  PROVE  Abstract!MakesRoom(d, n) /\ Abstract!Holds(d, Elems[d] \o s)
<1> DEFINE w == PushAll(q, s)
<1>1. Contents(dq[d]) = Elems[d] /\ dq[d].len \in Nat
  BY View
<1>2. q.len + Len(s) <= capacity(q)
  BY <1>1, Basics
<1>3. WF(w) /\ capacity(w) = capacity(q) /\ Contents(w) = Contents(q) \o s
  BY <1>2, PushAllContents, PushAllWF
<1> HIDE DEF w
<1>4. HasGrown(d, n, w)
  BY <1>3 DEF HasGrown
<1>5. Abstract!MakesRoom(d, n) /\ Abstract!Holds(d, Contents(w))
  BY <1>3, <1>4, MakesRoomView, n \in Int DEF w
<1> QED
  BY <1>1, <1>3, <1>5

\* resize and resize_default, also when clone() or default() panics.
LEMMA ResizeRefines ==
  ASSUME Inv, NEW d \in DEQS, NEW m \in Nat, NEW s \in Seq(Elem), NEW oom,
         resize(d, m, s, oom)
  PROVE  Abstract!Next
<1> DEFINE q == dq[d]
           n == m - q.len
           r == try_reserve(q, n, oom)
<1>1. /\ Len(Elems[d]) = q.len /\ q.len \in Nat /\ n \in Int
  BY View
<1>2. CASE truncate_back(d, m)
  BY <1>2, TruncateRefines
<1>3. CASE n > 0 /\ ~r.ok /\ Stays("resize", <<d, m, s>>, "oom")
  <2>1. n \in Nat /\ n = m - Len(Elems[d])
    BY <1>1, <1>3
  <2> HIDE DEF n
  <2>2. ~(dq[d].len + n <= capacity(dq[d]))
    BY <1>3, <2>1, TryReserveView
  <2>3. Abstract!OutOfMemory(d, n) /\ ret'.op = "resize" /\ ret'.arg = <<d, m, s>>
    BY <1>1, <1>3, <2>2, OomView
  <2> QED
    BY <2>1, <2>3 DEF Abstract!Next, Abstract!resize, Elems
<1>4. CASE /\ n > 0 /\ r.ok /\ Len(s) <= n /\ Becomes(d, PushAll(r.q, s))
           /\ Returns("resize", <<d, m, s>>, IF Len(s) = n THEN "ok" ELSE "panic")
  <2>1. n \in Nat /\ n = m - Len(Elems[d])
    BY <1>1, <1>4
  <2>2. /\ Len(Elems[d]) + Len(s) <= m
        /\ Len(s) = n <=> Len(Elems[d]) + Len(s) = m
    BY <1>1, <1>4
  <2> HIDE DEF n
  <2>3. /\ WF(r.q) /\ r.q.len = q.len /\ Contents(r.q) = Contents(q)
        /\ capacity(r.q) >= q.len + n /\ HasGrown(d, n, r.q)
    BY <1>4, <2>1, TryReserveView
  <2> HIDE DEF r
  <2>4. Abstract!MakesRoom(d, n) /\ Abstract!Holds(d, Elems[d] \o s)
    BY <1>4, <2>1, <2>3, PushedView
  <2>5. /\ ret'.op = "resize" /\ ret'.arg = <<d, m, s>>
        /\ ret'.val = IF Len(Elems[d]) + Len(s) = m THEN "ok" ELSE "panic"
    BY <1>4, <2>2 DEF Returns
  <2>6. Abstract!resize(d, m, s)
    BY <2>1, <2>2, <2>4, <2>5 DEF Abstract!resize, Abstract!Returns, Elems
  <2> QED
    BY <2>5, <2>6 DEF Abstract!Next
<1> QED
  BY <1>2, <1>3, <1>4 DEF resize

\* extend_from_slice, where clone() does not panic.
LEMMA ExtendFromSliceRefines ==
  ASSUME Inv, NEW d \in DEQS, NEW n \in Nat, NEW s \in Seq(Elem), Len(s) = n, NEW oom,
         extend_from_slice(d, n, s, oom)
  PROVE  Abstract!Next
<1> DEFINE q == dq[d]
           r == try_reserve(q, n, oom)
<1>1. /\ ~r.ok => ~(dq[d].len + n <= capacity(dq[d]))
      /\ r.ok => /\ WF(r.q) /\ r.q.len = q.len /\ Contents(r.q) = Contents(q)
                 /\ capacity(r.q) >= q.len + n /\ HasGrown(d, n, r.q)
  BY TryReserveView
<1>2. CASE ~r.ok /\ Stays("extend_from_slice", <<d, n, s>>, "oom")
  <2>1. /\ Abstract!OutOfMemory(d, n)
        /\ ret'.op = "extend_from_slice" /\ ret'.arg = <<d, n, s>>
    BY <1>1, <1>2, OomView
  <2> QED
    BY <2>1 DEF Abstract!Next, Abstract!extend_from_slice
<1>3. CASE /\ r.ok /\ Becomes(d, AssignAll(r.q, n, s))
           /\ Returns("extend_from_slice", <<d, n, s>>, "ok")
  <2>1. AssignAll(r.q, n, s) = PushAll(r.q, s)
    BY DEF AssignAll, PushAll
  <2> HIDE DEF r
  <2>2. Abstract!MakesRoom(d, n) /\ Abstract!Holds(d, Elems[d] \o s)
    BY <1>1, <1>3, <2>1, PushedView
  <2>3. ret'.op = "extend_from_slice" /\ ret'.arg = <<d, n, s>> /\ ret'.val = "ok"
    BY <1>3 DEF Returns
  <2>4. Abstract!extend_from_slice(d, n, s)
    BY <2>2, <2>3 DEF Abstract!extend_from_slice, Abstract!Returns, Elems
  <2> QED
    BY <2>3, <2>4 DEF Abstract!Next
<1> QED
  BY <1>2, <1>3 DEF extend_from_slice

\* The caller fills the spare slots and then moves the tail over them.
LEMMA MoveTailRefines ==
  ASSUME Inv, NEW d \in DEQS, NEW s \in Seq(Elem), move_tail(d, s)
  PROVE  Abstract!Next
<1> DEFINE q == dq[d]
           n == Len(s)
<1>1. /\ WF(q) /\ q.len \in Nat /\ capacity(q) \in Nat /\ n \in Nat
  BY View
<1>2. Abstract!HasRoom(d, n) <=> q.len + n <= capacity(q)
  BY RoomView
<1>3. CASE n > capacity(q) - q.len /\ Stays("move_tail", <<d, s>>, "panic")
  <2>1. Abstract!Stays("panic") /\ ret'.op = "move_tail" /\ ret'.arg = <<d, s>>
    BY <1>3, StaysView
  <2>2. ~Abstract!HasRoom(d, n)
    BY <1>1, <1>2, <1>3
  <2> QED
    BY <2>1, <2>2 DEF Abstract!Next, Abstract!move_tail
<1>4. CASE /\ n <= capacity(q) - q.len
           /\ Becomes(d, move_tail_unchecked(Write(q, q.len, s), n))
           /\ Returns("move_tail", <<d, s>>, "ok")
  <2>1. move_tail_unchecked(Write(q, q.len, s), n) = PushAll(q, s)
    <3> HIDE DEF q
    <3> QED
      BY <1>1 DEF move_tail_unchecked, Write, PushAll, WF, IsDeque
  <2>2. q.len + n <= capacity(q) /\ capacity(q) >= q.len + n
    BY <1>1, <1>4
  <2>3. HasGrown(d, n, q)
    BY <2>2 DEF HasGrown
  <2>4. Abstract!MakesRoom(d, n) /\ Abstract!Holds(d, Elems[d] \o s)
    BY <1>1, <1>4, <2>1, <2>2, <2>3, PushedView
  <2>5. ret'.op = "move_tail" /\ ret'.arg = <<d, s>> /\ ret'.val = "ok"
    BY <1>4 DEF Returns
  <2>6. Abstract!Grows(d, n, Elems[d] \o s)
    BY <2>4, <2>5 DEF Abstract!Grows, Abstract!Returns
  <2> QED
    BY <1>2, <2>2, <2>5, <2>6 DEF Abstract!Next, Abstract!move_tail, Elems
<1> QED
  BY <1>3, <1>4 DEF move_tail

\* A call that replaces two deques.
LEMMA BothBecomeView ==
  ASSUME Inv, NEW d \in DEQS, NEW o \in DEQS, d # o, NEW q, NEW p, WF(q), WF(p),
         BothBecome(d, q, o, p)
  PROVE  /\ Elems' = [Elems EXCEPT ![d] = Contents(q), ![o] = Contents(p)]
         /\ Caps' = [Caps EXCEPT ![d] = capacity(q), ![o] = capacity(p)]
<1>1. WF(Settle(q)) /\ Contents(Settle(q)) = Contents(q) /\ capacity(Settle(q)) = capacity(q)
  BY SettleContents
<1>2. WF(Settle(p)) /\ Contents(Settle(p)) = Contents(p) /\ capacity(Settle(p)) = capacity(p)
  BY SettleContents
<1>3. DOMAIN dq = DEQS /\ dq' = [dq EXCEPT ![d] = Settle(q), ![o] = Settle(p)]
  BY DEF Inv, BothBecome
<1>4. /\ dq'[d] = Settle(q) /\ dq'[o] = Settle(p)
      /\ \A x \in DEQS \ {d, o} : dq'[x] = dq[x]
  BY <1>3
<1> QED
  BY <1>1, <1>2, <1>4 DEF Elems, Caps

\* append: the elements of the other deque move to the back of d.
LEMMA AppendRefines ==
  ASSUME Inv, NEW d \in DEQS, NEW o \in DEQS, d # o, NEW oom, append(d, o, oom)
  PROVE  Abstract!Next
<1> DEFINE q == dq[d]
           other == dq[o]
           n == other.len
           r == append_elements(q, other, oom)
           t == try_reserve(q, n, oom)
           p == [other EXCEPT !.head = 0, !.len = 0]
<1>1. /\ WF(q) /\ Contents(q) = Elems[d] /\ Len(Elems[d]) = q.len /\ Caps[d] = capacity(q)
      /\ q.len \in Nat /\ capacity(q) \in Nat
  BY View
<1>2. /\ WF(other) /\ Contents(other) = Elems[o] /\ Len(Elems[o]) = n /\ n \in Nat
      /\ Caps[o] = capacity(other)
  BY View
<1>3. /\ ~t.ok => ~(dq[d].len + n <= capacity(dq[d]))
      /\ t.ok => HasGrown(d, n, t.q)
  BY <1>2, TryReserveView
<1>4. CASE ~r.ok /\ Stays("append", <<d, o>>, "oom")
  <2>1. ~t.ok
    BY <1>4 DEF append_elements, Ok
  <2>2. Abstract!OutOfMemory(d, n) /\ ret'.op = "append" /\ ret'.arg = <<d, o>>
    BY <1>2, <1>3, <1>4, <2>1, OomView
  <2>3. Abstract!OutOfMemory(d, Len(Elems[o]))
    BY <1>2, <2>2
  <2> QED
    BY <2>2, <2>3 DEF Abstract!Next, Abstract!append, Elems
<1>5. CASE r.ok /\ BothBecome(d, r.q, o, p) /\ Returns("append", <<d, o>>, "ok")
  <2>1. /\ WF(r.q) /\ Contents(r.q) = Contents(q) \o Contents(other)
        /\ capacity(r.q) = capacity(t.q) /\ t.ok
    <3>1. WF(q) /\ WF(other) /\ append_elements(q, other, oom).ok
      BY <1>1, <1>2, <1>5
    <3> HIDE DEF q, other
    <3> QED
      BY <3>1, AppendContents
  <2>2. WF(p) /\ p.len = 0 /\ capacity(p) = capacity(other)
    BY <1>2, EmptiedWF
  <2> HIDE DEF r, t, p
  <2>3. Contents(p) = <<>>
    BY <2>2, ContentsSeq
  <2>4. /\ Elems' = [Elems EXCEPT ![d] = Contents(r.q), ![o] = Contents(p)]
        /\ Caps' = [Caps EXCEPT ![d] = capacity(r.q), ![o] = capacity(p)]
    BY <1>5, <2>1, <2>2, BothBecomeView
  <2>5. Elems' = [Elems EXCEPT ![d] = Elems[d] \o Elems[o], ![o] = <<>>]
    BY <1>1, <1>2, <2>1, <2>3, <2>4
  <2>6. Caps' = [Caps EXCEPT ![d] = capacity(t.q)]
    BY <1>2, <2>1, <2>2, <2>4 DEF Caps
  <2>7. Abstract!MakesRoom(d, n)
    <3>1. Abstract!HasRoom(d, n) <=> q.len + n <= capacity(q)
      BY <1>2, RoomView
    <3>2. Caps'[d] = capacity(t.q) /\ \A x \in DEQS \ {d} : Caps'[x] = Caps[x]
      BY <2>6 DEF Caps
    <3>3. CASE q.len + n <= capacity(q)
      <4>1. Caps' = Caps
        BY <1>1, <1>3, <2>1, <2>6, <3>3 DEF HasGrown, Caps
      <4> QED
        BY <3>1, <3>3, <4>1 DEF Abstract!MakesRoom, Abstract!KeepsCapacity, Caps
    <3>4. CASE ~(q.len + n <= capacity(q))
      <4>1. Caps'[d] >= Len(Elems[d]) + n /\ Caps'[d] >= 2 * Caps[d]
        BY <1>1, <1>3, <2>1, <3>2, <3>4 DEF HasGrown
      <4> QED
        BY <3>1, <3>2, <3>4, <4>1
        DEF Abstract!MakesRoom, Abstract!OnlyCapacityOf, Elems, Caps
    <3> QED
      BY <3>3, <3>4
  <2>8. ret'.op = "append" /\ ret'.arg = <<d, o>> /\ ret'.val = "ok"
    BY <1>5 DEF Returns
  <2>9. Abstract!MakesRoom(d, Len(Elems[o]))
    BY <1>2, <2>7
  <2>10. Abstract!append(d, o)
    BY <2>5, <2>8, <2>9 DEF Abstract!append, Abstract!Returns, Elems
  <2> QED
    BY <2>8, <2>10 DEF Abstract!Next
<1> QED
  BY <1>4, <1>5 DEF append

\* split_off: d keeps its first at elements, the other deque gets the rest.
LEMMA SplitOffRefines ==
  ASSUME Inv, NEW d \in DEQS, NEW o \in DEQS, d # o, NEW at \in Nat, NEW oom,
         split_off(d, o, at, oom)
  PROVE  Abstract!Next
<1> DEFINE q == dq[d]
           c == Contents(q)
           l == q.len - at
           b == move_tail_unchecked(with_capacity(l), l)
           p == Copy(q, at, b, 0, l)
           f == move_tail_unchecked(q, -(q.len - at))
<1>1. /\ WF(q) /\ c = Elems[d] /\ Len(Elems[d]) = q.len /\ q.len \in Nat
      /\ Caps[d] = capacity(q)
  BY View
<1>2. CASE at > q.len /\ Stays("split_off", <<d, o, at>>, "panic")
  <2>1. Abstract!Stays("panic") /\ ret'.op = "split_off" /\ ret'.arg = <<d, o, at>>
    BY <1>2, StaysView
  <2> QED
    BY <1>1, <1>2, <2>1 DEF Abstract!Next, Abstract!split_off, Elems
<1>3. CASE /\ at <= q.len /\ ~Allocates(2 * l, oom)
           /\ Stays("split_off", <<d, o, at>>, "oom")
  <2>1. Abstract!Stays("oom") /\ ret'.op = "split_off" /\ ret'.arg = <<d, o, at>>
    BY <1>3, StaysView
  <2>2. at < Len(Elems[d])
    BY <1>1, <1>3 DEF Allocates
  <2> QED
    BY <1>1, <2>1, <2>2 DEF Abstract!Next, Abstract!split_off, Elems
<1>4. CASE at <= q.len /\ BothBecome(d, f, o, p) /\ Returns("split_off", <<d, o, at>>, "ok")
  <2>1. l \in Nat /\ at + l = q.len /\ at + l <= q.len /\ at \in 0 .. q.len
    BY <1>1, <1>4, SMTT(30)
  <2>2. WF(f) /\ capacity(f) = capacity(q) /\ Contents(f) = SubSeq(c, 1, at)
    BY <1>1, <2>1, TailCut
  <2> HIDE DEF l, f
  <2>3. WF(b) /\ b.len = l /\ capacity(b) >= l
    BY <2>1, FreshWF, WithCapacityWF
  <2> HIDE DEF b
  <2>4. WF(p) /\ capacity(p) = capacity(b) /\ Contents(p) = SubSeq(c, at + 1, at + l)
    BY <1>1, <2>1, <2>3, FreshContents, SMTT(30)
  <2> HIDE DEF p
  <2>5. /\ Elems' = [Elems EXCEPT ![d] = Contents(f), ![o] = Contents(p)]
        /\ Caps' = [Caps EXCEPT ![d] = capacity(f), ![o] = capacity(p)]
    <3>1. WF(f) /\ WF(p) /\ BothBecome(d, f, o, p)
      BY <1>4, <2>2, <2>4
    <3> QED
      BY <3>1, BothBecomeView
  <2>6. Elems' = [Elems EXCEPT ![d] = SubSeq(Elems[d], 1, at),
                               ![o] = SubSeq(Elems[d], at + 1, Len(Elems[d]))]
    BY <1>1, <2>1, <2>2, <2>4, <2>5
  <2>7. \A x \in DEQS \ {o} : Caps'[x] = Caps[x]
    BY <1>1, <2>2, <2>5 DEF Caps
  <2>8. Caps'[o] >= Len(Elems[d]) - at
    <3>1. Caps'[o] = capacity(b)
      BY <2>4, <2>5 DEF Caps
    <3> QED
      BY <1>1, <2>3, <3>1 DEF l
  <2>9. ret'.op = "split_off" /\ ret'.arg = <<d, o, at>> /\ ret'.val = "ok"
    BY <1>4 DEF Returns
  <2>10. ~(at > Len(Elems[d]))
    BY <1>1, <1>4
  <2>11. Abstract!split_off(d, o, at)
    BY <2>6, <2>7, <2>8, <2>9, <2>10
    DEF Abstract!split_off, Abstract!Returns, Abstract!OnlyCapacityOf, Elems, Caps
  <2> QED
    BY <2>9, <2>11 DEF Abstract!Next
<1> QED
  BY <1>2, <1>3, <1>4 DEF split_off

\* clone: the other deque becomes the clones, all of them or none.
LEMMA CloneRefines ==
  ASSUME Inv, NEW d \in DEQS, NEW o \in DEQS, NEW s \in Seq(Elem), NEW oom,
         clone(d, o, s, oom)
  PROVE  Abstract!Next
<1> DEFINE q == dq[d]
           w == with_capacity(q.len)
           p == PushAll(w, s)
<1>1. /\ Len(Elems[d]) = q.len /\ q.len \in Nat /\ (Elems[d] = <<>> <=> q.len = 0)
  BY View
<1>2. CASE ~Allocates(2 * q.len, oom) /\ Stays("clone", <<d, o, s>>, "oom")
  <2>1. Abstract!Stays("oom") /\ ret'.op = "clone" /\ ret'.arg = <<d, o, s>>
    BY <1>2, StaysView
  <2>2. Elems[d] # <<>>
    BY <1>1, <1>2 DEF Allocates
  <2> QED
    BY <2>1, <2>2 DEF Abstract!Next, Abstract!clone, Elems
<1>3. CASE Len(s) < q.len /\ Stays("clone", <<d, o, s>>, "panic")
  <2>1. Abstract!Stays("panic") /\ ret'.op = "clone" /\ ret'.arg = <<d, o, s>>
    BY <1>3, StaysView
  <2> QED
    BY <1>1, <1>3, <2>1 DEF Abstract!Next, Abstract!clone, Elems
<1>4. CASE Len(s) = q.len /\ Becomes(o, p) /\ Returns("clone", <<d, o, s>>, "ok")
  <2>1. WF(w) /\ w.len = 0 /\ capacity(w) >= q.len
    BY <1>1, WithCapacityWF
  <2> HIDE DEF w
  <2>2. WF(p) /\ capacity(p) = capacity(w) /\ Contents(p) = s
    BY <1>4, <2>1, EmptyConcat
  <2> HIDE DEF p
  <2>3. /\ Abstract!Holds(o, s) /\ Abstract!OnlyCapacityOf(o) /\ Caps'[o] = capacity(p)
    BY <1>4, <2>2, BecomesView
  <2>4. Caps'[o] >= Len(s) /\ Len(s) = Len(Elems[d])
    BY <1>1, <1>4, <2>1, <2>2, <2>3
  <2>5. ret'.op = "clone" /\ ret'.arg = <<d, o, s>> /\ ret'.val = "ok"
    BY <1>4 DEF Returns
  <2>6. Abstract!clone(d, o, s)
    BY <2>3, <2>4, <2>5 DEF Abstract!clone, Abstract!Returns, Elems, Caps
  <2> QED
    BY <2>5, <2>6 DEF Abstract!Next
<1> QED
  BY <1>2, <1>3, <1>4 DEF clone

-----------------------------------------------------------------------------
(* The refinement.                                                         *)

\* SoundNext takes no call that Next does not have.
LEMMA SoundIsNext == [SoundNext]_vars => [Next]_vars
<1> SUFFICES ASSUME SoundNext PROVE Next
  OBVIOUS
<1>1. PICK d \in DEQS, oom \in BOOLEAN :
        \/ CommonNext(d, oom)
        \/ \E n \in Args, e \in Unborn : insert(d, n, e, oom)
        \/ \E n \in 0 .. MaxItems, s \in UnbornSeqs : extend_from_slice(d, n, s, oom)
        \/ shrink_to_fit(d, oom)
  BY DEF SoundNext
<1> QED
  BY <1>1 DEF Next, Inserts, ExtendsFromSlice

\* The shape and the ownership bookkeeping of every deque survive the calls
\* of SoundSpec.
LEMMA SoundInv == SoundSpec => []Inv
  BY InitInv, NextInv, SoundIsNext, PTL DEF SoundSpec

\* At the start every deque is an empty sequence without capacity.
LEMMA InitRefines == Init => Abstract!Init
<1> SUFFICES ASSUME Init PROVE Abstract!Init
  OBVIOUS
<1>1. \A d \in DEQS : dq[d] = new
  BY DEF Init
<1>2. Contents(new) = <<>>
  BY NewWF, ContentsSeq
<1>3. Elems = [d \in DEQS |-> <<>>] /\ Caps = [d \in DEQS |-> 0]
  BY <1>1, <1>2, NewWF DEF Elems, Caps
<1>4. ret = [op |-> "new", arg |-> <<>>, val |-> "ok"]
  BY DEF Init
<1> QED
  BY <1>3, <1>4 DEF Abstract!Init, Elems, Caps

\* Every step of SoundNext is the step of Deque that ret' names.
LEMMA StepRefines ==
  ASSUME Inv, [SoundNext]_vars
  PROVE  [Abstract!Next]_(Abstract!vars)
<1>1. CASE UNCHANGED vars
  <2>1. Elems' = Elems /\ Caps' = Caps /\ ret' = ret
    BY <1>1 DEF vars, Elems, Caps
  <2>2. UNCHANGED Abstract!vars
    BY <2>1 DEF Abstract!vars, Elems, Caps
  <2> QED
    BY <2>2
<1>2. CASE SoundNext
  <2>1. PICK d \in DEQS, oom \in BOOLEAN :
          \/ CommonNext(d, oom)
          \/ \E n \in Args, e \in Unborn :
               (n < 2 \/ n > dq[d].len \div 2) /\ insert(d, n, e, oom)
          \/ \E n \in 0 .. MaxItems, s \in UnbornSeqs :
               Len(s) = n /\ extend_from_slice(d, n, s, oom)
          \/ shrink_to_fit(d, oom)
    BY <1>2 DEF SoundNext
  <2>2. /\ Args \subseteq Nat /\ 0 .. MaxItems \subseteq Nat /\ Unborn \subseteq Elem
        /\ UnbornSeqs \subseteq Seq(Elem)
    BY BoundAssumption, UnbornElems DEF Args
  <2>3. CASE \E n \in Args : \/ assign(d, n, oom) \/ reserve(d, n, oom)
                             \/ reserve_exact(d, n, oom)
    BY <2>2, <2>3, CapacityRefines
  <2>4. CASE \E e \in Unborn : push_front(d, e, oom) \/ push_back(d, e, oom)
    BY <2>2, <2>4, PushRefines
  <2>5. CASE pop_front(d) \/ pop_back(d)
    BY <2>5, PopRefines
  <2>6. CASE \E n \in Args : truncate_back(d, n) \/ truncate_front(d, n)
    BY <2>2, <2>6, TruncateRefines
  <2>7. CASE \E n \in Args : swap_remove_back(d, n) \/ swap_remove_front(d, n)
    BY <2>2, <2>7, SwapRemoveRefines
  <2>8. CASE \/ \E n \in Args : remove(d, n)
             \/ \E equal \in SUBSET (0 .. dq[d].len - 1) : remove_item(d, equal)
    BY <2>2, <2>8, RemoveRefines
  <2>9. CASE \E e \in Unborn, n \in Args : extend_desugared(d, e, n, oom)
    BY <2>2, <2>9, ExtendRefines
  <2>10. CASE \E e \in Unborn, n \in Args : from_iter_default(d, e, n, oom)
    BY <2>2, <2>10, FromIterRefines
  <2>11. CASE \E n \in Args, s \in UnbornSeqs : resize(d, n, s, oom)
    BY <2>2, <2>11, ResizeRefines
  <2>12. CASE \E s \in UnbornSeqs : move_tail(d, s)
    BY <2>2, <2>12, MoveTailRefines
  <2>13. CASE \E o \in DEQS \ {d} : append(d, o, oom)
    BY <2>13, AppendRefines
  <2>14. CASE \E o \in DEQS \ {d}, n \in Args : split_off(d, o, n, oom)
    BY <2>2, <2>14, SplitOffRefines
  <2>15. CASE \E o \in DEQS \ {d}, s \in UnbornSeqs : clone(d, o, s, oom)
    BY <2>2, <2>15, CloneRefines
  <2>16. CASE \E n \in Args, e \in Unborn :
                (n < 2 \/ n > dq[d].len \div 2) /\ insert(d, n, e, oom)
    BY <2>2, <2>16, InsertRefines
  <2>17. CASE \E n \in 0 .. MaxItems, s \in UnbornSeqs :
                Len(s) = n /\ extend_from_slice(d, n, s, oom)
    BY <2>2, <2>17, ExtendFromSliceRefines
  <2>18. CASE shrink_to_fit(d, oom)
    BY <2>18, ShrinkRefines
  <2>19. CASE CommonNext(d, oom)
    BY <2>3, <2>4, <2>5, <2>6, <2>7, <2>8, <2>9, <2>10, <2>11, <2>12, <2>13,
       <2>14, <2>15, <2>19 DEF CommonNext
  <2> QED
    BY <2>1, <2>16, <2>17, <2>18, <2>19
<1> QED
  BY <1>1, <1>2

\* A SliceDeque over its mirrored buffer is the sequence that its
\* documentation promises: whatever the page size and T, wherever the head
\* has wrapped to and whichever allocations fail, each call that the findings
\* are not about does to the elements, and returns, what Deque says.
THEOREM ImplementsDequeCorrect == SoundSpec => ImplementsDeque
<1>1. Init => Abstract!Init
  BY InitRefines
<1>2. Inv /\ [SoundNext]_vars => [Abstract!Next]_(Abstract!vars)
  BY StepRefines
<1> QED
  BY <1>1, <1>2, SoundInv, PTL DEF SoundSpec, ImplementsDeque, Abstract!Spec
=============================================================================
