--------------------------- MODULE ContentsProofs ---------------------------
(***************************************************************************)
(* What the memory operations of a deque do to the elements of its slice,  *)
(* proved byte by byte through the mirror: for every page size, every size *)
(* of T and every position of the head.                                    *)
(***************************************************************************)
EXTENDS SliceDequeProofs

-----------------------------------------------------------------------------
(* The bytes of a slot.                                                    *)

\* The k-th byte of slot i.
SlotByte(q, i, k) == q.mem[Phys(q, q.head + i * SIZE + k)]

\* An offset and its remainder are the same byte of the region.
LEMMA ModSub ==
  ASSUME NEW a \in Int, NEW b \in Int, NEW c \in Nat \ {0}
  PROVE  ((a % c) - b) % c = (a - b) % c
<1> DEFINE i == a \div c
           m == a % c
           j == (a - b) \div c
           r == (a - b) % c
           y == m - b
           k == j - i
<1>1. i \in Int /\ m \in Int /\ a = c * i + m
  BY DivMod
<1>2. j \in Int /\ r \in 0 .. c - 1 /\ a - b = c * j + r
  BY DivMod, a - b \in Int
<1> HIDE DEF i, m, j, r
<1>3. k \in Int /\ y \in Int /\ y = c * k + r
  BY <1>1, <1>2
<1> HIDE DEF y, k
<1>4. y % c = r
  BY <1>2, <1>3, ModUnique
<1> QED
  BY <1>4 DEF y, m, r

\* Offsets that are a region apart are the same byte of it.
LEMMA ModShift ==
  ASSUME NEW a \in Int, NEW c \in Nat \ {0}
  PROVE  (a + c) % c = a % c /\ (a - c) % c = a % c
<1> DEFINE i == a \div c
           m == a % c
           u == a + c
           v == a - c
<1>1. i \in Int /\ m \in 0 .. c - 1 /\ a = c * i + m
  BY DivMod
<1> HIDE DEF i, m
<1>2. u \in Int /\ v \in Int /\ i + 1 \in Int /\ i - 1 \in Int
  BY <1>1
<1>3. u = c * (i + 1) + m /\ v = c * (i - 1) + m
  BY <1>1
<1> HIDE DEF u, v
<1>4. u % c = m
  BY <1>1, <1>2, <1>3, ModUnique
<1>5. v % c = m
  BY <1>1, <1>2, <1>3, ModUnique
<1> QED
  BY <1>4, <1>5 DEF u, v, m

\* The bounds of an allocated buffer.
LEMMA BufferBounds ==
  ASSUME NEW q, WF(q), q.blen > 0
  PROVE  /\ SIZE \in Nat \ {0} /\ q.half \in Nat \ {0} /\ q.head \in Nat
         /\ capacity(q) \in Nat /\ capacity(q) * SIZE <= q.half
         /\ DOMAIN q.mem = 0 .. q.half - 1
<1>1. q.half > 0 /\ capacity(q) * SIZE <= q.half
  BY DEF WF, BufferFits
<1> QED
  BY <1>1, LayoutAssumption, Basics DEF WF, IsDeque

\* Where the k-th byte of slot j lies, counted from slot i: within the region
\* when j is i or a later slot, a region further when it is an earlier one.
LEMMA ByteAt ==
  ASSUME NEW q, WF(q), q.blen > 0, NEW i \in Int, NEW j \in Int, NEW k \in 0 .. SIZE - 1
  PROVE  LET a == Phys(q, q.head + j * SIZE + k)
             o == (a - (q.head + i * SIZE)) % q.half
         IN  /\ a \in DOMAIN q.mem
             /\ (i <= j /\ j < i + capacity(q)) => o = (j - i) * SIZE + k
             /\ (j < i /\ i <= j + capacity(q)) => o = q.half + (j - i) * SIZE + k
<1> DEFINE x == q.head + j * SIZE + k
           b == q.head + i * SIZE
           a == Phys(q, x)
           h == q.half
           c == capacity(q)
<1>1. /\ SIZE \in Nat \ {0} /\ h \in Nat \ {0} /\ q.head \in Nat /\ c \in Nat
      /\ c * SIZE <= h /\ DOMAIN q.mem = 0 .. h - 1
  BY BufferBounds
<1>2. /\ x \in Int /\ b \in Int /\ x - b = (j - i) * SIZE + k
      /\ k \in Int /\ 0 <= k /\ k < SIZE
  <2>1. SIZE \in Int /\ q.head \in Int
    BY <1>1
  <2>2. x \in Int /\ b \in Int /\ k \in Int /\ 0 <= k /\ k < SIZE
    BY <2>1
  <2>3. x - b = (j - i) * SIZE + k
    BY <2>1, <2>2
  <2> QED
    BY <2>2, <2>3
<1> HIDE DEF x, b, h, c
<1>3. a \in DOMAIN q.mem
  <2>1. x % h \in Nat /\ x % h < h
    BY <1>1, <1>2, ModRange
  <2> QED
    BY <1>1, <2>1 DEF Phys, h
<1>4. ASSUME i <= j, j < i + c
      PROVE  (a - b) % h = (j - i) * SIZE + k
  <2> DEFINE r == (j - i) * SIZE + k
  <2>1. (j - i) * SIZE >= 0 /\ (j - i + 1) * SIZE <= c * SIZE
    <3>1. 0 * SIZE <= (j - i) * SIZE
      BY <1>1, <1>4, MulMonotone
    <3>2. (j - i + 1) * SIZE <= c * SIZE
      BY <1>1, <1>4, MulMonotone
    <3> QED
      BY <1>1, <3>1, <3>2
  <2>2. r \in 0 .. h - 1
    BY <1>1, <1>2, <2>1
  <2> DEFINE z == 0
           y == x - b
  <2>3. z \in Int /\ y \in Int /\ y = h * z + r
    BY <1>1, <1>2, <2>2
  <2> HIDE DEF r, z, y
  <2>4. y % h = r
    BY <1>1, <2>2, <2>3, ModUnique
  <2>5. ((x % h) - b) % h = y % h
    BY <1>1, <1>2, ModSub DEF y
  <2> QED
    BY <2>4, <2>5 DEF Phys, h, r
<1>5. ASSUME j < i, i <= j + c
      PROVE  (a - b) % h = h + (j - i) * SIZE + k
  <2> DEFINE r == h + (j - i) * SIZE + k
  <2>1. (j - i) * SIZE >= -(c * SIZE) /\ (j - i + 1) * SIZE <= 0
    <3>1. (-c) * SIZE <= (j - i) * SIZE
      BY <1>1, <1>5, MulMonotone
    <3>2. (j - i + 1) * SIZE <= 0 * SIZE
      BY <1>1, <1>5, MulMonotone
    <3> QED
      BY <1>1, <3>1, <3>2
  <2>2. r \in 0 .. h - 1
    BY <1>1, <1>2, <2>1
  <2> DEFINE z == -1
           y == x - b
  <2>3. z \in Int /\ y \in Int /\ y = h * z + r
    BY <1>1, <1>2, <2>2
  <2> HIDE DEF r, z, y
  <2>4. y % h = r
    BY <1>1, <2>2, <2>3, ModUnique
  <2>5. ((x % h) - b) % h = y % h
    BY <1>1, <1>2, ModSub DEF y
  <2> QED
    BY <2>4, <2>5 DEF Phys, h, r
<1> QED
  BY <1>3, <1>4, <1>5 DEF x, b, h, c

\* Slots with the same bytes hold the same.
LEMMA SameRead ==
  ASSUME NEW p, NEW i, NEW q, NEW j,
         \A k \in 0 .. SIZE - 1 : SlotByte(p, i, k) = SlotByte(q, j, k)
  PROVE  Read(p, i) = Read(q, j)
<1> DEFINE b == [k \in 0 .. SIZE - 1 |-> p.mem[Phys(p, p.head + i * SIZE + k)]]
           c == [k \in 0 .. SIZE - 1 |-> q.mem[Phys(q, q.head + j * SIZE + k)]]
           V(f) == IF f[0] # Junk /\ \A k \in 0 .. SIZE - 1 : f[k] = <<f[0][1], k>>
                   THEN f[0][1] ELSE Junk
<1>1. b = c
  BY DEF SlotByte
<1>2. Read(p, i) = V(b) /\ Read(q, j) = V(c)
  BY DEF Read
<1> HIDE DEF b, c, V
<1> QED
  BY <1>1, <1>2

\* The bytes of a value are read as the value.
LEMMA ReadValue ==
  ASSUME NEW q, NEW i, NEW e \in Elem,
         \A k \in 0 .. SIZE - 1 : SlotByte(q, i, k) = <<e, k>>
  PROVE  Read(q, i) = e
<1> DEFINE b == [k \in 0 .. SIZE - 1 |-> q.mem[Phys(q, q.head + i * SIZE + k)]]
<1>1. \A k \in 0 .. SIZE - 1 : b[k] = <<e, k>>
  BY DEF SlotByte
<1>2. Read(q, i) = IF b[0] # Junk /\ \A k \in 0 .. SIZE - 1 : b[k] = <<b[0][1], k>>
                   THEN b[0][1] ELSE Junk
  BY DEF Read
<1> HIDE DEF b
<1>3. 0 \in 0 .. SIZE - 1
  BY LayoutAssumption
<1>4. b[0] = <<e, 0>> /\ <<e, 0>> # Junk
  BY <1>1, <1>3, JunkAssumption
<1>5. b[0][1] = e
  BY <1>4
<1> QED
  BY <1>1, <1>2, <1>4, <1>5

-----------------------------------------------------------------------------
(* An operation on n slots, from slot i, within the capacity.              *)

Within(q, i, n) == n > 0 => 0 <= i /\ i + n <= capacity(q)

\* It touches the bytes of its slots, at their offset from slot i, and no byte
\* of another slot.
LEMMA Window ==
  ASSUME NEW q, WF(q), NEW i \in Int, NEW n \in Int, Within(q, i, n),
         NEW j \in 0 .. capacity(q) - 1, NEW k \in 0 .. SIZE - 1
  PROVE  LET a == Phys(q, q.head + j * SIZE + k)
             o == (a - (q.head + i * SIZE)) % q.half
         IN  /\ a \in DOMAIN q.mem
             /\ (i <= j /\ j < i + n) => (o = (j - i) * SIZE + k /\ o < n * SIZE)
             /\ ~(i <= j /\ j < i + n) => ~(o < n * SIZE)
<1> DEFINE a == Phys(q, q.head + j * SIZE + k)
           o == (a - (q.head + i * SIZE)) % q.half
           c == capacity(q)
           h == q.half
<1>1. q.blen > 0 /\ c \in Nat /\ j \in Nat /\ j < c
  BY Basics
<1>2. SIZE \in Nat \ {0} /\ h \in Nat \ {0} /\ q.head \in Nat /\ c * SIZE <= h
  BY <1>1, BufferBounds
<1>3. /\ a \in DOMAIN q.mem
      /\ (i <= j /\ j < i + c) => o = (j - i) * SIZE + k
      /\ (j < i /\ i <= j + c) => o = h + (j - i) * SIZE + k
  BY <1>1, ByteAt
<1>4. a \in Int /\ o \in Nat
  <2> DEFINE x == q.head + j * SIZE + k
             y == a - (q.head + i * SIZE)
  <2>1. x \in Int
    BY <1>1, <1>2
  <2>2. a \in Int
    <3> HIDE DEF x
    <3>1. x % h \in Nat
      BY <1>2, <2>1, ModRange
    <3> QED
      BY <3>1 DEF Phys, x, h
  <2>3. y \in Int
    <3> HIDE DEF a
    <3> QED
      BY <1>2, <2>2
  <2>4. y % h \in Nat
    <3> HIDE DEF y, h
    <3> QED
      BY <1>2, <2>3, ModRange
  <2> QED
    BY <2>2, <2>4
<1> HIDE DEF a, o, c, h
<1>5. ASSUME i <= j, j < i + n
      PROVE  o = (j - i) * SIZE + k /\ o < n * SIZE
  <2>1. n > 0 /\ i + n <= c /\ 0 <= i
    BY <1>1, <1>5 DEF Within, c
  <2>2. o = (j - i) * SIZE + k
    BY <1>1, <1>3, <1>5, <2>1
  <2>3. (j - i + 1) * SIZE <= n * SIZE
    BY <1>1, <1>2, <1>5, MulMonotone
  <2> QED
    BY <1>1, <1>2, <2>2, <2>3
<1>6. ASSUME ~(i <= j /\ j < i + n)
      PROVE  ~(o < n * SIZE)
  <2>1. CASE n <= 0
    <3>1. n * SIZE <= 0 * SIZE
      BY <1>2, <2>1, MulMonotone
    <3> QED
      BY <1>2, <1>4, <3>1
  <2>2. CASE n > 0 /\ j >= i + n
    <3>1. 0 <= i /\ j < i + c
      BY <1>1, <2>2 DEF Within, c
    <3>2. o = (j - i) * SIZE + k
      BY <1>1, <1>3, <2>2, <3>1
    <3>3. n * SIZE <= (j - i) * SIZE
      BY <1>1, <1>2, <2>2, MulMonotone
    <3> QED
      BY <1>1, <1>2, <3>2, <3>3
  <2>3. CASE n > 0 /\ j < i
    <3>1. i + n <= c /\ i <= j + c
      BY <1>1, <2>3 DEF Within, c
    <3>2. o = h + (j - i) * SIZE + k
      BY <1>1, <1>3, <2>3, <3>1
    <3>3. (n + i - j) * SIZE <= c * SIZE
      BY <1>1, <1>2, <2>3, <3>1, MulMonotone
    <3>4. (n + i - j) * SIZE = n * SIZE - (j - i) * SIZE
      BY <1>1, <1>2
    <3>5. n * SIZE \in Int /\ (j - i) * SIZE \in Int /\ c * SIZE \in Int
      BY <1>1, <1>2
    <3> QED
      BY <1>1, <1>2, <3>2, <3>3, <3>4, <3>5
  <2> QED
    BY <1>1, <1>6, <2>1, <2>2, <2>3
<1> QED
  BY <1>3, <1>5, <1>6 DEF a, o, c, h

\* The bytes of a slot when the memory of its deque is m.
LEMMA RewrittenByte ==
  ASSUME NEW q, WF(q), NEW m, NEW j, NEW k
  PROVE  SlotByte([q EXCEPT !.mem = m], j, k) = m[Phys(q, q.head + j * SIZE + k)]
<1>1. [q EXCEPT !.mem = m]
        = [blen |-> q.blen, half |-> q.half, mem |-> m, head |-> q.head, len |-> q.len]
  BY DEF WF, IsDeque
<1> QED
  BY <1>1 DEF SlotByte, Phys

\* ptr::write of several values: the slots that are written hold them, the
\* others what they held.
LEMMA WriteRead ==
  ASSUME NEW q, WF(q), NEW i \in Int, NEW s \in Seq(Elem), Within(q, i, Len(s)),
         NEW j \in 0 .. capacity(q) - 1
  PROVE  Read(Write(q, i, s), j)
           = IF i <= j /\ j < i + Len(s) THEN s[j - i + 1] ELSE Read(q, j)
<1> DEFINE K(a) == (a - (q.head + i * SIZE)) % q.half
           m == [a \in DOMAIN q.mem |->
                  IF K(a) < Len(s) * SIZE
                  THEN <<s[(K(a) \div SIZE) + 1], K(a) % SIZE>>
                  ELSE q.mem[a]]
           A(k) == Phys(q, q.head + j * SIZE + k)
           w == Write(q, i, s)
           n == Len(s)
<1>1. w = [q EXCEPT !.mem = m]
  BY DEF Write
<1>2. ASSUME NEW k \in 0 .. SIZE - 1
      PROVE  /\ SlotByte(w, j, k) = m[A(k)] /\ A(k) \in DOMAIN q.mem
             /\ (i <= j /\ j < i + n) => K(A(k)) = (j - i) * SIZE + k /\ K(A(k)) < n * SIZE
             /\ ~(i <= j /\ j < i + n) => ~(K(A(k)) < n * SIZE)
  <2>1. SlotByte(w, j, k) = m[A(k)]
    <3> HIDE DEF m
    <3> QED
      BY <1>1, RewrittenByte
  <2>2. n \in Int
    OBVIOUS
  <2> QED
    BY <2>1, <2>2, Window
<1>3. CASE i <= j /\ j < i + n
  <2>1. j - i + 1 \in 1 .. n
    BY <1>3, Basics
  <2>2. s[j - i + 1] \in Elem
    BY <2>1
  <2>3. ASSUME NEW k \in 0 .. SIZE - 1
        PROVE  SlotByte(w, j, k) = <<s[j - i + 1], k>>
    <3> DEFINE o == K(A(k))
    <3>1. o = (j - i) * SIZE + k /\ o < n * SIZE /\ A(k) \in DOMAIN q.mem
      BY <1>2, <1>3
    <3>2. m[A(k)] = <<s[(o \div SIZE) + 1], o % SIZE>>
      BY <3>1
    <3> HIDE DEF o
    <3>3. o \div SIZE = j - i /\ o % SIZE = k
      <4>1. SIZE \in Nat \ {0} /\ j - i \in Int
        BY LayoutAssumption
      <4> DEFINE v == j - i
      <4>2. v \in Int /\ o \in Int /\ o = SIZE * v + k
        BY <3>1, <4>1
      <4> HIDE DEF v
      <4>3. o % SIZE = k
        BY <4>1, <4>2, ModUnique
      <4>4. o \div SIZE \in Int /\ o = SIZE * (o \div SIZE) + k
        BY <4>1, <4>2, <4>3, DivMod
      <4> DEFINE u == o \div SIZE
      <4> HIDE DEF u
      <4>5. u \in Int /\ u * SIZE = v * SIZE
        BY <4>1, <4>2, <4>4 DEF u
      <4>6. u = v
        <5>1. ~(u + 1 <= v)
          <6> SUFFICES ASSUME u + 1 <= v PROVE FALSE
            OBVIOUS
          <6>1. (u + 1) * SIZE <= v * SIZE
            BY <4>1, <4>2, <4>5, MulMonotone
          <6> QED
            BY <4>1, <4>2, <4>5, <6>1
        <5>2. ~(v + 1 <= u)
          <6> SUFFICES ASSUME v + 1 <= u PROVE FALSE
            OBVIOUS
          <6>1. (v + 1) * SIZE <= u * SIZE
            BY <4>1, <4>2, <4>5, MulMonotone
          <6> QED
            BY <4>1, <4>2, <4>5, <6>1
        <5> QED
          BY <4>2, <4>5, <5>1, <5>2
      <4> QED
        BY <4>3, <4>6 DEF u, v
    <3> QED
      BY <1>2, <3>2, <3>3
  <2> HIDE DEF w
  <2> QED
    BY <1>3, <2>2, <2>3, ReadValue DEF w
<1>4. CASE ~(i <= j /\ j < i + n)
  <2>1. ASSUME NEW k \in 0 .. SIZE - 1
        PROVE  SlotByte(w, j, k) = SlotByte(q, j, k)
    BY <1>2, <1>4 DEF SlotByte
  <2> HIDE DEF w
  <2> QED
    BY <1>4, <2>1, SameRead DEF w
<1> QED
  BY <1>3, <1>4

\* ptr::copy: the slots that are copied to hold what the source's held, also
\* when the source is the deque itself and the ranges overlap.
LEMMA CopyRead ==
  ASSUME NEW src, NEW i \in Int, NEW q, WF(q), NEW j \in Int, NEW n \in Int, Within(q, j, n),
         src.head \in Int, NEW l \in 0 .. capacity(q) - 1
  PROVE  Read(Copy(src, i, q, j, n), l)
           = IF j <= l /\ l < j + n THEN Read(src, i + (l - j)) ELSE Read(q, l)
<1> DEFINE K(a) == (a - (q.head + j * SIZE)) % q.half
           m == [a \in DOMAIN q.mem |->
                  IF K(a) < n * SIZE
                  THEN src.mem[Phys(src, src.head + i * SIZE + K(a))]
                  ELSE q.mem[a]]
           A(k) == Phys(q, q.head + l * SIZE + k)
           c == Copy(src, i, q, j, n)
<1>1. c = [q EXCEPT !.mem = m]
  BY DEF Copy
<1>2. ASSUME NEW k \in 0 .. SIZE - 1
      PROVE  /\ SlotByte(c, l, k) = m[A(k)] /\ A(k) \in DOMAIN q.mem
             /\ (j <= l /\ l < j + n) => K(A(k)) = (l - j) * SIZE + k /\ K(A(k)) < n * SIZE
             /\ ~(j <= l /\ l < j + n) => ~(K(A(k)) < n * SIZE)
  <2>1. SlotByte(c, l, k) = m[A(k)]
    <3> HIDE DEF m
    <3> QED
      BY <1>1, RewrittenByte
  <2> QED
    BY <2>1, Window
<1>3. CASE j <= l /\ l < j + n
  <2>1. ASSUME NEW k \in 0 .. SIZE - 1
        PROVE  SlotByte(c, l, k) = SlotByte(src, i + (l - j), k)
    <3> DEFINE o == K(A(k))
    <3>1. o = (l - j) * SIZE + k /\ o < n * SIZE /\ A(k) \in DOMAIN q.mem
      BY <1>2, <1>3
    <3>2. m[A(k)] = src.mem[Phys(src, src.head + i * SIZE + o)]
      BY <3>1
    <3> HIDE DEF o
    <3>3. src.head + i * SIZE + o = src.head + (i + (l - j)) * SIZE + k
      <4>1. SIZE \in Nat /\ l \in Int /\ k \in Int
        BY LayoutAssumption
      <4>2. (i + (l - j)) * SIZE = i * SIZE + (l - j) * SIZE
        BY <4>1
      <4>3. i * SIZE \in Int /\ (l - j) * SIZE \in Int
        BY <4>1
      <4> QED
        BY <3>1, <4>1, <4>2, <4>3
    <3> QED
      BY <1>2, <3>2, <3>3 DEF SlotByte
  <2> HIDE DEF c
  <2> QED
    BY <1>3, <2>1, SameRead DEF c
<1>4. CASE ~(j <= l /\ l < j + n)
  <2>1. ASSUME NEW k \in 0 .. SIZE - 1
        PROVE  SlotByte(c, l, k) = SlotByte(q, l, k)
    BY <1>2, <1>4 DEF SlotByte
  <2> HIDE DEF c
  <2> QED
    BY <1>4, <2>1, SameRead DEF c
<1> QED
  BY <1>3, <1>4

\* The end of a call keeps what is in the slice.
LEMMA SettleRead ==
  ASSUME NEW q, WF(q), NEW l \in 0 .. q.len - 1
  PROVE  Read(Settle(q), l) = Read(q, l)
<1> DEFINE m == [a \in DOMAIN q.mem |->
                  IF (a - q.head) % q.half < q.len * SIZE THEN q.mem[a] ELSE Junk]
           A(k) == Phys(q, q.head + l * SIZE + k)
<1>1. Settle(q) = [q EXCEPT !.mem = m]
  BY DEF Settle
<1>2. /\ q.len \in Nat /\ l \in 0 .. capacity(q) - 1 /\ Within(q, 0, q.len)
      /\ q.head + 0 * SIZE = q.head
  <2>1. q.head \in Nat /\ SIZE \in Nat
    BY LayoutAssumption DEF WF, IsDeque
  <2>2. q.len \in Nat /\ capacity(q) \in Nat /\ q.len <= capacity(q)
    BY Basics
  <2> QED
    BY <2>1, <2>2 DEF Within
<1>3. ASSUME NEW k \in 0 .. SIZE - 1
      PROVE  SlotByte(Settle(q), l, k) = SlotByte(q, l, k)
  <2>1. SlotByte(Settle(q), l, k) = m[A(k)]
    <3> HIDE DEF m
    <3> QED
      BY <1>1, RewrittenByte
  <2>2. /\ A(k) \in DOMAIN q.mem
        /\ (A(k) - (q.head + 0 * SIZE)) % q.half < q.len * SIZE
    BY <1>2, Window
  <2>3. m[A(k)] = q.mem[A(k)]
    BY <1>2, <2>2
  <2> QED
    BY <2>1, <2>3 DEF SlotByte
<1> QED
  BY <1>3, SameRead

\* The destructors of n slots leave the bytes of the others alone.
LEMMA DropRead ==
  ASSUME NEW q, WF(q), NEW i \in Int, NEW n \in Int, Within(q, i, n),
         NEW l \in 0 .. capacity(q) - 1, ~(i <= l /\ l < i + n)
  PROVE  Read(drop_in_place(q, q, i, n), l) = Read(q, l)
<1> DEFINE K(a) == (a - (q.head + i * SIZE)) % q.half
           m == [a \in DOMAIN q.mem |-> IF K(a) < n * SIZE THEN Junk ELSE q.mem[a]]
           A(k) == Phys(q, q.head + l * SIZE + k)
           p == drop_in_place(q, q, i, n)
<1>1. p = [q EXCEPT !.mem = m]
  BY DEF drop_in_place
<1>2. ASSUME NEW k \in 0 .. SIZE - 1
      PROVE  SlotByte(p, l, k) = SlotByte(q, l, k)
  <2>1. SlotByte(p, l, k) = m[A(k)]
    <3> HIDE DEF m
    <3> QED
      BY <1>1, RewrittenByte
  <2>2. A(k) \in DOMAIN q.mem /\ ~(K(A(k)) < n * SIZE)
    BY Window
  <2> QED
    BY <2>1, <2>2 DEF SlotByte
<1> HIDE DEF p
<1> QED
  BY <1>2, SameRead DEF p

\* The tail moves over the slots, which stay where they are.
LEMMA MoveTailRead ==
  ASSUME NEW q, WF(q), NEW x, NEW l
  PROVE  Read(move_tail_unchecked(q, x), l) = Read(q, l)
<1>1. move_tail_unchecked(q, x) = [blen |-> q.blen, half |-> q.half, mem |-> q.mem,
                                   head |-> q.head, len |-> q.len + x]
  BY DEF move_tail_unchecked, WF, IsDeque
<1>2. \A k \in 0 .. SIZE - 1 :
        SlotByte(move_tail_unchecked(q, x), l, k) = SlotByte(q, l, k)
  BY <1>1 DEF SlotByte, Phys
<1> QED
  BY <1>2, SameRead

\* The head moves by x slots, through the mirror where the region ends: slot l
\* is then what slot l + x was.
LEMMA MoveHeadRead ==
  ASSUME NEW q, WF(q), q.blen > 0, NEW x \in Int, NEW l \in Int
  PROVE  Read(move_head_unchecked(q, x), l) = Read(q, l + x)
<1> DEFINE begin  == q.head + x * SIZE
           region == size_in_bytes(q.blen) \div 2
           g      == IF begin < 0 THEN begin + region
                     ELSE IF begin >= region THEN begin - region ELSE begin
           p      == move_head_unchecked(q, x)
           h      == q.half
<1>1. SIZE \in Nat \ {0} /\ h \in Nat \ {0} /\ q.head \in Nat
  BY BufferBounds
<1>2. region = h
  <2>1. size_in_bytes(q.blen) = 2 * h
    BY DEF WF, BufferFits
  <2> QED
    BY <1>1, <2>1
<1>3. p = [blen |-> q.blen, half |-> h, mem |-> q.mem, head |-> g, len |-> q.len - x]
  BY MovedSlice DEF move_head_unchecked, WF
<1>4. begin \in Int /\ g \in {begin, begin + h, begin - h}
  BY <1>1, <1>2
<1> HIDE DEF p, g, h
<1>5. ASSUME NEW k \in 0 .. SIZE - 1
      PROVE  SlotByte(p, l, k) = SlotByte(q, l + x, k)
  <2> DEFINE a == q.head + (l + x) * SIZE + k
             b == g + l * SIZE + k
  <2>1. a \in Int /\ (b = a \/ b = a + h \/ b = a - h)
    <3>1. (l + x) * SIZE = l * SIZE + x * SIZE /\ l * SIZE \in Int /\ x * SIZE \in Int
      BY <1>1
    <3>2. a = begin + l * SIZE + k
      BY <1>1, <3>1
    <3> DEFINE y == l * SIZE
    <3>3. b = g + y + k /\ a = begin + y + k /\ y \in Int
      BY <3>1, <3>2
    <3> HIDE DEF begin, y, a, b
    <3> QED
      BY <1>1, <1>4, <3>3
  <2> HIDE DEF a, b
  <2>2. b % h = a % h
    BY <1>1, <2>1, ModShift, ZenonT(30)
  <2>3. SlotByte(p, l, k) = q.mem[b % h]
    BY <1>3 DEF SlotByte, Phys, b
  <2>4. SlotByte(q, l + x, k) = q.mem[a % h]
    BY DEF SlotByte, Phys, a, h
  <2> QED
    BY <2>2, <2>3, <2>4
<1> QED
  BY <1>5, SameRead DEF p

-----------------------------------------------------------------------------
(* Sequences.                                                              *)

\* What a slot holds.
Slot == Elem \cup {Junk}

\* Reading gives a value of T, or finds none.
LEMMA ReadType ==
  ASSUME NEW q, WF(q), q.blen > 0, NEW i \in Int
  PROVE  Read(q, i) \in Slot
<1> DEFINE b == [k \in 0 .. SIZE - 1 |-> q.mem[Phys(q, q.head + i * SIZE + k)]]
<1>1. Read(q, i) = IF b[0] # Junk /\ \A k \in 0 .. SIZE - 1 : b[k] = <<b[0][1], k>>
                   THEN b[0][1] ELSE Junk
  BY DEF Read
<1>2. 0 \in 0 .. SIZE - 1 /\ q.mem \in [0 .. q.half - 1 -> Byte]
  BY LayoutAssumption DEF WF, IsDeque
<1>3. Phys(q, q.head + i * SIZE + 0) \in DOMAIN q.mem
  BY <1>2, ByteAt
<1>4. b[0] \in Byte
  BY <1>2, <1>3
<1> HIDE DEF b
<1> QED
  BY <1>1, <1>4 DEF Byte, Slot

\* The contents of a deque are a sequence as long as its slice.
LEMMA ContentsSeq ==
  ASSUME NEW q, WF(q)
  PROVE  /\ Contents(q) \in Seq(Slot) /\ Len(Contents(q)) = q.len
         /\ \A i \in 0 .. q.len - 1 : Contents(q)[i + 1] = Read(q, i)
         /\ \A i \in 0 .. q.len - 1 : Read(q, i) \in Slot
<1>1. q.len \in Nat /\ (q.len > 0 => q.blen > 0)
  BY Basics
<1>2. \A i \in 0 .. q.len - 1 : Read(q, i) \in Slot
  BY <1>1, ReadType
<1>3. Contents(q) = [j \in 1 .. q.len |-> Read(q, j - 1)]
  BY <1>1 DEF Contents, Reads
<1>4. \A j \in 1 .. q.len : Read(q, j - 1) \in Slot
  BY <1>1, <1>2
<1>5. Contents(q) \in Seq(Slot) /\ Len(Contents(q)) = q.len
  BY <1>1, <1>3, <1>4
<1>6. \A i \in 0 .. q.len - 1 : Contents(q)[i + 1] = Read(q, i)
  BY <1>1, <1>3
<1> QED
  BY <1>2, <1>5, <1>6

\* A deque whose slots hold the elements of s, one by one, holds s.
LEMMA ContentsAre ==
  ASSUME NEW q, q.len \in Nat, NEW s \in Seq(Slot), Len(s) = q.len,
         \A i \in 0 .. q.len - 1 : Read(q, i) = s[i + 1]
  PROVE  Contents(q) = s
<1>1. Contents(q) = [j \in 1 .. q.len |-> Read(q, j - 1)]
  BY DEF Contents, Reads
<1>2. s = [j \in 1 .. Len(s) |-> s[j]]
  OBVIOUS
<1>3. \A j \in 1 .. q.len : Read(q, j - 1) = s[j]
  OBVIOUS
<1> QED
  BY <1>1, <1>2, <1>3

\* Concatenation, element by element.
LEMMA ConcatAt ==
  ASSUME NEW V, NEW s \in Seq(V), NEW t \in Seq(V)
  PROVE  /\ s \o t \in Seq(V) /\ Len(s \o t) = Len(s) + Len(t)
         /\ \A i \in 1 .. Len(s) + Len(t) :
              (s \o t)[i] = IF i <= Len(s) THEN s[i] ELSE t[i - Len(s)]
  OBVIOUS

\* A part of a sequence, element by element.
LEMMA SubSeqAt ==
  ASSUME NEW V, NEW s \in Seq(V), NEW m \in Nat \ {0}, NEW n \in Nat, n <= Len(s), m <= n + 1
  PROVE  /\ SubSeq(s, m, n) \in Seq(V) /\ Len(SubSeq(s, m, n)) = n - m + 1
         /\ \A i \in 1 .. n - m + 1 : SubSeq(s, m, n)[i] = s[i + m - 1]
  OBVIOUS

\* Vec::insert on sequences, element by element.
LEMMA InsertAtAt ==
  ASSUME NEW V, NEW s \in Seq(V), NEW n \in 1 .. Len(s) + 1, NEW e \in V
  PROVE  /\ InsertAt(s, n, e) \in Seq(V) /\ Len(InsertAt(s, n, e)) = Len(s) + 1
         /\ \A i \in 1 .. Len(s) + 1 :
              InsertAt(s, n, e)[i]
                = IF i < n THEN s[i] ELSE IF i = n THEN e ELSE s[i - 1]
<1> DEFINE a == SubSeq(s, 1, n - 1)
           b == SubSeq(s, n, Len(s))
           c == a \o <<e>>
<1>1. a \in Seq(V) /\ Len(a) = n - 1 /\ \A i \in 1 .. n - 1 : a[i] = s[i]
  OBVIOUS
<1>2. /\ b \in Seq(V) /\ Len(b) = Len(s) - n + 1
      /\ \A i \in 1 .. Len(s) - n + 1 : b[i] = s[i + n - 1]
  OBVIOUS
<1>3. InsertAt(s, n, e) = c \o b
  BY DEF InsertAt
<1> HIDE DEF a, b
<1>4. /\ c \in Seq(V) /\ Len(c) = n
      /\ \A i \in 1 .. n : c[i] = IF i < n THEN s[i] ELSE e
  BY <1>1, ConcatAt
<1> HIDE DEF c
<1>5. /\ c \o b \in Seq(V) /\ Len(c \o b) = Len(c) + Len(b)
      /\ \A i \in 1 .. Len(c) + Len(b) :
           (c \o b)[i] = IF i <= Len(c) THEN c[i] ELSE b[i - Len(c)]
  BY <1>2, <1>4, ConcatAt
<1>6. Len(s) \in Nat /\ Len(c) + Len(b) = Len(s) + 1
  BY <1>2, <1>4
<1>7. ASSUME NEW i \in 1 .. Len(s) + 1
      PROVE  (c \o b)[i] = IF i < n THEN s[i] ELSE IF i = n THEN e ELSE s[i - 1]
  <2>1. CASE i <= n
    BY <1>4, <1>5, <1>6, <2>1
  <2>2. CASE i > n
    <3>1. i - n \in 1 .. Len(s) - n + 1 /\ (i - n) + n - 1 = i - 1
      BY <1>6, <2>2
    <3>2. (c \o b)[i] = b[i - n]
      BY <1>4, <1>5, <1>6, <2>2
    <3>3. b[i - n] = s[(i - n) + n - 1]
      BY <1>2, <3>1
    <3> QED
      BY <2>2, <3>1, <3>2, <3>3
  <2> QED
    BY <1>6, <2>1, <2>2
<1> QED
  BY <1>3, <1>5, <1>6, <1>7

\* Vec::remove on sequences, element by element.
LEMMA RemoveAtAt ==
  ASSUME NEW V, NEW s \in Seq(V), NEW n \in 1 .. Len(s)
  PROVE  /\ RemoveAt(s, n) \in Seq(V) /\ Len(RemoveAt(s, n)) = Len(s) - 1
         /\ \A i \in 1 .. Len(s) - 1 :
              RemoveAt(s, n)[i] = IF i < n THEN s[i] ELSE s[i + 1]
<1> DEFINE a == SubSeq(s, 1, n - 1)
           b == SubSeq(s, n + 1, Len(s))
<1>1. a \in Seq(V) /\ Len(a) = n - 1 /\ \A i \in 1 .. n - 1 : a[i] = s[i]
  OBVIOUS
<1>2. /\ b \in Seq(V) /\ Len(b) = Len(s) - n
      /\ \A i \in 1 .. Len(s) - n : b[i] = s[i + n]
  OBVIOUS
<1>3. RemoveAt(s, n) = a \o b
  BY DEF RemoveAt
<1> HIDE DEF a, b
<1>4. /\ a \o b \in Seq(V) /\ Len(a \o b) = Len(a) + Len(b)
      /\ \A i \in 1 .. Len(a) + Len(b) :
           (a \o b)[i] = IF i <= Len(a) THEN a[i] ELSE b[i - Len(a)]
  BY <1>1, <1>2, ConcatAt
<1>5. Len(s) \in Nat /\ Len(a) + Len(b) = Len(s) - 1
  BY <1>1, <1>2
<1>6. ASSUME NEW i \in 1 .. Len(s) - 1
      PROVE  (a \o b)[i] = IF i < n THEN s[i] ELSE s[i + 1]
  <2>1. CASE i < n
    BY <1>1, <1>4, <1>5, <2>1
  <2>2. CASE i >= n
    <3>1. i - (n - 1) \in 1 .. Len(s) - n /\ (i - (n - 1)) + n = i + 1
      BY <1>5, <2>2
    <3>2. (a \o b)[i] = b[i - (n - 1)]
      BY <1>1, <1>4, <1>5, <2>2
    <3>3. b[i - (n - 1)] = s[(i - (n - 1)) + n]
      BY <1>2, <3>1
    <3> QED
      BY <2>2, <3>1, <3>2, <3>3
  <2> QED
    BY <1>5, <2>1, <2>2
<1> QED
  BY <1>3, <1>4, <1>5, <1>6

-----------------------------------------------------------------------------
(* The operations on the elements of one deque.                            *)

\* The end of a call keeps the contents and the buffer.
LEMMA SettleContents ==
  ASSUME NEW q, WF(q)
  PROVE  /\ WF(Settle(q)) /\ Settle(q).len = q.len
         /\ capacity(Settle(q)) = capacity(q) /\ Contents(Settle(q)) = Contents(q)
<1> DEFINE m == [a \in DOMAIN q.mem |->
                  IF (a - q.head) % q.half < q.len * SIZE THEN q.mem[a] ELSE Junk]
           p == Settle(q)
<1>1. p = [q EXCEPT !.mem = m]
  BY DEF Settle
<1> HIDE DEF m
<1>2. p.len = q.len /\ p.blen = q.blen
  BY <1>1 DEF WF, IsDeque
<1>3. WF(p)
  BY SettleWF
<1> HIDE DEF p
<1>4. capacity(p) = capacity(q)
  BY <1>2 DEF capacity
<1>5. /\ Contents(q) \in Seq(Slot) /\ Len(Contents(q)) = q.len /\ q.len \in Nat
      /\ \A i \in 0 .. q.len - 1 : Contents(q)[i + 1] = Read(q, i)
  BY ContentsSeq, Basics
<1>6. \A i \in 0 .. p.len - 1 : Read(p, i) = Contents(q)[i + 1]
  BY <1>2, <1>5, SettleRead DEF p
<1>7. Contents(p) = Contents(q)
  BY <1>2, <1>5, <1>6, ContentsAre
<1> QED
  BY <1>2, <1>3, <1>4, <1>7 DEF p

\* Values that are written behind the slice follow its elements.
LEMMA PushAllContents ==
  ASSUME NEW q, NEW s \in Seq(Elem), WF(q), q.len + Len(s) <= capacity(q)
  PROVE  Contents(PushAll(q, s)) = Contents(q) \o s
<1> DEFINE n == Len(s)
           p == move_tail_unchecked(q, n)
           w == PushAll(q, s)
           c == Contents(q)
           t == c \o s
<1>1. q.len \in Nat /\ n \in Nat /\ capacity(q) \in Nat /\ q.len + n \in 0 .. capacity(q)
  BY Basics
<1>2. WF(p) /\ capacity(p) = capacity(q)
  BY <1>1, MoveTailWF
<1>3. w.len = q.len + n
  BY PushAllWF
<1>4. c \in Seq(Slot) /\ Len(c) = q.len /\ \A i \in 0 .. q.len - 1 : c[i + 1] = Read(q, i)
  BY ContentsSeq
<1>5. /\ t \in Seq(Slot) /\ Len(t) = q.len + n
      /\ \A i \in 1 .. q.len + n : t[i] = IF i <= q.len THEN c[i] ELSE s[i - q.len]
  <2>1. s \in Seq(Slot)
    BY DEF Slot
  <2> HIDE DEF c
  <2>2. /\ t \in Seq(Slot) /\ Len(t) = Len(c) + Len(s)
        /\ \A i \in 1 .. Len(c) + Len(s) :
             t[i] = IF i <= Len(c) THEN c[i] ELSE s[i - Len(c)]
    BY <1>4, <2>1, ConcatAt
  <2> HIDE DEF t
  <2> QED
    BY <1>4, <2>2
<1> HIDE DEF t
<1>6. ASSUME NEW i \in 0 .. w.len - 1
      PROVE  Read(w, i) = t[i + 1]
  <2>1. i \in 0 .. capacity(p) - 1 /\ Within(p, q.len, n) /\ i + 1 \in 1 .. q.len + n
    BY <1>1, <1>2, <1>3 DEF Within
  <2> HIDE DEF p
  <2>2. Read(Write(p, q.len, s), i)
          = IF q.len <= i /\ i < q.len + n THEN s[i - q.len + 1] ELSE Read(p, i)
    BY <1>1, <1>2, <2>1, WriteRead
  <2>3. Read(w, i) = IF q.len <= i THEN s[i - q.len + 1] ELSE Read(q, i)
    BY <1>1, <1>3, <2>2, MoveTailRead DEF PushAll, p
  <2> HIDE DEF w, c, n
  <2>4. CASE q.len <= i
    <3> DEFINE j == i + 1
               l == i - q.len + 1
    <3>1. j \in 1 .. q.len + n /\ ~(j <= q.len) /\ j - q.len = l
      BY <1>1, <2>1, <2>4, SMTT(30)
    <3>2. Read(w, i) = s[l]
      BY <2>3, <2>4
    <3> HIDE DEF j, l
    <3>3. t[j] = s[l]
      BY <1>5, <3>1
    <3> QED
      BY <3>2, <3>3 DEF j
  <2>5. CASE i < q.len
    <3>1. i + 1 \in 1 .. q.len + n /\ i + 1 <= q.len /\ i \in 0 .. q.len - 1 /\ ~(q.len <= i)
      BY <1>1, <2>1, <2>5
    <3> QED
      BY <1>4, <1>5, <2>3, <3>1
  <2> QED
    BY <1>1, <2>4, <2>5
<1> HIDE DEF w
<1>7. Contents(w) = t
  BY <1>1, <1>3, <1>5, <1>6, ContentsAre
<1> QED
  BY <1>7 DEF w, t

\* A value that is written in front of the slice precedes its elements.
LEMMA PrependContents ==
  ASSUME NEW q, NEW e \in Elem, WF(q), q.len + 1 <= capacity(q)
  PROVE  LET w == Write(move_head_unchecked(q, -1), 0, <<e>>)
         IN  /\ WF(w) /\ w.len = q.len + 1 /\ capacity(w) = capacity(q)
             /\ Contents(w) = <<e>> \o Contents(q)
<1> DEFINE x == -1
           p == move_head_unchecked(q, x)
           s == <<e>>
           w == Write(p, 0, s)
           c == Contents(q)
           t == s \o c
<1>1. /\ q.len \in Nat /\ capacity(q) \in Nat /\ q.blen > 0
      /\ x \in Int /\ q.len - x = q.len + 1 /\ q.len - x \in 0 .. capacity(q)
  BY Basics
<1>2. WF(p) /\ capacity(p) = capacity(q) /\ p.len = q.len + 1
  BY <1>1, MoveHeadWF
<1>3. ASSUME NEW l \in Int
      PROVE  Read(p, l) = Read(q, l - 1)
  <2>1. Read(p, l) = Read(q, l + x)
    BY <1>1, MoveHeadRead
  <2> QED
    BY <2>1, l + x = l - 1
<1>4. s \in Seq(Elem) /\ s \in Seq(Slot) /\ Len(s) = 1 /\ s[1] = e /\ 0 \in Int
  BY DEF Slot
<1> HIDE DEF p, s
<1>5. WF(w) /\ capacity(w) = capacity(q) /\ w.len = q.len + 1
  BY <1>2, <1>4, WriteWF
<1>6. c \in Seq(Slot) /\ Len(c) = q.len /\ \A i \in 0 .. q.len - 1 : c[i + 1] = Read(q, i)
  BY ContentsSeq
<1>7. /\ t \in Seq(Slot) /\ Len(t) = q.len + 1
      /\ \A i \in 1 .. q.len + 1 : t[i] = IF i = 1 THEN e ELSE c[i - 1]
  <2> HIDE DEF c
  <2>1. /\ t \in Seq(Slot) /\ Len(t) = Len(s) + Len(c)
        /\ \A i \in 1 .. Len(s) + Len(c) : t[i] = IF i <= Len(s) THEN s[i] ELSE c[i - Len(s)]
    BY <1>4, <1>6, ConcatAt
  <2> HIDE DEF t
  <2>2. Len(s) + Len(c) = q.len + 1
    BY <1>1, <1>4, <1>6
  <2>3. ASSUME NEW i \in 1 .. q.len + 1
        PROVE  t[i] = IF i = 1 THEN e ELSE c[i - 1]
    BY <1>1, <1>4, <2>1, <2>2
  <2> QED
    BY <2>1, <2>2, <2>3
<1>8. ASSUME NEW i \in 0 .. w.len - 1
      PROVE  Read(w, i) = t[i + 1]
  <2>1. i \in 0 .. capacity(p) - 1 /\ Within(p, 0, Len(s)) /\ i + 1 \in 1 .. q.len + 1
    BY <1>1, <1>2, <1>4, <1>5 DEF Within
  <2>2. Read(w, i) = IF 0 <= i /\ i < 0 + Len(s) THEN s[i - 0 + 1] ELSE Read(p, i)
    BY <1>2, <1>4, <2>1, WriteRead
  <2> HIDE DEF w, c, t
  <2>3. CASE i = 0
    BY <1>4, <1>7, <2>1, <2>2, <2>3
  <2>4. CASE i > 0
    <3>1. i - 1 \in 0 .. q.len - 1 /\ (i - 1) + 1 = i /\ i + 1 # 1 /\ (i + 1) - 1 = i
      BY <1>1, <2>1, <2>4
    <3>2. Read(w, i) = Read(q, i - 1)
      BY <1>3, <1>4, <2>1, <2>2, <2>4
    <3>3. Read(q, i - 1) = c[i]
      BY <1>6, <3>1
    <3> QED
      BY <1>7, <2>1, <3>1, <3>2, <3>3
  <2> QED
    BY <2>1, <2>3, <2>4
<1> HIDE DEF w, t
<1>9. Contents(w) = t
  BY <1>1, <1>5, <1>7, <1>8, ContentsAre
<1> QED
  BY <1>5, <1>9 DEF w, p, t, s

\* A tail that moves back cuts the last elements off.
LEMMA TailCut ==
  ASSUME NEW q, WF(q), NEW n \in 0 .. q.len
  PROVE  LET p == move_tail_unchecked(q, -(q.len - n))
         IN  /\ WF(p) /\ p.len = n /\ capacity(p) = capacity(q)
             /\ Contents(p) = SubSeq(Contents(q), 1, n)
<1> DEFINE x == -(q.len - n)
           p == move_tail_unchecked(q, x)
           c == Contents(q)
           t == SubSeq(c, 1, n)
<1>1. /\ q.len \in Nat /\ n \in Nat /\ n <= q.len /\ capacity(q) \in Nat
      /\ x \in Int /\ q.len + x = n /\ q.len + x \in 0 .. capacity(q)
  BY Basics
<1> HIDE DEF x
<1>2. WF(p) /\ p.len = n /\ capacity(p) = capacity(q)
  BY <1>1, MoveTailWF
<1>3. c \in Seq(Slot) /\ Len(c) = q.len /\ \A i \in 0 .. q.len - 1 : c[i + 1] = Read(q, i)
  BY ContentsSeq
<1>4. ASSUME NEW i \in 0 .. p.len - 1
      PROVE  Read(p, i) = c[i + 1]
  BY <1>1, <1>2, <1>3, MoveTailRead
<1> HIDE DEF p, c
<1>5. t \in Seq(Slot) /\ Len(t) = n /\ \A i \in 1 .. n : t[i] = c[i]
  BY <1>1, <1>3
<1> HIDE DEF t
<1>6. \A i \in 0 .. p.len - 1 : Read(p, i) = t[i + 1]
  BY <1>1, <1>2, <1>4, <1>5
<1>7. Contents(p) = t
  BY <1>1, <1>2, <1>5, <1>6, ContentsAre
<1> QED
  BY <1>2, <1>7 DEF p, x, t, c

\* A head that moves forward cuts the first elements off.
LEMMA HeadCut ==
  ASSUME NEW q, WF(q), q.len > 0, NEW x \in 0 .. q.len
  PROVE  LET p == move_head_unchecked(q, x)
         IN  /\ WF(p) /\ p.len = q.len - x /\ capacity(p) = capacity(q)
             /\ Contents(p) = SubSeq(Contents(q), x + 1, q.len)
<1> DEFINE p == move_head_unchecked(q, x)
           c == Contents(q)
           t == SubSeq(c, x + 1, q.len)
<1>1. /\ q.len \in Nat /\ q.blen > 0 /\ x \in Nat /\ x <= q.len /\ capacity(q) \in Nat
      /\ x \in Int /\ q.len - x \in 0 .. capacity(q)
  BY Basics
<1>2. WF(p) /\ p.len = q.len - x /\ capacity(p) = capacity(q)
  BY <1>1, MoveHeadWF
<1>3. c \in Seq(Slot) /\ Len(c) = q.len /\ \A i \in 0 .. q.len - 1 : c[i + 1] = Read(q, i)
  BY ContentsSeq
<1> HIDE DEF c
<1>4. /\ t \in Seq(Slot) /\ Len(t) = q.len - x
      /\ \A i \in 1 .. q.len - x : t[i] = c[i + x]
  BY <1>1, <1>3
<1> HIDE DEF t
<1>5. ASSUME NEW i \in 0 .. p.len - 1
      PROVE  Read(p, i) = t[i + 1]
  <2>1. i + x \in 0 .. q.len - 1 /\ i + 1 \in 1 .. q.len - x /\ (i + x) + 1 = (i + 1) + x
    BY <1>1, <1>2
  <2>2. Read(p, i) = Read(q, i + x)
    BY <1>1, MoveHeadRead
  <2> HIDE DEF p
  <2>3. Read(q, i + x) = c[(i + x) + 1]
    BY <1>3, <2>1
  <2>4. t[i + 1] = c[(i + 1) + x]
    BY <1>4, <2>1
  <2> QED
    BY <2>1, <2>2, <2>3, <2>4
<1> HIDE DEF p
<1>6. Contents(p) = t
  BY <1>1, <1>2, <1>4, <1>5, ContentsAre
<1> QED
  BY <1>2, <1>6 DEF p, t, c

\* Destructors that run on the slots of a deque leave its slice in place.
LEMMA DroppedSlice ==
  ASSUME NEW q, WF(q), NEW i, NEW n, NEW x \in Int
  PROVE  LET g == drop_in_place(q, q, i, n)
         IN  /\ WF(g) /\ g.len = q.len /\ g.blen = q.blen /\ capacity(g) = capacity(q)
             /\ drop_in_place(move_tail_unchecked(q, x), q, i, n) = move_tail_unchecked(g, x)
             /\ drop_in_place(move_head_unchecked(q, x), q, i, n) = move_head_unchecked(g, x)
<1> DEFINE m == [a \in DOMAIN q.mem |->
                  IF (a - (q.head + i * SIZE)) % q.half < n * SIZE THEN Junk ELSE q.mem[a]]
           g == drop_in_place(q, q, i, n)
           begin  == q.head + x * SIZE
           region == size_in_bytes(q.blen) \div 2
           h      == IF begin < 0 THEN begin + region
                     ELSE IF begin >= region THEN begin - region ELSE begin
           tq == move_tail_unchecked(q, x)
           hq == move_head_unchecked(q, x)
<1>1. WF(g)
  BY DropWF
<1>2. g = [q EXCEPT !.mem = m]
  BY DEF drop_in_place
<1>3. /\ tq = [blen |-> q.blen, half |-> q.half, mem |-> q.mem, head |-> q.head, len |-> q.len + x]
      /\ hq = [blen |-> q.blen, half |-> q.half, mem |-> q.mem, head |-> h, len |-> q.len - x]
  <2>1. tq = [blen |-> q.blen, half |-> q.half, mem |-> q.mem, head |-> q.head, len |-> q.len + x]
    BY DEF WF, IsDeque, move_tail_unchecked
  <2>2. hq = [blen |-> q.blen, half |-> q.half, mem |-> q.mem, head |-> h, len |-> q.len - x]
    BY MovedSlice DEF WF, move_head_unchecked
  <2> QED
    BY <2>1, <2>2
<1>4. /\ drop_in_place(tq, q, i, n) = [tq EXCEPT !.mem = m]
      /\ drop_in_place(hq, q, i, n) = [hq EXCEPT !.mem = m]
  <2>1. tq.mem = q.mem /\ hq.mem = q.mem
    <3> HIDE DEF tq, hq, h
    <3> QED
      BY <1>3
  <2> HIDE DEF tq, hq
  <2> QED
    BY <2>1 DEF drop_in_place
<1> HIDE DEF m, g, h, tq, hq
<1>5. g = [blen |-> q.blen, half |-> q.half, mem |-> m, head |-> q.head, len |-> q.len]
  BY <1>2 DEF WF, IsDeque
<1>6. g.len = q.len /\ g.blen = q.blen /\ g.head = q.head /\ capacity(g) = capacity(q)
  BY <1>5 DEF capacity
<1>7. move_tail_unchecked(g, x)
        = [blen |-> q.blen, half |-> q.half, mem |-> m, head |-> q.head, len |-> q.len + x]
  BY <1>5 DEF move_tail_unchecked
<1>8. move_head_unchecked(g, x)
        = [blen |-> q.blen, half |-> q.half, mem |-> m, head |-> h, len |-> q.len - x]
  <2>1. move_head_unchecked(g, x) = [g EXCEPT !.head = h, !.len = q.len - x]
    BY <1>6 DEF move_head_unchecked, h
  <2>2. IsDeque(g)
    BY <1>1 DEF WF
  <2> QED
    BY <1>5, <2>1, <2>2, MovedSlice
<1>9. /\ [tq EXCEPT !.mem = m] = move_tail_unchecked(g, x)
      /\ [hq EXCEPT !.mem = m] = move_head_unchecked(g, x)
  BY <1>3, <1>7, <1>8
<1> QED
  BY <1>1, <1>4, <1>6, <1>9 DEF g, tq, hq

\* truncate_back: the destructors of the last elements do not reach the others.
LEMMA TruncateBackContents ==
  ASSUME NEW q, WF(q), NEW n \in 0 .. q.len
  PROVE  LET d == q.len - n
             p == drop_in_place(move_tail_unchecked(q, -d), q, n, d)
         IN  /\ WF(p) /\ p.len = n /\ capacity(p) = capacity(q)
             /\ Contents(p) = SubSeq(Contents(q), 1, n)
<1> DEFINE d == q.len - n
           g == drop_in_place(q, q, n, d)
           p == move_tail_unchecked(g, -(g.len - n))
           c == Contents(q)
           t == SubSeq(c, 1, n)
<1>1. /\ q.len \in Nat /\ n \in Nat /\ n <= q.len /\ capacity(q) \in Nat /\ q.len <= capacity(q)
      /\ d \in Int /\ -d \in Int
  BY Basics
<1>2. /\ WF(g) /\ g.len = q.len /\ capacity(g) = capacity(q)
      /\ drop_in_place(move_tail_unchecked(q, -d), q, n, d) = move_tail_unchecked(g, -d)
  BY <1>1, DroppedSlice
<1>3. ASSUME NEW i \in 0 .. n - 1
      PROVE  Read(g, i) = Read(q, i)
  <2>1. i \in 0 .. capacity(q) - 1 /\ ~(n <= i /\ i < n + d) /\ Within(q, n, d) /\ n \in Int
    BY <1>1 DEF Within
  <2> HIDE DEF d
  <2> QED
    BY <1>1, <2>1, DropRead
<1> HIDE DEF g
<1>4. /\ WF(p) /\ p.len = n /\ capacity(p) = capacity(q)
      /\ Contents(p) = SubSeq(Contents(g), 1, n)
  BY <1>1, <1>2, TailCut
<1>5. /\ c \in Seq(Slot) /\ Len(c) = q.len /\ \A i \in 0 .. q.len - 1 : c[i + 1] = Read(q, i)
      /\ Contents(g) \in Seq(Slot) /\ Len(Contents(g)) = q.len
      /\ \A i \in 0 .. q.len - 1 : Contents(g)[i + 1] = Read(g, i)
  BY <1>2, ContentsSeq
<1>6. SubSeq(Contents(g), 1, n) = SubSeq(c, 1, n)
  <2> DEFINE a == Contents(g)
             u == SubSeq(a, 1, n)
  <2>1. \A i \in 1 .. n : a[i] = c[i]
    <3> SUFFICES ASSUME NEW i \in 1 .. n PROVE a[i] = c[i]
      OBVIOUS
    <3>1. i - 1 \in 0 .. n - 1 /\ i - 1 \in 0 .. q.len - 1 /\ (i - 1) + 1 = i
      BY <1>1
    <3> HIDE DEF a, c
    <3> QED
      BY <1>3, <1>5, <3>1 DEF a
  <2> HIDE DEF a, c
  <2>2. /\ u = [i \in 1 .. n |-> a[i]]
    BY <1>1, <1>5 DEF a
  <2>3. t = [i \in 1 .. n |-> c[i]]
    BY <1>1, <1>5
  <2>4. [i \in 1 .. n |-> a[i]] = [i \in 1 .. n |-> c[i]]
    BY <2>1
  <2> QED
    BY <2>2, <2>3, <2>4 DEF a
<1> QED
  BY <1>2, <1>4, <1>6

\* truncate_front: neither do those of the first elements.
LEMMA TruncateFrontContents ==
  ASSUME NEW q, WF(q), q.len > 0, NEW x \in 0 .. q.len
  PROVE  LET p == drop_in_place(move_head_unchecked(q, x), q, 0, x)
         IN  /\ WF(p) /\ p.len = q.len - x /\ capacity(p) = capacity(q)
             /\ Contents(p) = SubSeq(Contents(q), x + 1, q.len)
<1> DEFINE g == drop_in_place(q, q, 0, x)
           p == move_head_unchecked(g, x)
           c == Contents(q)
           t == SubSeq(c, x + 1, q.len)
<1>1. /\ q.len \in Nat /\ x \in Nat /\ x <= q.len /\ capacity(q) \in Nat /\ q.len <= capacity(q)
      /\ x \in Int /\ q.blen > 0 /\ q.len - x \in 0 .. capacity(q)
  BY Basics
<1>2. /\ WF(g) /\ g.len = q.len /\ g.blen = q.blen /\ capacity(g) = capacity(q)
      /\ drop_in_place(move_head_unchecked(q, x), q, 0, x) = p
  BY <1>1, DroppedSlice
<1>3. ASSUME NEW i \in x .. q.len - 1
      PROVE  Read(g, i) = Read(q, i)
  <2>1. i \in 0 .. capacity(q) - 1 /\ ~(0 <= i /\ i < 0 + x) /\ Within(q, 0, x) /\ 0 \in Int
    BY <1>1 DEF Within
  <2> QED
    BY <1>1, <2>1, DropRead
<1> HIDE DEF g
<1>4. WF(p) /\ p.len = q.len - x /\ capacity(p) = capacity(q)
  BY <1>1, <1>2, MoveHeadWF
<1>5. c \in Seq(Slot) /\ Len(c) = q.len /\ \A i \in 0 .. q.len - 1 : c[i + 1] = Read(q, i)
  BY ContentsSeq
<1> HIDE DEF c
<1>6. /\ t \in Seq(Slot) /\ Len(t) = q.len - x
      /\ \A i \in 1 .. q.len - x : t[i] = c[i + x]
  BY <1>1, <1>5, SMTT(30)
<1> HIDE DEF t
<1>7. ASSUME NEW i \in 0 .. p.len - 1
      PROVE  Read(p, i) = t[i + 1]
  <2>1. /\ i + x \in 0 .. q.len - 1 /\ i + x \in x .. q.len - 1 /\ i \in Int
        /\ i + 1 \in 1 .. q.len - x /\ (i + x) + 1 = (i + 1) + x
    BY <1>1, <1>4
  <2>2. Read(p, i) = Read(g, i + x)
    BY <1>1, <1>2, <2>1, MoveHeadRead
  <2> HIDE DEF p
  <2>3. Read(g, i + x) = c[(i + x) + 1]
    BY <1>3, <1>5, <2>1
  <2>4. t[i + 1] = c[(i + 1) + x]
    BY <1>6, <2>1
  <2> QED
    BY <2>1, <2>2, <2>3, <2>4
<1> HIDE DEF p
<1>8. Contents(p) = t
  BY <1>1, <1>4, <1>6, <1>7, ContentsAre
<1> QED
  BY <1>2, <1>4, <1>8 DEF t, c

\* <[T]>::swap exchanges two elements.
LEMMA SwapRead ==
  ASSUME NEW q, WF(q), NEW i \in 0 .. q.len - 1, NEW j \in 0 .. q.len - 1,
         NEW l \in 0 .. q.len - 1
  PROVE  Read(swap(q, i, j), l)
           = IF l = j THEN Read(q, i) ELSE IF l = i THEN Read(q, j) ELSE Read(q, l)
<1> DEFINE c == Copy(q, j, q, i, 1)
<1>1. /\ q.len \in Nat /\ capacity(q) \in Nat /\ q.len <= capacity(q) /\ q.blen > 0
      /\ i \in Int /\ j \in Int /\ 1 \in Int /\ q.head \in Int
      /\ l \in 0 .. capacity(q) - 1 /\ Within(q, i, 1)
  <2>1. q.head \in Int
    BY DEF WF, IsDeque
  <2> QED
    BY <2>1, Basics DEF Within
<1>2. WF(c) /\ capacity(c) = capacity(q)
  BY <1>1, CopyWF
<1>3. Read(c, l) = IF i <= l /\ l < i + 1 THEN Read(q, j + (l - i)) ELSE Read(q, l)
  BY <1>1, CopyRead
<1> HIDE DEF c
<1>4. Read(Copy(q, i, c, j, 1), l)
        = IF j <= l /\ l < j + 1 THEN Read(q, i + (l - j)) ELSE Read(c, l)
  <2>1. Within(c, j, 1) /\ l \in 0 .. capacity(c) - 1
    BY <1>1, <1>2 DEF Within
  <2> QED
    BY <1>1, <1>2, <2>1, CopyRead
<1>5. (j <= l /\ l < j + 1) <=> l = j
  BY <1>1
<1>6. (i <= l /\ l < i + 1) <=> l = i
  BY <1>1
<1>7. i + (j - j) = i /\ j + (i - i) = j
  BY <1>1
<1>8. CASE l = j
  BY <1>4, <1>5, <1>7, <1>8 DEF swap, c
<1>9. CASE l # j
  BY <1>3, <1>4, <1>5, <1>6, <1>7, <1>9 DEF swap, c
<1> QED
  BY <1>8, <1>9

\* swap_remove_back: the last element takes the place of the one that is
\* returned.
LEMMA SwapRemoveBackContents ==
  ASSUME NEW q, WF(q), NEW i \in 0 .. q.len - 1
  PROVE  LET p == swap(q, i, q.len - 1)
             r == move_tail_unchecked(p, -1)
             s == Contents(q)
         IN  /\ WF(r) /\ r.len = q.len - 1 /\ capacity(r) = capacity(q)
             /\ Read(p, q.len - 1) = s[i + 1]
             /\ Contents(r) = Front([s EXCEPT ![i + 1] = Last(s)])
<1> DEFINE j == q.len - 1
           p == swap(q, i, j)
           r == move_tail_unchecked(p, -(p.len - j))
           s == Contents(q)
           u == [s EXCEPT ![i + 1] = Last(s)]
           t == SubSeq(u, 1, j)
<1>1. /\ q.len \in Nat /\ q.len > 0 /\ i \in Int /\ j \in Int /\ i \in 0 .. q.len - 1
      /\ j \in 0 .. q.len - 1 /\ j \in 0 .. q.len /\ -(q.len - j) = -1
  BY Basics
<1>2. WF(p) /\ p.len = q.len /\ capacity(p) = capacity(q)
  BY <1>1, SwapWF
<1>3. \A l \in 0 .. q.len - 1 :
        Read(p, l) = IF l = j THEN Read(q, i) ELSE IF l = i THEN Read(q, j) ELSE Read(q, l)
  BY <1>1, SwapRead
<1> HIDE DEF p
<1>4. /\ WF(r) /\ r.len = j /\ capacity(r) = capacity(q)
  BY <1>1, <1>2, TailCut
<1>5. /\ s \in Seq(Slot) /\ Len(s) = q.len
      /\ \A l \in 0 .. q.len - 1 : s[l + 1] = Read(q, l)
      /\ \A l \in 0 .. q.len - 1 : Read(q, l) \in Slot
  BY ContentsSeq
<1> HIDE DEF s
<1>6. Last(s) = Read(q, j) /\ i + 1 \in 1 .. Len(s) /\ Last(s) \in Slot
  <2>1. j + 1 = q.len
    BY <1>1
  <2>2. Last(s) = s[j + 1]
    BY <1>5, <2>1 DEF Last
  <2> HIDE DEF j
  <2> QED
    BY <1>1, <1>5, <2>2
<1>7. /\ u \in Seq(Slot) /\ Len(u) = q.len
      /\ \A l \in 1 .. q.len : u[l] = IF l = i + 1 THEN Read(q, j) ELSE s[l]
  BY <1>5, <1>6
<1> HIDE DEF u
<1>8. t \in Seq(Slot) /\ Len(t) = j /\ \A l \in 1 .. j : t[l] = u[l]
  BY <1>1, <1>7
<1> HIDE DEF t
<1>9. ASSUME NEW l \in 0 .. r.len - 1
      PROVE  Read(r, l) = t[l + 1]
  <2>1. /\ l \in 0 .. q.len - 1 /\ l # j /\ l + 1 \in 1 .. j /\ l + 1 \in 1 .. q.len
        /\ (l = i <=> l + 1 = i + 1)
    BY <1>1, <1>4
  <2>2. Read(r, l) = IF l = i THEN Read(q, j) ELSE Read(q, l)
    BY <1>2, <1>3, <2>1, MoveTailRead
  <2> HIDE DEF r, j
  <2>3. t[l + 1] = IF l = i THEN Read(q, j) ELSE s[l + 1]
    BY <1>7, <1>8, <2>1
  <2> QED
    BY <1>5, <2>1, <2>2, <2>3
<1> HIDE DEF r
<1>10. Contents(r) = t
  BY <1>1, <1>4, <1>8, <1>9, ContentsAre
<1>11. Read(p, j) = s[i + 1]
  BY <1>1, <1>3, <1>5
<1>12. t = Front(u)
  BY <1>7 DEF t, Front
<1>13. r = move_tail_unchecked(p, -1)
  BY <1>1, <1>2 DEF r
<1> QED
  BY <1>4, <1>10, <1>11, <1>12, <1>13 DEF p, s, u

\* swap_remove_front: the first element takes its place.
LEMMA SwapRemoveFrontContents ==
  ASSUME NEW q, WF(q), NEW i \in 0 .. q.len - 1
  PROVE  LET p == swap(q, i, 0)
             r == move_head_unchecked(p, 1)
             s == Contents(q)
         IN  /\ WF(r) /\ r.len = q.len - 1 /\ capacity(r) = capacity(q)
             /\ Read(p, 0) = s[i + 1]
             /\ Contents(r) = Tail([s EXCEPT ![i + 1] = Head(s)])
<1> DEFINE p == swap(q, i, 0)
           r == move_head_unchecked(p, 1)
           s == Contents(q)
           u == [s EXCEPT ![i + 1] = Head(s)]
           t == Tail(u)
<1>1. /\ q.len \in Nat /\ q.len > 0 /\ i \in Int /\ 0 \in Int /\ 0 \in 0 .. q.len - 1
  BY Basics
<1>2. WF(p) /\ p.len = q.len /\ capacity(p) = capacity(q)
  BY <1>1, SwapWF
<1>3. \A l \in 0 .. q.len - 1 :
        Read(p, l) = IF l = 0 THEN Read(q, i) ELSE IF l = i THEN Read(q, 0) ELSE Read(q, l)
  BY <1>1, SwapRead
<1> HIDE DEF p
<1>4. /\ WF(r) /\ r.len = q.len - 1 /\ capacity(r) = capacity(q) /\ p.blen > 0
  <2>1. 1 \in Int /\ p.len - 1 \in 0 .. capacity(p) /\ p.blen > 0
    BY <1>1, <1>2, Basics
  <2> QED
    BY <1>2, <2>1, MoveHeadWF
<1>5. /\ s \in Seq(Slot) /\ Len(s) = q.len
      /\ \A l \in 0 .. q.len - 1 : s[l + 1] = Read(q, l)
      /\ \A l \in 0 .. q.len - 1 : Read(q, l) \in Slot
  BY ContentsSeq
<1> HIDE DEF s
<1>6. Head(s) = Read(q, 0) /\ i + 1 \in 1 .. Len(s) /\ Head(s) \in Slot
  <2>1. s[0 + 1] = Read(q, 0) /\ Read(q, 0) \in Slot
    BY <1>1, <1>5
  <2> QED
    BY <1>1, <1>5, <2>1
<1>7. /\ u \in Seq(Slot) /\ Len(u) = q.len
      /\ \A l \in 1 .. q.len : u[l] = IF l = i + 1 THEN Read(q, 0) ELSE s[l]
  BY <1>5, <1>6
<1> HIDE DEF u
<1>8. t \in Seq(Slot) /\ Len(t) = q.len - 1 /\ \A l \in 1 .. q.len - 1 : t[l] = u[l + 1]
  BY <1>1, <1>7
<1> HIDE DEF t
<1>9. ASSUME NEW l \in 0 .. r.len - 1
      PROVE  Read(r, l) = t[l + 1]
  <2> DEFINE m == l + 1
  <2>1. /\ l \in Int /\ m \in 0 .. q.len - 1 /\ m # 0 /\ m \in 1 .. q.len - 1
        /\ m + 1 \in 1 .. q.len /\ (m = i <=> m + 1 = i + 1)
    BY <1>1, <1>4
  <2>2. Read(r, l) = Read(p, m)
    BY <1>2, <1>4, <2>1, MoveHeadRead, 1 \in Int
  <2> HIDE DEF r, m
  <2>3. Read(p, m) = IF m = i THEN Read(q, 0) ELSE Read(q, m)
    BY <1>3, <2>1
  <2>4. t[m] = IF m = i THEN Read(q, 0) ELSE s[m + 1]
    BY <1>7, <1>8, <2>1
  <2>5. Read(r, l) = t[m]
    BY <1>5, <2>1, <2>2, <2>3, <2>4
  <2> QED
    BY <2>5 DEF m
<1> HIDE DEF r
<1>10. Contents(r) = t
  BY <1>1, <1>4, <1>8, <1>9, ContentsAre
<1>11. Read(p, 0) = s[i + 1]
  BY <1>1, <1>3, <1>5
<1> QED
  BY <1>4, <1>10, <1>11 DEF p, r, s, u, t

\* remove: whichever side is shifted, the elements close up.
LEMMA CloseHoleContents ==
  ASSUME NEW q, WF(q), NEW index \in 0 .. q.len - 1
  PROVE  LET p == CloseHole(q, index)
         IN  /\ WF(p) /\ p.len = q.len - 1 /\ capacity(p) = capacity(q)
             /\ Contents(p) = RemoveAt(Contents(q), index + 1)
<1> DEFINE n == q.len - index - 1
           cb == Copy(q, index + 1, q, index, n)
           cf == Copy(q, 0, q, 1, index)
           p == CloseHole(q, index)
           s == Contents(q)
           t == RemoveAt(s, index + 1)
<1>1. /\ q.len \in Nat /\ capacity(q) \in Nat /\ q.len <= capacity(q) /\ q.blen > 0
      /\ index \in Int /\ index + 1 \in Int /\ n \in Int /\ q.head \in Int /\ 0 \in Int /\ 1 \in Int
  <2>1. q.head \in Int
    BY DEF WF, IsDeque
  <2> QED
    BY <2>1, Basics
<1>2. /\ s \in Seq(Slot) /\ Len(s) = q.len
      /\ \A l \in 0 .. q.len - 1 : s[l + 1] = Read(q, l)
  BY ContentsSeq
<1> HIDE DEF s
<1>3. /\ t \in Seq(Slot) /\ Len(t) = q.len - 1
      /\ \A l \in 1 .. q.len - 1 : t[l] = IF l < index + 1 THEN s[l] ELSE s[l + 1]
  <2>1. index + 1 \in 1 .. Len(s)
    BY <1>1, <1>2
  <2> QED
    BY <1>2, <2>1, RemoveAtAt
<1> HIDE DEF t
<1>4. /\ WF(p) /\ p.len = q.len - 1 /\ capacity(p) = capacity(q)
      /\ \A l \in 0 .. q.len - 2 : Read(p, l) = IF l < index THEN Read(q, l) ELSE Read(q, l + 1)
  <2>1. CASE index > q.len \div 2
    <3> DEFINE x == -1
    <3>1. p = move_tail_unchecked(cb, x)
      BY <2>1 DEF CloseHole
    <3>2. WF(cb) /\ cb.len = q.len /\ capacity(cb) = capacity(q)
      BY <1>1, CopyWF
    <3>3. ASSUME NEW l \in 0 .. q.len - 2
          PROVE  Read(cb, l) = IF l < index THEN Read(q, l) ELSE Read(q, l + 1)
      <4>1. l \in 0 .. capacity(q) - 1 /\ Within(q, index, n)
        BY <1>1 DEF Within
      <4>2. Read(cb, l) = IF index <= l /\ l < index + n
                          THEN Read(q, (index + 1) + (l - index)) ELSE Read(q, l)
        <5> HIDE DEF n
        <5> QED
          BY <1>1, <4>1, CopyRead
      <4>3. (index + 1) + (l - index) = l + 1 /\ (l < index <=> ~(index <= l /\ l < index + n))
        BY <1>1
      <4> HIDE DEF cb, n
      <4> QED
        BY <4>2, <4>3
    <3> HIDE DEF cb, p
    <3>4. x \in Int /\ cb.len + x = q.len - 1 /\ cb.len + x \in 0 .. capacity(cb)
      BY <1>1, <3>2
    <3>5. WF(p) /\ p.len = q.len - 1 /\ capacity(p) = capacity(q)
      BY <3>1, <3>2, <3>4, MoveTailWF
    <3>6. \A l \in 0 .. q.len - 2 : Read(p, l) = Read(cb, l)
      BY <3>1, <3>2, MoveTailRead
    <3> QED
      BY <3>3, <3>5, <3>6
  <2>2. CASE ~(index > q.len \div 2)
    <3>1. p = move_head_unchecked(cf, 1)
      BY <2>2 DEF CloseHole
    <3>2. WF(cf) /\ cf.len = q.len /\ capacity(cf) = capacity(q) /\ cf.blen = q.blen
      BY <1>1, CopyWF
    <3>3. ASSUME NEW l \in 0 .. q.len - 2
          PROVE  Read(cf, l + 1) = IF l < index THEN Read(q, l) ELSE Read(q, l + 1)
      <4> DEFINE m == l + 1
      <4>1. m \in 0 .. capacity(q) - 1 /\ Within(q, 1, index)
        BY <1>1 DEF Within
      <4>2. 0 + (m - 1) = l /\ (l < index <=> (1 <= m /\ m < 1 + index))
        BY <1>1
      <4> HIDE DEF m
      <4>3. Read(cf, m) = IF 1 <= m /\ m < 1 + index THEN Read(q, 0 + (m - 1)) ELSE Read(q, m)
        BY <1>1, <4>1, CopyRead
      <4> HIDE DEF cf
      <4>4. Read(cf, m) = IF l < index THEN Read(q, l) ELSE Read(q, m)
        BY <4>2, <4>3
      <4> QED
        BY <4>4 DEF m
    <3> HIDE DEF cf, p
    <3>4. cf.len - 1 = q.len - 1 /\ cf.len - 1 \in 0 .. capacity(cf)
      BY <1>1, <3>2
    <3>5. WF(p) /\ p.len = q.len - 1 /\ capacity(p) = capacity(q)
      BY <1>1, <3>1, <3>2, <3>4, MoveHeadWF
    <3>6. \A l \in 0 .. q.len - 2 : Read(p, l) = Read(cf, l + 1)
      BY <1>1, <3>1, <3>2, MoveHeadRead
    <3> QED
      BY <3>3, <3>5, <3>6
  <2> QED
    BY <2>1, <2>2
<1> HIDE DEF p
<1>5. ASSUME NEW l \in 0 .. p.len - 1
      PROVE  Read(p, l) = t[l + 1]
  <2>1. /\ l \in 0 .. q.len - 2 /\ l \in 0 .. q.len - 1 /\ l + 1 \in 0 .. q.len - 1
        /\ l + 1 \in 1 .. q.len - 1 /\ (l + 1 < index + 1 <=> l < index)
    BY <1>1, <1>4
  <2>2. t[l + 1] = IF l < index THEN s[l + 1] ELSE s[(l + 1) + 1]
    BY <1>3, <2>1
  <2> QED
    BY <1>2, <1>4, <2>1, <2>2
<1>6. Contents(p) = t
  BY <1>1, <1>3, <1>4, <1>5, ContentsAre
<1> QED
  BY <1>4, <1>6 DEF p, s, t

\* insert: the elements make way for the new one, towards the back, or
\* towards the front when at most one of them has to move there.
LEMMA InsertContents ==
  ASSUME NEW q, WF(q), q.len + 1 <= capacity(q), NEW index \in 0 .. q.len, NEW e \in Elem,
         index < 2 \/ index > q.len \div 2
  PROVE  LET w == Write(MakeHole(q, index), index, <<e>>)
         IN  /\ WF(w) /\ w.len = q.len + 1 /\ capacity(w) = capacity(q)
             /\ Contents(w) = InsertAt(Contents(q), index + 1, e)
<1> DEFINE n == q.len - index
           cb == Copy(q, index, q, index + 1, n)
           x == -1
           h == move_head_unchecked(q, x)
           p == MakeHole(q, index)
           v == <<e>>
           w == Write(p, index, v)
           s == Contents(q)
           t == InsertAt(s, index + 1, e)
<1>1. /\ q.len \in Nat /\ capacity(q) \in Nat /\ q.blen > 0 /\ x \in Int
      /\ index \in Int /\ index + 1 \in Int /\ n \in Int /\ q.head \in Int
  <2>1. q.head \in Int
    BY DEF WF, IsDeque
  <2> QED
    BY <2>1, Basics
<1>2. /\ s \in Seq(Slot) /\ Len(s) = q.len
      /\ \A l \in 0 .. q.len - 1 : s[l + 1] = Read(q, l)
  BY ContentsSeq
<1> HIDE DEF s
<1>3. /\ t \in Seq(Slot) /\ Len(t) = q.len + 1
      /\ \A l \in 1 .. q.len + 1 :
           t[l] = IF l < index + 1 THEN s[l] ELSE IF l = index + 1 THEN e ELSE s[l - 1]
  <2>1. index + 1 \in 1 .. Len(s) + 1 /\ e \in Slot
    BY <1>1, <1>2 DEF Slot
  <2> QED
    BY <1>2, <2>1, InsertAtAt
<1> HIDE DEF t
<1>4. /\ WF(p) /\ p.len = q.len + 1 /\ capacity(p) = capacity(q)
      /\ \A l \in 0 .. q.len :
           l # index => Read(p, l) = IF l < index THEN Read(q, l) ELSE Read(q, l - 1)
  <2>1. CASE index > q.len \div 2
    <3>1. p = move_tail_unchecked(cb, 1)
      BY <2>1 DEF MakeHole
    <3>2. WF(cb) /\ cb.len = q.len /\ capacity(cb) = capacity(q)
      BY <1>1, CopyWF
    <3>3. ASSUME NEW l \in 0 .. q.len, l # index
          PROVE  Read(cb, l) = IF l < index THEN Read(q, l) ELSE Read(q, l - 1)
      <4>1. l \in 0 .. capacity(q) - 1 /\ Within(q, index + 1, n)
        BY <1>1 DEF Within
      <4>2. Read(cb, l) = IF index + 1 <= l /\ l < index + 1 + n
                          THEN Read(q, index + (l - (index + 1))) ELSE Read(q, l)
        <5> HIDE DEF n
        <5> QED
          BY <1>1, <4>1, CopyRead
      <4>3. /\ index + (l - (index + 1)) = l - 1
            /\ l < index <=> ~(index + 1 <= l /\ l < index + 1 + n)
        BY <1>1, <3>3
      <4> HIDE DEF cb, n
      <4> QED
        BY <4>2, <4>3
    <3> HIDE DEF cb, p
    <3>4. 1 \in Int /\ cb.len + 1 = q.len + 1 /\ cb.len + 1 \in 0 .. capacity(cb)
      BY <1>1, <3>2
    <3>5. WF(p) /\ p.len = q.len + 1 /\ capacity(p) = capacity(q)
      BY <3>1, <3>2, <3>4, MoveTailWF
    <3>6. \A l \in 0 .. q.len : Read(p, l) = Read(cb, l)
      BY <3>1, <3>2, MoveTailRead
    <3> QED
      BY <3>3, <3>5, <3>6
  <2>2. CASE ~(index > q.len \div 2)
    <3>1. p = Copy(h, index, h, index - 1, index)
      BY <2>2 DEF MakeHole
    <3>2. WF(h) /\ h.len = q.len + 1 /\ capacity(h) = capacity(q) /\ h.blen > 0
      <4>1. q.len - x = q.len + 1 /\ q.len - x \in 0 .. capacity(q)
        BY <1>1
      <4> QED
        BY <1>1, <4>1, MoveHeadWF
    <3>3. ASSUME NEW l \in Int
          PROVE  Read(h, l) = Read(q, l - 1)
      <4>1. Read(h, l) = Read(q, l + x)
        BY <1>1, MoveHeadRead
      <4> QED
        BY <4>1, l + x = l - 1
    <3> HIDE DEF h, p
    <3>4. h.head \in Int /\ index - 1 \in Int /\ index \in {0, 1}
      <4>1. h.head \in Int
        BY <3>2 DEF WF, IsDeque
      <4>2. index < 2
        BY <2>2
      <4> QED
        BY <1>1, <4>1, <4>2
    <3>5. WF(p) /\ p.len = q.len + 1 /\ capacity(p) = capacity(q)
      BY <1>1, <3>1, <3>2, <3>4, CopyWF
    <3>6. ASSUME NEW l \in 0 .. q.len, l # index
          PROVE  Read(p, l) = IF l < index THEN Read(q, l) ELSE Read(q, l - 1)
      <4>1. l \in 0 .. capacity(h) - 1 /\ Within(h, index - 1, index) /\ l \in Int
        BY <1>1, <3>2, <3>4 DEF Within
      <4>2. Read(p, l) = IF index - 1 <= l /\ l < index - 1 + index
                         THEN Read(h, index + (l - (index - 1))) ELSE Read(h, l)
        BY <1>1, <3>1, <3>2, <3>4, <4>1, CopyRead
      <4>3. CASE l < index
        <5>1. /\ index - 1 <= l /\ l < index - 1 + index
              /\ index + (l - (index - 1)) = l + 1 /\ l + 1 \in Int /\ (l + 1) - 1 = l
          BY <3>4, <4>1, <4>3
        <5>2. Read(p, l) = Read(h, l + 1)
          BY <4>2, <5>1
        <5>3. Read(h, l + 1) = Read(q, l)
          BY <3>3, <5>1
        <5> QED
          BY <4>3, <5>2, <5>3
      <4>4. CASE ~(l < index)
        <5>1. ~(index - 1 <= l /\ l < index - 1 + index)
          BY <3>4, <3>6, <4>1, <4>4
        <5> QED
          BY <3>3, <4>1, <4>2, <4>4, <5>1
      <4> QED
        BY <4>3, <4>4
    <3> QED
      BY <3>5, <3>6
  <2> QED
    BY <2>1, <2>2
<1>5. v \in Seq(Elem) /\ Len(v) = 1 /\ v[1] = e
  OBVIOUS
<1> HIDE DEF p, v
<1>6. WF(w) /\ w.len = q.len + 1 /\ capacity(w) = capacity(q)
  BY <1>1, <1>4, <1>5, WriteWF
<1>7. ASSUME NEW l \in 0 .. w.len - 1
      PROVE  Read(w, l) = t[l + 1]
  <2>1. /\ l \in 0 .. capacity(p) - 1 /\ Within(p, index, Len(v)) /\ l \in 0 .. q.len
        /\ l + 1 \in 1 .. q.len + 1
    BY <1>1, <1>4, <1>5, <1>6 DEF Within
  <2>2. Read(w, l) = IF index <= l /\ l < index + Len(v) THEN v[l - index + 1] ELSE Read(p, l)
    BY <1>1, <1>4, <1>5, <2>1, WriteRead
  <2> HIDE DEF w
  <2>3. CASE l = index
    <3>1. Read(w, l) = v[l - index + 1] /\ l - index + 1 = 1
      BY <1>1, <1>5, <2>2, <2>3
    <3>2. t[l + 1] = e
      BY <1>1, <1>3, <2>1, <2>3
    <3> QED
      BY <1>5, <3>1, <3>2
  <2>4. CASE l < index
    <3>1. l \in 0 .. q.len - 1 /\ l # index /\ l + 1 < index + 1 /\ ~(index <= l)
      BY <1>1, <2>1, <2>4
    <3>2. Read(w, l) = Read(q, l)
      BY <1>4, <2>1, <2>2, <2>4, <3>1
    <3>3. t[l + 1] = s[l + 1]
      BY <1>3, <2>1, <3>1
    <3> QED
      BY <1>2, <3>1, <3>2, <3>3
  <2>5. CASE l > index
    <3> DEFINE m == l - 1
    <3>1. /\ m \in 0 .. q.len - 1 /\ l # index /\ ~(l < index) /\ ~(l + 1 < index + 1)
          /\ l + 1 # index + 1 /\ (l + 1) - 1 = m + 1 /\ ~(l < index + Len(v))
      BY <1>1, <1>5, <2>1, <2>5
    <3>2. Read(w, l) = Read(q, m)
      BY <1>4, <2>1, <2>2, <3>1
    <3> HIDE DEF m
    <3>3. t[l + 1] = s[m + 1]
      BY <1>3, <2>1, <3>1
    <3> QED
      BY <1>2, <3>1, <3>2, <3>3
  <2> QED
    BY <1>1, <2>1, <2>3, <2>4, <2>5
<1> HIDE DEF w
<1>8. Contents(w) = t
  BY <1>1, <1>3, <1>6, <1>7, ContentsAre
<1> QED
  BY <1>6, <1>8 DEF w, p, v, s, t

-----------------------------------------------------------------------------
(* The operations that allocate.                                           *)

\* Copying to a buffer that has just been allocated: n elements from the one
\* at a.
LEMMA FreshContents ==
  ASSUME NEW q, WF(q), NEW b, WF(b), NEW a \in Nat, NEW n \in Nat, a + n <= q.len, b.len = n
  PROVE  LET p == Copy(q, a, b, 0, n)
         IN  /\ WF(p) /\ p.len = n /\ capacity(p) = capacity(b)
             /\ Contents(p) = SubSeq(Contents(q), a + 1, a + n)
<1> DEFINE p == Copy(q, a, b, 0, n)
           s == Contents(q)
           t == SubSeq(s, a + 1, a + n)
<1>1. /\ q.len \in Nat /\ (n > 0 => q.blen > 0) /\ q.head \in Int
      /\ a \in Int /\ n \in Int /\ 0 \in Int
      /\ capacity(b) \in Nat /\ n <= capacity(b) /\ Within(b, 0, n)
  <2>1. q.head \in Int
    BY DEF WF, IsDeque
  <2> QED
    BY <2>1, Basics DEF Within
<1>2. WF(p) /\ p.len = n /\ capacity(p) = capacity(b)
  BY <1>1, CopyWF
<1>3. /\ s \in Seq(Slot) /\ Len(s) = q.len
      /\ \A l \in 0 .. q.len - 1 : s[l + 1] = Read(q, l)
  BY ContentsSeq
<1> HIDE DEF s
<1>4. t \in Seq(Slot) /\ Len(t) = n /\ \A l \in 1 .. n : t[l] = s[l + a]
  BY <1>1, <1>3
<1> HIDE DEF t
<1>5. ASSUME NEW l \in 0 .. p.len - 1
      PROVE  Read(p, l) = t[l + 1]
  <2>1. /\ l \in 0 .. capacity(b) - 1 /\ 0 <= l /\ l < 0 + n /\ a + (l - 0) = l + a
        /\ l + a \in 0 .. q.len - 1 /\ l + 1 \in 1 .. n /\ (l + a) + 1 = (l + 1) + a
    BY <1>1, <1>2
  <2>2. Read(p, l) = Read(q, a + (l - 0))
    BY <1>1, <2>1, CopyRead
  <2> HIDE DEF p
  <2>3. Read(q, l + a) = s[(l + a) + 1]
    BY <1>3, <2>1
  <2>4. t[l + 1] = s[(l + 1) + a]
    BY <1>4, <2>1
  <2> QED
    BY <2>1, <2>2, <2>3, <2>4
<1> HIDE DEF p
<1>6. Contents(p) = t
  BY <1>2, <1>4, <1>5, ContentsAre
<1> QED
  BY <1>2, <1>6 DEF p, t, s

\* All the elements.
LEMMA SubSeqAll ==
  ASSUME NEW q, WF(q)
  PROVE  SubSeq(Contents(q), 0 + 1, 0 + q.len) = Contents(q)
<1> DEFINE s == Contents(q)
<1>1. s \in Seq(Slot) /\ Len(s) = q.len
  BY ContentsSeq
<1> HIDE DEF s
<1>2. SubSeq(s, 1, Len(s)) = s
  BY <1>1
<1>3. 0 + 1 = 1 /\ 0 + q.len = q.len
  BY Basics
<1> QED
  BY <1>1, <1>2, <1>3 DEF s

\* A deque that is reallocated keeps its elements.
LEMMA ReserveContents ==
  ASSUME NEW q, NEW n \in Nat, NEW oom, WF(q), reserve_capacity(q, n, oom).ok
  PROVE  LET p == reserve_capacity(q, n, oom).q
         IN  /\ WF(p) /\ p.len = q.len /\ Contents(p) = Contents(q)
             /\ n <= capacity(q) => p = q
             /\ capacity(p) >= n /\ capacity(p) >= capacity(q)
<1> DEFINE r == reserve_capacity(q, n, oom)
           b == OnBuffer(uninitialized(2 * n), q.len)
<1>1. WF(r.q) /\ r.q.len = q.len /\ capacity(r.q) >= n /\ capacity(r.q) >= capacity(q)
  BY ReserveCapacityWF
<1>2. CASE n <= capacity(q)
  <2>1. r.q = q
    BY <1>2 DEF reserve_capacity, Ok
  <2> QED
    BY <1>1, <2>1
<1>3. CASE ~(n <= capacity(q))
  <2>1. r.q = Copy(q, 0, b, 0, q.len)
    BY <1>3 DEF reserve_capacity, Ok, Err
  <2>2. n \in Nat \ {0} /\ q.len \in 0 .. n /\ q.len \in Nat /\ 0 + q.len <= q.len
    BY <1>3, Basics
  <2>3. WF(b) /\ b.len = q.len
    BY <2>2, OnBufferWF
  <2> HIDE DEF b
  <2>4. Contents(Copy(q, 0, b, 0, q.len)) = SubSeq(Contents(q), 0 + 1, 0 + q.len)
    BY <2>2, <2>3, FreshContents, 0 \in Nat
  <2> HIDE DEF r
  <2>5. Contents(r.q) = Contents(q)
    BY <2>1, <2>4, SubSeqAll
  <2> QED
    BY <1>1, <1>3, <2>5 DEF r
<1> QED
  BY <1>2, <1>3

\* try_reserve keeps the elements and the buffer that is large enough; a
\* capacity that grows at least doubles.
LEMMA TryReserveContents ==
  ASSUME NEW q, NEW n \in Nat, NEW oom, WF(q), try_reserve(q, n, oom).ok
  PROVE  LET p == try_reserve(q, n, oom).q
         IN  /\ WF(p) /\ p.len = q.len /\ Contents(p) = Contents(q)
             /\ q.len + n <= capacity(q) => capacity(p) = capacity(q)
             /\ capacity(p) >= q.len + n
             /\ ~(q.len + n <= capacity(q)) => capacity(p) >= 2 * capacity(q)
<1> DEFINE g == grow_policy(q, n)
           r == reserve_capacity(q, g, oom)
<1>1. /\ g \in Nat /\ g >= q.len + n /\ q.len \in Nat /\ capacity(q) \in Nat
      /\ q.len + n <= capacity(q) => g = q.len + n
      /\ ~(q.len + n <= capacity(q)) => g >= 2 * capacity(q)
  BY Basics, GrowPolicyEnough DEF grow_policy
<1> HIDE DEF g
<1>2. try_reserve(q, n, oom) = r
  BY DEF try_reserve, g
<1>3. /\ WF(r.q) /\ r.q.len = q.len /\ Contents(r.q) = Contents(q)
      /\ g <= capacity(q) => r.q = q
      /\ capacity(r.q) >= g /\ capacity(r.q) >= capacity(q)
  BY <1>1, <1>2, ReserveContents
<1> HIDE DEF r
<1>4. capacity(r.q) \in Nat
  BY <1>3, Basics
<1> QED
  BY <1>1, <1>2, <1>3, <1>4

\* append and the specializations of extend: the elements of other follow
\* those of q.
LEMMA AppendContents ==
  ASSUME NEW q, NEW other, NEW oom, WF(q), WF(other), append_elements(q, other, oom).ok
  PROVE  LET p == append_elements(q, other, oom).q
         IN  /\ WF(p) /\ p.len = q.len + other.len
             /\ Contents(p) = Contents(q) \o Contents(other)
             /\ capacity(p) = capacity(try_reserve(q, other.len, oom).q)
             /\ try_reserve(q, other.len, oom).ok
<1> DEFINE r == try_reserve(q, other.len, oom)
           b == r.q
           n == other.len
           c == Copy(other, 0, b, b.len, n)
           p == move_tail_unchecked(c, n)
           s == Contents(q)
           u == Contents(other)
           t == s \o u
<1>1. r.ok /\ append_elements(q, other, oom).q = p
  BY DEF append_elements, Ok
<1>2. n \in Nat /\ q.len \in Nat /\ (n > 0 => other.blen > 0) /\ other.head \in Int
  <2>1. other.head \in Int
    BY DEF WF, IsDeque
  <2> QED
    BY <2>1, Basics
<1>3. WF(b) /\ b.len = q.len /\ capacity(b) >= q.len + n /\ Contents(b) = s
  BY <1>1, <1>2, TryReserveContents
<1>4. capacity(b) \in Nat
  BY <1>3, Basics
<1> HIDE DEF r, b
<1>5. /\ n \in Int /\ b.len \in Int /\ 0 \in Int /\ Within(b, b.len, n)
  BY <1>2, <1>3, <1>4 DEF Within
<1>6. WF(c) /\ c.len = q.len /\ capacity(c) = capacity(b)
  BY <1>2, <1>3, <1>5, CopyWF
<1>7. ASSUME NEW l \in 0 .. q.len + n - 1
      PROVE  Read(c, l) = IF l < q.len THEN Read(b, l) ELSE Read(other, l - q.len)
  <2>1. /\ l \in 0 .. capacity(b) - 1 /\ 0 + (l - b.len) = l - q.len
        /\ (b.len <= l /\ l < b.len + n) <=> ~(l < q.len)
    BY <1>2, <1>3, <1>4
  <2>2. Read(c, l) = IF b.len <= l /\ l < b.len + n THEN Read(other, 0 + (l - b.len)) ELSE Read(b, l)
    BY <1>2, <1>3, <1>5, <2>1, CopyRead
  <2> HIDE DEF c
  <2> QED
    BY <2>1, <2>2
<1> HIDE DEF c
<1>8. WF(p) /\ p.len = q.len + n /\ capacity(p) = capacity(b)
  <2>1. c.len + n \in 0 .. capacity(c)
    BY <1>2, <1>3, <1>4, <1>6
  <2> QED
    BY <1>5, <1>6, <2>1, MoveTailWF
<1>9. /\ s \in Seq(Slot) /\ Len(s) = q.len /\ u \in Seq(Slot) /\ Len(u) = n
      /\ \A l \in 0 .. q.len - 1 : s[l + 1] = Read(b, l)
      /\ \A l \in 0 .. n - 1 : u[l + 1] = Read(other, l)
  BY <1>3, ContentsSeq
<1> HIDE DEF s, u
<1>10. /\ t \in Seq(Slot) /\ Len(t) = Len(s) + Len(u)
       /\ \A l \in 1 .. Len(s) + Len(u) : t[l] = IF l <= Len(s) THEN s[l] ELSE u[l - Len(s)]
  BY <1>9, ConcatAt
<1> HIDE DEF t
<1>11. ASSUME NEW l \in 0 .. p.len - 1
       PROVE  Read(p, l) = t[l + 1]
  <2>1. Read(p, l) = Read(c, l) /\ l \in 0 .. q.len + n - 1
    BY <1>2, <1>6, <1>8, MoveTailRead
  <2> HIDE DEF p, n
  <2> DEFINE j == l + 1
  <2>2. CASE l < q.len
    <3>1. j \in 1 .. Len(s) + Len(u) /\ j <= Len(s) /\ l \in 0 .. q.len - 1
      BY <1>2, <1>9, <2>1, <2>2
    <3> QED
      BY <1>7, <1>9, <1>10, <2>1, <2>2, <3>1
  <2>3. CASE ~(l < q.len)
    <3> DEFINE m == l - q.len
    <3>1. j \in 1 .. Len(s) + Len(u) /\ ~(j <= Len(s)) /\ m \in 0 .. n - 1 /\ j - Len(s) = m + 1
      BY <1>2, <1>9, <2>1, <2>3, SMTT(30)
    <3>2. Read(p, l) = Read(other, m)
      BY <1>7, <2>1, <2>3
    <3> HIDE DEF m, j
    <3>3. t[j] = u[m + 1]
      BY <1>10, <3>1
    <3> QED
      BY <1>9, <3>1, <3>2, <3>3 DEF j
  <2> QED
    BY <2>2, <2>3
<1> HIDE DEF p
<1>12. Contents(p) = t
  <2>1. Len(t) = p.len /\ p.len \in Nat
    BY <1>2, <1>8, <1>9, <1>10
  <2> QED
    BY <1>10, <1>11, <2>1, ContentsAre
<1> QED
  BY <1>1, <1>8, <1>12 DEF s, u, t, r, b
=============================================================================
