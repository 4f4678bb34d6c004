-------------------------- MODULE SliceDequeProofs --------------------------
(***************************************************************************)
(* Proofs that the memory layout of SliceDeque is right for every page     *)
(* size, every size and alignment of T, every number of deques and every   *)
(* sequence of calls, the faulty ones included.                            *)
(***************************************************************************)
EXTENDS SliceDeque, TLAPS

-----------------------------------------------------------------------------
(* Arithmetic: sizes are products of parameters, which the provers only    *)
(* handle in small steps.                                                  *)

\* Multiplication is monotone.
LEMMA MulMonotone ==
  ASSUME NEW a \in Int, NEW b \in Int, NEW c \in Nat, a <= b
  PROVE  a * c <= b * c
  OBVIOUS

\* A positive factor cancels.
LEMMA MulCancel ==
  ASSUME NEW a \in Int, NEW b \in Int, NEW c \in Nat \ {0}, a * c < b * c
  PROVE  a < b
  OBVIOUS

\* Quotient and remainder by a positive number.
LEMMA DivMod ==
  ASSUME NEW a \in Int, NEW b \in Nat \ {0}
  PROVE  /\ a \div b \in Int
         /\ a % b \in 0 .. b - 1
         /\ a = b * (a \div b) + (a % b)
  OBVIOUS

\* The mirror takes every offset into the region.
LEMMA ModRange ==
  ASSUME NEW a \in Int, NEW b \in Nat \ {0}
  PROVE  a % b \in Nat /\ a % b < b
  OBVIOUS

\* A remainder is determined by any multiple below it.
LEMMA ModUnique ==
  ASSUME NEW a \in Int, NEW b \in Nat \ {0}, NEW k \in Int, NEW r \in 0 .. b - 1,
         a = b * k + r
  PROVE  a % b = r
<1>1. /\ a \div b \in Int /\ a % b \in 0 .. b - 1
      /\ a = b * (a \div b) + (a % b)
  BY DivMod
<1> DEFINE q == a \div b
           m == a % b
<1> HIDE DEF q, m
<1>2. q \in Int /\ m \in 0 .. b - 1 /\ b * q + m = b * k + r
  BY <1>1 DEF q, m
<1>3. ~(q < k)
  <2> SUFFICES ASSUME q < k PROVE FALSE
    OBVIOUS
  <2>1. (q + 1) * b <= k * b
    BY <1>2, MulMonotone
  <2> QED
    BY <1>2, <2>1
<1>4. ~(k < q)
  <2> SUFFICES ASSUME k < q PROVE FALSE
    OBVIOUS
  <2>1. (k + 1) * b <= q * b
    BY <1>2, MulMonotone
  <2> QED
    BY <1>2, <2>1
<1>5. q = k
  BY <1>2, <1>3, <1>4
<1>6. m = r
  BY <1>2, <1>5
<1> QED
  BY <1>6 DEF m

\* Offsets that are less than a region apart are different bytes of it.
LEMMA ModDistinct ==
  ASSUME NEW a \in Int, NEW b \in Int, NEW c \in Nat \ {0}, a < b, b - a < c
  PROVE  a % c # b % c
<1> SUFFICES ASSUME a % c = b % c PROVE FALSE
  OBVIOUS
<1> DEFINE i == a \div c
           j == b \div c
           m == a % c
<1>1. i \in Int /\ m \in 0 .. c - 1 /\ a = c * i + m
  BY DivMod
<1>2. j \in Int /\ b = c * j + m
  BY DivMod
<1> HIDE DEF i, j, m
<1>3. CASE j <= i
  <2>1. j * c <= i * c
    BY <1>1, <1>2, <1>3, MulMonotone
  <2> QED
    BY <1>1, <1>2, <2>1
<1>4. CASE i + 1 <= j
  <2>1. (i + 1) * c <= j * c
    BY <1>1, <1>2, <1>4, MulMonotone
  <2> QED
    BY <1>1, <1>2, <2>1
<1> QED
  BY <1>1, <1>2, <1>3, <1>4

\* Multiples of c stay multiples of c when multiples of c are added.
LEMMA ModAdd ==
  ASSUME NEW a \in Int, NEW b \in Int, NEW x \in Int, NEW c \in Nat \ {0},
         a % c = 0, b % c = 0
  PROVE  (a + x * b) % c = 0
<1>1. a \div c \in Int /\ a = c * (a \div c)
  BY DivMod
<1>2. b \div c \in Int /\ b = c * (b \div c)
  BY DivMod
<1> DEFINE i == a \div c
           j == b \div c
<1> HIDE DEF i, j
<1>3. i \in Int /\ j \in Int /\ a = c * i /\ b = c * j
  BY <1>1, <1>2 DEF i, j
<1>4. x * b = c * (x * j)
  BY <1>3
<1>5. a + x * b = c * (i + x * j) + 0
  BY <1>3, <1>4
<1> DEFINE y == a + x * b
           k == i + x * j
<1>6. y \in Int /\ k \in Int /\ 0 \in 0 .. c - 1 /\ y = c * k + 0
  BY <1>3, <1>5
<1> HIDE DEF y, k
<1>7. y % c = 0
  BY <1>6, ModUnique
<1> QED
  BY <1>7 DEF y

\* So do the sum and the difference of two multiples.
LEMMA ModPlus ==
  ASSUME NEW a \in Int, NEW b \in Int, NEW c \in Nat \ {0}, a % c = 0, b % c = 0
  PROVE  (a + b) % c = 0 /\ (a - b) % c = 0
<1> DEFINE u == 1
           v == -1
<1>1. u \in Int /\ v \in Int
  OBVIOUS
<1>2. u * b = b /\ v * b = 0 - b
  OBVIOUS
<1> HIDE DEF u, v
<1>3. (a + u * b) % c = 0 /\ (a + v * b) % c = 0
  BY <1>1, ModAdd
<1> QED
  BY <1>2, <1>3

\* Pages come in pairs, there are enough of them for the bytes, and no fewer
\* pairs would be.
LEMMA Units ==
  ASSUME NEW bytes \in Nat
  PROVE  \E m \in Nat \ {0} :
           /\ no_required_allocation_units(bytes) = 2 * m
           /\ bytes <= 2 * m * AG
           /\ \A k \in Nat \ {0} : bytes <= 2 * k * AG => m <= k
<1> DEFINE up == (bytes + AG - 1) \div AG
           r  == IF up < 1 THEN 1 ELSE up
           u  == IF r % 2 = 0 THEN r ELSE r + 1
           m  == u \div 2
<1>1. AG \in Nat \ {0}
  BY LayoutAssumption
<1>2. /\ up \in Int
      /\ bytes <= up * AG
      /\ (up - 1) * AG < bytes
  <2>1. /\ up \in Int
        /\ (bytes + AG - 1) % AG \in 0 .. AG - 1
        /\ bytes + AG - 1 = AG * up + ((bytes + AG - 1) % AG)
    BY <1>1
  <2> HIDE DEF up
  <2> QED
    BY <1>1, <2>1
<1> HIDE DEF up
<1>3. /\ r \in Nat \ {0}
      /\ bytes <= r * AG
      /\ r = up \/ r = 1
  <2>1. CASE up < 1
    <3>1. up * AG <= 0 * AG
      BY <1>1, <1>2, <2>1, MulMonotone
    <3> QED
      BY <1>1, <1>2, <2>1, <3>1
  <2>2. CASE up >= 1
    BY <1>2, <2>2
  <2> QED
    BY <1>2, <2>1, <2>2
<1> HIDE DEF r
<1>4. u = 2 * m /\ m \in Nat \ {0} /\ (u = r \/ u = r + 1)
  BY <1>3
<1>5. u = no_required_allocation_units(bytes)
  BY DEF no_required_allocation_units, u, r, up
<1> HIDE DEF u, m
<1>6. bytes <= 2 * m * AG
  <2>1. r * AG <= (2 * m) * AG
    BY <1>1, <1>3, <1>4, MulMonotone
  <2> QED
    BY <1>1, <1>3, <1>4, <2>1
<1>7. ASSUME NEW k \in Nat \ {0}, bytes <= 2 * k * AG
      PROVE  m <= k
  <2>1. (up - 1) * AG < (2 * k) * AG
    BY <1>1, <1>2, <1>7
  <2>2. up - 1 < 2 * k
    BY <1>1, <1>2, <2>1, MulCancel
  <2>3. r <= 2 * k
    BY <1>2, <1>3, <2>2
  <2> QED
    BY <1>3, <1>4, <1>7, <2>3, u % 2 = 0 DEF u
<1> QED
  BY <1>4, <1>5, <1>6, <1>7

\* A buffer has room for its elements, and its size is twice the size of a
\* region, which is a whole number of pages and so keeps the alignment of T.
LEMMA Sizes ==
  ASSUME NEW n \in Nat
  PROVE  \E h \in Nat \ {0} : /\ size_in_bytes(n) = 2 * h
                              /\ size_in_bytes(n) \div 2 = h
                              /\ n * SIZE <= 2 * h
                              /\ h % ALIGN = 0
<1>1. /\ AG \in Nat \ {0} /\ SIZE \in Nat \ {0} /\ ALIGN \in Nat \ {0}
      /\ AG % ALIGN = 0
  BY LayoutAssumption
<1>2. n * SIZE \in Nat
  BY <1>1
<1>3. PICK m \in Nat \ {0} : /\ no_required_allocation_units(n * SIZE) = 2 * m
                             /\ n * SIZE <= 2 * m * AG
  BY <1>2, Units
<1>4. m * AG \in Nat \ {0}
  BY <1>1
<1>5. size_in_bytes(n) = 2 * (m * AG)
  BY <1>1, <1>3 DEF size_in_bytes
<1>6. (m * AG) % ALIGN = 0
  <2> DEFINE z == 0
  <2>1. z \in Int /\ z % ALIGN = 0 /\ m \in Int /\ AG \in Int
    BY <1>1
  <2> HIDE DEF z
  <2>2. (z + m * AG) % ALIGN = 0
    BY <1>1, <2>1, ModAdd, ZenonT(30)
  <2> QED
    BY <1>4, <2>2 DEF z
<1> QED
  BY <1>1, <1>3, <1>4, <1>5, <1>6

\* A length between the one that was asked for and the one that fits in the
\* allocated memory gives the same size again.
LEMMA SizesStable ==
  ASSUME NEW n \in Nat, NEW x \in Nat, n <= x, x * SIZE <= size_in_bytes(n)
  PROVE  size_in_bytes(x) = size_in_bytes(n)
<1>1. AG \in Nat \ {0} /\ SIZE \in Nat \ {0}
  BY LayoutAssumption
<1>2. n * SIZE \in Nat /\ x * SIZE \in Nat
  BY <1>1
<1>3. n * SIZE <= x * SIZE
  BY <1>1, MulMonotone
<1>4. PICK m \in Nat \ {0} :
        /\ no_required_allocation_units(n * SIZE) = 2 * m
        /\ \A k \in Nat \ {0} : n * SIZE <= 2 * k * AG => m <= k
  BY <1>2, Units
<1>5. PICK p \in Nat \ {0} :
        /\ no_required_allocation_units(x * SIZE) = 2 * p
        /\ x * SIZE <= 2 * p * AG
        /\ \A k \in Nat \ {0} : x * SIZE <= 2 * k * AG => p <= k
  BY <1>2, Units
<1>6. p <= m
  BY <1>4, <1>5 DEF size_in_bytes
<1>7. n * SIZE <= 2 * p * AG
  BY <1>1, <1>2, <1>3, <1>5
<1>8. m <= p
  BY <1>4, <1>7
<1> QED
  BY <1>4, <1>5, <1>6, <1>8 DEF size_in_bytes

-----------------------------------------------------------------------------
(* The inductive invariant: one deque at a time.                           *)

\* The buffer of q is unallocated, or it holds an element and its size can
\* be recomputed from its length and from its capacity, and its slots fit in one
\* region.
BufferFits(q) ==
  IF q.blen = 0
  THEN q.half = 0 /\ q.head = 0
  ELSE /\ capacity(q) > 0 /\ q.half > 0 /\ q.half % ALIGN = 0
       /\ size_in_bytes(q.blen) = 2 * q.half
       /\ size_in_bytes(2 * capacity(q)) = 2 * q.half
       /\ capacity(q) * SIZE <= q.half
       /\ q.head < q.half /\ q.head % ALIGN = 0

WF(q) == IsDeque(q) /\ BufferFits(q) /\ q.len <= capacity(q)

\* A fresh buffer, with a slice that fits in it, is well formed.
LEMMA OnBufferWF ==
  ASSUME NEW n \in Nat \ {0}, NEW l \in 0 .. n
  PROVE  /\ WF(OnBuffer(uninitialized(2 * n), l))
         /\ OnBuffer(uninitialized(2 * n), l).len = l
         /\ capacity(OnBuffer(uninitialized(2 * n), l)) >= n
         /\ OnBuffer(uninitialized(2 * n), l).blen > 0
<1> DEFINE q == OnBuffer(uninitialized(2 * n), l)
           sz == size_in_bytes(2 * n)
<1>1. SIZE \in Nat \ {0} /\ ALIGN \in Nat \ {0}
  BY LayoutAssumption
<1>2. PICK h \in Nat \ {0} : /\ sz = 2 * h /\ sz \div 2 = h
                             /\ (2 * n) * SIZE <= 2 * h /\ h % ALIGN = 0
  BY Sizes, 2 * n \in Nat
<1> HIDE DEF sz
<1>3. /\ sz \div SIZE \in Nat
      /\ (sz \div SIZE) * SIZE <= sz
      /\ sz < (sz \div SIZE + 1) * SIZE
  BY <1>1, <1>2
<1>4. 2 * n <= sz \div SIZE
  <2>1. (2 * n) * SIZE < (sz \div SIZE + 1) * SIZE
    BY <1>1, <1>2, <1>3
  <2>2. 2 * n < sz \div SIZE + 1
    BY <1>1, <1>3, <2>1, MulCancel
  <2> QED
    BY <1>3, <2>2
<1>5. q = [blen |-> sz \div SIZE, half |-> h, mem |-> [a \in 0 .. h - 1 |-> Junk],
           head |-> 0, len |-> l]
  BY <1>2 DEF OnBuffer, uninitialized, sz
<1> DEFINE c == (sz \div SIZE) \div 2
<1>6. c \in Nat /\ n <= c /\ 2 * c <= sz \div SIZE
  BY <1>3, <1>4
<1> HIDE DEF c
<1>7. (2 * c) * SIZE <= (sz \div SIZE) * SIZE
  BY <1>1, <1>3, <1>6, MulMonotone
<1>8. c * SIZE <= h
  BY <1>1, <1>2, <1>3, <1>6, <1>7
<1>9. size_in_bytes(sz \div SIZE) = 2 * h
  BY <1>2, <1>3, <1>4, SizesStable DEF sz
<1>10. size_in_bytes(2 * c) = 2 * h
  <2>1. (2 * c) * SIZE <= sz
    BY <1>1, <1>2, <1>3, <1>6, <1>7
  <2>2. 2 * c \in Nat /\ 2 * n \in Nat /\ 2 * n <= 2 * c
    BY <1>6
  <2> QED
    BY <1>2, <2>1, <2>2, SizesStable DEF sz
<1>11. 0 % ALIGN = 0
  BY <1>1
<1> HIDE DEF q
<1>12. capacity(q) = c
  BY <1>5 DEF capacity, c
<1>13. IsDeque(q)
  BY <1>2, <1>3, <1>5 DEF IsDeque, Byte
<1>14. BufferFits(q)
  BY <1>2, <1>3, <1>4, <1>5, <1>6, <1>8, <1>9, <1>10, <1>11, <1>12 DEF BufferFits
<1>15. q.len = l /\ q.blen > 0
  BY <1>3, <1>4, <1>5
<1> QED
  BY <1>6, <1>12, <1>13, <1>14, <1>15 DEF WF, q

\* SliceDeque::new() is well formed.
LEMMA NewWF == WF(new) /\ new.len = 0 /\ capacity(new) = 0
<1>1. new = [blen |-> 0, half |-> 0, mem |-> [a \in {} |-> Junk], head |-> 0, len |-> 0]
  BY DEF new, OnBuffer, NewBuffer
<1>2. 0 .. 0 - 1 = {}
  OBVIOUS
<1> QED
  BY <1>1, <1>2 DEF WF, IsDeque, BufferFits, capacity

\* A slice that moves within its buffer.
LEMMA MovedSlice ==
  ASSUME NEW q, IsDeque(q), NEW h, NEW l
  PROVE  [q EXCEPT !.head = h, !.len = l]
           = [blen |-> q.blen, half |-> q.half, mem |-> q.mem, head |-> h, len |-> l]
<1> DEFINE p == [q EXCEPT !.head = h]
<1>1. p = [blen |-> q.blen, half |-> q.half, mem |-> q.mem, head |-> h, len |-> q.len]
  BY DEF IsDeque
<1>2. [p EXCEPT !.len = l]
        = [blen |-> q.blen, half |-> q.half, mem |-> q.mem, head |-> h, len |-> l]
  <2> HIDE DEF p
  <2> QED
    BY <1>1
<1>3. [q EXCEPT !.head = h, !.len = l] = [p EXCEPT !.len = l]
  OBVIOUS
<1> QED
  BY <1>2, <1>3

\* An operation that only rewrites memory.
LEMMA MemWF ==
  ASSUME NEW q, NEW m, WF(q), m \in [0 .. q.half - 1 -> Byte]
  PROVE  /\ WF([q EXCEPT !.mem = m])
         /\ [q EXCEPT !.mem = m].len = q.len
         /\ [q EXCEPT !.mem = m].blen = q.blen
         /\ capacity([q EXCEPT !.mem = m]) = capacity(q)
<1> DEFINE p == [q EXCEPT !.mem = m]
<1>1. p = [blen |-> q.blen, half |-> q.half, mem |-> m, head |-> q.head, len |-> q.len]
  BY SMTT(30) DEF WF, IsDeque
<1>2. capacity(p) = capacity(q)
  BY <1>1 DEF capacity
<1> HIDE DEF p
<1>3. IsDeque(p)
  BY <1>1 DEF WF, IsDeque
<1>4. BufferFits(p)
  BY <1>1, <1>2 DEF WF, BufferFits
<1>5. p.len <= capacity(p)
  BY <1>1, <1>2 DEF WF
<1> QED
  BY <1>1, <1>2, <1>3, <1>4, <1>5 DEF WF, p

\* Writing values of T leaves a deque well formed.
LEMMA WriteWF ==
  ASSUME NEW q, NEW i \in Int, NEW s \in Seq(Elem), WF(q)
  PROVE  /\ WF(Write(q, i, s))
         /\ Write(q, i, s).len = q.len
         /\ capacity(Write(q, i, s)) = capacity(q)
<1> DEFINE K(a) == (a - (q.head + i * SIZE)) % q.half
           m == [a \in DOMAIN q.mem |->
                  IF K(a) < Len(s) * SIZE
                  THEN <<s[(K(a) \div SIZE) + 1], K(a) % SIZE>>
                  ELSE q.mem[a]]
<1>1. SIZE \in Nat \ {0}
  BY LayoutAssumption
<1>2. /\ q.half \in Nat /\ q.head \in Nat
      /\ q.mem \in [0 .. q.half - 1 -> Byte]
  BY DEF WF, IsDeque
<1>3. ASSUME NEW a \in 0 .. q.half - 1
      PROVE  m[a] \in Byte
  <2>1. K(a) \in Nat
    <3> DEFINE o == a - (q.head + i * SIZE)
    <3>1. o \in Int /\ q.half \in Nat \ {0}
      BY <1>1, <1>2, <1>3
    <3> HIDE DEF o
    <3>2. o % q.half \in Nat
      BY <3>1, ModRange
    <3> QED
      BY <3>2 DEF o
  <2> DEFINE k == K(a)
  <2> HIDE DEF k
  <2>2. CASE k < Len(s) * SIZE
    <3>1. /\ k \div SIZE \in Nat /\ k % SIZE \in 0 .. SIZE - 1
          /\ (k \div SIZE) * SIZE <= k
      BY <1>1, <2>1, SMTT(30) DEF k
    <3>2. (k \div SIZE) * SIZE < Len(s) * SIZE
      BY <1>1, <2>1, <2>2, <3>1, SMTT(30) DEF k
    <3>3. k \div SIZE < Len(s)
      BY <1>1, <3>1, <3>2, MulCancel
    <3>4. s[(k \div SIZE) + 1] \in Elem
      BY <3>1, <3>3
    <3>5. m[a] = <<s[(k \div SIZE) + 1], k % SIZE>>
      BY <1>2, <1>3, <2>2 DEF k
    <3>6. <<s[(k \div SIZE) + 1], k % SIZE>> \in Elem \X (0 .. SIZE - 1)
      BY <3>1, <3>4
    <3> HIDE DEF m
    <3> QED
      BY <3>5, <3>6 DEF Byte
  <2>3. CASE ~(k < Len(s) * SIZE)
    <3>1. m[a] = q.mem[a]
      BY <1>2, <1>3, <2>3 DEF k
    <3> QED
      BY <1>2, <1>3, <3>1
  <2> QED
    BY <2>2, <2>3
<1>4. m \in [0 .. q.half - 1 -> Byte]
  <2>1. DOMAIN m = 0 .. q.half - 1
    BY <1>2
  <2> HIDE DEF m
  <2> QED
    BY <1>3, <2>1, m = [a \in DOMAIN m |-> m[a]] DEF m
<1>5. Write(q, i, s) = [q EXCEPT !.mem = m]
  BY DEF Write
<1> HIDE DEF m
<1> QED
  BY <1>4, <1>5, MemWF

\* Copying the slots of an allocated deque leaves the target well formed.
LEMMA CopyWF ==
  ASSUME NEW src, NEW i \in Int, NEW q, NEW j \in Int, NEW n \in Int,
         WF(src), WF(q), n > 0 => src.blen > 0
  PROVE  /\ WF(Copy(src, i, q, j, n))
         /\ Copy(src, i, q, j, n).len = q.len
         /\ Copy(src, i, q, j, n).blen = q.blen
         /\ capacity(Copy(src, i, q, j, n)) = capacity(q)
<1> DEFINE K(a) == (a - (q.head + j * SIZE)) % q.half
           m == [a \in DOMAIN q.mem |->
                  IF K(a) < n * SIZE
                  THEN src.mem[Phys(src, src.head + i * SIZE + K(a))]
                  ELSE q.mem[a]]
<1>1. SIZE \in Nat \ {0}
  BY LayoutAssumption
<1>2. /\ q.half \in Nat /\ q.head \in Nat
      /\ q.mem \in [0 .. q.half - 1 -> Byte]
      /\ src.half \in Nat /\ src.head \in Nat
      /\ src.mem \in [0 .. src.half - 1 -> Byte]
      /\ src.blen \in Nat
      /\ src.blen > 0 => src.half > 0
  BY DEF WF, IsDeque, BufferFits
<1>3. ASSUME NEW a \in 0 .. q.half - 1
      PROVE  m[a] \in Byte
  <2>1. K(a) \in Nat
    <3> DEFINE o == a - (q.head + j * SIZE)
    <3>1. o \in Int /\ q.half \in Nat \ {0}
      BY <1>1, <1>2, <1>3
    <3> HIDE DEF o
    <3>2. o % q.half \in Nat
      BY <3>1, ModRange
    <3> QED
      BY <3>2 DEF o
  <2> DEFINE k == K(a)
  <2> HIDE DEF k
  <2>2. CASE k < n * SIZE
    <3>1. n > 0
      <4> SUFFICES ASSUME n <= 0 PROVE FALSE
        OBVIOUS
      <4>1. n * SIZE <= 0 * SIZE
        BY <1>1, MulMonotone
      <4> QED
        BY <1>1, <2>1, <2>2, <4>1 DEF k
    <3>2. src.half \in Nat \ {0}
      BY <1>2, <3>1
    <3> DEFINE o == src.head + i * SIZE + k
    <3>3. Phys(src, o) \in 0 .. src.half - 1
      <4>1. k \in Nat
        BY <2>1 DEF k
      <4>2. o \in Int
        BY <1>1, <1>2, <4>1
      <4> HIDE DEF o
      <4> QED
        BY <3>2, <4>2, ModRange DEF Phys
    <3>4. m[a] = src.mem[Phys(src, src.head + i * SIZE + k)]
      BY <1>2, <1>3, <2>2 DEF k
    <3> QED
      BY <1>2, <3>3, <3>4
  <2>3. CASE ~(k < n * SIZE)
    <3>1. m[a] = q.mem[a]
      BY <1>2, <1>3, <2>3 DEF k
    <3> QED
      BY <1>2, <1>3, <3>1
  <2> QED
    BY <2>2, <2>3
<1>4. m \in [0 .. q.half - 1 -> Byte]
  <2>1. DOMAIN m = 0 .. q.half - 1
    BY <1>2
  <2> HIDE DEF m
  <2> QED
    BY <1>3, <2>1, m = [a \in DOMAIN m |-> m[a]] DEF m
<1>5. Copy(src, i, q, j, n) = [q EXCEPT !.mem = m]
  BY DEF Copy
<1> HIDE DEF m
<1> QED
  BY <1>4, <1>5, MemWF

\* What a destructor writes leaves a deque well formed.
LEMMA DropWF ==
  ASSUME NEW p, NEW q, NEW i, NEW n, WF(p)
  PROVE  WF(drop_in_place(p, q, i, n))
<1> DEFINE m == [a \in DOMAIN p.mem |->
                  IF (a - (q.head + i * SIZE)) % q.half < n * SIZE
                  THEN Junk ELSE p.mem[a]]
<1>1. m \in [0 .. p.half - 1 -> Byte]
  BY DEF WF, IsDeque, Byte
<1> QED
  BY <1>1, MemWF DEF drop_in_place

\* So does what Settle forgets.
LEMMA SettleWF ==
  ASSUME NEW q, WF(q)
  PROVE  WF(Settle(q))
<1> DEFINE m == [a \in DOMAIN q.mem |->
                  IF (a - q.head) % q.half < q.len * SIZE THEN q.mem[a] ELSE Junk]
<1>1. m \in [0 .. q.half - 1 -> Byte]
  BY DEF WF, IsDeque, Byte
<1> QED
  BY <1>1, MemWF DEF Settle

\* The tail moves within the capacity.
LEMMA MoveTailWF ==
  ASSUME NEW q, NEW x \in Int, WF(q), q.len + x \in 0 .. capacity(q)
  PROVE  /\ WF(move_tail_unchecked(q, x))
         /\ move_tail_unchecked(q, x).len = q.len + x
         /\ move_tail_unchecked(q, x).blen = q.blen
         /\ capacity(move_tail_unchecked(q, x)) = capacity(q)
<1> DEFINE p == move_tail_unchecked(q, x)
<1>1. p = [blen |-> q.blen, half |-> q.half, mem |-> q.mem, head |-> q.head,
           len |-> q.len + x]
  BY DEF move_tail_unchecked, WF, IsDeque
<1> HIDE DEF p
<1>2. capacity(p) = capacity(q)
  BY <1>1 DEF capacity
<1>3. capacity(q) \in Nat
  BY DEF capacity, WF, IsDeque
<1>4. IsDeque(p) /\ p.len <= capacity(p)
  BY <1>1, <1>2, <1>3 DEF WF, IsDeque
<1>5. BufferFits(p)
  BY <1>1, <1>2 DEF WF, BufferFits
<1> QED
  BY <1>1, <1>2, <1>4, <1>5 DEF WF, p

\* The head moves within the capacity: one shift by the region brings it back
\* into the first region, and keeps it aligned.
LEMMA MoveHeadWF ==
  ASSUME NEW q, NEW x \in Int, WF(q), q.len - x \in 0 .. capacity(q)
  PROVE  /\ WF(move_head_unchecked(q, x))
         /\ move_head_unchecked(q, x).len = q.len - x
         /\ move_head_unchecked(q, x).blen = q.blen
         /\ capacity(move_head_unchecked(q, x)) = capacity(q)
<1> DEFINE p      == move_head_unchecked(q, x)
           begin  == q.head + x * SIZE
           region == size_in_bytes(q.blen) \div 2
           h      == IF begin < 0 THEN begin + region
                     ELSE IF begin >= region THEN begin - region ELSE begin
           c      == capacity(q)
<1>1. p = [blen |-> q.blen, half |-> q.half, mem |-> q.mem, head |-> h,
           len |-> q.len - x]
  <2>1. p = [q EXCEPT !.head = h, !.len = q.len - x]
    BY DEF move_head_unchecked
  <2> HIDE DEF p, h
  <2> QED
    BY <2>1, MovedSlice DEF WF
<1>2. /\ SIZE \in Nat \ {0} /\ ALIGN \in Nat \ {0} /\ SIZE % ALIGN = 0
      /\ q.blen \in Nat /\ q.half \in Nat /\ q.head \in Nat /\ q.len \in Nat
      /\ c \in Nat /\ q.len <= c
      /\ q.blen = 0 => c = 0
  BY LayoutAssumption, SMTT(30) DEF capacity, WF, IsDeque
<1>3. capacity(p) = c
  BY <1>1 DEF capacity
<1>4. CASE q.blen = 0
  <2>1. x = 0 /\ q.head = 0
    BY <1>2, <1>4 DEF WF, BufferFits
  <2>2. region \in Nat \ {0}
    BY <1>4, Sizes, 0 \in Nat
  <2> HIDE DEF region
  <2>3. h = 0
    BY <1>2, <2>1, <2>2
  <2> HIDE DEF h, p, c
  <2>4. IsDeque(p)
    BY <1>1, <1>2, <2>1, <2>3 DEF WF, IsDeque
  <2>5. BufferFits(p)
    BY <1>1, <1>4, <2>3 DEF WF, BufferFits
  <2> QED
    BY <1>1, <1>2, <1>3, <2>4, <2>5 DEF WF, p, c
<1>5. CASE q.blen > 0
  <2>1. /\ q.half > 0 /\ q.half % ALIGN = 0 /\ size_in_bytes(q.blen) = 2 * q.half
        /\ c * SIZE <= q.half
        /\ q.head < q.half /\ q.head % ALIGN = 0
    BY <1>2, <1>5 DEF WF, BufferFits
  <2>2. region = q.half
    BY <1>2, <2>1
  <2> HIDE DEF region, c
  <2>3. x * SIZE <= c * SIZE /\ (0 - c) * SIZE <= x * SIZE
    <3>1. x <= c /\ 0 - c <= x
      BY <1>2 DEF c
    <3> QED
      BY <1>2, <3>1, MulMonotone
  <2>4. begin \in Int /\ begin < 2 * q.half /\ begin >= 0 - q.half
    BY <1>2, <2>1, <2>3
  <2>5. begin % ALIGN = 0
    <3>1. /\ q.head \in Int /\ SIZE \in Int /\ ALIGN \in Nat \ {0}
          /\ q.head % ALIGN = 0 /\ SIZE % ALIGN = 0
      BY <1>2, <2>1
    <3> QED
      BY <3>1, ModAdd
  <2> HIDE DEF begin
  <2>6. h \in Nat /\ h < q.half
    BY <1>2, <2>1, <2>2, <2>4
  <2>7. h % ALIGN = 0
    <3>1. begin \in Int /\ q.half \in Int /\ ALIGN \in Nat \ {0} /\ q.half % ALIGN = 0
      BY <1>2, <2>1, <2>4
    <3>2. (begin + q.half) % ALIGN = 0 /\ (begin - q.half) % ALIGN = 0
      BY <2>5, <3>1, ModPlus
    <3> QED
      BY <2>2, <2>5, <3>2
  <2> HIDE DEF h, p
  <2>8. IsDeque(p) /\ p.len <= capacity(p)
    BY <1>1, <1>2, <1>3, <2>6 DEF WF, IsDeque, c
  <2>9. BufferFits(p)
    BY <1>1, <1>3, <1>5, <2>1, <2>6, <2>7 DEF WF, BufferFits, c
  <2> QED
    BY <1>1, <1>3, <2>8, <2>9 DEF WF, p, c
<1> QED
  BY <1>2, <1>4, <1>5

\* An element needs an allocated buffer.
LEMMA Basics ==
  ASSUME NEW q, WF(q)
  PROVE  /\ q.len \in Nat /\ q.blen \in Nat /\ capacity(q) \in Nat
         /\ q.len <= capacity(q)
         /\ q.len > 0 => q.blen > 0
         /\ capacity(q) > 0 => q.blen > 0
  BY DEF WF, IsDeque, capacity

\* Reserving gives a well formed deque of the same length with the capacity
\* that was asked for, and no less than it had.
LEMMA ReserveCapacityWF ==
  ASSUME NEW q, NEW n \in Nat, NEW oom, WF(q), reserve_capacity(q, n, oom).ok
  PROVE  /\ WF(reserve_capacity(q, n, oom).q)
         /\ reserve_capacity(q, n, oom).q.len = q.len
         /\ capacity(reserve_capacity(q, n, oom).q) >= n
         /\ capacity(reserve_capacity(q, n, oom).q) >= capacity(q)
<1> DEFINE r == reserve_capacity(q, n, oom)
           b == OnBuffer(uninitialized(2 * n), q.len)
<1>1. q.len \in Nat /\ capacity(q) \in Nat /\ q.len <= capacity(q)
  BY Basics
<1>2. CASE n <= capacity(q)
  <2>1. r.q = q
    BY <1>2 DEF reserve_capacity, Ok
  <2> QED
    BY <1>1, <1>2, <2>1
<1>3. CASE n > capacity(q)
  <2>1. r.q = Copy(q, 0, b, 0, q.len)
    BY <1>1, <1>3 DEF reserve_capacity, Ok, Err
  <2>2. n \in Nat \ {0} /\ q.len \in 0 .. n
    BY <1>1, <1>3
  <2>3. WF(b) /\ b.len = q.len /\ capacity(b) >= n
    BY <2>2, OnBufferWF
  <2> HIDE DEF b, r
  <2>4. 0 \in Int /\ q.len \in Int /\ (q.len > 0 => q.blen > 0)
    BY Basics
  <2>5. /\ WF(Copy(q, 0, b, 0, q.len))
        /\ Copy(q, 0, b, 0, q.len).len = b.len
        /\ capacity(Copy(q, 0, b, 0, q.len)) = capacity(b)
    BY <2>3, <2>4, CopyWF
  <2>6. capacity(b) \in Nat
    BY <2>3, Basics
  <2> QED
    BY <1>1, <1>3, <2>1, <2>3, <2>5, <2>6 DEF r
<1> QED
  BY <1>1, <1>2, <1>3

\* The growth policy asks for enough.
LEMMA GrowPolicyEnough ==
  ASSUME NEW q, NEW n \in Nat, WF(q)
  PROVE  grow_policy(q, n) \in Nat /\ grow_policy(q, n) >= q.len + n
  BY Basics DEF grow_policy

\* try_reserve(n) makes room for n more elements.
LEMMA TryReserveWF ==
  ASSUME NEW q, NEW n \in Nat, NEW oom, WF(q), try_reserve(q, n, oom).ok
  PROVE  /\ WF(try_reserve(q, n, oom).q)
         /\ try_reserve(q, n, oom).q.len = q.len
         /\ capacity(try_reserve(q, n, oom).q) >= q.len + n
         /\ capacity(try_reserve(q, n, oom).q) >= capacity(q)
<1> DEFINE g == grow_policy(q, n)
           p == try_reserve(q, n, oom).q
<1>1. g \in Nat /\ g >= q.len + n
  BY GrowPolicyEnough
<1>2. p = reserve_capacity(q, g, oom).q /\ reserve_capacity(q, g, oom).ok
  BY DEF try_reserve
<1> HIDE DEF g
<1>3. WF(p) /\ p.len = q.len /\ capacity(p) >= g /\ capacity(p) >= capacity(q)
  BY <1>1, <1>2, ReserveCapacityWF
<1>4. capacity(p) \in Nat /\ q.len \in Nat
  BY <1>3, Basics
<1> QED
  BY <1>1, <1>3, <1>4

\* A full deque makes room for one more element.
LEMMA RoomForOneWF ==
  ASSUME NEW q, NEW oom, WF(q), RoomForOne(q, oom).ok
  PROVE  /\ WF(RoomForOne(q, oom).q)
         /\ RoomForOne(q, oom).q.len = q.len
         /\ capacity(RoomForOne(q, oom).q) >= q.len + 1
<1>1. CASE is_full(q)
  <2>1. RoomForOne(q, oom) = try_reserve(q, 1, oom)
    BY <1>1 DEF RoomForOne
  <2> QED
    BY <2>1, TryReserveWF, 1 \in Nat
<1>2. CASE ~is_full(q)
  <2>1. RoomForOne(q, oom).q = q
    BY <1>2 DEF RoomForOne, Ok
  <2> QED
    BY <1>2, <2>1, Basics DEF is_full
<1> QED
  BY <1>1, <1>2

\* with_capacity(n) is empty and has room for n elements.
LEMMA WithCapacityWF ==
  ASSUME NEW n \in Nat
  PROVE  /\ WF(with_capacity(n))
         /\ with_capacity(n).len = 0
         /\ capacity(with_capacity(n)) >= n
<1>1. CASE n = 0
  <2>1. with_capacity(n) = new
    BY <1>1 DEF with_capacity, uninitialized, new
  <2> QED
    BY <1>1, <2>1, NewWF
<1>2. CASE n # 0
  <2>1. n \in Nat \ {0} /\ 0 \in 0 .. n
    BY <1>2
  <2> QED
    BY <2>1, OnBufferWF DEF with_capacity
<1> QED
  BY <1>1, <1>2

\* Appending the values of s when there is room for them.
LEMMA PushAllWF ==
  ASSUME NEW q, NEW s \in Seq(Elem), WF(q), q.len + Len(s) <= capacity(q)
  PROVE  /\ WF(PushAll(q, s))
         /\ PushAll(q, s).len = q.len + Len(s)
         /\ capacity(PushAll(q, s)) = capacity(q)
<1> DEFINE p == move_tail_unchecked(q, Len(s))
<1>1. Len(s) \in Int /\ q.len \in Int /\ q.len + Len(s) \in 0 .. capacity(q)
  BY Basics
<1>2. WF(p) /\ p.len = q.len + Len(s) /\ capacity(p) = capacity(q)
  BY <1>1, MoveTailWF
<1> HIDE DEF p
<1>3. /\ WF(Write(p, q.len, s)) /\ Write(p, q.len, s).len = p.len
      /\ capacity(Write(p, q.len, s)) = capacity(p)
  BY <1>1, <1>2, WriteWF
<1> QED
  BY <1>2, <1>3 DEF PushAll, p

\* Assigning the values of s to n slots that the tail already covers.
LEMMA AssignAllWF ==
  ASSUME NEW q, NEW n \in Nat, NEW s \in Seq(Elem), WF(q), q.len + n <= capacity(q)
  PROVE  WF(AssignAll(q, n, s))
<1>1. n \in Int /\ q.len \in Int /\ q.len + n \in 0 .. capacity(q)
  BY Basics
<1>2. WF(move_tail_unchecked(q, n))
  BY <1>1, MoveTailWF
<1> QED
  BY <1>1, <1>2, WriteWF DEF AssignAll

\* Swapping two slots.
LEMMA SwapWF ==
  ASSUME NEW q, NEW i \in Int, NEW j \in Int, WF(q), q.len > 0
  PROVE  /\ WF(swap(q, i, j))
         /\ swap(q, i, j).len = q.len
         /\ capacity(swap(q, i, j)) = capacity(q)
<1> DEFINE p == Copy(q, j, q, i, 1)
<1>1. q.blen > 0 /\ 1 \in Int
  BY Basics
<1>2. WF(p) /\ p.len = q.len /\ capacity(p) = capacity(q)
  BY <1>1, CopyWF
<1> HIDE DEF p
<1>3. /\ WF(Copy(q, i, p, j, 1))
      /\ Copy(q, i, p, j, 1).len = p.len
      /\ capacity(Copy(q, i, p, j, 1)) = capacity(p)
  BY <1>1, <1>2, CopyWF
<1> QED
  BY <1>2, <1>3 DEF swap, p

\* The shifts of insert.
LEMMA MakeHoleWF ==
  ASSUME NEW q, NEW index \in Nat, WF(q), index <= q.len, q.len + 1 <= capacity(q)
  PROVE  WF(MakeHole(q, index))
<1>1. /\ q.len \in Nat /\ capacity(q) \in Nat /\ q.blen > 0
      /\ q.len + 1 \in 0 .. capacity(q) /\ q.len - (-1) \in 0 .. capacity(q)
  BY Basics
<1>2. CASE index > q.len \div 2
  <2> DEFINE p == Copy(q, index, q, index + 1, q.len - index)
  <2>1. index \in Int /\ index + 1 \in Int /\ q.len - index \in Int
    BY <1>1
  <2>2. WF(p) /\ p.len = q.len /\ capacity(p) = capacity(q)
    BY <1>1, <2>1, CopyWF
  <2> HIDE DEF p
  <2>3. WF(move_tail_unchecked(p, 1))
    BY <1>1, <2>2, MoveTailWF, 1 \in Int
  <2> QED
    BY <1>2, <2>3 DEF MakeHole, p
<1>3. CASE ~(index > q.len \div 2)
  <2> DEFINE p == move_head_unchecked(q, -1)
  <2>1. WF(p) /\ p.blen = q.blen
    BY <1>1, MoveHeadWF, -1 \in Int
  <2> HIDE DEF p
  <2>2. index \in Int /\ index - 1 \in Int
    OBVIOUS
  <2>3. WF(Copy(p, index, p, index - 1, index))
    BY <1>1, <2>1, <2>2, CopyWF
  <2> QED
    BY <1>3, <2>3 DEF MakeHole, p
<1> QED
  BY <1>2, <1>3

\* The shifts of remove.
LEMMA CloseHoleWF ==
  ASSUME NEW q, NEW index \in Nat, WF(q), index < q.len
  PROVE  WF(CloseHole(q, index))
<1>1. /\ q.len \in Nat /\ capacity(q) \in Nat /\ q.blen > 0
      /\ q.len + (-1) \in 0 .. capacity(q) /\ q.len - 1 \in 0 .. capacity(q)
  BY Basics
<1>2. CASE index > q.len \div 2
  <2> DEFINE p == Copy(q, index + 1, q, index, q.len - index - 1)
  <2>1. index \in Int /\ index + 1 \in Int /\ q.len - index - 1 \in Int
    BY <1>1
  <2>2. WF(p) /\ p.len = q.len /\ capacity(p) = capacity(q)
    BY <1>1, <2>1, CopyWF
  <2> HIDE DEF p
  <2>3. WF(move_tail_unchecked(p, -1))
    BY <1>1, <2>2, MoveTailWF, -1 \in Int
  <2> QED
    BY <1>2, <2>3 DEF CloseHole, p
<1>3. CASE ~(index > q.len \div 2)
  <2> DEFINE p == Copy(q, 0, q, 1, index)
  <2>1. WF(p) /\ p.len = q.len /\ capacity(p) = capacity(q)
    BY <1>1, CopyWF, 0 \in Int, 1 \in Int, index \in Int
  <2> HIDE DEF p
  <2>2. WF(move_head_unchecked(p, 1))
    BY <1>1, <2>1, MoveHeadWF, 1 \in Int
  <2> QED
    BY <1>3, <2>2 DEF CloseHole, p
<1> QED
  BY <1>2, <1>3

-----------------------------------------------------------------------------
(* The inductive invariant, and the actions.                               *)

Inv ==
  /\ DOMAIN dq = DEQS
  /\ \A d \in DEQS : WF(dq[d])
  /\ live \subseteq Elem
  /\ ub \in BOOLEAN

\* A call that leaves the deques as they were.
LEMMA StaysInv ==
  ASSUME NEW op, NEW arg, NEW v, Inv, Stays(op, arg, v)
  PROVE  Inv'
  BY DEF Inv, Stays

\* Destructors and constructors keep live a set of values of T.
LEMMA OwnInv ==
  ASSUME NEW created, NEW dropped, Inv, Own(created, dropped), created \subseteq Elem
  PROVE  live' \subseteq Elem /\ ub' \in BOOLEAN
  BY DEF Inv, Own

\* A call that replaces one deque.
LEMMA BecomesInv ==
  ASSUME NEW d \in DEQS, NEW q, NEW created, NEW dropped, Inv,
         WF(q), Becomes(d, q), Own(created, dropped), created \subseteq Elem
  PROVE  Inv'
<1>1. WF(Settle(q))
  BY SettleWF
<1>2. DOMAIN dq' = DEQS /\ \A c \in DEQS : WF(dq'[c])
  <2>1. dq' = [dq EXCEPT ![d] = Settle(q)]
    BY DEF Becomes
  <2>2. DOMAIN dq' = DEQS
    BY <2>1 DEF Inv
  <2>3. ASSUME NEW c \in DEQS
        PROVE  WF(dq'[c])
    <3>1. dq'[c] = IF c = d THEN Settle(q) ELSE dq[c]
      BY <2>1 DEF Inv
    <3> QED
      BY <1>1, <3>1 DEF Inv
  <2> QED
    BY <2>2, <2>3
<1> QED
  BY <1>2, OwnInv DEF Inv

\* A call that replaces two deques.
LEMMA TwoBecomeInv ==
  ASSUME NEW d \in DEQS, NEW o \in DEQS, NEW q, NEW p, NEW created, NEW dropped,
         Inv, WF(q), WF(p), BothBecome(d, q, o, p),
         Own(created, dropped), created \subseteq Elem
  PROVE  Inv'
<1>1. WF(Settle(q)) /\ WF(Settle(p))
  BY SettleWF
<1>2. DOMAIN dq' = DEQS
  BY DEF Inv, BothBecome
<1>3. ASSUME NEW c \in DEQS
      PROVE  WF(dq'[c])
  <2>1. dq'[c] = IF c = o THEN Settle(p) ELSE IF c = d THEN Settle(q) ELSE dq[c]
    BY DEF Inv, BothBecome
  <2> QED
    BY <1>1, <2>1 DEF Inv
<1> QED
  BY <1>2, <1>3, OwnInv DEF Inv

\* What a caller passes in: values of T.
LEMMA UnbornElems ==
  /\ Unborn \subseteq Elem
  /\ \A s \in UnbornSeqs : s \in Seq(Elem) /\ ToSet(s) \subseteq Elem
<1>1. Unborn \subseteq Elem
  BY DEF Unborn
<1>2. ASSUME NEW s \in UnbornSeqs
      PROVE  s \in Seq(Elem) /\ ToSet(s) \subseteq Elem
  <2>1. PICK m \in 0 .. MaxItems : s \in [1 .. m -> Unborn]
    BY DEF UnbornSeqs, SeqOf
  <2>2. s \in Seq(Elem)
    BY <1>1, <2>1, BoundAssumption
  <2>3. ToSet(s) \subseteq Elem
    BY <1>1, <2>1 DEF ToSet
  <2> QED
    BY <2>2, <2>3
<1> QED
  BY <1>1, <1>2

\* A value by itself.
LEMMA One ==
  ASSUME NEW e \in Elem
  PROVE  <<e>> \in Seq(Elem) /\ Len(<<e>>) = 1 /\ {e} \subseteq Elem
  OBVIOUS

\* Construction and capacity.
LEMMA CapacityInv ==
  ASSUME NEW d \in DEQS, NEW n \in Nat, NEW oom, Inv,
         assign(d, n, oom) \/ reserve(d, n, oom) \/ reserve_exact(d, n, oom)
  PROVE  Inv'
<1> DEFINE q == dq[d]
<1>1. WF(q) /\ {} \subseteq Elem
  BY DEF Inv
<1>2. CASE assign(d, n, oom)
  <2>1. WF(with_capacity(n))
    BY WithCapacityWF
  <2> QED
    BY <1>1, <1>2, <2>1, BecomesInv, StaysInv DEF assign
<1>3. CASE reserve(d, n, oom)
  <2> DEFINE r == try_reserve(q, n, oom)
  <2>1. r.ok => WF(r.q)
    BY <1>1, TryReserveWF
  <2> QED
    BY <1>1, <1>3, <2>1, BecomesInv, StaysInv DEF reserve
<1>4. CASE reserve_exact(d, n, oom)
  <2> DEFINE r == reserve_capacity(q, q.len + n, oom)
  <2>1. q.len + n \in Nat
    BY <1>1, Basics
  <2>2. r.ok => WF(r.q)
    BY <1>1, <2>1, ReserveCapacityWF
  <2> QED
    BY <1>1, <1>4, <2>2, BecomesInv, StaysInv DEF reserve_exact
<1> QED
  BY <1>2, <1>3, <1>4

\* shrink_to_fit, faulty as its drop of the elements is.
LEMMA ShrinkInv ==
  ASSUME NEW d \in DEQS, NEW oom, Inv, shrink_to_fit(d, oom)
  PROVE  Inv'
<1> DEFINE q        == dq[d]
           new_sdeq == with_capacity(q.len)
           p        == move_tail_unchecked(new_sdeq, q.len)
<1>1. WF(q) /\ q.len \in Nat /\ q.len \in Int /\ 0 \in Int /\ {} \subseteq Elem
  BY Basics DEF Inv
<1>2. WF(new_sdeq) /\ new_sdeq.len = 0 /\ capacity(new_sdeq) >= q.len
  BY <1>1, WithCapacityWF
<1>3. new_sdeq.len + q.len \in 0 .. capacity(new_sdeq)
  BY <1>1, <1>2, Basics
<1> HIDE DEF new_sdeq
<1>4. WF(p)
  BY <1>1, <1>2, <1>3, MoveTailWF
<1> HIDE DEF p
<1>5. WF(Copy(q, 0, p, 0, q.len))
  BY <1>1, <1>4, CopyWF, Basics
<1> QED
  BY <1>1, <1>5, BecomesInv, StaysInv DEF shrink_to_fit, p, new_sdeq

\* One element more at an end.
LEMMA PushInv ==
  ASSUME NEW d \in DEQS, NEW e \in Elem, NEW oom, Inv,
         push_front(d, e, oom) \/ push_back(d, e, oom)
  PROVE  Inv'
<1> DEFINE r == RoomForOne(dq[d], oom)
<1>1. CASE ~r.ok
  BY <1>1, StaysInv DEF push_front, push_back
<1>2. CASE r.ok
  <2>1. WF(r.q) /\ r.q.len + 1 <= capacity(r.q)
    BY <1>2, RoomForOneWF DEF Inv
  <2>2. /\ r.q.len \in Int /\ 0 \in Int /\ 1 \in Int /\ -1 \in Int
        /\ r.q.len + 1 \in 0 .. capacity(r.q)
        /\ r.q.len - (-1) \in 0 .. capacity(r.q)
    BY <2>1, Basics
  <2> DEFINE h == Write(move_head_unchecked(r.q, -1), 0, <<e>>)
             b == Write(move_tail_unchecked(r.q, 1), r.q.len, <<e>>)
  <2>3. WF(h)
    BY <2>1, <2>2, MoveHeadWF, WriteWF, One
  <2>4. WF(b)
    BY <2>1, <2>2, MoveTailWF, WriteWF, One
  <2>5. \/ Becomes(d, h) /\ Own({e}, <<>>)
        \/ Becomes(d, b) /\ Own({e}, <<>>)
    BY <1>2 DEF push_front, push_back, Stays
  <2> HIDE DEF h, b
  <2> QED
    BY <2>3, <2>4, <2>5, One, BecomesInv
<1> QED
  BY <1>1, <1>2

\* One element less at an end.
LEMMA PopInv ==
  ASSUME NEW d \in DEQS, Inv, pop_front(d) \/ pop_back(d)
  PROVE  Inv'
<1> DEFINE q == dq[d]
<1>1. WF(q) /\ q.len \in Nat /\ capacity(q) \in Nat /\ q.len <= capacity(q)
  BY Basics DEF Inv
<1>2. CASE q.len = 0
  BY <1>2, StaysInv DEF pop_front, pop_back
<1>3. CASE q.len > 0
  <2>1. /\ 1 \in Int /\ -1 \in Int
        /\ q.len - 1 \in 0 .. capacity(q) /\ q.len + (-1) \in 0 .. capacity(q)
    BY <1>1, <1>3
  <2>2. WF(move_head_unchecked(q, 1)) /\ WF(move_tail_unchecked(q, -1))
    BY <1>1, <2>1, MoveHeadWF, MoveTailWF
  <2> QED
    BY <1>3, <2>2, BecomesInv, {} \subseteq Elem DEF pop_front, pop_back, Stays
<1> QED
  BY <1>1, <1>2, <1>3

\* Truncation.
LEMMA TruncateInv ==
  ASSUME NEW d \in DEQS, NEW len \in Nat, Inv,
         truncate_back(d, len) \/ truncate_front(d, len)
  PROVE  Inv'
<1> DEFINE q    == dq[d]
           diff == q.len - len
<1>1. WF(q) /\ q.len \in Nat /\ capacity(q) \in Nat /\ q.len <= capacity(q)
  BY Basics DEF Inv
<1>2. CASE len >= q.len
  BY <1>1, <1>2, StaysInv DEF truncate_back, truncate_front
<1>3. CASE len < q.len
  <2>1. /\ diff \in Int /\ -diff \in Int
        /\ q.len - diff \in 0 .. capacity(q) /\ q.len + (-diff) \in 0 .. capacity(q)
    BY <1>1, <1>3
  <2>2. WF(move_head_unchecked(q, diff)) /\ WF(move_tail_unchecked(q, -diff))
    BY <1>1, <2>1, MoveHeadWF, MoveTailWF
  <2>3. /\ WF(drop_in_place(move_tail_unchecked(q, -diff), q, len, diff))
        /\ WF(drop_in_place(move_head_unchecked(q, diff), q, 0, diff))
    BY <2>2, DropWF
  <2> QED
    BY <1>1, <1>3, <2>3, BecomesInv, {} \subseteq Elem
    DEF truncate_back, truncate_front, Stays
<1> QED
  BY <1>1, <1>2, <1>3

\* Removal at an index.
LEMMA SwapRemoveInv ==
  ASSUME NEW d \in DEQS, NEW index \in Nat, Inv,
         swap_remove_back(d, index) \/ swap_remove_front(d, index)
  PROVE  Inv'
<1> DEFINE q == dq[d]
           b == swap(q, index, q.len - 1)
           f == swap(q, index, 0)
<1>1. WF(q) /\ q.len \in Nat /\ capacity(q) \in Nat /\ q.len <= capacity(q)
  BY Basics DEF Inv
<1>2. CASE index >= q.len
  BY <1>1, <1>2, StaysInv DEF swap_remove_back, swap_remove_front
<1>3. CASE index < q.len
  <2>1. /\ index \in Int /\ q.len - 1 \in Int /\ 0 \in Int /\ 1 \in Int /\ -1 \in Int
        /\ q.len - 1 \in 0 .. capacity(q) /\ q.len + (-1) \in 0 .. capacity(q)
        /\ q.len > 0
    BY <1>1, <1>3
  <2>2. /\ WF(b) /\ b.len = q.len /\ capacity(b) = capacity(q)
        /\ WF(f) /\ f.len = q.len /\ capacity(f) = capacity(q)
    BY <1>1, <2>1, SwapWF
  <2> HIDE DEF b, f
  <2>3. WF(move_tail_unchecked(b, -1)) /\ WF(move_head_unchecked(f, 1))
    BY <2>1, <2>2, MoveHeadWF, MoveTailWF
  <2> QED
    BY <1>1, <1>3, <2>1, <2>3, BecomesInv, {} \subseteq Elem
    DEF swap_remove_back, swap_remove_front, Stays, b, f
<1> QED
  BY <1>1, <1>2, <1>3

\* Insertion at an index, the faulty shifts to the front included.
LEMMA InsertInv ==
  ASSUME NEW d \in DEQS, NEW index \in Nat, NEW e \in Elem, NEW oom, Inv,
         insert(d, index, e, oom)
  PROVE  Inv'
<1> DEFINE r == RoomForOne(dq[d], oom)
           p == Write(MakeHole(r.q, index), index, <<e>>)
<1>1. CASE index <= dq[d].len /\ r.ok
  <2>1. WF(r.q) /\ r.q.len + 1 <= capacity(r.q) /\ index <= r.q.len
    BY <1>1, RoomForOneWF DEF Inv
  <2>2. WF(MakeHole(r.q, index))
    BY <2>1, MakeHoleWF
  <2>3. WF(p)
    BY <2>2, WriteWF, One, index \in Int
  <2>4. Becomes(d, p) /\ Own({e}, <<>>)
    BY <1>1, Basics DEF insert, Stays, Inv
  <2> HIDE DEF p
  <2> QED
    BY <2>3, <2>4, One, BecomesInv
<1>2. CASE ~(index <= dq[d].len /\ r.ok)
  BY <1>2, StaysInv DEF insert
<1> QED
  BY <1>1, <1>2

\* Removal of the element at an index, or of the first one that is equal.
LEMMA RemoveInv ==
  ASSUME NEW d \in DEQS, Inv,
         \/ \E index \in Nat : remove(d, index)
         \/ \E equal \in SUBSET (0 .. dq[d].len - 1) : remove_item(d, equal)
  PROVE  Inv'
<1> DEFINE q == dq[d]
<1>1. WF(q) /\ q.len \in Nat
  BY Basics DEF Inv
<1>2. ASSUME NEW index \in Nat, remove(d, index)
      PROVE  Inv'
  <2>1. CASE index >= q.len
    BY <1>1, <1>2, <2>1, StaysInv DEF remove
  <2>2. CASE index < q.len
    <3>1. WF(CloseHole(q, index))
      BY <1>1, <2>2, CloseHoleWF
    <3> QED
      BY <1>1, <1>2, <2>2, <3>1, BecomesInv, {} \subseteq Elem DEF remove
  <2> QED
    BY <1>1, <2>1, <2>2
<1>3. ASSUME NEW equal \in SUBSET (0 .. dq[d].len - 1), remove_item(d, equal)
      PROVE  Inv'
  <2>1. CASE equal = {}
    BY <1>3, <2>1, StaysInv DEF remove_item
  <2>2. CASE equal # {}
    <3>1. PICK pos \in equal : Becomes(d, CloseHole(q, pos)) /\ Own({}, <<Read(q, pos)>>)
      BY <1>3, <2>2 DEF remove_item
    <3>2. pos \in Nat /\ pos < q.len
      BY <1>1, <1>3
    <3>3. WF(CloseHole(q, pos))
      BY <1>1, <3>2, CloseHoleWF
    <3> QED
      BY <3>1, <3>3, BecomesInv, {} \subseteq Elem
  <2> QED
    BY <2>1, <2>2
<1> QED
  BY <1>2, <1>3

\* Iterators and resizing.
LEMMA ExtendInv ==
  ASSUME NEW d \in DEQS, NEW e \in Elem, NEW hint \in Nat, NEW oom, Inv,
         extend_desugared(d, e, hint, oom) \/ from_iter_default(d, e, hint, oom)
  PROVE  Inv'
<1> DEFINE q == dq[d]
<1>1. WF(q) /\ hint + 1 \in Nat
  BY DEF Inv
<1>2. CASE extend_desugared(d, e, hint, oom)
  <2> DEFINE r == IF q.len = capacity(q) THEN try_reserve(q, hint + 1, oom) ELSE Ok(q)
             p == PushAll(r.q, <<e>>)
  <2>1. ASSUME r.ok PROVE WF(r.q) /\ r.q.len + 1 <= capacity(r.q)
    <3>1. CASE q.len = capacity(q)
      <4>1. r = try_reserve(q, hint + 1, oom)
        BY <3>1
      <4> HIDE DEF r
      <4>2. WF(r.q) /\ r.q.len = q.len /\ capacity(r.q) >= q.len + (hint + 1)
        BY <1>1, <2>1, <4>1, TryReserveWF
      <4> QED
        BY <1>1, <4>2, Basics
    <3>2. CASE q.len # capacity(q)
      <4>1. r.q = q
        BY <3>2 DEF Ok
      <4> HIDE DEF r
      <4> QED
        BY <1>1, <3>2, <4>1, Basics
    <3> QED
      BY <3>1, <3>2
  <2>2. \/ Stays("extend", <<d, e, hint>>, "oom")
        \/ r.ok /\ Becomes(d, p) /\ Own({e}, <<>>)
    BY <1>2 DEF extend_desugared
  <2> HIDE DEF r
  <2>3. r.ok => WF(p)
    BY <2>1, One, PushAllWF
  <2> HIDE DEF p
  <2> QED
    BY <2>2, <2>3, One, StaysInv, BecomesInv
<1>3. CASE from_iter_default(d, e, hint, oom)
  <2> DEFINE w == with_capacity(hint + 1)
             p == PushAll(w, <<e>>)
  <2>1. WF(w) /\ w.len = 0 /\ capacity(w) >= hint + 1
    BY <1>1, WithCapacityWF
  <2>2. \/ Stays("from_iter", <<d, e, hint>>, "oom")
        \/ Becomes(d, p) /\ Own({e}, <<>>)
    BY <1>3 DEF from_iter_default
  <2> HIDE DEF w
  <2>3. w.len + 1 <= capacity(w)
    BY <2>1, Basics
  <2>4. WF(p)
    BY <2>1, <2>3, One, PushAllWF
  <2> HIDE DEF p
  <2> QED
    BY <2>2, <2>4, One, StaysInv, BecomesInv
<1> QED
  BY <1>2, <1>3

\* Several values at the back, the faulty extend_from_slice included.
LEMMA ExtendSeqInv ==
  ASSUME NEW d \in DEQS, NEW n \in Nat, NEW s \in UnbornSeqs, NEW oom, Inv,
         \/ resize(d, n, s, oom)
         \/ extend_from_slice(d, n, s, oom)
         \/ move_tail(d, s)
  PROVE  Inv'
<1> DEFINE q == dq[d]
<1>1. /\ WF(q) /\ q.len \in Nat /\ capacity(q) \in Nat
      /\ s \in Seq(Elem) /\ Len(s) \in Nat /\ ToSet(s) \subseteq Elem
  BY Basics, UnbornElems DEF Inv
<1>2. CASE resize(d, n, s, oom)
  <2> DEFINE m == n - q.len
             r == try_reserve(q, m, oom)
             p == PushAll(r.q, s)
  <2>1. \/ truncate_back(d, n)
        \/ Stays("resize", <<d, n, s>>, "oom")
        \/ m > 0 /\ r.ok /\ Len(s) <= m /\ Becomes(d, p) /\ Own(ToSet(s), <<>>)
    BY <1>2 DEF resize
  <2>2. m \in Int
    BY <1>1
  <2> HIDE DEF m
  <2>3. ASSUME m > 0, r.ok, Len(s) <= m PROVE WF(p)
    <3>1. WF(r.q) /\ r.q.len = q.len /\ capacity(r.q) >= q.len + m
      BY <1>1, <2>2, <2>3, TryReserveWF
    <3> HIDE DEF r
    <3>2. r.q.len + Len(s) <= capacity(r.q)
      BY <1>1, <2>2, <2>3, <3>1, Basics
    <3> QED
      BY <1>1, <3>1, <3>2, PushAllWF
  <2> HIDE DEF p, r
  <2> QED
    BY <1>1, <2>1, <2>3, TruncateInv, StaysInv, BecomesInv
<1>3. CASE extend_from_slice(d, n, s, oom)
  <2> DEFINE r == try_reserve(q, n, oom)
             p == AssignAll(r.q, n, s)
             x == Reads(r.q, q.len, Len(s))
  <2>1. \/ Stays("extend_from_slice", <<d, n, s>>, "oom")
        \/ r.ok /\ Becomes(d, p) /\ Own(ToSet(s), x)
    BY <1>3 DEF extend_from_slice
  <2>2. ASSUME r.ok PROVE WF(p)
    <3>1. WF(r.q) /\ r.q.len = q.len /\ capacity(r.q) >= q.len + n
      BY <1>1, <2>2, TryReserveWF
    <3> HIDE DEF r
    <3>2. r.q.len + n <= capacity(r.q)
      BY <1>1, <3>1, Basics
    <3> QED
      BY <1>1, <3>1, <3>2, AssignAllWF
  <2> HIDE DEF p, r, x
  <2> QED
    BY <1>1, <2>1, <2>2, StaysInv, BecomesInv
<1>4. CASE move_tail(d, s)
  <2> DEFINE w == Write(q, q.len, s)
             p == move_tail_unchecked(w, Len(s))
  <2>1. \/ Stays("move_tail", <<d, s>>, "panic")
        \/ Len(s) <= capacity(q) - q.len /\ Becomes(d, p) /\ Own(ToSet(s), <<>>)
    BY <1>4 DEF move_tail
  <2>2. WF(w) /\ w.len = q.len /\ capacity(w) = capacity(q)
    BY <1>1, WriteWF, q.len \in Int
  <2> HIDE DEF w
  <2>3. ASSUME Len(s) <= capacity(q) - q.len PROVE WF(p)
    <3>1. w.len + Len(s) \in 0 .. capacity(w) /\ Len(s) \in Int
      BY <1>1, <2>2, <2>3
    <3> QED
      BY <2>2, <3>1, MoveTailWF
  <2> HIDE DEF p
  <2> QED
    BY <1>1, <2>1, <2>3, StaysInv, BecomesInv
<1> QED
  BY <1>2, <1>3, <1>4

\* The deque that append takes its elements from: elems_ becomes an empty
\* slice at the begin of the buffer.
LEMMA EmptiedWF ==
  ASSUME NEW q, WF(q)
  PROVE  LET p == [q EXCEPT !.head = 0, !.len = 0]
         IN  WF(p) /\ p.len = 0 /\ capacity(p) = capacity(q)
<1> DEFINE p == [q EXCEPT !.head = 0, !.len = 0]
<1>1. p = [blen |-> q.blen, half |-> q.half, mem |-> q.mem, head |-> 0, len |-> 0]
  BY MovedSlice DEF WF
<1>2. capacity(p) = capacity(q) /\ capacity(q) \in Nat
  BY <1>1, Basics DEF capacity
<1> HIDE DEF p
<1>3. 0 % ALIGN = 0
  BY LayoutAssumption
<1>4. IsDeque(p) /\ p.len <= capacity(p)
  BY <1>1, <1>2 DEF WF, IsDeque
<1>5. BufferFits(p)
  BY <1>1, <1>2, <1>3 DEF WF, IsDeque, BufferFits
<1>6. WF(p) /\ p.len = 0
  BY <1>1, <1>4, <1>5 DEF WF
<1> QED
  BY <1>2, <1>6 DEF p

\* Two deques.
LEMMA AppendInv ==
  ASSUME NEW d \in DEQS, NEW o \in DEQS, d # o, NEW oom, Inv, append(d, o, oom)
  PROVE  Inv'
<1> DEFINE q == dq[d]
           other == dq[o]
           r == append_elements(q, other, oom)
           t == try_reserve(q, other.len, oom)
           c == Copy(other, 0, t.q, t.q.len, other.len)
           p == [other EXCEPT !.head = 0, !.len = 0]
<1>1. CASE ~r.ok
  BY <1>1, StaysInv DEF append
<1>2. CASE r.ok
  <2>1. WF(q) /\ WF(other) /\ q.len \in Nat /\ other.len \in Nat
    BY Basics DEF Inv
  <2>2. t.ok /\ r.q = move_tail_unchecked(c, other.len)
    BY <1>2 DEF append_elements, Ok
  <2>3. WF(t.q) /\ t.q.len = q.len /\ capacity(t.q) >= q.len + other.len
    BY <2>1, <2>2, TryReserveWF
  <2> HIDE DEF t
  <2>4. /\ 0 \in Int /\ t.q.len \in Int /\ other.len \in Int
        /\ other.len > 0 => other.blen > 0
    BY <2>1, <2>3, Basics
  <2>5. WF(c) /\ c.len = t.q.len /\ capacity(c) = capacity(t.q)
    BY <2>1, <2>3, <2>4, CopyWF
  <2>6. c.len + other.len \in 0 .. capacity(c)
    BY <2>1, <2>3, <2>5, Basics
  <2> HIDE DEF c
  <2>7. WF(r.q)
    BY <2>2, <2>4, <2>5, <2>6, MoveTailWF
  <2>8. WF(p)
    BY <2>1, EmptiedWF
  <2>9. BothBecome(d, r.q, o, p) /\ Own({}, <<>>)
    BY <1>2 DEF append, Stays
  <2> HIDE DEF r, p
  <2> QED
    BY <2>7, <2>8, <2>9, TwoBecomeInv, {} \subseteq Elem
<1> QED
  BY <1>1, <1>2

\* The deque that is split and the one that gets its tail.
LEMMA SplitOffInv ==
  ASSUME NEW d \in DEQS, NEW o \in DEQS, NEW at \in Nat, NEW oom, Inv,
         split_off(d, o, at, oom)
  PROVE  Inv'
<1> DEFINE q == dq[d]
           l == q.len - at
           w == with_capacity(l)
           b == move_tail_unchecked(w, l)
           p == Copy(q, at, b, 0, l)
           f == move_tail_unchecked(q, -l)
<1>1. WF(q) /\ q.len \in Nat /\ capacity(q) \in Nat /\ q.len <= capacity(q)
  BY Basics DEF Inv
<1>2. CASE Stays("split_off", <<d, o, at>>, "panic") \/ Stays("split_off", <<d, o, at>>, "oom")
  BY <1>2, StaysInv
<1>3. CASE /\ at <= q.len
           /\ BothBecome(d, f, o, p)
           /\ Own({}, Contents(dq[o]))
  <2>1. /\ l \in Nat /\ l \in Int /\ -l \in Int /\ 0 \in Int /\ at \in Int
        /\ q.len + (-l) \in 0 .. capacity(q)
        /\ l > 0 => q.blen > 0
    BY <1>1, <1>3, Basics
  <2> HIDE DEF l
  <2>2. WF(w) /\ w.len = 0 /\ capacity(w) >= l
    BY <2>1, WithCapacityWF
  <2> HIDE DEF w
  <2>3. w.len + l \in 0 .. capacity(w)
    BY <2>1, <2>2, Basics
  <2>4. WF(b)
    BY <2>1, <2>2, <2>3, MoveTailWF
  <2> HIDE DEF b
  <2>5. WF(p) /\ WF(f)
    BY <1>1, <2>1, <2>4, CopyWF, MoveTailWF
  <2> HIDE DEF p, f
  <2> QED
    BY <1>3, <2>5, TwoBecomeInv, {} \subseteq Elem
<1> QED
  BY <1>2, <1>3 DEF split_off

\* The deque that becomes a clone.
LEMMA CloneInv ==
  ASSUME NEW d \in DEQS, NEW o \in DEQS, NEW s \in UnbornSeqs, NEW oom, Inv,
         clone(d, o, s, oom)
  PROVE  Inv'
<1> DEFINE q == dq[d]
           w == with_capacity(q.len)
           p == PushAll(w, s)
<1>1. /\ WF(q) /\ q.len \in Nat
      /\ s \in Seq(Elem) /\ Len(s) \in Nat /\ ToSet(s) \subseteq Elem
  BY Basics, UnbornElems DEF Inv
<1>2. \/ Stays("clone", <<d, o, s>>, "oom")
      \/ Stays("clone", <<d, o, s>>, "panic")
      \/ Len(s) = q.len /\ Becomes(o, p) /\ Own(ToSet(s), Contents(dq[o]))
  BY DEF clone
<1>3. WF(w) /\ w.len = 0 /\ capacity(w) >= q.len
  BY <1>1, WithCapacityWF
<1> HIDE DEF w
<1>4. Len(s) = q.len => WF(p)
  BY <1>1, <1>3, PushAllWF
<1> HIDE DEF p
<1> QED
  BY <1>1, <1>2, <1>4, StaysInv, BecomesInv

-----------------------------------------------------------------------------
(* The theorems.                                                           *)

\* Every call keeps the invariant.
LEMMA NextInv == Inv /\ [Next]_vars => Inv'
<1> SUFFICES ASSUME Inv, [Next]_vars PROVE Inv'
  OBVIOUS
<1>1. CASE UNCHANGED vars
  BY <1>1 DEF Inv, vars
<1>2. CASE Next
  <2>1. PICK d \in DEQS, oom \in BOOLEAN :
          \/ CommonNext(d, oom) \/ Inserts(d, oom)
          \/ ExtendsFromSlice(d, oom) \/ shrink_to_fit(d, oom)
    BY <1>2 DEF Next
  <2>2. Args \subseteq Nat /\ 0 .. MaxItems \subseteq Nat /\ Unborn \subseteq Elem
    BY BoundAssumption, UnbornElems DEF Args
  <2>3. CASE \E n \in Args : \/ assign(d, n, oom) \/ reserve(d, n, oom)
                             \/ reserve_exact(d, n, oom)
    BY <2>2, <2>3, CapacityInv
  <2>4. CASE \E e \in Unborn : push_front(d, e, oom) \/ push_back(d, e, oom)
    BY <2>2, <2>4, PushInv
  <2>5. CASE pop_front(d) \/ pop_back(d)
    BY <2>5, PopInv
  <2>6. CASE \E n \in Args : truncate_back(d, n) \/ truncate_front(d, n)
    BY <2>2, <2>6, TruncateInv
  <2>7. CASE \E n \in Args : swap_remove_back(d, n) \/ swap_remove_front(d, n)
    BY <2>2, <2>7, SwapRemoveInv
  <2>8. CASE \/ \E n \in Args : remove(d, n)
             \/ \E equal \in SUBSET (0 .. dq[d].len - 1) : remove_item(d, equal)
    BY <2>2, <2>8, RemoveInv
  <2>9. CASE \E e \in Unborn, n \in Args : \/ extend_desugared(d, e, n, oom)
                                          \/ from_iter_default(d, e, n, oom)
    BY <2>2, <2>9, ExtendInv
  <2>10. CASE \/ \E n \in Args, s \in UnbornSeqs : resize(d, n, s, oom)
              \/ \E s \in UnbornSeqs : move_tail(d, s)
              \/ ExtendsFromSlice(d, oom)
    BY <2>2, <2>10, ExtendSeqInv, 0 \in Nat DEF ExtendsFromSlice
  <2>11. CASE \E o \in DEQS \ {d} : append(d, o, oom)
    BY <2>11, AppendInv
  <2>12. CASE \E o \in DEQS \ {d}, n \in Args : split_off(d, o, n, oom)
    BY <2>2, <2>12, SplitOffInv
  <2>13. CASE \E o \in DEQS \ {d}, s \in UnbornSeqs : clone(d, o, s, oom)
    BY <2>13, CloneInv
  <2>14. CASE Inserts(d, oom)
    BY <2>2, <2>14, InsertInv DEF Inserts
  <2>15. CASE shrink_to_fit(d, oom)
    BY <2>15, ShrinkInv
  <2> QED
    BY <2>1, <2>3, <2>4, <2>5, <2>6, <2>7, <2>8, <2>9, <2>10, <2>11, <2>12, <2>13,
       <2>14, <2>15 DEF CommonNext
<1> QED
  BY <1>1, <1>2

\* The program starts in the invariant.
LEMMA InitInv == Init => Inv
  BY NewWF DEF Init, Inv

\* The invariant gives every deque the types of Buffer and SliceDeque.
LEMMA TypeFromInv == Inv => TypeOK
BY DEF Inv, TypeOK, WF

\* It puts elems_ and its spare capacity inside the mapped memory.
LEMMA MappedFromInv == Inv => InMappedMemory
<1> SUFFICES ASSUME Inv, NEW d \in DEQS
             PROVE  /\ dq[d].len <= capacity(dq[d])
                    /\ dq[d].blen = 0 => dq[d].head = 0
                    /\ dq[d].blen > 0 => dq[d].head < dq[d].half
                    /\ dq[d].head + capacity(dq[d]) * SIZE <= 2 * dq[d].half
  BY DEF InMappedMemory
<1> DEFINE q == dq[d]
           c == capacity(q)
<1>1. IsDeque(q) /\ BufferFits(q) /\ q.len <= c
  BY DEF Inv, WF
<1>2. /\ q.blen \in Nat /\ q.half \in Nat /\ q.head \in Nat /\ c \in Nat
      /\ q.blen = 0 => c = 0
  BY <1>1 DEF IsDeque, capacity
<1>3. SIZE \in Nat
  BY LayoutAssumption
<1> HIDE DEF c
<1>4. c * SIZE \in Nat /\ (c = 0 => c * SIZE = 0)
  BY <1>2, <1>3
<1>5. CASE q.blen = 0
  BY <1>1, <1>2, <1>4, <1>5 DEF BufferFits, c
<1>6. CASE q.blen > 0
  BY <1>1, <1>2, <1>4, <1>6 DEF BufferFits, c
<1> QED
  BY <1>2, <1>5, <1>6

\* It makes the sizes that Drop for Buffer and Drop for IntoIter compute right.
LEMMA FreedFromInv == Inv => FreedAsAllocated
BY DEF Inv, WF, BufferFits, FreedAsAllocated

\* It keeps elems_ aligned for T.
LEMMA AlignedFromInv == Inv => Aligned
<1>1. 0 % ALIGN = 0
  BY LayoutAssumption
<1> QED
  BY <1>1 DEF Inv, WF, BufferFits, Aligned

\* The bytes of two slots within the capacity are different bytes of memory.
LEMMA SlotsApart ==
  ASSUME NEW q, WF(q), NEW i \in Nat, NEW j \in Nat, i < j, j < capacity(q),
         NEW k \in 0 .. SIZE - 1, NEW l \in 0 .. SIZE - 1
  PROVE  Phys(q, q.head + i * SIZE + k) # Phys(q, q.head + j * SIZE + l)
<1> DEFINE c == capacity(q)
           a == q.head + i * SIZE + k
           b == q.head + j * SIZE + l
<1>1. SIZE \in Nat \ {0} /\ q.head \in Nat /\ q.half \in Nat /\ c \in Nat
  BY LayoutAssumption, Basics DEF WF, IsDeque
<1>2. c * SIZE <= q.half /\ q.half > 0
  BY Basics DEF WF, BufferFits
<1> HIDE DEF c
<1>3. (i + 1) * SIZE <= j * SIZE /\ (j + 1) * SIZE <= c * SIZE /\ 0 * SIZE <= i * SIZE
  BY <1>1, MulMonotone DEF c
<1>4. a \in Int /\ b \in Int /\ a < b /\ b - a < q.half
  BY <1>1, <1>2, <1>3
<1>5. q.half \in Nat \ {0}
  BY <1>1, <1>2
<1> HIDE DEF a, b
<1>6. a % q.half # b % q.half
  BY <1>4, <1>5, ModDistinct
<1> QED
  BY <1>6 DEF a, b, Phys

\* So the slots of a deque do not alias each other through the mirror.
LEMMA ApartFromInv == Inv => NoAliasing
<1> SUFFICES ASSUME Inv, NEW d \in DEQS,
                    NEW i \in 0 .. capacity(dq[d]) - 1,
                    NEW j \in 0 .. capacity(dq[d]) - 1, i # j
             PROVE  SlotBytes(dq[d], i) \cap SlotBytes(dq[d], j) = {}
  BY DEF NoAliasing
<1> DEFINE q == dq[d]
<1>1. WF(q) /\ capacity(q) \in Nat /\ i \in Nat /\ j \in Nat
  BY Basics DEF Inv
<1>2. ASSUME NEW k \in 0 .. SIZE - 1, NEW l \in 0 .. SIZE - 1
      PROVE  Phys(q, q.head + i * SIZE + k) # Phys(q, q.head + j * SIZE + l)
  <2>1. CASE i < j
    BY <1>1, <2>1, SlotsApart
  <2>2. CASE j < i
    BY <1>1, <2>2, SlotsApart
  <2> QED
    BY <1>1, <2>1, <2>2
<1> QED
  BY <1>2 DEF SlotBytes

\* The layout of every reachable deque is well formed.
THEOREM InvCorrect == Spec => []Inv
  BY InitInv, NextInv, PTL DEF Spec

\* Every deque always has a fully mapped buffer and a slice (the types of
\* Buffer and SliceDeque).
THEOREM TypeCorrect == Spec => []TypeOK
  BY TypeFromInv, InvCorrect, PTL

\* The slice and its spare capacity stay inside the mapped memory, wherever
\* the head has moved to.
THEOREM InMappedMemoryCorrect == Spec => []InMappedMemory
  BY MappedFromInv, InvCorrect, PTL

\* A buffer is freed with the size it was allocated with, by Drop for Buffer
\* and by Drop for IntoIter.
THEOREM FreedAsAllocatedCorrect == Spec => []FreedAsAllocated
  BY FreedFromInv, InvCorrect, PTL

\* elems_ is aligned for T.
THEOREM AlignedCorrect == Spec => []Aligned
  BY AlignedFromInv, InvCorrect, PTL

\* The mirror never makes two slots overlap.
THEOREM NoAliasingCorrect == Spec => []NoAliasing
  BY ApartFromInv, InvCorrect, PTL
=============================================================================
