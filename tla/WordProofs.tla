----------------------------- MODULE WordProofs -----------------------------
(***************************************************************************)
(* Proofs that the arithmetic of SliceDeque, IntoIter and Buffer is right  *)
(* for words of every width, every page size and every size of T.          *)
(***************************************************************************)
EXTENDS WordDeque, TLAPS

-----------------------------------------------------------------------------
(* Words.                                                                  *)

\* Multiplication is monotone.
LEMMA MulMonotone ==
  ASSUME NEW a \in Int, NEW b \in Int, NEW c \in Nat, a <= b
  PROVE  a * c <= b * c
  OBVIOUS

\* A positive factor cancels.
LEMMA MulCancel ==
  ASSUME NEW a \in Int, NEW b \in Int, NEW c \in Nat \ {0}, a * c < b * c
  PROVE  a < b
  OBVIOUS

\* Quotient and remainder by a positive number.
LEMMA DivMod ==
  ASSUME NEW a \in Int, NEW b \in Nat \ {0}
  PROVE  /\ a \div b \in Int
         /\ a % b \in 0 .. b - 1
         /\ a = b * (a \div b) + (a % b)
  OBVIOUS

\* A quotient is determined by any multiple near it.
LEMMA DivUnique ==
  ASSUME NEW a \in Int, NEW b \in Nat \ {0}, NEW k \in Int, NEW r \in 0 .. b - 1,
         a = k * b + r
  PROVE  a \div b = k /\ a % b = r
<1> DEFINE q == a \div b
           m == a % b
<1>1. q \in Int /\ m \in 0 .. b - 1 /\ a = b * q + m
  BY DivMod
<1> HIDE DEF q, m
<1>2. ~(q < k)
  <2> SUFFICES ASSUME q < k PROVE FALSE
    OBVIOUS
  <2>1. (q + 1) * b <= k * b
    BY <1>1, MulMonotone
  <2> QED
    BY <1>1, <2>1
<1>3. ~(k < q)
  <2> SUFFICES ASSUME k < q PROVE FALSE
    OBVIOUS
  <2>1. (k + 1) * b <= q * b
    BY <1>1, MulMonotone
  <2> QED
    BY <1>1, <2>1
<1>4. q = k
  BY <1>1, <1>2, <1>3
<1>5. m = r
  BY <1>1, <1>4
<1> QED
  BY <1>4, <1>5 DEF q, m

\* The constants: words have a sign bit, and a page is no larger than memory.
LEMMA Constants ==
  /\ USIZE \in Nat /\ AG \in Nat /\ AG > 1 /\ MaxAlloc \in Nat /\ MaxAlloc <= USIZE - AG
  /\ isize_max \in Nat /\ USIZE = 2 * isize_max + 2
BY WordAssumption DEF isize_max

\* A word stays itself.
LEMMA InWord ==
  ASSUME NEW x \in Nat, x < USIZE
  PROVE  wrapping(x) = x
<1> DEFINE k == 0
<1>1. k \in Int /\ x = k * USIZE + x /\ USIZE \in Nat \ {0} /\ x \in 0 .. USIZE - 1 /\ x \in Int
  BY Constants
<1> HIDE DEF k
<1> QED
  BY <1>1, DivUnique DEF wrapping

\* A word below the sign bit is itself as isize.
LEMMA InSigned ==
  ASSUME NEW x \in Nat, x <= isize_max
  PROVE  as_isize(x) = x /\ x < USIZE /\ wrapping(x) = x
BY Constants, InWord DEF as_isize

\* The difference of two pointers as isize is their distance, also when the
\* range between them crosses the sign bit.
LEMMA Distance ==
  ASSUME NEW p \in Nat, NEW n \in Nat, p + n < USIZE, n <= isize_max
  PROVE  as_isize(wrapping(as_isize(p + n) - as_isize(p))) = n
<1> DEFINE k == IF p + n > isize_max /\ ~(p > isize_max) THEN -1 ELSE 0
           x == as_isize(p + n) - as_isize(p)
<1>1. /\ k \in Int /\ x \in Int /\ USIZE \in Nat \ {0} /\ n \in 0 .. USIZE - 1
      /\ x = n + (IF k = -1 THEN -USIZE ELSE 0) /\ k \in {-1, 0}
  BY Constants DEF as_isize
<1> HIDE DEF k, x
<1>2. x = k * USIZE + n
  BY <1>1
<1>3. wrapping(x) = n
  BY <1>1, <1>2, DivUnique DEF wrapping
<1> QED
  BY <1>3, InSigned DEF x

-----------------------------------------------------------------------------
(* Sizes of buffers, when nothing overflows.                               *)

\* Pages come in pairs, there are enough of them for the bytes, and no fewer
\* pairs would be.
LEMMA Units ==
  ASSUME NEW bytes \in Nat, bytes + AG - 1 < USIZE
  PROVE  \E m \in Nat \ {0} :
           /\ no_required_allocation_units(bytes) = 2 * m
           /\ bytes <= (2 * m) * AG
           /\ \A k \in Nat \ {0} : bytes <= (2 * k) * AG => m <= k
<1> DEFINE x  == bytes + AG - 1
           up == x \div AG
           r  == IF up < 1 THEN 1 ELSE up
           u  == IF r % 2 = 0 THEN r ELSE r + 1
           m  == u \div 2
<1>1. AG \in Nat \ {0} /\ x \in Nat /\ wrapping(x) = x
  BY Constants, InWord
<1>2. up \in Int /\ bytes <= up * AG /\ (up - 1) * AG < bytes
  <2>1. up \in Int /\ x % AG \in 0 .. AG - 1 /\ x = AG * up + (x % AG)
    BY <1>1, DivMod
  <2> DEFINE z == x % AG
  <2> HIDE DEF up, z
  <2>2. x = AG * up + z /\ z \in 0 .. AG - 1
    BY <2>1 DEF z
  <2> QED
    BY <1>1, <2>1, <2>2
<1>3. no_required_allocation_units(bytes) = u
  BY <1>1 DEF no_required_allocation_units
<1> HIDE DEF up, x
<1>4. r \in Nat \ {0} /\ bytes <= r * AG /\ (r = up \/ r = 1)
  <2>1. CASE up < 1
    <3>1. up * AG <= 0 * AG
      BY <1>1, <1>2, <2>1, MulMonotone
    <3> QED
      BY <1>1, <1>2, <2>1, <3>1
  <2>2. CASE up >= 1
    BY <1>2, <2>2
  <2> QED
    BY <1>2, <2>1, <2>2
<1> HIDE DEF r
<1>5. u = 2 * m /\ m \in Nat \ {0} /\ (u = r \/ (u = r + 1 /\ r % 2 = 1))
  BY <1>4
<1> HIDE DEF u, m
<1>6. bytes <= (2 * m) * AG
  <2>1. r * AG <= (2 * m) * AG
    BY <1>1, <1>4, <1>5, MulMonotone
  <2> QED
    BY <1>1, <1>4, <1>5, <2>1
<1>7. ASSUME NEW k \in Nat \ {0}, bytes <= (2 * k) * AG
      PROVE  m <= k
  <2>1. (up - 1) * AG < (2 * k) * AG
    BY <1>1, <1>2, <1>7
  <2>2. up - 1 < 2 * k
    BY <1>1, <1>2, <2>1, MulCancel
  <2>3. r <= 2 * k
    BY <1>2, <1>4, <2>2
  <2> QED
    BY <1>4, <1>5, <1>7, <2>3
<1> QED
  BY <1>3, <1>5, <1>6, <1>7

\* The size of a buffer, computed without wrapping around.
Rounded(s, len) == no_required_allocation_units(len * s) * AG

\* No word overflows when the size is computed.
NoOverflow(s, len) == len * s + AG - 1 < USIZE /\ Rounded(s, len) < USIZE

\* The size of a buffer whose bytes, and their rounding up, are words.
LEMMA ExactSize ==
  ASSUME NEW s \in Nat, NEW len \in Nat, NoOverflow(s, len)
  PROVE  size_in_bytes(s, len) = Rounded(s, len)
<1> DEFINE b == len * s
<1>1. b \in Nat /\ b < USIZE /\ wrapping(b) = b /\ b + AG - 1 < USIZE
  BY Constants, InWord DEF NoOverflow
<1> HIDE DEF b
<1> DEFINE u == no_required_allocation_units(b)
<1>2. PICK m \in Nat \ {0} : u = 2 * m
  BY <1>1, Units
<1> HIDE DEF u
<1>3. u * AG \in Nat /\ u * AG < USIZE
  BY <1>2, Constants DEF NoOverflow, Rounded, u, b
<1> QED
  BY <1>1, <1>3, InWord DEF size_in_bytes, Rounded, u, b

\* Rounding up adds at most a pair of pages.
LEMMA RoundingBound ==
  ASSUME NEW bytes \in Nat, bytes + 2 * AG < USIZE
  PROVE  no_required_allocation_units(bytes) * AG <= bytes + 2 * AG
<1> DEFINE p == 2 * AG
           k == bytes \div p
           z == bytes % p
           u == no_required_allocation_units(bytes)
<1>1. p \in Nat \ {0} /\ AG \in Nat \ {0} /\ p = 2 * AG /\ bytes + AG - 1 < USIZE /\ bytes \in Int
  BY Constants
<1> HIDE DEF p
<1>2. PICK m \in Nat \ {0} :
        u = 2 * m /\ \A j \in Nat \ {0} : bytes <= (2 * j) * AG => m <= j
  BY <1>1, Units
<1>3. k \in Int /\ z \in 0 .. p - 1 /\ bytes = p * k + z
  BY <1>1, DivMod
<1> HIDE DEF u, k, z
<1>4. k \in Nat
  <2> SUFFICES ASSUME k < 0 PROVE FALSE
    BY <1>3
  <2>1. (k + 1) * p <= 0 * p
    BY <1>1, <1>3, MulMonotone
  <2> QED
    BY <1>1, <1>3, <2>1
<1> DEFINE j == k + 1
<1>5. j \in Nat \ {0} /\ bytes <= (2 * j) * AG /\ (2 * j) * AG <= bytes + p
  BY <1>1, <1>3, <1>4
<1> HIDE DEF j
<1>6. m <= j
  BY <1>2, <1>5
<1>7. (2 * m) * AG <= (2 * j) * AG
  BY <1>1, <1>2, <1>5, <1>6, MulMonotone
<1>8. u * AG <= bytes + p
  BY <1>1, <1>2, <1>5, <1>7
<1> QED
  BY <1>8 DEF u, p

\* A length between the one that was asked for and the one that fits in the
\* allocated memory gives the same size again.
LEMMA SizesStable ==
  ASSUME NEW s \in Nat, NEW n \in Nat, NEW x \in Nat, n <= x, x * s + AG - 1 < USIZE, x * s <= Rounded(s, n)
  PROVE  Rounded(s, x) = Rounded(s, n)
<1> DEFINE a == n * s
           b == x * s
           u == no_required_allocation_units(a)
           v == no_required_allocation_units(b)
<1>1. a <= b /\ a \in Nat /\ b \in Nat /\ AG \in Nat \ {0}
  BY MulMonotone, Constants
<1>2. a + AG - 1 < USIZE /\ b + AG - 1 < USIZE /\ b <= u * AG
  <2> HIDE DEF a
  <2>1. b + AG - 1 < USIZE
    OBVIOUS
  <2> HIDE DEF b
  <2>2. a + AG - 1 < USIZE
    BY <1>1, <2>1, Constants
  <2> QED
    BY <2>1, <2>2 DEF Rounded, a, b
<1> HIDE DEF a, b
<1>3. PICK m \in Nat \ {0} :
        u = 2 * m /\ \A k \in Nat \ {0} : a <= (2 * k) * AG => m <= k
  BY <1>1, <1>2, Units
<1>4. PICK p \in Nat \ {0} :
        v = 2 * p /\ b <= (2 * p) * AG /\ \A k \in Nat \ {0} : b <= (2 * k) * AG => p <= k
  BY <1>1, <1>2, Units
<1> HIDE DEF u, v
<1>5. p <= m
  BY <1>2, <1>3, <1>4
<1>6. m <= p
  <2>1. (2 * p) * AG \in Nat
    BY <1>1
  <2>2. a <= (2 * p) * AG
    BY <1>1, <1>4, <2>1
  <2> QED
    BY <1>3, <2>2
<1>7. u = v
  BY <1>3, <1>4, <1>5, <1>6
<1> QED
  BY <1>7 DEF Rounded, u, v, a, b

-----------------------------------------------------------------------------
(* The inductive invariant.                                                *)

\* Buffers of zero-sized elements have no memory.  Another buffer is empty, or
\* its size can be recomputed from its length and from its capacity, and its
\* elements fit in it.
SizeKnown(s, b) ==
  /\ b.blen \in Nat /\ b.bytes \in Nat
  /\ s = 0 => b.blen = 2 * isize_max /\ b.bytes = 0
  /\ s # 0 /\ b.blen = 0 => b.bytes = 0
  /\ s # 0 /\ b.blen # 0 =>
       /\ b.blen >= 2 /\ b.blen * s <= b.bytes /\ b.bytes <= MaxAlloc
       /\ Rounded(s, b.blen) = b.bytes
       /\ Rounded(s, 2 * (b.blen \div 2)) = b.bytes

DequeOK(q) ==
  /\ q = [blen |-> q.blen, bytes |-> q.bytes, len |-> q.len]
  /\ SizeKnown(size, q) /\ q.len \in Nat /\ q.len <= capacity(q)

\* The pointers are as many elements apart as are left, or as many bytes as
\* these have, and do not wrap around the end of the address space; what the
\* iterator knows of its buffer is what a deque of its capacity would.
IterOK ==
  /\ it = [used |-> it.used, ptr |-> it.ptr, end |-> it.end, cap |-> it.cap,
           bytes |-> it.bytes, left |-> it.left]
  /\ it.used \in BOOLEAN
  /\ it.used =>
       /\ it.ptr \in Nat /\ it.left \in Nat /\ it.cap \in Nat /\ it.left <= it.cap
       /\ it.end = IF size = 0 THEN it.ptr + it.left ELSE it.ptr + it.left * size
       /\ it.end < USIZE
       /\ SizeKnown(size, from_raw_parts(2 * it.cap, it.bytes))

WInv ==
  /\ size \in Nat /\ debug \in BOOLEAN /\ short = FALSE
  /\ DOMAIN dq = DEQS /\ \A d \in DEQS : DequeOK(dq[d])
  /\ IterOK
  /\ buf = [blen |-> buf.blen, bytes |-> buf.bytes] /\ SizeKnown(size, buf)

-----------------------------------------------------------------------------
(* Buffers.                                                                *)

\* A buffer without memory.
LEMMA NewKnown ==
  ASSUME NEW s \in Nat
  PROVE  SizeKnown(s, NewBuffer(s))
BY Constants DEF SizeKnown, NewBuffer, empty_len

\* Twice a capacity is a signed word, and so are the bytes of the elements.
LEMMA CapacityBound ==
  ASSUME NEW s \in Nat, NEW b, SizeKnown(s, b)
  PROVE  LET c == b.blen \div 2
         IN  c \in Nat /\ c <= isize_max /\ 2 * c < USIZE /\ c * s <= isize_max
<1> DEFINE c == b.blen \div 2
<1>1. c \in Nat /\ 2 * c <= b.blen /\ (s = 0 => c = isize_max)
  BY Constants DEF SizeKnown
<1> HIDE DEF c
<1>2. CASE s = 0 \/ b.blen = 0
  <2>1. c <= isize_max /\ c * s = 0
    BY <1>1, <1>2, Constants
  <2> QED
    BY <1>1, <2>1, Constants DEF c
<1>3. CASE s # 0 /\ b.blen # 0
  <2> DEFINE n == 2 * c
  <2>1. n * s <= b.blen * s /\ n * 1 <= n * s
    <3>1. n \in Int /\ n \in Nat /\ b.blen \in Int /\ n <= b.blen /\ s \in Int /\ 1 <= s
      BY <1>1, <1>3 DEF SizeKnown
    <3> HIDE DEF n
    <3>2. n * s <= b.blen * s
      BY <3>1, MulMonotone
    <3>3. 1 * n <= s * n
      BY <3>1, MulMonotone
    <3> QED
      BY <3>1, <3>2, <3>3
  <2>2. b.blen * s <= MaxAlloc /\ b.blen * s \in Int
    BY <1>3, Constants DEF SizeKnown
  <2>3. (2 * c) * s = 2 * (c * s) /\ c * s \in Int
    BY <1>1
  <2> DEFINE x == c * s
             y == b.blen * s
             w == (2 * c) * s
  <2>4. w = 2 * x /\ x \in Int /\ y \in Int /\ y <= MaxAlloc /\ w <= y /\ 2 * c <= w
    BY <1>1, <2>1, <2>2, <2>3
  <2> HIDE DEF x, y, w
  <2>5. c <= isize_max /\ x <= isize_max
    BY <1>1, <2>4, Constants
  <2> QED
    BY <1>1, <2>5, Constants DEF x, c
<1> QED
  BY <1>2, <1>3

\* Computing the size of a buffer that has been made does not overflow.
LEMMA KnownFits ==
  ASSUME NEW s \in Nat, NEW b, SizeKnown(s, b), s # 0, b.blen # 0
  PROVE  NoOverflow(s, b.blen) /\ b.blen \in Nat
<1> DEFINE x == b.blen * s
<1>1. x \in Nat /\ x <= b.bytes /\ b.bytes \in Nat /\ b.bytes <= MaxAlloc
      /\ Rounded(s, b.blen) = b.bytes /\ b.blen \in Nat
  BY DEF SizeKnown
<1> HIDE DEF x
<1>2. x + AG - 1 < USIZE /\ b.bytes < USIZE
  BY <1>1, Constants
<1> QED
  BY <1>1, <1>2 DEF NoOverflow, x

\* Computing the size of a buffer that fits does not overflow.
LEMMA FitsNoOverflow ==
  ASSUME NEW s \in Nat, NEW len \in Nat, ~Overflows(len * s + 2 * AG)
  PROVE  NoOverflow(s, len)
<1> DEFINE x == len * s
           u == no_required_allocation_units(x)
<1>1. x \in Nat /\ x + 2 * AG < USIZE /\ x + 2 * AG \in Nat
  BY Constants DEF Overflows
<1> HIDE DEF x
<1>2. u * AG <= x + 2 * AG /\ x + AG - 1 < USIZE
  BY <1>1, RoundingBound, Constants
<1>3. PICK m \in Nat : u = 2 * m
  BY <1>1, <1>2, Units
<1> HIDE DEF u
<1>4. u * AG \in Nat
  BY <1>3, Constants
<1>5. u * AG < USIZE
  BY <1>1, <1>2, <1>4, Constants
<1> QED
  BY <1>2, <1>5 DEF NoOverflow, Rounded, u, x

\* What Drop for Buffer computes is what was allocated.
LEMMA FreedKnown ==
  ASSUME NEW s \in Nat, NEW b, SizeKnown(s, b)
  PROVE  Freed(s, b) = b.bytes
<1>1. CASE s = 0 \/ b.blen = 0
  BY <1>1 DEF SizeKnown, Freed
<1>2. CASE s # 0 /\ b.blen # 0
  <2>1. NoOverflow(s, b.blen) /\ b.blen \in Nat
    BY <1>2, KnownFits
  <2>2. Freed(s, b) = size_in_bytes(s, b.blen)
    BY <1>2 DEF Freed
  <2> QED
    BY <1>2, <2>1, <2>2, ExactSize DEF SizeKnown
<1> QED
  BY <1>1, <1>2

\* A buffer with twice the capacity for its length is as good.
LEMMA HalvesKnown ==
  ASSUME NEW s \in Nat, NEW b, SizeKnown(s, b)
  PROVE  SizeKnown(s, from_raw_parts(2 * (b.blen \div 2), b.bytes))
<1> DEFINE c == b.blen \div 2
           n == 2 * c
           p == from_raw_parts(n, b.bytes)
<1>1. /\ c \in Nat /\ n \in Nat /\ n <= b.blen /\ 2 * (n \div 2) = n /\ p.blen = n /\ p.bytes = b.bytes
      /\ s = 0 => n = 2 * isize_max
      /\ b.blen >= 2 => n >= 2
      /\ b.blen = 0 => n = 0
  BY Constants DEF SizeKnown, from_raw_parts
<1>2. n * s <= b.blen * s
  <2>1. n \in Int /\ b.blen \in Int
    BY <1>1 DEF SizeKnown
  <2> HIDE DEF n
  <2> QED
    BY <1>1, <2>1, MulMonotone
<1>3. s # 0 /\ b.blen # 0 => Rounded(s, n) = b.bytes
  BY DEF SizeKnown
<1> HIDE DEF n, c, p
<1>4. s # 0 /\ b.blen # 0 => n * s <= b.bytes
  <2> DEFINE x == n * s
             y == b.blen * s
  <2>1. x \in Int /\ y \in Int /\ x <= y /\ b.bytes \in Int
    BY <1>1, <1>2 DEF SizeKnown
  <2>2. s # 0 /\ b.blen # 0 => y <= b.bytes
    BY DEF SizeKnown
  <2> HIDE DEF x, y
  <2>3. s # 0 /\ b.blen # 0 => x <= b.bytes
    BY <2>1, <2>2
  <2> QED
    BY <2>3 DEF x
<1>5. SizeKnown(s, p)
  BY <1>1, <1>3, <1>4 DEF SizeKnown
<1> QED
  BY <1>5 DEF p, n, c

\* Buffer::uninitialized makes a buffer of a known size with room for what it
\* was asked for, if nothing overflows or overflows are checked.
LEMMA UninitializedKnown ==
  ASSUME NEW s \in Nat, NEW len \in Nat, NEW dbg \in BOOLEAN, NEW oom \in BOOLEAN,
         s = 0 \/ dbg \/ NoOverflow(s, len),
         uninitialized(s, len, dbg, oom).val = "ok"
  PROVE  LET b == uninitialized(s, len, dbg, oom).b
         IN  /\ b = [blen |-> b.blen, bytes |-> b.bytes] /\ SizeKnown(s, b)
             /\ s # 0 => len <= 2 * (b.blen \div 2)
             /\ s = 0 => b = NewBuffer(s)
<1> DEFINE r == uninitialized(s, len, dbg, oom)
           b == r.b
           a == size_in_bytes(s, len)
<1>1. CASE s = 0 \/ len = 0
  <2>1. b = NewBuffer(s) /\ NewBuffer(s) = [blen |-> empty_len(s), bytes |-> 0]
    BY <1>1 DEF uninitialized, Made, NewBuffer
  <2>2. SizeKnown(s, NewBuffer(s))
    BY NewKnown
  <2>3. b.blen \in Nat /\ (s # 0 => len = 0)
    BY <1>1, <2>1, <2>2 DEF SizeKnown
  <2> QED
    BY <2>1, <2>2, <2>3
<1>2. CASE s # 0 /\ len # 0
  <2>1. /\ len % 2 = 0 /\ ~(dbg /\ SizeOverflows(s, len)) /\ a # 0 /\ ~(a > MaxAlloc)
        /\ b = [blen |-> a \div s, bytes |-> a]
    BY <1>2 DEF uninitialized, Made, Failed
  <2> DEFINE x == len * s
             u == no_required_allocation_units(x)
  <2>2. x \in Nat /\ len >= 2 /\ s \in Nat \ {0}
    BY <1>2, <2>1
  <2>3. NoOverflow(s, len) /\ x + AG - 1 < USIZE /\ Rounded(s, len) < USIZE
    <3>1. CASE dbg
      <4>1. ~SizeOverflows(s, len)
        BY <2>1, <3>1
      <4>2. ~(x + AG >= USIZE) /\ ~(Rounded(s, len) >= USIZE)
        BY <4>1 DEF SizeOverflows, Overflows, Rounded
      <4> HIDE DEF x
      <4>3. x + AG - 1 < USIZE
        BY <2>2, <4>2, Constants
      <4>4. PICK m \in Nat \ {0} : u = 2 * m
        BY <2>2, <4>3, Units
      <4>5. u * AG \in Nat
        BY <4>4, Constants
      <4>6. u * AG < USIZE
        BY <4>2, <4>5, Constants DEF Rounded, x
      <4> QED
        BY <4>3, <4>6 DEF NoOverflow, Rounded, x
    <3>2. CASE ~dbg
      BY <1>2, <3>2 DEF NoOverflow
    <3> QED
      BY <3>1, <3>2
  <2>4. PICK m \in Nat \ {0} : u = 2 * m /\ x <= (2 * m) * AG
    <3> HIDE DEF x
    <3> QED
      BY <2>2, <2>3, Units
  <2>5. u * AG < USIZE /\ u * AG \in Nat /\ u * AG = Rounded(s, len)
    BY <2>3, <2>4, Constants DEF Rounded
  <2>6. a = u * AG
    BY <2>3, <2>5, ExactSize
  <2>7. x <= a /\ a \in Nat /\ a <= MaxAlloc
    BY <2>1, <2>4, <2>5, <2>6, Constants
  <2> DEFINE l == a \div s
             n == 2 * (l \div 2)
  <2>8. /\ l \in Int /\ l * s <= a /\ a < (l + 1) * s
    <3> HIDE DEF a, x
    <3>0. a \in Int /\ s \in Nat \ {0}
      BY <2>2, <2>7
    <3>1. l \in Int /\ a % s \in 0 .. s - 1 /\ a = s * l + (a % s)
      BY <3>0, DivMod
    <3> DEFINE z == a % s
    <3> HIDE DEF l, z
    <3>2. z \in 0 .. s - 1 /\ a = s * l + z
      BY <3>1 DEF z
    <3> QED
      BY <2>2, <3>1, <3>2
  <2>9. len <= l
    <3> SUFFICES ASSUME l + 1 <= len PROVE FALSE
      BY <2>8
    <3>1. (l + 1) * s <= len * s
      BY <2>8, MulMonotone
    <3> DEFINE y == (l + 1) * s
    <3>2. y \in Int /\ y <= x /\ a < y
      BY <2>8, <3>1
    <3> HIDE DEF x, y, a
    <3> QED
      BY <2>2, <2>7, <3>2
  <2>10. l \in Nat /\ l >= 2 /\ n \in Nat /\ len <= n /\ n <= l
    <3> HIDE DEF l
    <3> QED
      BY <2>1, <2>2, <2>8, <2>9
  <2>11. n * s <= l * s
    <3>1. n \in Int
      BY <2>10
    <3> HIDE DEF n, l
    <3> QED
      BY <2>8, <2>10, <3>1, MulMonotone
  <2>12. /\ l * s + AG - 1 < USIZE /\ l * s <= u * AG
         /\ n * s + AG - 1 < USIZE /\ n * s <= u * AG
    <3> DEFINE y == l * s
               z == n * s
    <3>1. y \in Int /\ z \in Int /\ z <= y /\ y <= a
      BY <2>2, <2>8, <2>10, <2>11
    <3> HIDE DEF y, z, l, n, a, x
    <3>2. /\ y + AG - 1 < USIZE /\ y <= a
          /\ z + AG - 1 < USIZE /\ z <= a
      BY <2>7, <3>1, Constants
    <3> QED
      BY <2>6, <3>2 DEF y, z
  <2> HIDE DEF n, l, a
  <2>13. Rounded(s, l) = a
    BY <2>5, <2>6, <2>9, <2>10, <2>12, SizesStable
  <2>14. Rounded(s, n) = a
    BY <2>5, <2>6, <2>10, <2>12, SizesStable
  <2>15. b.blen = l /\ b.bytes = a /\ b = [blen |-> b.blen, bytes |-> b.bytes]
    BY <2>1 DEF l
  <2> HIDE DEF r
  <2>16. SizeKnown(s, b)
    BY <1>2, <2>1, <2>7, <2>8, <2>10, <2>13, <2>14, <2>15 DEF SizeKnown, n
  <2> QED
    BY <1>2, <2>10, <2>15, <2>16 DEF n, r
<1> QED
  BY <1>1, <1>2

\* The same when the deque asks for twice its capacity: a release build only
\* with capacities that fit.
LEMMA TwiceKnown ==
  ASSUME NEW n \in Nat, NEW oom \in BOOLEAN, size \in Nat, debug \in BOOLEAN,
         debug \/ Fits(n), uninitialized_twice(size, n, debug, oom).val = "ok"
  PROVE  LET b == uninitialized_twice(size, n, debug, oom).b
         IN  /\ b = [blen |-> b.blen, bytes |-> b.bytes] /\ SizeKnown(size, b)
             /\ n <= b.blen \div 2
<1> DEFINE r == uninitialized(size, 2 * n, debug, oom)
           b == r.b
           m == 2 * n
<1>1. m \in Nat /\ m < USIZE /\ (size = 0 \/ debug \/ NoOverflow(size, m))
  <2>1. CASE debug
    <3>1. ~Overflows(2 * n)
      BY <2>1, Zenon DEF uninitialized_twice, Failed
    <3> QED
      BY <2>1, <3>1, Constants DEF Overflows
  <2>2. CASE ~debug /\ size = 0
    BY <2>2, Constants DEF Fits
  <2>3. CASE ~debug /\ size # 0
    <3>1. ~(m * size + 2 * AG >= USIZE) /\ m \in Nat
      BY <2>3 DEF Fits, BufferFits, Overflows
    <3>2. 1 * m <= size * m
      BY <2>3, <3>1, MulMonotone
    <3> DEFINE y == m * size
    <3>3. y \in Int /\ m <= y
      BY <3>1, <3>2
    <3> HIDE DEF m, y
    <3>4. m < USIZE
      BY <3>1, <3>3, Constants DEF y
    <3>5. NoOverflow(size, m)
      BY <3>1, FitsNoOverflow DEF Overflows
    <3> QED
      BY <3>1, <3>4, <3>5
  <2> QED
    BY <2>1, <2>2, <2>3
<1>2. wrapping(m) = m
  BY <1>1, InWord
<1>3. uninitialized_twice(size, n, debug, oom) = r
  BY <1>1, <1>2, Constants DEF uninitialized_twice, Overflows
<1> HIDE DEF m
<1>4. r.val = "ok" /\ r = uninitialized(size, m, debug, oom)
  BY <1>3 DEF m
<1> HIDE DEF r
<1>5. /\ b = [blen |-> b.blen, bytes |-> b.bytes] /\ SizeKnown(size, b)
      /\ size # 0 => m <= 2 * (b.blen \div 2)
      /\ size = 0 => b = NewBuffer(size)
  <2>1. /\ size = 0 \/ debug \/ NoOverflow(size, m)
        /\ m \in Nat /\ uninitialized(size, m, debug, oom).val = "ok"
    BY <1>1, <1>4
  <2>2. LET v == uninitialized(size, m, debug, oom).b
        IN  /\ v = [blen |-> v.blen, bytes |-> v.bytes] /\ SizeKnown(size, v)
            /\ size # 0 => m <= 2 * (v.blen \div 2)
            /\ size = 0 => v = NewBuffer(size)
    BY <2>1, UninitializedKnown
  <2> QED
    BY <1>4, <2>2
<1>6. n <= b.blen \div 2
  <2>1. CASE size = 0
    BY <1>1, <2>1, <1>5, Constants DEF NewBuffer, empty_len, m
  <2>2. CASE size # 0
    BY <1>5, <2>2 DEF m, SizeKnown
  <2> QED
    BY <2>1, <2>2
<1> QED
  BY <1>3, <1>5, <1>6

-----------------------------------------------------------------------------
(* Deques.                                                                 *)

\* Numbers of a deque: its length and its capacity are signed words.
LEMMA DequeBounds ==
  ASSUME size \in Nat, NEW q, DequeOK(q)
  PROVE  /\ q.len \in Nat /\ capacity(q) \in Nat /\ q.len <= capacity(q)
         /\ capacity(q) <= isize_max /\ 2 * capacity(q) < USIZE
         /\ capacity(q) = q.blen \div 2 /\ capacity(q) * size <= isize_max
BY CapacityBound DEF DequeOK, capacity

\* A deque over a buffer of a known size.
LEMMA OnBufferOK ==
  ASSUME NEW b, SizeKnown(size, b), NEW n \in Nat, n <= b.blen \div 2
  PROVE  DequeOK(OnBuffer(b, n)) /\ capacity(OnBuffer(b, n)) = b.blen \div 2
BY DEF DequeOK, OnBuffer, SizeKnown, capacity

\* SliceDeque::new.
LEMMA NewOK ==
  ASSUME size \in Nat
  PROVE  DequeOK(new)
<1>1. SizeKnown(size, NewBuffer(size))
  BY NewKnown
<1>2. 0 <= NewBuffer(size).blen \div 2 /\ 0 \in Nat
  BY <1>1 DEF SizeKnown
<1> QED
  BY <1>1, <1>2, OnBufferOK DEF new

\* The slice ends elsewhere within the capacity.
LEMMA MoveTailOK ==
  ASSUME size \in Nat, NEW q, DequeOK(q), NEW x \in Int,
         q.len + x >= 0, q.len + x <= capacity(q)
  PROVE  LET p == move_tail_unchecked(q, x)
         IN  DequeOK(p) /\ p.len = q.len + x /\ capacity(p) = capacity(q)
<1> DEFINE n == q.len + x
           p == move_tail_unchecked(q, x)
<1>1. n \in Nat /\ n <= isize_max /\ q.len \in Nat /\ q.len <= isize_max
  BY DequeBounds, Constants
<1>2. wrapping(as_isize(q.len) + x) = n
  BY <1>1, InSigned
<1>3. p = [blen |-> q.blen, bytes |-> q.bytes, len |-> n]
  BY <1>2 DEF move_tail_unchecked, DequeOK
<1> HIDE DEF n, p
<1>4. /\ p.blen = q.blen /\ p.bytes = q.bytes /\ p.len = n
      /\ p = [blen |-> p.blen, bytes |-> p.bytes, len |-> p.len]
  BY <1>3
<1>5. capacity(p) = capacity(q) /\ SizeKnown(size, p)
  BY <1>4 DEF capacity, SizeKnown, DequeOK
<1> QED
  BY <1>1, <1>4, <1>5 DEF DequeOK, n, p

\* reserve_capacity makes the room it is asked for or fails.
LEMMA ReserveCapacityOK ==
  ASSUME size \in Nat, debug \in BOOLEAN, NEW q, DequeOK(q), NEW n \in Nat,
         NEW oom \in BOOLEAN, n <= capacity(q) \/ debug \/ Fits(n),
         reserve_capacity(q, n, oom).val = "ok"
  PROVE  LET p == reserve_capacity(q, n, oom).q
         IN  DequeOK(p) /\ p.len = q.len /\ n <= capacity(p)
<1> DEFINE r == uninitialized_twice(size, n, debug, oom)
           p == reserve_capacity(q, n, oom).q
<1>1. q.len \in Nat /\ capacity(q) \in Nat /\ q.len <= capacity(q)
  BY DequeBounds
<1>2. CASE n <= capacity(q)
  BY <1>2 DEF reserve_capacity, Ok
<1>3. CASE ~(n <= capacity(q))
  <2>1. r.val = "ok" /\ p = OnBuffer(r.b, q.len)
    BY <1>3, Zenon DEF reserve_capacity, Ok, Err
  <2> HIDE DEF p
  <2>2. SizeKnown(size, r.b) /\ n <= r.b.blen \div 2
    BY <1>3, <2>1, TwiceKnown
  <2> HIDE DEF r
  <2>3. q.len <= r.b.blen \div 2
    BY <1>1, <1>3, <2>2 DEF SizeKnown
  <2>4. DequeOK(p) /\ capacity(p) = r.b.blen \div 2
    BY <1>1, <2>1, <2>2, <2>3, OnBufferOK
  <2>5. p.len = q.len
    BY <2>1 DEF OnBuffer
  <2> QED
    BY <2>2, <2>4, <2>5 DEF p
<1> QED
  BY <1>2, <1>3

\* try_reserve makes room for the elements that are to be added or fails.
LEMMA TryReserveOK ==
  ASSUME size \in Nat, debug \in BOOLEAN, NEW q, DequeOK(q), NEW n \in Nat,
         NEW oom \in BOOLEAN,
         \/ debug \/ Overflows(q.len + n) \/ q.len + n <= capacity(q)
         \/ Fits(q.len + n) /\ Fits(2 * capacity(q)),
         try_reserve(q, n, oom).val = "ok"
  PROVE  LET p == try_reserve(q, n, oom).q
         IN  DequeOK(p) /\ p.len = q.len /\ q.len + n <= capacity(p)
<1> DEFINE g == grow_policy(q, n)
           m == q.len + n
           p == try_reserve(q, n, oom).q
<1>1. q.len \in Nat /\ capacity(q) \in Nat /\ q.len <= capacity(q) /\ 2 * capacity(q) < USIZE
      /\ m \in Nat
  BY DequeBounds
<1>2. ~Overflows(m) /\ try_reserve(q, n, oom) = reserve_capacity(q, g, oom)
  BY Zenon DEF try_reserve, Err
<1>3. /\ g = m \/ g = 2 * capacity(q)
      /\ g \in Nat /\ m <= g
      /\ m <= capacity(q) => g <= capacity(q)
  BY <1>1, Constants DEF grow_policy, Overflows
<1> HIDE DEF g
<1>4. g <= capacity(q) \/ debug \/ Fits(g)
  BY <1>2, <1>3
<1>5. DequeOK(p) /\ p.len = q.len /\ g <= capacity(p)
  BY <1>2, <1>3, <1>4, ReserveCapacityOK
<1> HIDE DEF p
<1>6. capacity(p) \in Nat
  BY <1>5, DequeBounds
<1> QED
  BY <1>1, <1>3, <1>5, <1>6 DEF p

\* A call that leaves deque d with the room that it promises.
LEMMA KeepsPromise ==
  ASSUME WInv, Others, NEW d \in DEQS, NEW q, DequeOK(q), NEW n \in Nat, n <= capacity(q),
         dq' = [dq EXCEPT ![d] = q], Promises(d, n)
  PROVE  WInv'
<1>1. UNCHANGED <<size, debug, it, buf>>
  BY DEF Others
<1>2. /\ DOMAIN dq' = DEQS /\ dq'[d] = q
      /\ \A c \in DEQS : DequeOK(dq'[c])
  BY DEF WInv
<1>3. \A c \in DEQS : DequeOK(dq[c])' <=> DequeOK(dq'[c])
  BY <1>1 DEF DequeOK, SizeKnown
<1>4. short' = FALSE
  <2>1. capacity(q) \in Nat
    BY DequeBounds DEF WInv
  <2>2. ~(capacity(q) < n) /\ short = FALSE
    BY <2>1 DEF WInv
  <2> QED
    BY <1>2, <2>2, Zenon DEF Promises
<1>5. IterOK'
  BY <1>1 DEF WInv, IterOK
<1> QED
  BY <1>1, <1>2, <1>3, <1>4, <1>5 DEF WInv

\* A call that changes no deque.
LEMMA GivesUpOK ==
  ASSUME WInv, Others, GivesUp
  PROVE  WInv'
BY DEF WInv, Others, GivesUp, PromisesNothing, IterOK, DequeOK, capacity

\* with_capacity
LEMMA AssignOK ==
  ASSUME WInv, NEW d \in DEQS, NEW n \in Words, NEW oom \in BOOLEAN,
         debug \/ Fits(n), assign(d, n, oom)
  PROVE  WInv'
<1> DEFINE r == uninitialized_twice(size, n, debug, oom)
<1>1. n \in Nat /\ size \in Nat /\ debug \in BOOLEAN
  BY DEF Words, WInv
<1>2. CASE r.val # "ok" /\ GivesUp
  BY <1>2, GivesUpOK DEF assign
<1>3. CASE r.val = "ok" /\ dq' = [dq EXCEPT ![d] = OnBuffer(r.b, 0)] /\ Promises(d, n)
  <2>1. SizeKnown(size, r.b) /\ n <= r.b.blen \div 2
    BY <1>1, <1>3, TwiceKnown
  <2> HIDE DEF r
  <2>2. 0 \in Nat /\ 0 <= r.b.blen \div 2
    BY <2>1 DEF SizeKnown
  <2>3. DequeOK(OnBuffer(r.b, 0)) /\ n <= capacity(OnBuffer(r.b, 0))
    BY <2>1, <2>2, OnBufferOK
  <2>4. Others
    BY DEF assign
  <2> QED
    BY <1>1, <1>3, <2>3, <2>4, KeepsPromise
<1> QED
  BY <1>2, <1>3 DEF assign

\* reserve and try_reserve
LEMMA ReserveOK ==
  ASSUME WInv, NEW d \in DEQS, NEW n \in Words, NEW oom \in BOOLEAN,
         Asks(d, dq[d].len + n), reserve(d, n, oom)
  PROVE  WInv'
<1> DEFINE r == try_reserve(dq[d], n, oom)
           m == dq[d].len + n
<1>1. n \in Nat /\ size \in Nat /\ debug \in BOOLEAN /\ DequeOK(dq[d]) /\ m \in Nat
  BY DEF Words, WInv, DequeOK
<1>2. CASE r.val # "ok" /\ GivesUp
  BY <1>2, GivesUpOK DEF reserve
<1>3. CASE r.val = "ok" /\ dq' = [dq EXCEPT ![d] = r.q] /\ Promises(d, m)
  <2>1. DequeOK(r.q) /\ m <= capacity(r.q)
    BY <1>1, <1>3, TryReserveOK DEF Asks
  <2> HIDE DEF r, m
  <2>2. Others
    BY DEF reserve
  <2> QED
    BY <1>1, <1>3, <2>1, <2>2, KeepsPromise
<1> QED
  BY <1>2, <1>3 DEF reserve

\* reserve_exact
LEMMA ReserveExactOK ==
  ASSUME WInv, NEW d \in DEQS, NEW n \in Words, NEW oom \in BOOLEAN,
         Asks(d, dq[d].len + n), reserve_exact(d, n, oom)
  PROVE  WInv'
<1> DEFINE m == dq[d].len + n
           r == reserve_capacity(dq[d], m, oom)
<1>1. n \in Nat /\ size \in Nat /\ debug \in BOOLEAN /\ DequeOK(dq[d]) /\ m \in Nat
  BY DEF Words, WInv, DequeOK
<1>2. CASE GivesUp
  BY <1>2, GivesUpOK DEF reserve_exact
<1>3. CASE ~Overflows(m) /\ r.val = "ok" /\ dq' = [dq EXCEPT ![d] = r.q] /\ Promises(d, m)
  <2>1. m <= capacity(dq[d]) \/ debug \/ Fits(m)
    BY <1>3 DEF Asks
  <2> HIDE DEF m
  <2>2. DequeOK(r.q) /\ m <= capacity(r.q)
    BY <1>1, <1>3, <2>1, ReserveCapacityOK
  <2> HIDE DEF r
  <2>3. Others
    BY DEF reserve_exact
  <2> QED
    BY <1>1, <1>3, <2>2, <2>3, KeepsPromise
<1> QED
  BY <1>2, <1>3 DEF reserve_exact

\* push_back and push_front
LEMMA PushOK ==
  ASSUME WInv, NEW d \in DEQS, NEW oom \in BOOLEAN,
         Asks(d, dq[d].len + 1), push(d, oom)
  PROVE  WInv'
<1> DEFINE q == dq[d]
           r == IF q.len = capacity(q) THEN try_reserve(q, 1, oom) ELSE Ok(q)
           m == q.len + 1
           p == move_tail_unchecked(r.q, 1)
<1>1. /\ size \in Nat /\ debug \in BOOLEAN /\ DequeOK(q) /\ m \in Nat
      /\ q.len \in Nat /\ capacity(q) \in Nat /\ q.len <= capacity(q)
  BY DequeBounds DEF WInv
<1>2. CASE r.val # "ok" /\ GivesUp
  BY <1>2, GivesUpOK DEF push
<1>3. CASE r.val = "ok" /\ dq' = [dq EXCEPT ![d] = p] /\ Promises(d, m)
  <2>1. DequeOK(r.q) /\ r.q.len = q.len /\ m <= capacity(r.q)
    <3>1. CASE q.len = capacity(q)
      <4> DEFINE w == try_reserve(q, 1, oom)
      <4>1. w.val = "ok" /\ r.q = w.q /\ 1 \in Nat
        BY <1>3, <3>1
      <4> HIDE DEF r
      <4>2. DequeOK(w.q) /\ w.q.len = q.len /\ m <= capacity(w.q)
        BY <1>1, <4>1, TryReserveOK DEF Asks
      <4> QED
        BY <4>1, <4>2
    <3>2. CASE q.len # capacity(q)
      BY <1>1, <3>2 DEF Ok
    <3> QED
      BY <3>1, <3>2
  <2> HIDE DEF r
  <2>2. DequeOK(p) /\ capacity(p) = capacity(r.q)
    BY <1>1, <2>1, MoveTailOK
  <2>3. Others
    BY DEF push
  <2> HIDE DEF p, m
  <2> QED
    BY <1>1, <1>3, <2>1, <2>2, <2>3, KeepsPromise
<1> QED
  BY <1>2, <1>3 DEF push

\* pop_back and pop_front
LEMMA PopOK ==
  ASSUME WInv, NEW d \in DEQS, pop(d)
  PROVE  WInv'
<1> DEFINE q == dq[d]
           x == -1
           p == move_tail_unchecked(q, x)
           z == 0
<1>1. /\ size \in Nat /\ DequeOK(q) /\ x \in Int /\ z \in Nat
      /\ q.len \in Nat /\ capacity(q) \in Nat /\ q.len <= capacity(q)
  BY DequeBounds DEF WInv
<1>2. CASE GivesUp
  BY <1>2, GivesUpOK DEF pop
<1>3. CASE q.len > 0 /\ dq' = [dq EXCEPT ![d] = p] /\ PromisesNothing
  <2>1. q.len + x >= 0 /\ q.len + x <= capacity(q)
    BY <1>1, <1>3
  <2> HIDE DEF x
  <2>2. DequeOK(p)
    BY <1>1, <2>1, MoveTailOK
  <2> HIDE DEF p
  <2>3. z <= capacity(p) /\ z <= capacity(dq'[d]) /\ capacity(dq'[d]) \in Nat
    <3>1. dq'[d] = p /\ capacity(p) \in Nat
      BY <1>1, <1>3, <2>2, DequeBounds DEF WInv
    <3> QED
      BY <3>1
  <2>4. ~(capacity(dq'[d]) < z)
    BY <1>1, <2>3
  <2> HIDE DEF z
  <2>5. Promises(d, z)
    BY <1>3, <2>4, Zenon DEF Promises, PromisesNothing, WInv
  <2>6. Others
    BY DEF pop
  <2> QED
    BY <1>1, <1>3, <2>2, <2>3, <2>5, <2>6, KeepsPromise
<1> QED
  BY <1>2, <1>3 DEF pop

\* append, which empties the other deque.
LEMMA AppendOK ==
  ASSUME WInv, NEW d \in DEQS, NEW o \in DEQS \ {d}, NEW oom \in BOOLEAN,
         Asks(d, dq[d].len + dq[o].len), append(d, o, oom)
  PROVE  WInv'
<1> DEFINE n == dq[o].len
           m == dq[d].len + n
           r == try_reserve(dq[d], n, oom)
           p == move_tail_unchecked(r.q, n)
           e == [dq[o] EXCEPT !.len = 0]
<1>1. /\ size \in Nat /\ debug \in BOOLEAN /\ DequeOK(dq[d]) /\ DequeOK(dq[o])
      /\ n \in Nat /\ n <= isize_max /\ m \in Nat /\ as_isize(n) = n
  <2>1. n \in Nat /\ capacity(dq[o]) \in Nat /\ n <= capacity(dq[o]) /\ capacity(dq[o]) <= isize_max
    BY DequeBounds DEF WInv
  <2>2. dq[d].len \in Nat
    BY DequeBounds DEF WInv
  <2> QED
    BY <2>1, <2>2, InSigned, Constants DEF WInv
<1>2. CASE r.val # "ok" /\ GivesUp
  BY <1>2, GivesUpOK DEF append
<1>3. CASE /\ r.val = "ok" /\ Promises(d, m)
           /\ dq' = [dq EXCEPT ![d] = move_tail_unchecked(r.q, as_isize(n)), ![o].len = 0]
  <2>1. DequeOK(r.q) /\ r.q.len = dq[d].len /\ m <= capacity(r.q)
    BY <1>1, <1>3, TryReserveOK DEF Asks
  <2> HIDE DEF r
  <2>2. DequeOK(p) /\ capacity(p) = capacity(r.q)
    BY <1>1, <2>1, MoveTailOK
  <2>3. DequeOK(e)
    <3>1. /\ e = [blen |-> dq[o].blen, bytes |-> dq[o].bytes, len |-> 0]
          /\ capacity(dq[o]) \in Nat
      BY <1>1, DequeBounds DEF DequeOK
    <3> HIDE DEF e
    <3> QED
      BY <1>1, <3>1 DEF DequeOK, SizeKnown, capacity
  <2>4. DOMAIN dq = DEQS /\ dq' = [dq EXCEPT ![d] = p, ![o].len = 0]
    BY <1>1, <1>3 DEF WInv
  <2> HIDE DEF p, n
  <2>5. DOMAIN dq' = DEQS /\ dq'[d] = p /\ dq'[o] = e /\ \A c \in DEQS \ {d, o} : dq'[c] = dq[c]
    BY <2>4
  <2> HIDE DEF e
  <2>6. UNCHANGED <<size, debug, it, buf>>
    BY DEF append, Others
  <2>7. \A c \in DEQS : DequeOK(dq'[c])
    BY <2>2, <2>3, <2>5 DEF WInv
  <2>8. \A c \in DEQS : DequeOK(dq[c])' <=> DequeOK(dq'[c])
    BY <2>6 DEF DequeOK, SizeKnown
  <2>9. IterOK'
    BY <2>6 DEF WInv, IterOK
  <2>10. short' = FALSE
    <3>1. ~(capacity(p) < m) /\ short = FALSE
      BY <1>1, <2>1, <2>2, DequeBounds DEF WInv
    <3> QED
      BY <1>3, <2>5, <3>1, Zenon DEF Promises
  <2> QED
    BY <2>5, <2>6, <2>7, <2>8, <2>9, <2>10 DEF WInv
<1> QED
  BY <1>2, <1>3 DEF append

-----------------------------------------------------------------------------
(* IntoIter.                                                               *)

\* A step of the iterator leaves all else alone.
LEMMA IteratesOK ==
  ASSUME WInv, Iterates, IterOK'
  PROVE  WInv'
<1>1. UNCHANGED <<size, debug, dq, buf, short>>
  BY DEF Iterates, PromisesNothing
<1>2. (\A d \in DEQS : DequeOK(dq[d]))'
  BY <1>1 DEF WInv, DequeOK, SizeKnown, capacity
<1> QED
  BY <1>1, <1>2 DEF WInv

\* The iterator is made: its end is as far away as the deque is long.
LEMMA IntoIterOK ==
  ASSUME WInv, NEW d \in DEQS, NEW begin \in BASES, into_iter(d, begin)
  PROVE  WInv'
<1> DEFINE q == dq[d]
           end == Offset(begin, IF size = 0 THEN as_isize(q.len) ELSE q.len)
<1>1. /\ size \in Nat /\ DequeOK(q) /\ begin \in Nat /\ begin < USIZE
      /\ q.len \in Nat /\ capacity(q) \in Nat /\ q.len <= capacity(q) /\ capacity(q) <= isize_max
      /\ capacity(q) = q.blen \div 2
  <2>1. begin \in Nat /\ begin < USIZE
    BY IterAssumption, Constants DEF Words
  <2>2. size \in Nat /\ DequeOK(q)
    BY DEF WInv
  <2> QED
    BY <2>1, <2>2, DequeBounds
<1>2. /\ it' = [used |-> TRUE, ptr |-> begin, end |-> end, cap |-> capacity(q),
                bytes |-> q.bytes, left |-> q.len]
      /\ dq' = [dq EXCEPT ![d] = new] /\ UNCHANGED <<short, size, debug, buf>>
      /\ begin + q.len * size < USIZE /\ begin <= end
  BY DEF into_iter, PromisesNothing
<1>3. end < USIZE /\ end = IF size = 0 THEN begin + q.len ELSE begin + q.len * size
  <2>1. CASE size = 0
    <3> DEFINE x == begin + q.len
               k == 1
    <3>0. x \in Nat /\ q.len <= isize_max
      BY <1>1, Constants
    <3>1. x \in Nat /\ as_isize(q.len) = q.len /\ end = wrapping(x)
      BY <1>1, <2>1, <3>0, InSigned DEF Offset, arith_offset
    <3>2. x < USIZE
      <4> SUFFICES ASSUME x >= USIZE PROVE FALSE
        BY <3>1, Constants
      <4> DEFINE z == x - USIZE
      <4>1. /\ USIZE \in Nat \ {0} /\ z \in 0 .. USIZE - 1 /\ x = k * USIZE + z /\ k \in Int
            /\ x \in Int /\ z < begin
        BY <1>1, <3>1, Constants
      <4> HIDE DEF z, k, x
      <4>2. wrapping(x) = z
        BY <4>1, DivUnique DEF wrapping
      <4> QED
        BY <1>1, <1>2, <3>1, <4>1, <4>2
    <3>3. end = x
      BY <3>1, <3>2, InWord
    <3> QED
      BY <2>1, <3>2, <3>3
  <2>2. CASE size # 0
    BY <1>2, <2>2 DEF Offset
  <2> QED
    BY <2>1, <2>2
<1> HIDE DEF end
<1>4. SizeKnown(size, from_raw_parts(2 * capacity(q), q.bytes))
  BY <1>1, HalvesKnown DEF DequeOK
<1>5. IterOK'
  <2>1. SizeKnown(size, from_raw_parts(2 * it.cap, it.bytes))'
    BY <1>2, <1>4 DEF SizeKnown, from_raw_parts
  <2>2. /\ it' = [used |-> it'.used, ptr |-> it'.ptr, end |-> it'.end, cap |-> it'.cap,
                  bytes |-> it'.bytes, left |-> it'.left]
        /\ it'.used = TRUE /\ it'.ptr = begin /\ it'.end = end /\ it'.cap = capacity(q)
        /\ it'.left = q.len /\ size' = size
    BY <1>2
  <2> QED
    BY <1>1, <1>3, <2>1, <2>2 DEF IterOK
<1>6. DOMAIN dq' = DEQS /\ \A c \in DEQS : DequeOK(dq'[c])
  BY <1>1, <1>2, NewOK DEF WInv
<1>7. (\A c \in DEQS : DequeOK(dq[c]))'
  BY <1>2, <1>6 DEF DequeOK, SizeKnown
<1> QED
  BY <1>2, <1>5, <1>6, <1>7 DEF WInv

\* An iterator that has not ended has an element left, and one step moves a
\* pointer by one element.
LEMMA IterMoves ==
  ASSUME WInv, it.used, it.ptr # it.end
  PROVE  /\ it.left - 1 \in Nat /\ it.left - 1 <= it.cap
         /\ Offset(it.ptr, 1) \in Nat
         /\ it.end = IF size = 0 THEN Offset(it.ptr, 1) + (it.left - 1)
                                 ELSE Offset(it.ptr, 1) + (it.left - 1) * size
         /\ Offset(it.end, -1) = IF size = 0 THEN it.ptr + (it.left - 1)
                                             ELSE it.ptr + (it.left - 1) * size
         /\ Offset(it.end, -1) < USIZE
<1> DEFINE p == it.ptr
           e == it.end
           n == it.left
           l == n - 1
<1>1. /\ size \in Nat /\ p \in Nat /\ n \in Nat /\ it.cap \in Nat /\ n <= it.cap
      /\ e = (IF size = 0 THEN p + n ELSE p + n * size) /\ e < USIZE /\ p # e
  BY DEF WInv, IterOK
<1> HIDE DEF p, e, n
<1>2. l \in Nat /\ n = l + 1 /\ l <= it.cap
  <2>1. n # 0
    BY <1>1
  <2> QED
    BY <1>1, <2>1
<1> HIDE DEF l
<1>3. CASE size = 0
  <2>1. /\ p + 1 \in Nat /\ p + 1 < USIZE /\ e - 1 \in Nat /\ e - 1 < USIZE
        /\ e = p + 1 + l /\ e + -1 = e - 1
    BY <1>1, <1>2, <1>3, Constants
  <2>2. wrapping(p + 1) = p + 1 /\ wrapping(e - 1) = e - 1
    BY <2>1, InWord
  <2>3. Offset(p, 1) = p + 1 /\ Offset(e, -1) = e - 1
    BY <1>3, <2>1, <2>2 DEF Offset, arith_offset
  <2> QED
    BY <1>1, <1>2, <1>3, <2>1, <2>3 DEF p, e, n, l
<1>4. CASE size # 0
  <2>1. Offset(p, 1) = p + size /\ Offset(e, -1) = e - size
    BY <1>1, <1>4 DEF Offset
  <2> DEFINE x == l * size
             y == n * size
  <2>2. x \in Nat /\ y = x + size
    BY <1>1, <1>2
  <2>3. e = p + y
    BY <1>1, <1>4
  <2> HIDE DEF x, y
  <2>4. p + size \in Nat /\ e = p + size + x /\ e - size = p + x /\ e - size < USIZE
    BY <1>1, <2>2, <2>3, Constants
  <2> QED
    BY <1>2, <1>4, <2>1, <2>4 DEF p, e, n, l, x
<1> QED
  BY <1>3, <1>4

\* next
LEMMA NextOK ==
  ASSUME WInv, next
  PROVE  WInv'
<1> DEFINE p == Offset(it.ptr, 1)
           l == it.left - 1
<1>1. /\ it.used /\ it.ptr # it.end /\ Iterates /\ IterOK /\ UNCHANGED size
      /\ it' = [it EXCEPT !.ptr = p, !.left = l]
  BY DEF next, WInv, Iterates
<1>2. /\ l \in Nat /\ l <= it.cap /\ p \in Nat
      /\ it.end = IF size = 0 THEN p + l ELSE p + l * size
  BY <1>1, IterMoves
<1> HIDE DEF p, l
<1>3. /\ it' = [used |-> it.used, ptr |-> p, end |-> it.end, cap |-> it.cap,
                bytes |-> it.bytes, left |-> l]
  BY <1>1 DEF IterOK
<1>4. /\ it' = [used |-> it'.used, ptr |-> it'.ptr, end |-> it'.end, cap |-> it'.cap,
                bytes |-> it'.bytes, left |-> it'.left]
      /\ it'.used = it.used /\ it'.ptr = p /\ it'.end = it.end /\ it'.cap = it.cap
      /\ it'.bytes = it.bytes /\ it'.left = l
  BY <1>3
<1>5. SizeKnown(size, from_raw_parts(2 * it.cap, it.bytes))'
  BY <1>1, <1>4 DEF IterOK, SizeKnown, from_raw_parts
<1>6. IterOK'
  BY <1>1, <1>2, <1>4, <1>5 DEF IterOK
<1> QED
  BY <1>1, <1>6, IteratesOK

\* next_back
LEMMA NextBackOK ==
  ASSUME WInv, next_back
  PROVE  WInv'
<1> DEFINE e == Offset(it.end, -1)
           l == it.left - 1
<1>1. /\ it.used /\ it.ptr # it.end /\ Iterates /\ IterOK /\ UNCHANGED size
      /\ it' = [it EXCEPT !.end = e, !.left = l]
  BY DEF next_back, WInv, Iterates
<1>2. /\ l \in Nat /\ l <= it.cap /\ e < USIZE
      /\ e = IF size = 0 THEN it.ptr + l ELSE it.ptr + l * size
  BY <1>1, IterMoves
<1> HIDE DEF e, l
<1>3. /\ it' = [used |-> it.used, ptr |-> it.ptr, end |-> e, cap |-> it.cap,
                bytes |-> it.bytes, left |-> l]
  BY <1>1 DEF IterOK
<1>4. /\ it' = [used |-> it'.used, ptr |-> it'.ptr, end |-> it'.end, cap |-> it'.cap,
                bytes |-> it'.bytes, left |-> it'.left]
      /\ it'.used = it.used /\ it'.ptr = it.ptr /\ it'.end = e /\ it'.cap = it.cap
      /\ it'.bytes = it.bytes /\ it'.left = l
  BY <1>3
<1>5. SizeKnown(size, from_raw_parts(2 * it.cap, it.bytes))'
  BY <1>1, <1>4 DEF IterOK, SizeKnown, from_raw_parts
<1>6. IterOK'
  BY <1>1, <1>2, <1>4, <1>5 DEF IterOK
<1> QED
  BY <1>1, <1>6, IteratesOK

\* Drop for IntoIter.
LEMMA DropIterOK ==
  ASSUME WInv, drop_iter
  PROVE  WInv'
<1>1. IterOK'
  BY DEF drop_iter, IterOK, NoIter
<1> QED
  BY <1>1, IteratesOK DEF drop_iter

-----------------------------------------------------------------------------
(* A buffer of its own.                                                    *)

\* Making, cloning and dropping a buffer leaves a buffer of a known size.
LEMMA BufferOK ==
  ASSUME WInv, NEW r, OnlyBuffer(r),
         r.val = "ok" => r.b = [blen |-> r.b.blen, bytes |-> r.b.bytes] /\ SizeKnown(size, r.b)
  PROVE  WInv'
<1>1. UNCHANGED <<size, debug, dq, it, short>>
  BY DEF OnlyBuffer, PromisesNothing
<1>2. (\A d \in DEQS : DequeOK(dq[d]))' /\ IterOK'
  BY <1>1 DEF WInv, DequeOK, SizeKnown, capacity, IterOK
<1>3. (buf = [blen |-> buf.blen, bytes |-> buf.bytes] /\ SizeKnown(size, buf))'
  BY <1>1 DEF OnlyBuffer, WInv, SizeKnown
<1> QED
  BY <1>1, <1>2, <1>3 DEF WInv

\* Buffer::uninitialized
LEMMA MakeBufferOK ==
  ASSUME WInv, NEW len \in Words, NEW oom \in BOOLEAN, debug \/ BufferFits(len),
         make_buffer(len, oom)
  PROVE  WInv'
<1> DEFINE r == uninitialized(size, len, debug, oom)
<1>1. len \in Nat /\ size \in Nat /\ debug \in BOOLEAN
  BY DEF Words, WInv
<1>2. r.val = "ok" => r.b = [blen |-> r.b.blen, bytes |-> r.b.bytes] /\ SizeKnown(size, r.b)
  BY <1>1, UninitializedKnown, FitsNoOverflow DEF BufferFits
<1>3. OnlyBuffer(r)
  BY DEF make_buffer
<1> HIDE DEF r
<1> QED
  BY <1>2, <1>3, BufferOK

\* Clone for Buffer, from the length of a buffer that has been made: its bytes
\* were counted before, and rounding them up gives the size there is.
LEMMA CloneBufferOK ==
  ASSUME WInv, NEW oom \in BOOLEAN, clone_buffer(oom)
  PROVE  WInv'
<1> DEFINE n == buf.blen
           r == uninitialized(size, n, debug, oom)
<1>1. n \in Nat /\ size \in Nat /\ debug \in BOOLEAN /\ SizeKnown(size, buf)
  BY DEF WInv, SizeKnown
<1>2. OnlyBuffer(r)
  BY DEF clone_buffer
<1> HIDE DEF n
<1>3. size # 0 /\ n # 0 => NoOverflow(size, n)
  BY <1>1, KnownFits DEF n
<1>4. r.val = "ok" => r.b = [blen |-> r.b.blen, bytes |-> r.b.bytes] /\ SizeKnown(size, r.b)
  <2>1. CASE size = 0 \/ n # 0
    BY <1>1, <1>3, <2>1, UninitializedKnown
  <2>2. CASE n = 0
    <3>1. r = Made(NewBuffer(size))
      BY <2>2 DEF uninitialized
    <3> HIDE DEF r
    <3> QED
      BY <1>1, <3>1, NewKnown DEF Made, NewBuffer
  <2> QED
    BY <2>1, <2>2
<1> HIDE DEF r
<1> QED
  BY <1>2, <1>4, BufferOK

\* Drop for Buffer.
LEMMA DropBufferOK ==
  ASSUME WInv, drop_buffer
  PROVE  WInv'
<1> DEFINE r == Made(NewBuffer(size))
<1>1. r.b = [blen |-> r.b.blen, bytes |-> r.b.bytes] /\ SizeKnown(size, r.b)
  BY NewKnown DEF WInv, Made, NewBuffer
<1>2. OnlyBuffer(r)
  BY DEF drop_buffer
<1> HIDE DEF r
<1> QED
  BY <1>1, <1>2, BufferOK

-----------------------------------------------------------------------------
(* The theorems.                                                           *)

\* A program starts without memory.
LEMMA InitWInv == Init => WInv
<1> SUFFICES ASSUME Init PROVE WInv
  OBVIOUS
<1>1. /\ size \in Nat /\ debug \in BOOLEAN /\ short = FALSE
      /\ dq = [d \in DEQS |-> new] /\ it = NoIter /\ buf = NewBuffer(size)
  BY IterAssumption DEF Init
<1>2. DequeOK(new) /\ SizeKnown(size, NewBuffer(size))
  BY <1>1, NewOK, NewKnown
<1>3. IterOK
  BY <1>1 DEF IterOK, NoIter
<1>4. buf = [blen |-> buf.blen, bytes |-> buf.bytes]
  BY <1>1 DEF NewBuffer
<1> QED
  BY <1>1, <1>2, <1>3, <1>4 DEF WInv

\* Every call keeps the invariant.
LEMMA NextWInv == WInv /\ [SoundNext]_vars => WInv'
<1> SUFFICES ASSUME WInv, [SoundNext]_vars PROVE WInv'
  OBVIOUS
<1>1. CASE UNCHANGED vars
  BY <1>1 DEF vars, WInv, IterOK, DequeOK, capacity, SizeKnown
<1>2. CASE SoundNext
  <2>1. PICK oom \in BOOLEAN :
          \/ Uses(oom)
          \/ \E len \in Words : (debug \/ BufferFits(len)) /\ OnlyBuffers /\ make_buffer(len, oom)
          \/ \E d \in DEQS : NoBuffer /\ ~it.used /\ SoundRequests(d, oom)
    BY <1>2 DEF SoundNext
  <2>2. CASE Uses(oom)
    BY <2>2, PopOK, IntoIterOK, NextOK, NextBackOK, DropIterOK, CloneBufferOK, DropBufferOK
    DEF Uses
  <2>3. CASE \E len \in Words : (debug \/ BufferFits(len)) /\ OnlyBuffers /\ make_buffer(len, oom)
    BY <2>3, MakeBufferOK
  <2>4. ASSUME NEW d \in DEQS, SoundRequests(d, oom) PROVE WInv'
    BY <2>4, AssignOK, ReserveOK, ReserveExactOK, PushOK, AppendOK DEF SoundRequests
  <2> QED
    BY <2>1, <2>2, <2>3, <2>4
<1> QED
  BY <1>1, <1>2

\* The invariant holds in every behaviour.
THEOREM WInvCorrect == SoundSpec => []WInv
BY InitWInv, NextWInv, PTL DEF SoundSpec

\* A call that returns has made the room it was asked for, and no deque is
\* longer than its capacity, for words of every width, zero-sized T included.
THEOREM ReservedCorrect == SoundSpec => []Reserved
<1>1. WInv => Reserved
  BY DEF WInv, DequeOK, Reserved
<1> QED
  BY <1>1, WInvCorrect, PTL

\* The size that is recomputed when memory is freed, from a length that was
\* rounded down or from a capacity, is the size that was allocated.
THEOREM FreedExactlyCorrect == SoundSpec => []FreedExactly
<1>1. WInv => FreedExactly
  <2> SUFFICES ASSUME WInv PROVE FreedExactly
    OBVIOUS
  <2>1. size \in Nat
    BY DEF WInv
  <2>2. ASSUME NEW d \in DEQS PROVE Freed(size, dq[d]) = dq[d].bytes
    BY <2>1, FreedKnown DEF WInv, DequeOK
  <2>3. Freed(size, buf) = buf.bytes
    BY <2>1, FreedKnown DEF WInv
  <2>4. ASSUME it.used PROVE Freed(size, IterBuffer) = it.bytes
    <3> DEFINE b == from_raw_parts(2 * it.cap, it.bytes)
    <3>1. SizeKnown(size, b) /\ it.cap \in Nat
      BY <2>4 DEF WInv, IterOK
    <3>2. b.blen = 2 * it.cap /\ b.bytes = it.bytes
      BY DEF from_raw_parts
    <3>3. (2 * it.cap) \div 2 = it.cap
      BY <3>1
    <3> HIDE DEF b
    <3>4. 2 * it.cap < USIZE
      BY <2>1, <3>1, <3>2, <3>3, CapacityBound
    <3>5. IterBuffer = b
      BY <3>1, <3>4, InWord DEF IterBuffer, b
    <3> QED
      BY <2>1, <3>1, <3>2, <3>5, FreedKnown
  <2> QED
    BY <2>2, <2>3, <2>4 DEF FreedExactly
<1> QED
  BY <1>1, WInvCorrect, PTL

\* size_hint of IntoIter is the number of elements left, and next and
\* next_back end after the last one: through isize, across the sign bit, and
\* when the pointers only count.
THEOREM HintExactCorrect == SoundSpec => []HintExact
<1>1. WInv => HintExact
  <2> SUFFICES ASSUME WInv, it.used PROVE size_hint(it) = it.left /\ (it.ptr = it.end <=> it.left = 0)
    BY DEF HintExact
  <2> DEFINE p == it.ptr
             n == it.left
             c == it.cap
             b == from_raw_parts(2 * c, it.bytes)
  <2>1. /\ size \in Nat /\ p \in Nat /\ n \in Nat /\ c \in Nat /\ n <= c
        /\ it.end = (IF size = 0 THEN p + n ELSE p + n * size) /\ it.end < USIZE
        /\ SizeKnown(size, b)
    BY DEF WInv, IterOK
  <2>2. c <= isize_max /\ c * size <= isize_max
    <3>1. b.blen = 2 * c /\ (2 * c) \div 2 = c
      BY <2>1 DEF from_raw_parts
    <3> HIDE DEF b
    <3> QED
      BY <2>1, <3>1, CapacityBound
  <2> HIDE DEF p, n, c, b
  <2>3. wrapping(n) = n
    BY <2>1, <2>2, InSigned, Constants
  <2>4. CASE size = 0
    <3>1. it.end - p = n
      BY <2>1, <2>4
    <3> QED
      BY <2>1, <2>3, <2>4, <3>1 DEF size_hint, p, n
  <2>5. CASE size # 0
    <3> DEFINE x == n * size
               e == it.end
    <3>1. x \in Nat /\ x <= c * size /\ (x = 0 <=> n = 0)
      BY <2>1, <2>5, MulMonotone
    <3>2. e = p + x
      BY <2>1, <2>5
    <3>3. x <= isize_max
      <4> DEFINE y == c * size
      <4>1. y \in Int /\ x <= y /\ y <= isize_max
        BY <2>1, <2>2, <3>1
      <4> HIDE DEF x, y
      <4> QED
        BY <3>1, <4>1, Constants
    <3>4. x \div size = n
      <4> DEFINE z == 0
      <4>1. z \in 0 .. size - 1 /\ x = n * size + z /\ n \in Int /\ x \in Int /\ size \in Nat \ {0}
        BY <2>1, <2>5
      <4> HIDE DEF x, z
      <4> QED
        BY <4>1, DivUnique
    <3> HIDE DEF x, e
    <3>5. as_isize(wrapping(as_isize(e) - as_isize(p))) = x
      BY <2>1, <3>1, <3>2, <3>3, Distance DEF e
    <3>6. wrapping_offset_from(p, e) = n
      BY <3>1, <3>4, <3>5 DEF wrapping_offset_from
    <3>7. size_hint(it) = n
      BY <2>3, <2>5, <3>6 DEF size_hint, p, e
    <3>8. p = e <=> n = 0
      BY <2>1, <3>1, <3>2
    <3> QED
      BY <3>7, <3>8 DEF p, e, n
  <2> QED
    BY <2>4, <2>5
<1> QED
  BY <1>1, WInvCorrect, PTL

=============================================================================
