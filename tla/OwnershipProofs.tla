-------------------------- MODULE OwnershipProofs ---------------------------
(***************************************************************************)
(* Proof that the calls of SliceDeque that the findings are not about keep *)
(* every value alive exactly as long as a deque owns it: no value is       *)
(* dropped twice, no memory is dropped that holds no value, none leaks.    *)
(*                                                                         *)
(* What a call leaves in the deques is known from the refinement; what     *)
(* remains is that the destructors it runs make up the difference.         *)
(***************************************************************************)
EXTENDS RefinementProofs

-----------------------------------------------------------------------------
(* The values in a sequence, none of them twice.                           *)

\* The elements of a sequence.
LEMMA SetOfSeq ==
  ASSUME NEW V, NEW s \in Seq(V)
  PROVE  /\ \A x : x \in ToSet(s) <=> \E i \in 1 .. Len(s) : x = s[i]
         /\ IsInjective(s) <=> \A i, j \in 1 .. Len(s) : s[i] = s[j] => i = j
<1>1. DOMAIN s = 1 .. Len(s)
  OBVIOUS
<1> QED
  BY <1>1 DEF ToSet, IsInjective

\* A sequence of one element, and of none.
LEMMA SetOfOne ==
  ASSUME NEW V, NEW e \in V
  PROVE  /\ <<e>> \in Seq(V) /\ ToSet(<<e>>) = {e} /\ IsInjective(<<e>>)
         /\ ToSet(<<>>) = {} /\ IsInjective(<<>>)
<1>1. <<e>> \in Seq(V) /\ DOMAIN <<e>> = {1} /\ <<e>>[1] = e /\ DOMAIN <<>> = {}
  OBVIOUS
<1> QED
  BY <1>1 DEF ToSet, IsInjective

\* Appending elements that are not yet there.
LEMMA ConcatOwned ==
  ASSUME NEW V, NEW s \in Seq(V), NEW t \in Seq(V),
         IsInjective(s), IsInjective(t), ToSet(s) \cap ToSet(t) = {}
  PROVE  IsInjective(s \o t) /\ ToSet(s \o t) = ToSet(s) \cup ToSet(t)
<1> DEFINE u == s \o t
<1>1. /\ u \in Seq(V) /\ Len(u) = Len(s) + Len(t)
      /\ \A i \in 1 .. Len(s) + Len(t) : u[i] = IF i <= Len(s) THEN s[i] ELSE t[i - Len(s)]
  BY ConcatAt
<1> HIDE DEF u
<1>2. Len(s) \in Nat /\ Len(t) \in Nat
  OBVIOUS
<1>3. /\ \A x : x \in ToSet(s) <=> \E i \in 1 .. Len(s) : x = s[i]
      /\ \A i, j \in 1 .. Len(s) : s[i] = s[j] => i = j
  BY SetOfSeq
<1>4. /\ \A x : x \in ToSet(t) <=> \E i \in 1 .. Len(t) : x = t[i]
      /\ \A i, j \in 1 .. Len(t) : t[i] = t[j] => i = j
  BY SetOfSeq
<1>5. /\ \A x : x \in ToSet(u) <=> \E i \in 1 .. Len(u) : x = u[i]
      /\ IsInjective(u) <=> \A i, j \in 1 .. Len(u) : u[i] = u[j] => i = j
  BY <1>1, SetOfSeq
<1>6. \A i \in 1 .. Len(s) : i \in 1 .. Len(u) /\ u[i] = s[i]
  BY <1>1, <1>2
<1>7. ASSUME NEW i \in 1 .. Len(t) PROVE \E k \in 1 .. Len(u) : u[k] = t[i]
  <2> DEFINE k == Len(s) + i
  <2>1. k \in 1 .. Len(s) + Len(t) /\ ~(k <= Len(s)) /\ k - Len(s) = i
    BY <1>2
  <2> HIDE DEF k
  <2>2. u[k] = t[i]
    BY <1>1, <2>1
  <2> QED
    BY <1>1, <2>1, <2>2
<1>8. \A i \in 1 .. Len(u) : \/ i \in 1 .. Len(s) /\ u[i] = s[i]
                             \/ i - Len(s) \in 1 .. Len(t) /\ u[i] = t[i - Len(s)]
  BY <1>1, <1>2
<1>9. ToSet(u) = ToSet(s) \cup ToSet(t)
  <2>1. ASSUME NEW x \in ToSet(u) PROVE x \in ToSet(s) \cup ToSet(t)
    BY <1>3, <1>4, <1>5, <1>8
  <2>2. ASSUME NEW x \in ToSet(s) \cup ToSet(t) PROVE x \in ToSet(u)
    <3>1. CASE x \in ToSet(s)
      BY <1>3, <1>5, <1>6, <3>1
    <3>2. CASE x \in ToSet(t)
      <4>1. PICK i \in 1 .. Len(t) : x = t[i]
        BY <1>4, <3>2
      <4>2. PICK k \in 1 .. Len(u) : u[k] = t[i]
        BY <1>7
      <4> QED
        BY <1>5, <4>1, <4>2
    <3> QED
      BY <3>1, <3>2
  <2> QED
    BY <2>1, <2>2
<1>10. ASSUME NEW i \in 1 .. Len(u), NEW j \in 1 .. Len(u), u[i] = u[j] PROVE i = j
  <2>1. CASE i \in 1 .. Len(s) /\ u[i] = s[i] /\ j \in 1 .. Len(s) /\ u[j] = s[j]
    BY <1>3, <1>10, <2>1
  <2>2. CASE /\ i - Len(s) \in 1 .. Len(t) /\ u[i] = t[i - Len(s)]
             /\ j - Len(s) \in 1 .. Len(t) /\ u[j] = t[j - Len(s)]
    <3>1. i - Len(s) = j - Len(s)
      BY <1>4, <1>10, <2>2
    <3> QED
      BY <1>1, <1>2, <3>1
  <2>3. CASE \/ /\ i \in 1 .. Len(s) /\ u[i] = s[i]
                /\ j - Len(s) \in 1 .. Len(t) /\ u[j] = t[j - Len(s)]
             \/ /\ j \in 1 .. Len(s) /\ u[j] = s[j]
                /\ i - Len(s) \in 1 .. Len(t) /\ u[i] = t[i - Len(s)]
    <3>1. u[i] \in ToSet(s) /\ u[i] \in ToSet(t)
      BY <1>3, <1>4, <1>10, <2>3
    <3> QED
      BY <3>1
  <2> QED
    BY <1>8, <2>1, <2>2, <2>3
<1> QED
  BY <1>5, <1>9, <1>10 DEF u

\* A part of a sequence.
LEMMA PartOwned ==
  ASSUME NEW V, NEW s \in Seq(V), IsInjective(s),
         NEW m \in Nat \ {0}, NEW n \in Nat, n <= Len(s), m <= n + 1
  PROVE  LET u == SubSeq(s, m, n)
         IN  /\ u \in Seq(V) /\ IsInjective(u)
             /\ \A x : x \in ToSet(u) <=> \E i \in m .. n : x = s[i]
<1> DEFINE u == SubSeq(s, m, n)
           l == n - m + 1
<1>1. /\ u \in Seq(V) /\ Len(u) = l /\ l \in Nat
      /\ \A i \in 1 .. l : u[i] = s[i + m - 1]
  BY SubSeqAt
<1>2. /\ \A i \in 1 .. l : i + m - 1 \in m .. n /\ i + m - 1 \in 1 .. Len(s)
      /\ \A i \in m .. n : i - m + 1 \in 1 .. l /\ (i - m + 1) + m - 1 = i
  OBVIOUS
<1> HIDE DEF u, l
<1>3. /\ \A x : x \in ToSet(u) <=> \E i \in 1 .. Len(u) : x = u[i]
      /\ IsInjective(u) <=> \A i, j \in 1 .. Len(u) : u[i] = u[j] => i = j
  BY <1>1, SetOfSeq
<1>4. \A i, j \in 1 .. Len(s) : s[i] = s[j] => i = j
  BY SetOfSeq
<1>5. ASSUME NEW i \in m .. n PROVE \E k \in 1 .. l : s[i] = u[k]
  <2> DEFINE k == i - m + 1
  <2>1. k \in 1 .. l /\ k + m - 1 = i
    BY <1>2
  <2> HIDE DEF k
  <2>2. u[k] = s[i]
    BY <1>1, <2>1
  <2> QED
    BY <2>1, <2>2
<1>6. ASSUME NEW k \in 1 .. l PROVE \E i \in m .. n : s[i] = u[k]
  <2> DEFINE i == k + m - 1
  <2>1. i \in m .. n /\ u[k] = s[i]
    BY <1>1, <1>2
  <2> HIDE DEF i
  <2> QED
    BY <2>1
<1>7. \A x : x \in ToSet(u) <=> \E i \in m .. n : x = s[i]
  <2>1. ASSUME NEW x, x \in ToSet(u) PROVE \E i \in m .. n : x = s[i]
    <3>1. PICK k \in 1 .. l : x = u[k]
      BY <1>1, <1>3, <2>1
    <3>2. PICK i \in m .. n : s[i] = u[k]
      BY <1>6
    <3> QED
      BY <3>1, <3>2
  <2>2. ASSUME NEW x, NEW i \in m .. n, x = s[i] PROVE x \in ToSet(u)
    <3>1. PICK k \in 1 .. l : s[i] = u[k]
      BY <1>5
    <3> QED
      BY <1>1, <1>3, <2>2, <3>1
  <2> QED
    BY <2>1, <2>2
<1>8. ASSUME NEW i \in 1 .. l, NEW j \in 1 .. l, u[i] = u[j] PROVE i = j
  <2> DEFINE a == i + m - 1
             b == j + m - 1
  <2>1. a \in 1 .. Len(s) /\ b \in 1 .. Len(s) /\ u[i] = s[a] /\ u[j] = s[b]
    BY <1>1, <1>2
  <2>2. a = b => i = j
    BY <1>1
  <2> HIDE DEF a, b
  <2> QED
    BY <1>4, <1>8, <2>1, <2>2
<1> QED
  BY <1>1, <1>3, <1>7, <1>8 DEF u

\* A sequence that is cut in two: each element is on one side.
LEMMA CutOwned ==
  ASSUME NEW V, NEW s \in Seq(V), IsInjective(s), NEW n \in 0 .. Len(s)
  PROVE  LET a == SubSeq(s, 1, n)
             b == SubSeq(s, n + 1, Len(s))
         IN  /\ IsInjective(a) /\ IsInjective(b)
             /\ ToSet(a) \cap ToSet(b) = {} /\ ToSet(s) = ToSet(a) \cup ToSet(b)
<1> DEFINE m == n + 1
           l == Len(s)
           a == SubSeq(s, 1, n)
           b == SubSeq(s, m, l)
<1>1. /\ n \in Nat /\ l \in Nat /\ m \in Nat \ {0} /\ n <= Len(s) /\ l <= Len(s)
      /\ 1 <= n + 1 /\ m <= l + 1 /\ 1 \in Nat \ {0}
  OBVIOUS
<1>2. 1 .. l = (1 .. n) \cup (m .. l) /\ (1 .. n) \cap (m .. l) = {}
  BY <1>1
<1>3. IsInjective(a) /\ \A x : x \in ToSet(a) <=> \E i \in 1 .. n : x = s[i]
  BY <1>1, PartOwned
<1> HIDE DEF m, l
<1>4. IsInjective(b) /\ \A x : x \in ToSet(b) <=> \E i \in m .. l : x = s[i]
  BY <1>1, PartOwned
<1> HIDE DEF a, b
<1>5. /\ \A x : x \in ToSet(s) <=> \E i \in 1 .. l : x = s[i]
      /\ \A i, j \in 1 .. l : s[i] = s[j] => i = j
  BY SetOfSeq DEF l
<1>6. ToSet(s) = ToSet(a) \cup ToSet(b)
  BY <1>2, <1>3, <1>4, <1>5
<1>7. ToSet(a) \cap ToSet(b) = {}
  BY <1>2, <1>3, <1>4, <1>5
<1> QED
  BY <1>3, <1>4, <1>6, <1>7 DEF a, b, m, l

\* One element is taken out and the others keep or change their places: f
\* says where each of them was.
LEMMA TakenOwned ==
  ASSUME NEW V, NEW s \in Seq(V), IsInjective(s), NEW n \in 1 .. Len(s),
         NEW u \in Seq(V), NEW f \in [1 .. Len(u) -> 1 .. Len(s)],
         \A i \in 1 .. Len(u) : u[i] = s[f[i]] /\ f[i] # n,
         \A i, j \in 1 .. Len(u) : f[i] = f[j] => i = j,
         \A k \in 1 .. Len(s) : k # n => \E i \in 1 .. Len(u) : f[i] = k
  PROVE  IsInjective(u) /\ ToSet(u) = ToSet(s) \ {s[n]} /\ s[n] \in ToSet(s)
<1>1. /\ \A x : x \in ToSet(s) <=> \E i \in 1 .. Len(s) : x = s[i]
      /\ \A i, j \in 1 .. Len(s) : s[i] = s[j] => i = j
  BY SetOfSeq
<1>2. /\ \A x : x \in ToSet(u) <=> \E i \in 1 .. Len(u) : x = u[i]
      /\ IsInjective(u) <=> \A i, j \in 1 .. Len(u) : u[i] = u[j] => i = j
  BY SetOfSeq
<1>3. IsInjective(u)
  <2>1. ASSUME NEW i \in 1 .. Len(u), NEW j \in 1 .. Len(u), u[i] = u[j] PROVE i = j
    <3>1. f[i] \in 1 .. Len(s) /\ f[j] \in 1 .. Len(s) /\ s[f[i]] = s[f[j]]
      BY <2>1
    <3>2. f[i] = f[j]
      BY <1>1, <3>1
    <3> QED
      BY <3>2
  <2> QED
    BY <1>2, <2>1
<1>4. ASSUME NEW x \in ToSet(u) PROVE x \in ToSet(s) \ {s[n]}
  <2>1. PICK i \in 1 .. Len(u) : x = u[i]
    BY <1>2
  <2>2. f[i] \in 1 .. Len(s) /\ x = s[f[i]] /\ f[i] # n
    BY <2>1
  <2> QED
    BY <1>1, <2>2
<1>5. ASSUME NEW x \in ToSet(s) \ {s[n]} PROVE x \in ToSet(u)
  <2>1. PICK k \in 1 .. Len(s) : x = s[k]
    BY <1>1
  <2>2. k # n
    BY <2>1
  <2>3. PICK i \in 1 .. Len(u) : f[i] = k
    BY <2>2
  <2> QED
    BY <1>2, <2>1, <2>3
<1> QED
  BY <1>1, <1>3, <1>4, <1>5

\* RemoveAt, what remove leaves.
LEMMA RemoveAtOwned ==
  ASSUME NEW V, NEW s \in Seq(V), IsInjective(s), NEW n \in 1 .. Len(s)
  PROVE  LET u == RemoveAt(s, n)
         IN  IsInjective(u) /\ ToSet(u) = ToSet(s) \ {s[n]} /\ s[n] \in ToSet(s)
<1> DEFINE u == RemoveAt(s, n)
           f == [i \in 1 .. Len(u) |-> IF i < n THEN i ELSE i + 1]
<1>1. /\ u \in Seq(V) /\ Len(u) = Len(s) - 1
      /\ \A i \in 1 .. Len(s) - 1 : u[i] = IF i < n THEN s[i] ELSE s[i + 1]
  BY RemoveAtAt
<1> HIDE DEF u
<1>2. /\ f \in [1 .. Len(u) -> 1 .. Len(s)]
      /\ \A i \in 1 .. Len(u) : f[i] = IF i < n THEN i ELSE i + 1
  BY <1>1
<1> HIDE DEF f
<1>3. \A i \in 1 .. Len(u) : u[i] = s[f[i]] /\ f[i] # n
  BY <1>1, <1>2
<1>4. \A i, j \in 1 .. Len(u) : f[i] = f[j] => i = j
  BY <1>2
<1>5. ASSUME NEW k \in 1 .. Len(s), k # n PROVE \E i \in 1 .. Len(u) : f[i] = k
  <2>1. CASE k < n
    <3>1. k \in 1 .. Len(u) /\ f[k] = k
      BY <1>1, <1>2, <2>1
    <3> QED
      BY <3>1
  <2>2. CASE k > n
    <3> DEFINE i == k - 1
    <3>1. i \in 1 .. Len(u) /\ ~(i < n) /\ i + 1 = k
      BY <1>1, <2>2
    <3> HIDE DEF i
    <3>2. f[i] = k
      BY <1>2, <3>1
    <3> QED
      BY <3>1, <3>2
  <2> QED
    BY <1>5, <2>1, <2>2
<1>6. IsInjective(u) /\ ToSet(u) = ToSet(s) \ {s[n]} /\ s[n] \in ToSet(s)
  <2>1. u \in Seq(V) /\ f \in [1 .. Len(u) -> 1 .. Len(s)]
    BY <1>1, <1>2
  <2>2. \A k \in 1 .. Len(s) : k # n => \E i \in 1 .. Len(u) : f[i] = k
    BY <1>5
  <2> QED
    BY <1>3, <1>4, <2>1, <2>2, TakenOwned, SMTT(30)
<1> QED
  BY <1>6 DEF u

\* What swap_remove_back leaves: the last element in the place of the n-th.
LEMMA SwapBackOwned ==
  ASSUME NEW V, NEW s \in Seq(V), IsInjective(s), NEW n \in 1 .. Len(s)
  PROVE  LET u == Front([s EXCEPT ![n] = Last(s)])
         IN  IsInjective(u) /\ ToSet(u) = ToSet(s) \ {s[n]} /\ s[n] \in ToSet(s)
<1> DEFINE w == [s EXCEPT ![n] = Last(s)]
           u == Front(w)
           l == Len(s) - 1
           f == [i \in 1 .. Len(u) |-> IF i = n THEN Len(s) ELSE i]
<1>1. /\ w \in Seq(V) /\ Len(w) = Len(s) /\ l \in Nat
      /\ \A i \in 1 .. Len(s) : w[i] = IF i = n THEN s[Len(s)] ELSE s[i]
  BY DEF Last
<1> HIDE DEF w
<1>2. l <= Len(w) /\ 1 <= l + 1 /\ 1 \in Nat \ {0} /\ l - 1 + 1 = l /\ l < Len(s)
  BY <1>1
<1>3. u = SubSeq(w, 1, l)
  BY <1>1 DEF Front
<1> HIDE DEF l, u
<1>4. u \in Seq(V) /\ Len(u) = l /\ \A i \in 1 .. l - 1 + 1 : u[i] = w[i + 1 - 1]
  BY <1>1, <1>2, <1>3, SubSeqAt
<1>5. \A i \in 1 .. l : i \in 1 .. Len(s) /\ i # Len(s) /\ u[i] = w[i]
  <2> SUFFICES ASSUME NEW i \in 1 .. l PROVE i \in 1 .. Len(s) /\ i # Len(s) /\ u[i] = w[i]
    OBVIOUS
  <2>1. i + 1 - 1 = i /\ i \in 1 .. l - 1 + 1 /\ i \in 1 .. Len(s) /\ i # Len(s)
    BY <1>1, <1>2
  <2> QED
    BY <1>4, <2>1
<1>6. /\ f \in [1 .. Len(u) -> 1 .. Len(s)]
      /\ \A i \in 1 .. Len(u) : f[i] = IF i = n THEN Len(s) ELSE i
  BY <1>4, <1>5
<1> HIDE DEF f
<1>7. \A i \in 1 .. Len(u) : u[i] = s[f[i]] /\ f[i] # n
  BY <1>1, <1>4, <1>5, <1>6
<1>8. \A i, j \in 1 .. Len(u) : f[i] = f[j] => i = j
  BY <1>4, <1>5, <1>6
<1>9. ASSUME NEW k \in 1 .. Len(s), k # n PROVE \E i \in 1 .. Len(u) : f[i] = k
  <2>1. CASE k = Len(s)
    <3>1. n \in 1 .. Len(u)
      BY <1>4, <1>9, <2>1 DEF l
    <3> QED
      BY <1>6, <2>1, <3>1
  <2>2. CASE k # Len(s)
    <3>1. k \in 1 .. Len(u)
      BY <1>4, <2>2 DEF l
    <3> QED
      BY <1>6, <1>9, <3>1
  <2> QED
    BY <2>1, <2>2
<1>10. IsInjective(u) /\ ToSet(u) = ToSet(s) \ {s[n]} /\ s[n] \in ToSet(s)
  BY <1>4, <1>6, <1>7, <1>8, <1>9, TakenOwned, SMTT(30)
<1> QED
  BY <1>10 DEF u, w

\* What swap_remove_front leaves: the first element in the place of the n-th.
LEMMA SwapFrontOwned ==
  ASSUME NEW V, NEW s \in Seq(V), IsInjective(s), NEW n \in 1 .. Len(s)
  PROVE  LET u == Tail([s EXCEPT ![n] = Head(s)])
         IN  IsInjective(u) /\ ToSet(u) = ToSet(s) \ {s[n]} /\ s[n] \in ToSet(s)
<1> DEFINE w == [s EXCEPT ![n] = Head(s)]
           u == Tail(w)
           f == [i \in 1 .. Len(u) |-> IF i + 1 = n THEN 1 ELSE i + 1]
<1>1. /\ w \in Seq(V) /\ Len(w) = Len(s) /\ Len(s) > 0
      /\ \A i \in 1 .. Len(s) : w[i] = IF i = n THEN s[1] ELSE s[i]
  OBVIOUS
<1> HIDE DEF w
<1>2. w # <<>>
  BY <1>1
<1>3. u \in Seq(V) /\ Len(u) = Len(s) - 1 /\ \A i \in 1 .. Len(u) : u[i] = w[i + 1]
  BY <1>1, <1>2
<1> HIDE DEF u
<1>4. /\ f \in [1 .. Len(u) -> 1 .. Len(s)]
      /\ \A i \in 1 .. Len(u) : f[i] = IF i + 1 = n THEN 1 ELSE i + 1
  BY <1>1, <1>3
<1> HIDE DEF f
<1>5. ASSUME NEW i \in 1 .. Len(u) PROVE u[i] = s[f[i]] /\ f[i] # n
  <2> DEFINE k == i + 1
  <2>1. k \in 1 .. Len(s) /\ k # 1 /\ u[i] = w[k] /\ f[i] = IF k = n THEN 1 ELSE k
    BY <1>1, <1>3, <1>4
  <2> HIDE DEF k
  <2> QED
    BY <1>1, <2>1
<1>6. \A i, j \in 1 .. Len(u) : f[i] = f[j] => i = j
  BY <1>4
<1>7. ASSUME NEW k \in 1 .. Len(s), k # n PROVE \E i \in 1 .. Len(u) : f[i] = k
  <2>1. CASE k = 1
    <3> DEFINE i == n - 1
    <3>1. i \in 1 .. Len(u) /\ i + 1 = n
      BY <1>3, <1>7, <2>1
    <3> HIDE DEF i
    <3> QED
      BY <1>4, <2>1, <3>1
  <2>2. CASE k # 1
    <3> DEFINE i == k - 1
    <3>1. i \in 1 .. Len(u) /\ i + 1 = k
      BY <1>3, <2>2
    <3> HIDE DEF i
    <3> QED
      BY <1>4, <1>7, <3>1
  <2> QED
    BY <2>1, <2>2
<1>8. IsInjective(u) /\ ToSet(u) = ToSet(s) \ {s[n]} /\ s[n] \in ToSet(s)
  <2>1. u \in Seq(V) /\ f \in [1 .. Len(u) -> 1 .. Len(s)]
    BY <1>3, <1>4
  <2>2. \A i \in 1 .. Len(u) : u[i] = s[f[i]] /\ f[i] # n
    BY <1>5
  <2>3. \A k \in 1 .. Len(s) : k # n => \E i \in 1 .. Len(u) : f[i] = k
    BY <1>7
  <2> QED
    BY <1>6, <2>1, <2>2, <2>3, TakenOwned, SMTT(30)
<1> QED
  BY <1>8 DEF u, w

\* InsertAt, what insert leaves.
LEMMA InsertAtOwned ==
  ASSUME NEW V, NEW s \in Seq(V), IsInjective(s), NEW n \in 0 .. Len(s), NEW e \in V,
         e \notin ToSet(s)
  PROVE  LET u == InsertAt(s, n + 1, e)
         IN  IsInjective(u) /\ ToSet(u) = ToSet(s) \cup {e}
<1> DEFINE a == SubSeq(s, 1, n)
           b == SubSeq(s, n + 1, Len(s))
           o == <<e>>
           c == a \o o
<1>1. a \in Seq(V) /\ b \in Seq(V)
  OBVIOUS
<1>2. /\ IsInjective(a) /\ IsInjective(b)
      /\ ToSet(a) \cap ToSet(b) = {} /\ ToSet(s) = ToSet(a) \cup ToSet(b)
  BY CutOwned
<1>3. o \in Seq(V) /\ ToSet(o) = {e} /\ IsInjective(o)
  BY SetOfOne
<1>4. InsertAt(s, n + 1, e) = c \o b
  <2>1. (n + 1) - 1 = n
    OBVIOUS
  <2> QED
    BY <2>1 DEF InsertAt
<1> HIDE DEF a, b, o
<1>5. IsInjective(c) /\ ToSet(c) = ToSet(a) \cup {e} /\ c \in Seq(V)
  BY <1>1, <1>2, <1>3, ConcatOwned
<1> HIDE DEF c
<1>6. IsInjective(c \o b) /\ ToSet(c \o b) = ToSet(c) \cup ToSet(b)
  BY <1>1, <1>2, <1>5, ConcatOwned
<1> QED
  BY <1>2, <1>4, <1>5, <1>6

-----------------------------------------------------------------------------
(* Ownership, and how a step keeps it.                                     *)

\* The live values are the elements of the deques and those of K, which others
\* own, each in one place.
Owned(K) ==
  /\ live = K \cup UNION {ToSet(Elems[d]) : d \in DEQS}
  /\ \A d \in DEQS : IsInjective(Elems[d]) /\ ToSet(Elems[d]) \cap K = {}
  /\ \A c, d \in DEQS : c # d => ToSet(Elems[c]) \cap ToSet(Elems[d]) = {}

\* A call that leaves the deques as they were.
LEMMA StaysOwned ==
  ASSUME NEW K, Owned(K), ~ub, NEW op, NEW arg, NEW v, Stays(op, arg, v)
  PROVE  Owned(K)' /\ ~ub'
<1>1. dq' = dq /\ live' = live /\ ub' = ub
  BY DEF Stays
<1>2. Elems' = Elems
  BY <1>1 DEF Elems
<1> QED
  BY <1>1, <1>2 DEF Owned

\* A step that changes one deque and what is owned beside the deques: what was
\* there or is created, and is not dropped, is afterwards in either of them.
LEMMA MovesOwned ==
  ASSUME NEW K, NEW L, Owned(K), ~ub, NEEDS_DROP, NEW d \in DEQS, NEW t,
         Elems' = [Elems EXCEPT ![d] = t],
         NEW created, NEW dropped, Own(created, dropped), created \cap live = {},
         IsInjective(t), IsInjective(dropped), ToSet(t) \cap L = {},
         ToSet(dropped) \subseteq ToSet(Elems[d]) \cup K \cup created,
         ToSet(t) \cup L = (ToSet(Elems[d]) \cup K \cup created) \ ToSet(dropped)
  PROVE  Owned(L)' /\ ~ub'
<1> DEFINE E == Elems
           F == Elems'
<1>1. F[d] = t /\ \A o \in DEQS \ {d} : F[o] = E[o]
  BY DEF Elems
<1>2. live' = (live \cup created) \ ToSet(dropped)
  BY DEF Own
<1>3. ub' = (ub \/ ~IsInjective(dropped) \/ ~(ToSet(dropped) \subseteq live \cup created))
  BY DEF Own
<1>4. \A x : x \in live <=> x \in K \/ \E o \in DEQS : x \in ToSet(E[o])
  BY DEF Owned
<1>5. /\ \A o \in DEQS : IsInjective(E[o]) /\ ToSet(E[o]) \cap K = {}
      /\ \A b, c \in DEQS : b # c => ToSet(E[b]) \cap ToSet(E[c]) = {}
  BY DEF Owned
<1> HIDE DEF E, F
<1>6. ToSet(E[d]) \subseteq live /\ K \subseteq live
  BY <1>4
<1>7. ToSet(t) \cup L = (ToSet(E[d]) \cup K \cup created) \ ToSet(dropped)
      /\ ToSet(dropped) \subseteq ToSet(E[d]) \cup K \cup created
  BY DEF E
<1>8. ~ub'
  BY <1>3, <1>6, <1>7
<1>9. ASSUME NEW o \in DEQS, o # d
      PROVE  /\ ToSet(E[o]) \cap ToSet(t) = {} /\ ToSet(E[o]) \cap ToSet(dropped) = {}
             /\ ToSet(E[o]) \cap L = {}
  <2>1. ToSet(E[o]) \subseteq live /\ ToSet(E[o]) \cap ToSet(E[d]) = {} /\ ToSet(E[o]) \cap K = {}
    BY <1>4, <1>5, <1>9
  <2>2. ToSet(E[o]) \cap (ToSet(E[d]) \cup K \cup created) = {}
    BY <2>1
  <2> QED
    BY <1>7, <2>2
<1>10. live' = L \cup UNION {ToSet(F[o]) : o \in DEQS}
  <2>1. ASSUME NEW x \in live' PROVE x \in L \/ \E o \in DEQS : x \in ToSet(F[o])
    <3>1. CASE x \in ToSet(t) \cup L
      BY <1>1, <3>1
    <3>2. CASE x \notin ToSet(t) \cup L
      <4>1. x \in live /\ x \notin ToSet(E[d]) /\ x \notin K
        BY <1>2, <1>7, <3>2
      <4>2. PICK o \in DEQS : x \in ToSet(E[o])
        BY <1>4, <4>1
      <4> QED
        BY <1>1, <4>1, <4>2
    <3> QED
      BY <3>1, <3>2
  <2>2. ASSUME NEW x \in ToSet(t) \cup L PROVE x \in live'
    BY <1>2, <1>6, <1>7
  <2>3. ASSUME NEW o \in DEQS, NEW x \in ToSet(F[o]) PROVE x \in live'
    <3>1. CASE o = d
      BY <1>1, <2>2, <3>1
    <3>2. CASE o # d
      BY <1>1, <1>2, <1>4, <1>9, <3>2
    <3> QED
      BY <3>1, <3>2
  <2> QED
    BY <2>1, <2>2, <2>3
<1>11. \A o \in DEQS : IsInjective(F[o]) /\ ToSet(F[o]) \cap L = {}
  BY <1>1, <1>5, <1>9
<1>12. \A b, c \in DEQS : b # c => ToSet(F[b]) \cap ToSet(F[c]) = {}
  BY <1>1, <1>5, <1>9
<1> QED
  BY <1>8, <1>10, <1>11, <1>12 DEF Owned, F

\* A call that changes one deque: what is created and not dropped is what the
\* deque gains, what is dropped is what it loses.
LEMMA OneOwned ==
  ASSUME NEW K, Owned(K), ~ub, NEEDS_DROP, NEW d \in DEQS, NEW t,
         Elems' = [Elems EXCEPT ![d] = t],
         NEW created, NEW dropped, Own(created, dropped), created \cap live = {},
         IsInjective(t), IsInjective(dropped),
         ToSet(dropped) \subseteq ToSet(Elems[d]) \cup created,
         ToSet(t) = (ToSet(Elems[d]) \cup created) \ ToSet(dropped)
  PROVE  Owned(K)' /\ ~ub'
<1>1. K \subseteq live /\ ToSet(Elems[d]) \cap K = {}
  BY DEF Owned
<1>2. /\ ToSet(t) \cap K = {}
      /\ ToSet(dropped) \subseteq ToSet(Elems[d]) \cup K \cup created
      /\ ToSet(t) \cup K = (ToSet(Elems[d]) \cup K \cup created) \ ToSet(dropped)
  BY <1>1
<1>3. PICK L : L = K
  OBVIOUS
<1>4. /\ ToSet(t) \cap L = {}
      /\ ToSet(t) \cup L = (ToSet(Elems[d]) \cup K \cup created) \ ToSet(dropped)
  BY <1>2, <1>3
<1>5. /\ Owned(K) /\ ~ub /\ NEEDS_DROP
      /\ Elems' = [Elems EXCEPT ![d] = t] /\ Own(created, dropped) /\ created \cap live = {}
      /\ IsInjective(t) /\ IsInjective(dropped) /\ ToSet(t) \cap L = {}
      /\ ToSet(dropped) \subseteq ToSet(Elems[d]) \cup K \cup created
      /\ ToSet(t) \cup L = (ToSet(Elems[d]) \cup K \cup created) \ ToSet(dropped)
  BY <1>2, <1>4
<1>6. Owned(L)' /\ ~ub'
  BY ONLY <1>5, d \in DEQS, MovesOwned, ZenonT(200)
<1> QED
  BY <1>3, <1>6

\* A call that moves elements between two deques, and drops some.
LEMMA TwoOwned ==
  ASSUME NEW K, Owned(K), ~ub, NEEDS_DROP, NEW d \in DEQS, NEW o \in DEQS, d # o, NEW t, NEW u,
         Elems' = [Elems EXCEPT ![d] = t, ![o] = u],
         NEW dropped, Own({}, dropped), IsInjective(t), IsInjective(u), IsInjective(dropped),
         ToSet(t) \cap ToSet(u) = {},
         ToSet(dropped) \subseteq ToSet(Elems[d]) \cup ToSet(Elems[o]),
         ToSet(t) \cup ToSet(u) = (ToSet(Elems[d]) \cup ToSet(Elems[o])) \ ToSet(dropped)
  PROVE  Owned(K)' /\ ~ub'
<1> DEFINE E == Elems
           F == Elems'
<1>1. F[d] = t /\ F[o] = u /\ \A c \in DEQS \ {d, o} : F[c] = E[c]
  BY DEF Elems
<1>2. live' = live \ ToSet(dropped)
  BY DEF Own
<1>3. ub' = (ub \/ ~IsInjective(dropped) \/ ~(ToSet(dropped) \subseteq live))
  BY DEF Own
<1>4. \A x : x \in live <=> x \in K \/ \E c \in DEQS : x \in ToSet(E[c])
  BY DEF Owned
<1>5. /\ \A c \in DEQS : IsInjective(E[c]) /\ ToSet(E[c]) \cap K = {}
      /\ \A b, c \in DEQS : b # c => ToSet(E[b]) \cap ToSet(E[c]) = {}
  BY DEF Owned
<1>6. /\ ToSet(dropped) \subseteq ToSet(E[d]) \cup ToSet(E[o])
      /\ ToSet(t) \cup ToSet(u) = (ToSet(E[d]) \cup ToSet(E[o])) \ ToSet(dropped)
  OBVIOUS
<1> HIDE DEF E, F
<1>7. ToSet(E[d]) \subseteq live /\ ToSet(E[o]) \subseteq live
  BY <1>4
<1>8. ~ub'
  BY <1>3, <1>6, <1>7
<1>9. ASSUME NEW c \in DEQS \ {d, o}
      PROVE  /\ ToSet(E[c]) \cap ToSet(t) = {} /\ ToSet(E[c]) \cap ToSet(u) = {}
             /\ ToSet(E[c]) \cap ToSet(dropped) = {}
  <2>1. ToSet(E[c]) \cap ToSet(E[d]) = {} /\ ToSet(E[c]) \cap ToSet(E[o]) = {}
    BY <1>5
  <2> QED
    BY <1>6, <2>1
<1>10. live' = K \cup UNION {ToSet(F[c]) : c \in DEQS}
  <2>1. ASSUME NEW x \in live' PROVE x \in K \/ \E c \in DEQS : x \in ToSet(F[c])
    <3>1. CASE x \in ToSet(t) \cup ToSet(u)
      BY <1>1, <3>1
    <3>2. CASE x \notin ToSet(t) \cup ToSet(u)
      <4>1. x \in live /\ x \notin ToSet(E[d]) \cup ToSet(E[o])
        BY <1>2, <1>6, <3>2
      <4> SUFFICES ASSUME x \notin K PROVE \E c \in DEQS : x \in ToSet(F[c])
        OBVIOUS
      <4>2. PICK c \in DEQS : x \in ToSet(E[c])
        BY <1>4, <4>1
      <4>3. c \in DEQS \ {d, o}
        BY <4>1, <4>2
      <4> QED
        BY <1>1, <4>2, <4>3
    <3> QED
      BY <3>1, <3>2
  <2>2. ASSUME NEW c \in DEQS, NEW x \in ToSet(F[c]) PROVE x \in live'
    <3>1. CASE c \in {d, o}
      <4>1. x \in ToSet(t) \cup ToSet(u)
        BY <1>1, <3>1
      <4> QED
        BY <1>2, <1>6, <1>7, <4>1
    <3>2. CASE c \in DEQS \ {d, o}
      BY <1>1, <1>2, <1>4, <1>9, <3>2
    <3> QED
      BY <3>1, <3>2
  <2>3. ASSUME NEW x \in K PROVE x \in live'
    BY <1>2, <1>4, <1>5, <1>6
  <2> QED
    BY <2>1, <2>2, <2>3
<1>11. \A c \in DEQS : IsInjective(F[c]) /\ ToSet(F[c]) \cap K = {}
  <2>1. (ToSet(t) \cup ToSet(u)) \cap K = {}
    BY <1>5, <1>6
  <2> QED
    BY <1>1, <1>5, <2>1
<1>12. \A b, c \in DEQS : b # c => ToSet(F[b]) \cap ToSet(F[c]) = {}
  <2> SUFFICES ASSUME NEW b \in DEQS, NEW c \in DEQS, b # c
               PROVE  ToSet(F[b]) \cap ToSet(F[c]) = {}
    OBVIOUS
  <2>1. CASE b \in {d, o} /\ c \in {d, o}
    BY <1>1, <2>1
  <2>2. CASE b \in {d, o} /\ c \in DEQS \ {d, o}
    BY <1>1, <1>9, <2>2
  <2>3. CASE b \in DEQS \ {d, o} /\ c \in {d, o}
    BY <1>1, <1>9, <2>3
  <2>4. CASE b \in DEQS \ {d, o} /\ c \in DEQS \ {d, o}
    BY <1>1, <1>5, <2>4
  <2> QED
    BY <2>1, <2>2, <2>3, <2>4
<1> QED
  BY <1>8, <1>10, <1>11, <1>12 DEF Owned, F

\* What the caller constructs for a call is new.
LEMMA UnbornAreNew ==
  /\ \A e \in Unborn : e \in Elem /\ e \notin live
  /\ \A s \in UnbornSeqs : /\ s \in Seq(Elem) /\ s \in Seq(Slot) /\ IsInjective(s)
                           /\ ToSet(s) \cap live = {}
<1>1. \A e \in Unborn : e \in Elem /\ e \notin live
  BY DEF Unborn
<1>2. ASSUME NEW s \in UnbornSeqs
      PROVE  /\ s \in Seq(Elem) /\ s \in Seq(Slot) /\ IsInjective(s) /\ ToSet(s) \cap live = {}
  <2>1. IsInjective(s) /\ s \in SeqOf(Unborn, MaxItems)
    BY DEF UnbornSeqs
  <2>2. PICK m \in 0 .. MaxItems : s \in [1 .. m -> Unborn]
    BY <2>1 DEF SeqOf
  <2>3. s \in Seq(Elem)
    BY UnbornElems
  <2>4. Elem \subseteq Slot
    BY DEF Slot
  <2>5. s \in Seq(Slot)
    BY <2>3, <2>4
  <2>6. \A i \in DOMAIN s : s[i] \in Unborn
    BY <2>2
  <2>7. ToSet(s) \cap live = {}
    BY <1>1, <2>6 DEF ToSet
  <2> QED
    BY <2>1, <2>3, <2>5, <2>7
<1> QED
  BY <1>1, <1>2

-----------------------------------------------------------------------------
(* The calls.                                                              *)

\* The elements of one deque.
LEMMA ElemsOwned ==
  ASSUME NEW K, Inv, Owned(K), NEW d \in DEQS
  PROVE  /\ Elems[d] \in Seq(Slot) /\ Contents(dq[d]) = Elems[d] /\ Len(Elems[d]) = dq[d].len
         /\ dq[d].len \in Nat
         /\ IsInjective(Elems[d]) /\ ToSet(Elems[d]) \subseteq live
<1>1. IsInjective(Elems[d]) /\ ToSet(Elems[d]) \subseteq live
  BY DEF Owned
<1> QED
  BY <1>1, View

\* No destructor runs.
LEMMA NoDrop == IsInjective(<<>>) /\ ToSet(<<>>) = {}
  BY DEF IsInjective, ToSet

\* Values written behind the slice.
LEMMA GainOwned ==
  ASSUME NEW K, Inv, Owned(K), ~ub, NEEDS_DROP, NEW d \in DEQS, NEW s \in Seq(Slot), IsInjective(s),
         ToSet(s) \cap live = {}, Elems' = [Elems EXCEPT ![d] = Elems[d] \o s],
         Own(ToSet(s), <<>>)
  PROVE  Owned(K)' /\ ~ub'
<1> DEFINE E == Elems[d]
           t == E \o s
<1>1. E \in Seq(Slot) /\ IsInjective(E) /\ ToSet(E) \subseteq live
  BY ElemsOwned
<1>2. ToSet(E) \cap ToSet(s) = {}
  BY <1>1
<1>3. Elems' = [Elems EXCEPT ![d] = t]
  OBVIOUS
<1> HIDE DEF E
<1>4. IsInjective(t) /\ ToSet(t) = ToSet(E) \cup ToSet(s)
  BY <1>1, <1>2, ConcatOwned
<1> HIDE DEF t
<1>5. /\ ToSet(<<>>) \subseteq ToSet(Elems[d]) \cup ToSet(s)
      /\ ToSet(t) = (ToSet(Elems[d]) \cup ToSet(s)) \ ToSet(<<>>)
  BY <1>4, NoDrop DEF E
<1> QED
  BY <1>3, <1>4, <1>5, NoDrop, OneOwned

\* One value is moved out, and dropped by the caller.
LEMMA LossOwned ==
  ASSUME NEW K, Inv, Owned(K), ~ub, NEEDS_DROP, NEW d \in DEQS, NEW t, NEW n \in 1 .. Len(Elems[d]),
         IsInjective(t), ToSet(t) = ToSet(Elems[d]) \ {Elems[d][n]},
         Elems' = [Elems EXCEPT ![d] = t], NEW v, v = Elems[d][n], Own({}, <<v>>)
  PROVE  Owned(K)' /\ ~ub'
<1> DEFINE s == <<v>>
<1>1. Elems[d] \in Seq(Slot)
  BY ElemsOwned
<1>2. v \in Slot /\ v \in ToSet(Elems[d])
  BY <1>1, SetOfSeq
<1>3. ToSet(s) = {v} /\ IsInjective(s)
  BY <1>2, SetOfOne
<1> HIDE DEF s
<1>4. /\ {} \cap live = {} /\ ToSet(s) \subseteq ToSet(Elems[d]) \cup {}
      /\ ToSet(t) = (ToSet(Elems[d]) \cup {}) \ ToSet(s)
  BY <1>2, <1>3
<1> QED
  BY <1>3, <1>4, OneOwned DEF s

\* with_capacity drops the deque it replaces; reserving drops nothing.
LEMMA CapacityOwned ==
  ASSUME NEW K, Inv, Owned(K), ~ub, NEEDS_DROP, NEW d \in DEQS, NEW n \in Nat, NEW oom,
         assign(d, n, oom) \/ reserve(d, n, oom) \/ reserve_exact(d, n, oom)
  PROVE  Owned(K)' /\ ~ub'
<1>1. Abstract!Next
  BY CapacityRefines
<1>2. CASE /\ Own({}, Contents(dq[d])) /\ Returns("with_capacity", <<d, n>>, "ok")
  <2>1. ret'.op = "with_capacity" /\ ret'.arg = <<d, n>> /\ ret'.val = "ok"
    BY <1>2 DEF Returns
  <2>2. Abstract!with_capacity(d, n)
    BY <1>1, <2>1 DEF Abstract!Next
  <2> DEFINE t == <<>>
  <2>3. Elems' = [Elems EXCEPT ![d] = t]
    BY <2>1, <2>2 DEF Abstract!with_capacity, Abstract!Stays, Abstract!Returns,
       Abstract!Holds, Elems
  <2>4. IsInjective(t) /\ ToSet(t) = {}
    BY NoDrop
  <2> HIDE DEF t
  <2>5. /\ {} \cap live = {} /\ ToSet(Elems[d]) \subseteq ToSet(Elems[d]) \cup {}
        /\ ToSet(t) = (ToSet(Elems[d]) \cup {}) \ ToSet(Elems[d])
    BY <2>4
  <2> QED
    BY <1>2, <2>3, <2>4, <2>5, ElemsOwned, OneOwned
<1>3. CASE /\ Own({}, <<>>) /\ Returns("reserve", <<d, n>>, "ok")
  <2>1. ret'.op = "reserve" /\ ret'.arg = <<d, n>> /\ ret'.val = "ok"
    BY <1>3 DEF Returns
  <2>2. Abstract!reserve(d, n)
    BY <1>1, <2>1 DEF Abstract!Next
  <2>3. Elems' = Elems
    BY <2>1, <2>2 DEF Abstract!reserve, Abstract!OutOfMemory, Abstract!Stays, Abstract!Returns,
       Abstract!Grows, Abstract!Holds, Elems
  <2>4. live' = live /\ ~ub'
    BY <1>3, NoDrop DEF Own
  <2> QED
    BY <2>3, <2>4 DEF Owned
<1>4. CASE /\ Own({}, <<>>) /\ Returns("reserve_exact", <<d, n>>, "ok")
  <2>1. ret'.op = "reserve_exact" /\ ret'.arg = <<d, n>> /\ ret'.val = "ok"
    BY <1>4 DEF Returns
  <2>2. Abstract!reserve_exact(d, n)
    BY <1>1, <2>1 DEF Abstract!Next
  <2>3. Elems' = Elems
    BY <2>1, <2>2 DEF Abstract!reserve_exact, Abstract!OutOfMemory, Abstract!Stays,
       Abstract!Returns, Elems
  <2>4. live' = live /\ ~ub'
    BY <1>4, NoDrop DEF Own
  <2> QED
    BY <2>3, <2>4 DEF Owned
<1> QED
  BY <1>2, <1>3, <1>4, StaysOwned DEF assign, reserve, reserve_exact

\* push_front and push_back take ownership of the value.
LEMMA PushOwned ==
  ASSUME NEW K, Inv, Owned(K), ~ub, NEEDS_DROP, NEW d \in DEQS, NEW e \in Unborn, NEW oom,
         push_front(d, e, oom) \/ push_back(d, e, oom)
  PROVE  Owned(K)' /\ ~ub'
<1> DEFINE E == Elems[d]
           s == <<e>>
<1>1. e \in Elem /\ e \notin live /\ e \in Slot
  BY UnbornAreNew DEF Slot
<1>2. Abstract!Next
  BY <1>1, PushRefines
<1>3. E \in Seq(Slot) /\ IsInjective(E) /\ ToSet(E) \subseteq live
  BY ElemsOwned
<1>4. s \in Seq(Slot) /\ ToSet(s) = {e} /\ IsInjective(s) /\ ToSet(s) \cap live = {}
  BY <1>1, SetOfOne
<1>5. CASE Own({e}, <<>>) /\ Returns("push_front", <<d, e>>, "ok")
  <2>1. ret'.op = "push_front" /\ ret'.arg = <<d, e>> /\ ret'.val = "ok"
    BY <1>5 DEF Returns
  <2>2. Abstract!push_front(d, e)
    BY <1>2, <2>1 DEF Abstract!Next
  <2> DEFINE t == s \o E
  <2>3. Elems' = [Elems EXCEPT ![d] = t]
    BY <2>1, <2>2 DEF Abstract!push_front, Abstract!OutOfMemory, Abstract!Stays,
       Abstract!Returns, Abstract!Grows, Abstract!Holds, Elems
  <2> HIDE DEF s, E
  <2>4. IsInjective(t) /\ ToSet(t) = ToSet(s) \cup ToSet(E)
    <3>1. ToSet(s) \cap ToSet(E) = {}
      BY <1>3, <1>4
    <3> QED
      BY <1>3, <1>4, <3>1, ConcatOwned
  <2> HIDE DEF t
  <2>5. /\ {e} \cap live = {} /\ ToSet(<<>>) \subseteq ToSet(Elems[d]) \cup {e}
        /\ ToSet(t) = (ToSet(Elems[d]) \cup {e}) \ ToSet(<<>>)
    BY <1>1, <1>4, <2>4, NoDrop DEF E
  <2> QED
    BY <1>5, <2>3, <2>4, <2>5, NoDrop, OneOwned
<1>6. CASE Own({e}, <<>>) /\ Returns("push_back", <<d, e>>, "ok")
  <2>1. ret'.op = "push_back" /\ ret'.arg = <<d, e>> /\ ret'.val = "ok"
    BY <1>6 DEF Returns
  <2>2. Abstract!push_back(d, e)
    BY <1>2, <2>1 DEF Abstract!Next
  <2>3. Elems' = [Elems EXCEPT ![d] = Append(Elems[d], e)]
    BY <2>1, <2>2 DEF Abstract!push_back, Abstract!OutOfMemory, Abstract!Stays,
       Abstract!Returns, Abstract!Grows, Abstract!Holds, Elems
  <2>4. Elems[d] \o <<e>> = Append(Elems[d], e)
    BY <1>1, <1>3, AppendIsConcat
  <2>5. Elems' = [Elems EXCEPT ![d] = Elems[d] \o s]
    BY <2>3, <2>4
  <2> HIDE DEF s
  <2> QED
    BY <1>4, <1>6, <2>5, GainOwned
<1> QED
  BY <1>5, <1>6, StaysOwned DEF push_front, push_back

\* pop_front and pop_back move the value out.
LEMMA PopOwned ==
  ASSUME NEW K, Inv, Owned(K), ~ub, NEEDS_DROP, NEW d \in DEQS, pop_front(d) \/ pop_back(d)
  PROVE  Owned(K)' /\ ~ub'
<1> DEFINE E == Elems[d]
           q == dq[d]
<1>1. Abstract!Next
  BY PopRefines
<1>2. /\ E \in Seq(Slot) /\ IsInjective(E) /\ Len(E) = q.len /\ q.len \in Nat
  BY ElemsOwned
<1>3. ASSUME NEW v, q.len > 0, Own({}, <<v>>), Returns("pop_front", <<d>>, v)
      PROVE  Owned(K)' /\ ~ub'
  <2>1. ret'.op = "pop_front" /\ ret'.arg = <<d>> /\ ret'.val = v
    BY <1>3 DEF Returns
  <2>2. Abstract!pop_front(d)
    BY <1>1, <2>1 DEF Abstract!Next
  <2>3. Elems[d] # <<>>
    BY <1>2, <1>3
  <2>4. Elems' = [Elems EXCEPT ![d] = Tail(E)] /\ v = Head(E)
    BY <2>1, <2>2, <2>3 DEF Abstract!pop_front, Abstract!Shrinks, Abstract!Returns,
       Abstract!Holds, Elems
  <2> DEFINE n == 1
  <2>5. n \in 1 .. Len(E) /\ [E EXCEPT ![n] = Head(E)] = E /\ v = E[n]
    BY <1>2, <1>3, <2>4
  <2> HIDE DEF n, E
  <2>6. IsInjective(Tail(E)) /\ ToSet(Tail(E)) = ToSet(E) \ {E[n]}
    BY <1>2, <2>5, SwapFrontOwned
  <2> DEFINE t == Tail(E)
  <2> HIDE DEF t
  <2>7. /\ IsInjective(t) /\ ToSet(t) = ToSet(Elems[d]) \ {Elems[d][n]}
        /\ n \in 1 .. Len(Elems[d]) /\ v = Elems[d][n] /\ Elems' = [Elems EXCEPT ![d] = t]
    BY <2>4, <2>5, <2>6 DEF t, E
  <2> QED
    BY <1>3, <2>7, LossOwned
<1>4. ASSUME NEW v, q.len > 0, Own({}, <<v>>), Returns("pop_back", <<d>>, v)
      PROVE  Owned(K)' /\ ~ub'
  <2>1. ret'.op = "pop_back" /\ ret'.arg = <<d>> /\ ret'.val = v
    BY <1>4 DEF Returns
  <2>2. Abstract!pop_back(d)
    BY <1>1, <2>1 DEF Abstract!Next
  <2>3. Elems[d] # <<>>
    BY <1>2, <1>4
  <2>4. Elems' = [Elems EXCEPT ![d] = Front(E)] /\ v = Last(E)
    BY <2>1, <2>2, <2>3 DEF Abstract!pop_back, Abstract!Shrinks, Abstract!Returns,
       Abstract!Holds, Elems, Front, Last, Abstract!Front, Abstract!Last
  <2> DEFINE n == Len(E)
  <2>5. n \in 1 .. Len(E) /\ [E EXCEPT ![n] = Last(E)] = E /\ v = E[n]
    BY <1>2, <1>4, <2>4 DEF Last
  <2> HIDE DEF n, E
  <2>6. IsInjective(Front(E)) /\ ToSet(Front(E)) = ToSet(E) \ {E[n]}
    BY <1>2, <2>5, SwapBackOwned
  <2> DEFINE t == Front(E)
  <2> HIDE DEF t
  <2>7. /\ IsInjective(t) /\ ToSet(t) = ToSet(Elems[d]) \ {Elems[d][n]}
        /\ n \in 1 .. Len(Elems[d]) /\ v = Elems[d][n] /\ Elems' = [Elems EXCEPT ![d] = t]
    BY <2>4, <2>5, <2>6 DEF t, E
  <2> QED
    BY <1>4, <2>7, LossOwned
<1> QED
  BY <1>3, <1>4, StaysOwned DEF pop_front, pop_back

\* What truncation drops is the part of the slice it cuts off.
LEMMA ReadsSlice ==
  ASSUME NEW q, WF(q), NEW i \in Nat, NEW n \in Nat, i + n <= q.len
  PROVE  Reads(q, i, n) = SubSeq(Contents(q), i + 1, i + n)
<1> DEFINE c == Contents(q)
           m == i + 1
           l == i + n
           u == SubSeq(c, m, l)
           r == Reads(q, i, n)
<1>1. c \in Seq(Slot) /\ Len(c) = q.len /\ \A k \in 0 .. q.len - 1 : c[k + 1] = Read(q, k)
  BY ContentsSeq
<1>2. m \in Nat \ {0} /\ l \in Nat /\ l <= Len(c) /\ m <= l + 1 /\ l - m + 1 = n
  BY <1>1
<1> HIDE DEF c, m, l
<1>3. u \in Seq(Slot) /\ Len(u) = l - m + 1 /\ \A j \in 1 .. l - m + 1 : u[j] = c[j + m - 1]
  BY <1>1, <1>2, SubSeqAt
<1> HIDE DEF u
<1>4. u \in Seq(Slot) /\ Len(u) = n /\ \A j \in 1 .. n : u[j] = c[j + m - 1]
  BY <1>2, <1>3
<1>5. ASSUME NEW j \in 1 .. n PROVE u[j] = Read(q, i + j - 1)
  <2> DEFINE k == i + j - 1
  <2>1. k \in 0 .. q.len - 1 /\ k + 1 = j + m - 1
    BY Basics DEF m
  <2> HIDE DEF k
  <2>2. c[k + 1] = Read(q, k)
    BY <1>1, <2>1
  <2> QED
    BY <1>4, <2>1, <2>2 DEF k
<1>6. u = [j \in 1 .. n |-> u[j]]
  BY <1>4
<1>7. u = r
  BY <1>5, <1>6 DEF Reads
<1> QED
  BY <1>7 DEF u, c, m, l

\* truncate_back, truncate, clear and truncate_front.
LEMMA TruncateOwned ==
  ASSUME NEW K, Inv, Owned(K), ~ub, NEEDS_DROP, NEW d \in DEQS, NEW n \in Nat,
         truncate_back(d, n) \/ truncate_front(d, n)
  PROVE  Owned(K)' /\ ~ub'
<1> DEFINE q == dq[d]
           E == Elems[d]
           x == q.len - n
<1>1. Abstract!Next
  BY TruncateRefines
<1>2. /\ E \in Seq(Slot) /\ IsInjective(E) /\ Len(E) = q.len /\ q.len \in Nat
      /\ Contents(q) = E /\ WF(q)
  BY ElemsOwned, View
<1>3. CASE n < q.len /\ Own({}, Reads(q, n, x)) /\ \E v \in DropEnds : Returns("truncate_back", <<d, n>>, v)
  <2>1. ret'.op = "truncate_back" /\ ret'.arg = <<d, n>>
    BY <1>3 DEF Returns
  <2>2. Abstract!truncate_back(d, n)
    BY <1>1, <2>1 DEF Abstract!Next
  <2> DEFINE a == SubSeq(E, 1, n)
             b == SubSeq(E, n + 1, Len(E))
  <2>3. ~(n >= Len(Elems[d]))
    BY <1>2, <1>3
  <2>4. Elems' = [Elems EXCEPT ![d] = a]
    BY <2>2, <2>3 DEF Abstract!truncate_back, Abstract!Drops, Abstract!Shrinks, Abstract!Holds, Elems
  <2>5. n \in 0 .. Len(E) /\ x \in Nat /\ n + x <= q.len /\ n + x = Len(E)
    BY <1>2, <1>3, SMTT(30)
  <2>6. Reads(q, n, x) = b
    <3>1. Reads(q, n, x) = SubSeq(Contents(q), n + 1, n + x)
      BY <1>2, <2>5, ReadsSlice
    <3> QED
      BY <1>2, <2>5, <3>1
  <2> HIDE DEF E
  <2>7. /\ IsInjective(a) /\ IsInjective(b)
        /\ ToSet(a) \cap ToSet(b) = {} /\ ToSet(E) = ToSet(a) \cup ToSet(b)
    BY <1>2, <2>5, CutOwned
  <2> HIDE DEF a, b
  <2>8. /\ {} \cap live = {} /\ ToSet(b) \subseteq ToSet(Elems[d]) \cup {}
        /\ ToSet(a) = (ToSet(Elems[d]) \cup {}) \ ToSet(b)
    BY <2>7 DEF E
  <2>9. Own({}, b)
    BY <1>3, <2>6
  <2> QED
    BY <2>4, <2>7, <2>8, <2>9, OneOwned
<1>4. CASE n < q.len /\ Own({}, Reads(q, 0, x)) /\ \E v \in DropEnds : Returns("truncate_front", <<d, n>>, v)
  <2>1. ret'.op = "truncate_front" /\ ret'.arg = <<d, n>>
    BY <1>4 DEF Returns
  <2>2. Abstract!truncate_front(d, n)
    BY <1>1, <2>1 DEF Abstract!Next
  <2> DEFINE a == SubSeq(E, 1, x)
             b == SubSeq(E, x + 1, Len(E))
  <2>3. ~(n >= Len(Elems[d]))
    BY <1>2, <1>4
  <2>4. Elems' = [Elems EXCEPT ![d] = b]
    <3>1. Elems' = [Elems EXCEPT ![d] = SubSeq(E, Len(E) - n + 1, Len(E))]
      BY <2>2, <2>3 DEF Abstract!truncate_front, Abstract!Drops, Abstract!Shrinks, Abstract!Holds, Elems
    <3>2. Len(E) - n + 1 = x + 1
      BY <1>2
    <3> QED
      BY <3>1, <3>2
  <2>5. x \in 0 .. Len(E) /\ x \in Nat /\ 0 \in Nat /\ 0 + x <= q.len /\ 0 + x = x /\ 0 + 1 = 1
    BY <1>2, <1>4
  <2>6. Reads(q, 0, x) = a
    <3>1. Reads(q, 0, x) = SubSeq(Contents(q), 0 + 1, 0 + x)
      BY <1>2, <2>5, ReadsSlice
    <3> QED
      BY <1>2, <2>5, <3>1
  <2> HIDE DEF E, x
  <2>7. /\ IsInjective(a) /\ IsInjective(b)
        /\ ToSet(a) \cap ToSet(b) = {} /\ ToSet(E) = ToSet(a) \cup ToSet(b)
    BY <1>2, <2>5, CutOwned
  <2> HIDE DEF a, b
  <2>8. /\ {} \cap live = {} /\ ToSet(a) \subseteq ToSet(Elems[d]) \cup {}
        /\ ToSet(b) = (ToSet(Elems[d]) \cup {}) \ ToSet(a)
    BY <2>7 DEF E
  <2>9. Own({}, a)
    BY <1>4, <2>6
  <2> QED
    BY <2>4, <2>7, <2>8, <2>9, OneOwned
<1> QED
  BY <1>3, <1>4, StaysOwned DEF truncate_back, truncate_front

\* swap_remove_back and swap_remove_front.
LEMMA SwapRemoveOwned ==
  ASSUME NEW K, Inv, Owned(K), ~ub, NEEDS_DROP, NEW d \in DEQS, NEW i \in Nat,
         swap_remove_back(d, i) \/ swap_remove_front(d, i)
  PROVE  Owned(K)' /\ ~ub'
<1> DEFINE q == dq[d]
           E == Elems[d]
           n == i + 1
<1>1. Abstract!Next
  BY SwapRemoveRefines
<1>2. /\ E \in Seq(Slot) /\ IsInjective(E) /\ Len(E) = q.len /\ q.len \in Nat
  BY ElemsOwned
<1>3. i < q.len => E # <<>> /\ ~(i >= Len(E)) /\ n \in 1 .. Len(E)
  BY <1>2
<1>4. ASSUME NEW v, i < q.len, Own({}, <<v>>), Returns("swap_remove_back", <<d, i>>, v)
      PROVE  Owned(K)' /\ ~ub'
  <2> DEFINE t == Front([E EXCEPT ![n] = Last(E)])
  <2>1. ret'.op = "swap_remove_back" /\ ret'.arg = <<d, i>> /\ ret'.val = v
    BY <1>4 DEF Returns
  <2>2. Abstract!swap_remove_back(d, i)
    BY <1>1, <2>1 DEF Abstract!Next
  <2>3. Elems' = [Elems EXCEPT ![d] = t] /\ v = E[n]
    BY <1>3, <1>4, <2>1, <2>2 DEF Abstract!swap_remove_back, Abstract!Shrinks,
       Abstract!Returns, Abstract!Holds, Elems, Front, Last, Abstract!Front, Abstract!Last
  <2>4. n \in 1 .. Len(E)
    BY <1>3, <1>4
  <2> HIDE DEF n, E
  <2>5. IsInjective(t) /\ ToSet(t) = ToSet(E) \ {E[n]}
    BY <1>2, <2>4, SwapBackOwned
  <2> HIDE DEF t
  <2>6. /\ ToSet(t) = ToSet(Elems[d]) \ {Elems[d][n]}
        /\ n \in 1 .. Len(Elems[d]) /\ v = Elems[d][n]
    BY <2>3, <2>4, <2>5 DEF E
  <2> QED
    BY <1>4, <2>3, <2>5, <2>6, LossOwned
<1>5. ASSUME NEW v, i < q.len, Own({}, <<v>>), Returns("swap_remove_front", <<d, i>>, v)
      PROVE  Owned(K)' /\ ~ub'
  <2> DEFINE t == Tail([E EXCEPT ![n] = Head(E)])
  <2>1. ret'.op = "swap_remove_front" /\ ret'.arg = <<d, i>> /\ ret'.val = v
    BY <1>5 DEF Returns
  <2>2. Abstract!swap_remove_front(d, i)
    BY <1>1, <2>1 DEF Abstract!Next
  <2>3. Elems' = [Elems EXCEPT ![d] = t] /\ v = E[n]
    BY <1>3, <1>5, <2>1, <2>2 DEF Abstract!swap_remove_front, Abstract!Shrinks,
       Abstract!Returns, Abstract!Holds, Elems
  <2>4. n \in 1 .. Len(E)
    BY <1>3, <1>5
  <2> HIDE DEF n, E
  <2>5. IsInjective(t) /\ ToSet(t) = ToSet(E) \ {E[n]}
    BY <1>2, <2>4, SwapFrontOwned
  <2> HIDE DEF t
  <2>6. /\ ToSet(t) = ToSet(Elems[d]) \ {Elems[d][n]}
        /\ n \in 1 .. Len(Elems[d]) /\ v = Elems[d][n]
    BY <2>3, <2>4, <2>5 DEF E
  <2> QED
    BY <1>5, <2>3, <2>5, <2>6, LossOwned
<1> QED
  BY <1>4, <1>5, StaysOwned DEF swap_remove_back, swap_remove_front

\* insert takes ownership of the element.
LEMMA InsertOwned ==
  ASSUME NEW K, Inv, Owned(K), ~ub, NEEDS_DROP, NEW d \in DEQS, NEW i \in Nat, NEW e \in Unborn,
         NEW oom, i < 2 \/ i > dq[d].len \div 2, insert(d, i, e, oom)
  PROVE  Owned(K)' /\ ~ub'
<1> DEFINE E == Elems[d]
           t == InsertAt(E, i + 1, e)
<1>1. e \in Elem /\ e \notin live /\ e \in Slot
  BY UnbornAreNew DEF Slot
<1>2. Abstract!Next
  BY <1>1, InsertRefines
<1>3. /\ E \in Seq(Slot) /\ IsInjective(E) /\ ToSet(E) \subseteq live
      /\ Len(E) = dq[d].len /\ dq[d].len \in Nat
  BY ElemsOwned
<1>4. CASE i <= dq[d].len /\ Own({e}, <<>>) /\ Returns("insert", <<d, i, e>>, "ok")
  <2>1. ret'.op = "insert" /\ ret'.arg = <<d, i, e>> /\ ret'.val = "ok"
    BY <1>4 DEF Returns
  <2>2. Abstract!insert(d, i, e)
    BY <1>2, <2>1 DEF Abstract!Next
  <2>3. ~(i > Len(E)) /\ i \in 0 .. Len(E)
    BY <1>3, <1>4
  <2>4. Elems' = [Elems EXCEPT ![d] = t]
    BY <2>1, <2>2, <2>3 DEF Abstract!insert, Abstract!OutOfMemory, Abstract!Stays,
       Abstract!Returns, Abstract!Grows, Abstract!Holds, Elems, InsertAt, Abstract!InsertAt
  <2> HIDE DEF E
  <2>5. IsInjective(t) /\ ToSet(t) = ToSet(E) \cup {e}
    BY <1>1, <1>3, <2>3, InsertAtOwned
  <2> HIDE DEF t
  <2>6. /\ {e} \cap live = {} /\ ToSet(<<>>) \subseteq ToSet(Elems[d]) \cup {e}
        /\ ToSet(t) = (ToSet(Elems[d]) \cup {e}) \ ToSet(<<>>)
    BY <1>1, <2>5, NoDrop DEF E
  <2> QED
    BY <1>4, <2>4, <2>5, <2>6, NoDrop, OneOwned
<1> QED
  BY <1>4, StaysOwned DEF insert

\* remove and remove_item move the value out.
LEMMA RemoveOwned ==
  ASSUME NEW K, Inv, Owned(K), ~ub, NEEDS_DROP, NEW d \in DEQS,
         \/ \E i \in Nat : remove(d, i)
         \/ \E equal \in SUBSET (0 .. dq[d].len - 1) : remove_item(d, equal)
  PROVE  Owned(K)' /\ ~ub'
<1> DEFINE q == dq[d]
           E == Elems[d]
<1>1. Abstract!Next
  BY RemoveRefines
<1>2. /\ E \in Seq(Slot) /\ IsInjective(E) /\ Len(E) = q.len /\ q.len \in Nat
  BY ElemsOwned
<1>3. ASSUME NEW i \in Nat, i < q.len, NEW v, Own({}, <<v>>), ret'.val = v,
             Abstract!remove(d, i)
      PROVE  Owned(K)' /\ ~ub'
  <2> DEFINE n == i + 1
             t == RemoveAt(E, n)
  <2>1. ~(i >= Len(E)) /\ n \in 1 .. Len(E)
    BY <1>2, <1>3
  <2>2. Elems' = [Elems EXCEPT ![d] = t] /\ v = E[n]
    BY <1>3, <2>1 DEF Abstract!remove, Abstract!Shrinks, Abstract!Returns, Abstract!Holds,
       Elems, RemoveAt, Abstract!RemoveAt
  <2> HIDE DEF n, E
  <2>3. IsInjective(t) /\ ToSet(t) = ToSet(E) \ {E[n]}
    BY <1>2, <2>1, RemoveAtOwned
  <2> HIDE DEF t
  <2>4. /\ ToSet(t) = ToSet(Elems[d]) \ {Elems[d][n]}
        /\ n \in 1 .. Len(Elems[d]) /\ v = Elems[d][n]
    BY <2>1, <2>2, <2>3 DEF E
  <2> QED
    BY <1>3, <2>2, <2>3, <2>4, LossOwned
<1>4. ASSUME NEW i \in Nat, NEW v, i < q.len, Own({}, <<v>>), Returns("remove", <<d, i>>, v)
      PROVE  Owned(K)' /\ ~ub'
  <2>1. ret'.op = "remove" /\ ret'.arg = <<d, i>> /\ ret'.val = v
    BY <1>4 DEF Returns
  <2>2. Abstract!remove(d, i)
    BY <1>1, <2>1 DEF Abstract!Next
  <2> QED
    BY <1>3, <1>4, <2>1, <2>2
<1>5. ASSUME NEW equal \in SUBSET (0 .. q.len - 1), NEW i \in equal, \A p \in equal : i <= p,
             NEW v, Own({}, <<v>>), Returns("remove_item", <<d, equal>>, v)
      PROVE  Owned(K)' /\ ~ub'
  <2>1. ret'.op = "remove_item" /\ ret'.arg = <<d, equal>> /\ ret'.val = v
    BY <1>5 DEF Returns
  <2>2. Abstract!remove_item(d, equal)
    BY <1>1, <2>1 DEF Abstract!Next
  <2>3. PICK j \in equal : (\A p \in equal : j <= p) /\ Abstract!remove(d, j)
    BY <1>5, <2>2 DEF Abstract!remove_item
  <2>4. j \in Nat /\ j < q.len
    BY <1>2
  <2> QED
    BY <1>3, <1>5, <2>1, <2>3, <2>4
<1> QED
  <2>1. CASE \E i \in Nat : remove(d, i)
    BY <1>4, <2>1, StaysOwned DEF remove
  <2>2. CASE \E equal \in SUBSET (0 .. dq[d].len - 1) : remove_item(d, equal)
    BY <1>5, <2>2, StaysOwned DEF remove_item
  <2> QED
    BY <2>1, <2>2

\* extend_desugared and from_iter_default take ownership of what the iterator
\* yields.
LEMMA ExtendOwned ==
  ASSUME NEW K, Inv, Owned(K), ~ub, NEEDS_DROP, NEW d \in DEQS, NEW e \in Unborn, NEW hint \in Nat,
         NEW oom, extend_desugared(d, e, hint, oom) \/ from_iter_default(d, e, hint, oom)
  PROVE  Owned(K)' /\ ~ub'
<1> DEFINE s == <<e>>
<1>1. e \in Elem /\ e \notin live /\ e \in Slot
  BY UnbornAreNew DEF Slot
<1>2. Abstract!Next
  BY <1>1, ExtendRefines, FromIterRefines
<1>3. Elems[d] \in Seq(Slot) /\ Elems[d] \o <<e>> = Append(Elems[d], e)
  BY <1>1, ElemsOwned, AppendIsConcat
<1>4. s \in Seq(Slot) /\ ToSet(s) = {e} /\ IsInjective(s) /\ ToSet(s) \cap live = {}
  BY <1>1, SetOfOne
<1>5. CASE Own({e}, <<>>) /\ Returns("extend", <<d, e, hint>>, "ok")
  <2>1. ret'.op = "extend" /\ ret'.arg = <<d, e, hint>> /\ ret'.val = "ok"
    BY <1>5 DEF Returns
  <2>2. Abstract!extend(d, e, hint)
    BY <1>2, <2>1 DEF Abstract!Next
  <2>3. Elems' = [Elems EXCEPT ![d] = Append(Elems[d], e)]
    BY <2>1, <2>2 DEF Abstract!extend, Abstract!OutOfMemory, Abstract!Stays,
       Abstract!Returns, Abstract!Grows, Abstract!Holds, Elems
  <2>4. Elems' = [Elems EXCEPT ![d] = Elems[d] \o s]
    BY <1>3, <2>3
  <2> HIDE DEF s
  <2> QED
    BY <1>4, <1>5, <2>4, GainOwned
<1>6. CASE Own({e}, <<>>) /\ Returns("from_iter", <<d, e, hint>>, "ok")
  <2>1. ret'.op = "from_iter" /\ ret'.arg = <<d, e, hint>> /\ ret'.val = "ok"
    BY <1>6 DEF Returns
  <2>2. Abstract!from_iter(d, e, hint)
    BY <1>2, <2>1 DEF Abstract!Next
  <2>3. Elems[d] = <<>> /\ Elems' = [Elems EXCEPT ![d] = s]
    BY <2>1, <2>2 DEF Abstract!from_iter, Abstract!Stays, Abstract!Returns,
       Abstract!Holds, Elems
  <2>4. ToSet(Elems[d]) = {}
    BY <2>3, NoDrop
  <2> HIDE DEF s
  <2>5. /\ {e} \cap live = {} /\ ToSet(<<>>) \subseteq ToSet(Elems[d]) \cup {e}
        /\ ToSet(s) = (ToSet(Elems[d]) \cup {e}) \ ToSet(<<>>)
    BY <1>1, <1>4, <2>4, NoDrop
  <2> QED
    BY <1>4, <1>6, <2>3, <2>5, NoDrop, OneOwned
<1> QED
  BY <1>5, <1>6, StaysOwned DEF extend_desugared, from_iter_default

\* resize and move_tail: the values that were written, also those written
\* before clone() panicked, belong to the deque.
LEMMA ResizeOwned ==
  ASSUME NEW K, Inv, Owned(K), ~ub, NEEDS_DROP, NEW d \in DEQS, NEW n \in Nat, NEW s \in UnbornSeqs,
         NEW oom, resize(d, n, s, oom) \/ move_tail(d, s)
  PROVE  Owned(K)' /\ ~ub'
<1>1. s \in Seq(Elem) /\ s \in Seq(Slot) /\ IsInjective(s) /\ ToSet(s) \cap live = {}
  BY UnbornAreNew
<1>2. Abstract!Next
  BY <1>1, ResizeRefines, MoveTailRefines
<1>3. ASSUME NEW v, v # "oom", Own(ToSet(s), <<>>), Returns("resize", <<d, n, s>>, v)
      PROVE  Owned(K)' /\ ~ub'
  <2>1. ret'.op = "resize" /\ ret'.arg = <<d, n, s>> /\ ret'.val = v
    BY <1>3 DEF Returns
  <2>2. Abstract!resize(d, n, s)
    BY <1>2, <2>1 DEF Abstract!Next
  <2>3. Elems' = [Elems EXCEPT ![d] = Elems[d] \o s]
    BY <1>3, <2>1, <2>2 DEF Abstract!resize, Abstract!OutOfMemory, Abstract!Stays,
       Abstract!Returns, Abstract!Holds, Elems
  <2> QED
    BY <1>1, <1>3, <2>3, GainOwned
<1>4. CASE Own(ToSet(s), <<>>) /\ Returns("move_tail", <<d, s>>, "ok")
  <2>1. ret'.op = "move_tail" /\ ret'.arg = <<d, s>> /\ ret'.val = "ok"
    BY <1>4 DEF Returns
  <2>2. Abstract!move_tail(d, s)
    BY <1>2, <2>1 DEF Abstract!Next
  <2>3. Elems' = [Elems EXCEPT ![d] = Elems[d] \o s]
    BY <2>1, <2>2 DEF Abstract!move_tail, Abstract!Stays, Abstract!Returns, Abstract!Grows,
       Abstract!Holds, Elems
  <2> QED
    BY <1>1, <1>4, <2>3, GainOwned
<1>5. CASE resize(d, n, s, oom)
  <2> DEFINE v == IF Len(s) = n - dq[d].len THEN "ok" ELSE "panic"
  <2>1. v # "oom"
    OBVIOUS
  <2>2. \/ truncate_back(d, n) \/ Stays("resize", <<d, n, s>>, "oom")
        \/ Own(ToSet(s), <<>>) /\ Returns("resize", <<d, n, s>>, v)
    BY <1>5 DEF resize
  <2> HIDE DEF v
  <2> QED
    BY <1>3, <2>1, <2>2, TruncateOwned, StaysOwned
<1>6. CASE move_tail(d, s)
  BY <1>4, <1>6, StaysOwned DEF move_tail
<1> QED
  BY <1>5, <1>6

\* extend_from_slice of a T with a destructor, where the slice is empty.
LEMMA ExtendFromSliceOwned ==
  ASSUME NEW K, Inv, Owned(K), ~ub, NEEDS_DROP, NEW d \in DEQS, NEW s \in UnbornSeqs, Len(s) = 0,
         NEW oom, extend_from_slice(d, 0, s, oom)
  PROVE  Owned(K)' /\ ~ub'
<1> DEFINE r == try_reserve(dq[d], 0, oom)
           u == Reads(r.q, dq[d].len, Len(s))
<1>1. s \in Seq(Elem) /\ s \in Seq(Slot) /\ IsInjective(s) /\ ToSet(s) \cap live = {}
  BY UnbornAreNew
<1>2. Abstract!Next
  BY <1>1, ExtendFromSliceRefines, 0 \in Nat
<1>3. IsInjective(u) /\ ToSet(u) = {}
  <2>1. DOMAIN u = {}
    BY DEF Reads
  <2> HIDE DEF u
  <2> QED
    BY <2>1 DEF IsInjective, ToSet
<1>4. CASE Own(ToSet(s), u) /\ Returns("extend_from_slice", <<d, 0, s>>, "ok")
  <2>1. ret'.op = "extend_from_slice" /\ ret'.arg = <<d, 0, s>> /\ ret'.val = "ok"
    BY <1>4 DEF Returns
  <2>2. Abstract!extend_from_slice(d, 0, s)
    BY <1>2, <2>1 DEF Abstract!Next
  <2>3. Elems' = [Elems EXCEPT ![d] = Elems[d] \o s]
    BY <2>1, <2>2 DEF Abstract!extend_from_slice, Abstract!OutOfMemory, Abstract!Stays,
       Abstract!Returns, Abstract!Holds, Elems
  <2> HIDE DEF u
  <2>4. Own(ToSet(s), <<>>)
    BY <1>3, <1>4, NoDrop DEF Own
  <2> QED
    BY <1>1, <2>3, <2>4, GainOwned
<1> QED
  BY <1>4, StaysOwned DEF extend_from_slice

\* append moves every element of the other deque, and drops none.
LEMMA AppendOwned ==
  ASSUME NEW K, Inv, Owned(K), ~ub, NEEDS_DROP, NEW d \in DEQS, NEW o \in DEQS, d # o, NEW oom,
         append(d, o, oom)
  PROVE  Owned(K)' /\ ~ub'
<1> DEFINE D == Elems[d]
           O == Elems[o]
           t == D \o O
           u == <<>>
<1>1. Abstract!Next
  BY AppendRefines
<1>2. D \in Seq(Slot) /\ IsInjective(D) /\ O \in Seq(Slot) /\ IsInjective(O)
  BY ElemsOwned
<1>3. ToSet(D) \cap ToSet(O) = {}
  BY DEF Owned
<1>4. CASE Own({}, <<>>) /\ Returns("append", <<d, o>>, "ok")
  <2>1. ret'.op = "append" /\ ret'.arg = <<d, o>> /\ ret'.val = "ok"
    BY <1>4 DEF Returns
  <2>2. Abstract!append(d, o)
    BY <1>1, <2>1 DEF Abstract!Next
  <2>3. Elems' = [Elems EXCEPT ![d] = t, ![o] = u]
    BY <2>1, <2>2 DEF Abstract!append, Abstract!OutOfMemory, Abstract!Stays,
       Abstract!Returns, Elems
  <2> HIDE DEF D, O
  <2>4. IsInjective(t) /\ ToSet(t) = ToSet(D) \cup ToSet(O)
    BY <1>2, <1>3, ConcatOwned
  <2>5. IsInjective(u) /\ ToSet(u) = {}
    BY NoDrop
  <2> HIDE DEF t, u
  <2>6. /\ ToSet(t) \cap ToSet(u) = {}
        /\ ToSet(<<>>) \subseteq ToSet(Elems[d]) \cup ToSet(Elems[o])
        /\ ToSet(t) \cup ToSet(u) = (ToSet(Elems[d]) \cup ToSet(Elems[o])) \ ToSet(<<>>)
    BY <2>4, <2>5, NoDrop DEF D, O
  <2> QED
    BY <1>4, <2>3, <2>4, <2>5, <2>6, NoDrop, TwoOwned
<1> QED
  BY <1>4, StaysOwned DEF append

\* split_off moves the tail and drops what the other deque held.
LEMMA SplitOffOwned ==
  ASSUME NEW K, Inv, Owned(K), ~ub, NEEDS_DROP, NEW d \in DEQS, NEW o \in DEQS, d # o, NEW at \in Nat,
         NEW oom, split_off(d, o, at, oom)
  PROVE  Owned(K)' /\ ~ub'
<1> DEFINE D == Elems[d]
           O == Elems[o]
           t == SubSeq(D, 1, at)
           u == SubSeq(D, at + 1, Len(D))
<1>1. Abstract!Next
  BY SplitOffRefines
<1>2. /\ D \in Seq(Slot) /\ IsInjective(D) /\ Len(D) = dq[d].len
      /\ O \in Seq(Slot) /\ IsInjective(O) /\ Contents(dq[o]) = O
  BY ElemsOwned
<1>3. ToSet(D) \cap ToSet(O) = {}
  BY DEF Owned
<1>4. CASE /\ at <= dq[d].len /\ Own({}, Contents(dq[o]))
           /\ Returns("split_off", <<d, o, at>>, "ok")
  <2>1. ret'.op = "split_off" /\ ret'.arg = <<d, o, at>> /\ ret'.val = "ok"
    BY <1>4 DEF Returns
  <2>2. Abstract!split_off(d, o, at)
    BY <1>1, <2>1 DEF Abstract!Next
  <2>3. ~(at > Len(D)) /\ at \in 0 .. Len(D)
    BY <1>2, <1>4
  <2>4. Elems' = [Elems EXCEPT ![d] = t, ![o] = u]
    BY <2>1, <2>2, <2>3 DEF Abstract!split_off, Abstract!Stays, Abstract!Returns, Elems
  <2> HIDE DEF D
  <2>5. /\ IsInjective(t) /\ IsInjective(u)
        /\ ToSet(t) \cap ToSet(u) = {} /\ ToSet(D) = ToSet(t) \cup ToSet(u)
    BY <1>2, <2>3, CutOwned
  <2> HIDE DEF t, u, O
  <2>6. /\ ToSet(O) \subseteq ToSet(Elems[d]) \cup ToSet(Elems[o])
        /\ ToSet(t) \cup ToSet(u) = (ToSet(Elems[d]) \cup ToSet(Elems[o])) \ ToSet(O)
    BY <1>3, <2>5 DEF D, O
  <2>7. Own({}, O)
    BY <1>2, <1>4
  <2> QED
    BY <1>2, <2>4, <2>5, <2>6, <2>7, TwoOwned
<1> QED
  BY <1>4, StaysOwned DEF split_off

\* clone fills the other deque with new values and drops what it held.
LEMMA CloneOwned ==
  ASSUME NEW K, Inv, Owned(K), ~ub, NEEDS_DROP, NEW d \in DEQS, NEW o \in DEQS, NEW s \in UnbornSeqs,
         NEW oom, clone(d, o, s, oom)
  PROVE  Owned(K)' /\ ~ub'
<1> DEFINE O == Elems[o]
<1>1. s \in Seq(Elem) /\ s \in Seq(Slot) /\ IsInjective(s) /\ ToSet(s) \cap live = {}
  BY UnbornAreNew
<1>2. Abstract!Next
  BY <1>1, CloneRefines
<1>3. /\ IsInjective(O) /\ Contents(dq[o]) = O /\ ToSet(O) \subseteq live
  BY ElemsOwned
<1>4. CASE Own(ToSet(s), Contents(dq[o])) /\ Returns("clone", <<d, o, s>>, "ok")
  <2>1. ret'.op = "clone" /\ ret'.arg = <<d, o, s>> /\ ret'.val = "ok"
    BY <1>4 DEF Returns
  <2>2. Abstract!clone(d, o, s)
    BY <1>2, <2>1 DEF Abstract!Next
  <2>3. Elems' = [Elems EXCEPT ![o] = s]
    BY <2>1, <2>2 DEF Abstract!clone, Abstract!Stays, Abstract!Returns, Abstract!Holds, Elems
  <2>4. /\ ToSet(O) \subseteq ToSet(Elems[o]) \cup ToSet(s)
        /\ ToSet(s) = (ToSet(Elems[o]) \cup ToSet(s)) \ ToSet(O)
    BY <1>1, <1>3
  <2>5. Own(ToSet(s), O)
    BY <1>3, <1>4
  <2> HIDE DEF O
  <2> QED
    BY <1>1, <1>3, <2>3, <2>4, <2>5, OneOwned
<1> QED
  BY <1>4, StaysOwned DEF clone

-----------------------------------------------------------------------------
(* The invariant.                                                          *)

OwnershipInv == Inv /\ ~ub /\ (NEEDS_DROP => Owned({}))

\* A step of SoundNext by a T that has a destructor.
LEMMA StepOwned ==
  ASSUME NEW K, Inv, Owned(K), ~ub, NEEDS_DROP, SoundNext
  PROVE  Owned(K)' /\ ~ub'
<1>1. PICK d \in DEQS, oom \in BOOLEAN :
        \/ CommonNext(d, oom)
        \/ \E n \in Args, e \in Unborn :
             (n < 2 \/ n > dq[d].len \div 2) /\ insert(d, n, e, oom)
        \/ \E n \in 0 .. MaxItems, s \in UnbornSeqs :
             /\ Len(s) = n /\ (NEEDS_DROP => n = 0)
             /\ extend_from_slice(d, n, s, oom)
        \/ /\ NEEDS_DROP /\ dq[d].len > 0 =>
                capacity(with_capacity(dq[d].len)) >= capacity(dq[d])
           /\ shrink_to_fit(d, oom)
  BY DEF SoundNext
<1>2. Args \subseteq Nat /\ 0 \in Nat
  BY BoundAssumption DEF Args
<1>3. CASE \E n \in Args : \/ assign(d, n, oom) \/ reserve(d, n, oom)
                           \/ reserve_exact(d, n, oom)
  BY <1>2, <1>3, CapacityOwned
<1>4. CASE \E e \in Unborn : push_front(d, e, oom) \/ push_back(d, e, oom)
  BY <1>4, PushOwned
<1>5. CASE pop_front(d) \/ pop_back(d)
  BY <1>5, PopOwned
<1>6. CASE \E n \in Args : truncate_back(d, n) \/ truncate_front(d, n)
  BY <1>2, <1>6, TruncateOwned
<1>7. CASE \E n \in Args : swap_remove_back(d, n) \/ swap_remove_front(d, n)
  BY <1>2, <1>7, SwapRemoveOwned
<1>8. CASE \/ \E n \in Args : remove(d, n)
           \/ \E equal \in SUBSET (0 .. dq[d].len - 1) : remove_item(d, equal)
  BY <1>2, <1>8, RemoveOwned
<1>9. CASE \E e \in Unborn, n \in Args : \/ extend_desugared(d, e, n, oom)
                                        \/ from_iter_default(d, e, n, oom)
  BY <1>2, <1>9, ExtendOwned
<1>10. CASE \/ \E n \in Args, s \in UnbornSeqs : resize(d, n, s, oom)
            \/ \E s \in UnbornSeqs : move_tail(d, s)
  BY <1>2, <1>10, ResizeOwned
<1>11. CASE \E o \in DEQS \ {d} : append(d, o, oom)
  BY <1>11, AppendOwned
<1>12. CASE \E o \in DEQS \ {d}, n \in Args : split_off(d, o, n, oom)
  BY <1>2, <1>12, SplitOffOwned
<1>13. CASE \E o \in DEQS \ {d}, s \in UnbornSeqs : clone(d, o, s, oom)
  BY <1>13, CloneOwned
<1>14. CASE CommonNext(d, oom)
  BY <1>3, <1>4, <1>5, <1>6, <1>7, <1>8, <1>9, <1>10, <1>11, <1>12, <1>13, <1>14
  DEF CommonNext
<1>15. CASE \E n \in Args, e \in Unborn :
              (n < 2 \/ n > dq[d].len \div 2) /\ insert(d, n, e, oom)
  BY <1>2, <1>15, InsertOwned
<1>16. CASE \E n \in 0 .. MaxItems, s \in UnbornSeqs :
              Len(s) = n /\ (NEEDS_DROP => n = 0) /\ extend_from_slice(d, n, s, oom)
  BY <1>16, ExtendFromSliceOwned
<1>17. CASE /\ NEEDS_DROP /\ dq[d].len > 0 =>
                 capacity(with_capacity(dq[d].len)) >= capacity(dq[d])
            /\ shrink_to_fit(d, oom)
  <2>1. ASSUME dq[d].len > 0, capacity(with_capacity(dq[d].len)) < capacity(dq[d])
        PROVE  FALSE
    <3>1. dq[d].len \in Nat /\ capacity(dq[d]) \in Nat
      BY View
    <3>2. capacity(with_capacity(dq[d].len)) \in Nat
      BY <3>1, WithCapacityWF, Basics
    <3> QED
      BY <1>17, <2>1, <3>1, <3>2
  <2> QED
    BY <1>17, <2>1, StaysOwned DEF shrink_to_fit
<1> QED
  BY <1>1, <1>14, <1>15, <1>16, <1>17

\* A T without a destructor is never dropped.
LEMMA StepNoDrop ==
  ASSUME Inv, ~ub, ~NEEDS_DROP, SoundNext
  PROVE  ~ub'
<1>1. ASSUME NEW created, NEW dropped, Own(created, dropped) PROVE ~ub'
  BY <1>1 DEF Own
<1>2. ASSUME NEW op, NEW arg, NEW v, Stays(op, arg, v) PROVE ~ub'
  BY <1>2 DEF Stays
<1>3. PICK d \in DEQS, oom \in BOOLEAN :
        \/ CommonNext(d, oom)
        \/ \E n \in Args, e \in Unborn : insert(d, n, e, oom)
        \/ \E n \in 0 .. MaxItems, s \in UnbornSeqs : extend_from_slice(d, n, s, oom)
        \/ shrink_to_fit(d, oom)
  BY DEF SoundNext
<1>4. CASE \E n \in Args : \/ assign(d, n, oom) \/ reserve(d, n, oom)
                           \/ reserve_exact(d, n, oom)
  BY <1>1, <1>2, <1>4 DEF assign, reserve, reserve_exact
<1>5. CASE \E e \in Unborn : push_front(d, e, oom) \/ push_back(d, e, oom)
  BY <1>1, <1>2, <1>5 DEF push_front, push_back
<1>6. CASE pop_front(d) \/ pop_back(d)
  BY <1>1, <1>2, <1>6 DEF pop_front, pop_back
<1>7. CASE \E n \in Args : truncate_back(d, n) \/ truncate_front(d, n)
  BY <1>1, <1>2, <1>7 DEF truncate_back, truncate_front
<1>8. CASE \E n \in Args : swap_remove_back(d, n) \/ swap_remove_front(d, n)
  BY <1>1, <1>2, <1>8 DEF swap_remove_back, swap_remove_front
<1>9. CASE \E n \in Args : remove(d, n)
  BY <1>1, <1>2, <1>9 DEF remove
<1>10. CASE \E equal \in SUBSET (0 .. dq[d].len - 1) : remove_item(d, equal)
  BY <1>1, <1>2, <1>10 DEF remove_item
<1>11. CASE \E e \in Unborn, n \in Args : extend_desugared(d, e, n, oom)
  BY <1>1, <1>2, <1>11 DEF extend_desugared
<1>12. CASE \E e \in Unborn, n \in Args : from_iter_default(d, e, n, oom)
  BY <1>1, <1>2, <1>12 DEF from_iter_default
<1>13. CASE \E n \in Args, s \in UnbornSeqs : resize(d, n, s, oom)
  BY <1>1, <1>2, <1>13 DEF resize, truncate_back
<1>14. CASE \E s \in UnbornSeqs : move_tail(d, s)
  BY <1>1, <1>2, <1>14 DEF move_tail
<1>15. CASE \E o \in DEQS \ {d} : append(d, o, oom)
  BY <1>1, <1>2, <1>15 DEF append
<1>16. CASE \E o \in DEQS \ {d}, n \in Args : split_off(d, o, n, oom)
  BY <1>1, <1>2, <1>16 DEF split_off
<1>17. CASE \E o \in DEQS \ {d}, s \in UnbornSeqs : clone(d, o, s, oom)
  BY <1>1, <1>2, <1>17 DEF clone
<1>18. CASE \E n \in Args, e \in Unborn : insert(d, n, e, oom)
  BY <1>1, <1>2, <1>18 DEF insert
<1>19. CASE \E n \in 0 .. MaxItems, s \in UnbornSeqs : extend_from_slice(d, n, s, oom)
  BY <1>1, <1>2, <1>19 DEF extend_from_slice
<1>20. CASE shrink_to_fit(d, oom)
  BY <1>1, <1>2, <1>20 DEF shrink_to_fit
<1>21. CASE CommonNext(d, oom)
  BY <1>4, <1>5, <1>6, <1>7, <1>8, <1>9, <1>10, <1>11, <1>12, <1>13,
     <1>14, <1>15, <1>16, <1>17, <1>21
  DEF CommonNext
<1> QED
  BY <1>3, <1>18, <1>19, <1>20, <1>21

\* At the start there is no value and no element.
LEMMA InitOwned == Init => OwnershipInv
<1> SUFFICES ASSUME Init PROVE OwnershipInv
  OBVIOUS
<1>1. Inv /\ ~ub /\ live = {}
  BY InitInv DEF Init
<1>2. \A d \in DEQS : Elems[d] = <<>>
  BY NewWF, ContentsSeq DEF Init, Elems
<1>3. \A d \in DEQS : ToSet(Elems[d]) = {} /\ IsInjective(Elems[d])
  BY <1>2, NoDrop
<1>4. Owned({})
  BY <1>1, <1>3 DEF Owned
<1> QED
  BY <1>1, <1>4 DEF OwnershipInv

\* Every step of SoundNext keeps ownership.
LEMMA NextOwned == OwnershipInv /\ [SoundNext]_vars => OwnershipInv'
<1> SUFFICES ASSUME OwnershipInv, [SoundNext]_vars PROVE OwnershipInv'
  OBVIOUS
<1>1. Inv'
  BY NextInv, SoundIsNext DEF OwnershipInv
<1>2. CASE UNCHANGED vars
  <2>1. Elems' = Elems /\ live' = live /\ ub' = ub
    BY <1>2 DEF vars, Elems
  <2> QED
    BY <1>1, <2>1 DEF OwnershipInv, Owned
<1>3. CASE SoundNext
  <2>1. CASE NEEDS_DROP
    BY <1>1, <1>3, <2>1, StepOwned DEF OwnershipInv
  <2>2. CASE ~NEEDS_DROP
    BY <1>1, <1>3, <2>2, StepNoDrop DEF OwnershipInv
  <2> QED
    BY <2>1, <2>2
<1> QED
  BY <1>2, <1>3

\* Two slots of the slices with the same value are the same slot.
LEMMA OwnedApart ==
  ASSUME NEW K, Inv, Owned(K)
  PROVE  \A c, d \in DEQS : \A i \in 0 .. dq[c].len - 1, j \in 0 .. dq[d].len - 1 :
           Read(dq[c], i) = Read(dq[d], j) => c = d /\ i = j
<1>1. ASSUME NEW c \in DEQS, NEW d \in DEQS, NEW i \in 0 .. dq[c].len - 1,
             NEW j \in 0 .. dq[d].len - 1, Read(dq[c], i) = Read(dq[d], j)
      PROVE  c = d /\ i = j
  <2> DEFINE m == i + 1
             n == j + 1
             C == Elems[c]
             D == Elems[d]
  <2>1. /\ C \in Seq(Slot) /\ Len(C) = dq[c].len /\ dq[c].len \in Nat /\ IsInjective(C)
        /\ C = Contents(dq[c]) /\ WF(dq[c])
    BY ElemsOwned, View
  <2>2. /\ D \in Seq(Slot) /\ Len(D) = dq[d].len /\ dq[d].len \in Nat
        /\ D = Contents(dq[d]) /\ WF(dq[d])
    BY ElemsOwned, View
  <2>3. m \in 1 .. Len(C) /\ n \in 1 .. Len(D) /\ (m = n => i = j)
    BY <2>1, <2>2, SMTT(30)
  <2>4. C[m] = Read(dq[c], i) /\ D[n] = Read(dq[d], j)
    BY <2>1, <2>2, ContentsSeq
  <2> HIDE DEF m, n
  <2>5. C[m] \in ToSet(C)
    BY <2>1, <2>3, SetOfSeq
  <2>6. D[n] \in ToSet(D)
    BY <2>2, <2>3, SetOfSeq
  <2>7. c = d
    BY <1>1, <2>4, <2>5, <2>6 DEF Owned
  <2>8. \A a, b \in 1 .. Len(C) : C[a] = C[b] => a = b
    BY <2>1, SetOfSeq
  <2> QED
    BY <1>1, <2>3, <2>4, <2>7, <2>8
<1> QED
  BY <1>1

\* The invariant says of the slots what OwnedOnce says.
LEMMA OwnedFromInv == OwnershipInv => OwnedOnce
<1> SUFFICES ASSUME OwnershipInv, NEEDS_DROP PROVE OwnedOnce
  BY DEF OwnedOnce
<1>1. Inv /\ Owned({})
  BY DEF OwnershipInv
<1>2. \A d \in DEQS : Elems[d] = Contents(dq[d])
  BY DEF Elems
<1>3. live = Held
  BY <1>1, <1>2 DEF Owned, Held
<1>4. \A c, d \in DEQS : \A i \in 0 .. dq[c].len - 1, j \in 0 .. dq[d].len - 1 :
        Read(dq[c], i) = Read(dq[d], j) => c = d /\ i = j
  BY <1>1, OwnedApart
<1> QED
  BY <1>3, <1>4 DEF OwnedOnce

\* Ownership holds in every state of SoundSpec.
LEMMA OwnershipInvCorrect == SoundSpec => []OwnershipInv
  BY InitOwned, NextOwned, PTL DEF SoundSpec

\* No call drops a value twice or drops memory that holds none, whichever
\* clones panic and whichever allocations fail.
THEOREM NoInvalidDropCorrect == SoundSpec => []NoInvalidDrop
<1>1. OwnershipInv => NoInvalidDrop
  BY DEF OwnershipInv, NoInvalidDrop
<1> QED
  BY <1>1, OwnershipInvCorrect, PTL

\* Every live value is one element of one deque, and every element is live.
THEOREM OwnedOnceCorrect == SoundSpec => []OwnedOnce
  BY OwnedFromInv, OwnershipInvCorrect, PTL
=============================================================================
