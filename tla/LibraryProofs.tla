---------------------------- MODULE LibraryProofs ----------------------------
(***************************************************************************)
(* Proofs about Library, for strings of any length over any characters: the *)
(* searches find the first place (strStr is the algorithm of Knuth, Morris  *)
(* and Pratt), strcmp orders, memmove keeps what it moves, strtok cuts the  *)
(* words, and numbers are read back.  The loops are recursive functions:    *)
(* Recursion below says that they exist, and their values are found by      *)
(* induction on sets.                                                       *)
(***************************************************************************)
EXTENDS Library, SequenceTheorems, WellFoundedInduction, TLAPS

-----------------------------------------------------------------------------
\* The least element of a set of natural numbers, the least and the greatest of
\* a set of integers that has one.
LEMMA MinOfNat ==
  ASSUME NEW S \in SUBSET Nat, S # {}
  PROVE  Min(S) \in S /\ \A k \in S : Min(S) <= k
<1>1. \E m \in S : \A k \in S : <<k, m>> \notin OpToRel(<, Nat)
  BY NatLessThanWellFounded, WFMin
<1>2. PICK m \in S : \A k \in S : ~(k < m)
  BY <1>1 DEF OpToRel
<1>3. \A k \in S : m <= k
  BY <1>2
<1> QED BY <1>3 DEF Min

LEMMA MinIs ==
  ASSUME NEW S \in SUBSET Int, NEW m \in S, \A k \in S : m <= k
  PROVE  Min(S) = m
<1>1. \A x \in S : (\A y \in S : x <= y) => x = m
  OBVIOUS
<1> QED BY <1>1 DEF Min

LEMMA MaxIs ==
  ASSUME NEW S \in SUBSET Int, NEW m \in S, \A k \in S : k <= m
  PROVE  Max(S) = m
<1>1. \A x \in S : (\A y \in S : x >= y) => x = m
  OBVIOUS
<1>2. \A y \in S : m >= y
  OBVIOUS
<1> QED BY <1>1, <1>2 DEF Max

\* A set of natural numbers with a bound has a greatest element.
LEMMA MaxOfNat ==
  ASSUME NEW S \in SUBSET Nat, S # {}, NEW n \in Nat, \A k \in S : k <= n
  PROVE  Max(S) \in S /\ \A k \in S : k <= Max(S)
<1>1. PICK T : T = {k \in Nat : k <= n /\ n - k \in S}
  OBVIOUS
<1>2. T \in SUBSET Nat /\ T # {}
  <2>1. PICK x \in S : TRUE
    OBVIOUS
  <2>2. PICK y \in Nat : y = x
    BY <2>1
  <2>3. n - y \in Nat /\ n - y <= n /\ n - (n - y) = y
    BY <2>1, <2>2
  <2>4. n - y \in T
    BY <1>1, <2>1, <2>2, <2>3
  <2> QED BY <1>1, <2>4
<1>3. PICK m \in T : \A k \in T : m <= k
  BY <1>2, MinOfNat
<1>4. n - m \in S
  BY <1>1, <1>3
<1>5. \A k \in S : k <= n - m
  <2> TAKE k \in S
  <2>1. n - k \in Nat /\ n - k <= n /\ n - (n - k) = k
    OBVIOUS
  <2>2. n - k \in T
    BY <1>1, <2>1
  <2>3. m <= n - k /\ m \in Nat
    BY <1>2, <1>3, <2>2
  <2> QED BY <2>3
<1>6. Max(S) = n - m
  <2>1. PICK x : x = n - m
    OBVIOUS
  <2>2. x \in S /\ \A k \in S : k <= x
    BY <1>4, <1>5, <2>1
  <2>3. S \in SUBSET Int
    OBVIOUS
  <2> QED BY ONLY <2>1, <2>2, <2>3, MaxIs
<1> QED BY <1>4, <1>5, <1>6

-----------------------------------------------------------------------------
\* Induction on the numbers a function gives the elements of a set.
LEMMA MeasureInduction ==
  ASSUME NEW D, NEW w \in [D -> Nat], NEW S,
         \A n \in D : (\A m \in D : w[m] < w[n] => m \in S) => n \in S
  PROVE  D \subseteq S
<1> SUFFICES ASSUME NEW x \in D, x \notin S PROVE FALSE
  OBVIOUS
<1>1. PICK W : W = {w[n] : n \in D \ S}
  OBVIOUS
<1>2. W \in SUBSET Nat /\ W # {}
  BY <1>1
<1>3. PICK m \in W : \A k \in W : m <= k
  BY <1>2, MinOfNat
<1>4. PICK n \in D \ S : w[n] = m
  BY <1>1, <1>3
<1>5. \A k \in D : w[k] < w[n] => k \in S
  <2> SUFFICES ASSUME NEW k \in D, w[k] < w[n], k \notin S PROVE FALSE
    OBVIOUS
  <2>1. w[k] \in W
    BY <1>1
  <2> QED BY <1>2, <1>3, <1>4, <2>1
<1> QED BY <1>4, <1>5

\* Induction over the natural numbers, for a set of them.
LEMMA SetInduction ==
  ASSUME NEW S, 0 \in S, \A k \in Nat : k \in S => k + 1 \in S
  PROVE  \A k \in Nat : k \in S
<1>1. PICK w : w = [n \in Nat |-> n]
  OBVIOUS
<1>2. w \in [Nat -> Nat] /\ \A n \in Nat : w[n] = n
  BY <1>1
<1>3. \A n \in Nat : (\A m \in Nat : w[m] < w[n] => m \in S) => n \in S
  <2> SUFFICES ASSUME NEW n \in Nat, \A m \in Nat : w[m] < w[n] => m \in S PROVE n \in S
    OBVIOUS
  <2>1. CASE n = 0
    BY <2>1
  <2>2. CASE n # 0
    <3>1. n - 1 \in Nat /\ n - 1 < n /\ (n - 1) + 1 = n
      BY <2>2
    <3>2. n - 1 \in S
      BY <1>2, <3>1
    <3> QED BY <3>1, <3>2
  <2> QED BY <2>1, <2>2
<1>4. Nat \subseteq S
  BY ONLY <1>2, <1>3, MeasureInduction
<1> QED BY <1>4

\* A function that is defined from its value at one other element, of lower
\* measure w, exists: q is that element, b the value where there is none (Z).
Unfolds(f, D, Z, q, b, G) == \A n \in D : f[n] = IF n \in Z THEN b[n] ELSE G[<<f[q[n]], n>>]
Descends(D, Z, q, w) == w \in [D -> Nat] /\ \A n \in D \ Z : q[n] \in D /\ w[q[n]] < w[n]
LEMMA Recursion ==
  ASSUME NEW D, NEW V, NEW Z, NEW q, NEW w, Descends(D, Z, q, w),
         NEW b \in [D -> V], NEW G \in [V \X D -> V]
  PROVE  \E f \in [D -> V] : Unfolds(f, D, Z, q, b, G)
<1> DEFINE Below(k) == {n \in D : w[n] < k}
           Good(f, k) == f \in [Below(k) -> V] /\ Unfolds(f, Below(k), Z, q, b, G)
           A == {k \in Nat : \E f : Good(f, k)}
<1>0. /\ w \in [D -> Nat]
      /\ \A n \in D \ Z : q[n] \in D /\ w[q[n]] < w[n]
  BY DEF Descends
<1>1. \A k \in Nat, n \in D \ Z : n \in Below(k) => q[n] \in Below(k)
  <2> TAKE k \in Nat, n \in D \ Z
  <2>1. q[n] \in D /\ w[q[n]] \in Nat /\ w[n] \in Nat /\ w[q[n]] < w[n]
    BY <1>0
  <2> QED BY <2>1
<1>2. \A k, l \in Nat : \A f, g : (k <= l /\ Good(f, k) /\ Good(g, l)) =>
         \A n \in Below(k) : f[n] = g[n]
  <2> HIDE DEF Below, Good
  <2> SUFFICES ASSUME NEW k \in Nat, NEW l \in Nat, NEW f, NEW g, k <= l, Good(f, k), Good(g, l)
               PROVE  \A n \in Below(k) : f[n] = g[n]
    OBVIOUS
  <2>1. PICK S : S = {n \in Below(k) : f[n] = g[n]}
    OBVIOUS
  <2> USE DEF Below, Good
  <2>2. PICK B : B = Below(k)
    OBVIOUS
  <2>3. PICK v : v = [n \in B |-> w[n]]
    OBVIOUS
  <2>4. v \in [B -> Nat] /\ \A n \in B : n \in D /\ v[n] = w[n]
    BY <1>0, <2>2, <2>3
  <2>5. \A n \in B : (\A m \in B : v[m] < v[n] => m \in S) => n \in S
    <3> SUFFICES ASSUME NEW n \in B, \A m \in B : v[m] < v[n] => m \in S PROVE n \in S
      OBVIOUS
    <3>1. n \in D /\ w[n] \in Nat /\ w[n] < k /\ w[n] < l
      BY <1>0, <2>2
    <3>2. n \in Below(k) /\ n \in Below(l)
      BY <3>1
    <3>3. /\ f[n] = IF n \in Z THEN b[n] ELSE G[<<f[q[n]], n>>]
          /\ g[n] = IF n \in Z THEN b[n] ELSE G[<<g[q[n]], n>>]
      BY <3>2 DEF Unfolds
    <3>4. CASE n \in Z
      BY <2>1, <3>2, <3>3, <3>4
    <3>5. CASE n \notin Z
      <4>1. q[n] \in B /\ w[q[n]] < w[n]
        BY <1>0, <1>1, <2>2, <3>1, <3>2, <3>5
      <4>2. q[n] \in S
        BY <2>4, <4>1
      <4>3. f[q[n]] = g[q[n]]
        BY <2>1, <4>2
      <4> QED BY <2>1, <3>2, <3>3, <3>5, <4>3
    <3> QED BY <3>4, <3>5
  <2>6. B \subseteq S
    BY ONLY <2>4, <2>5, MeasureInduction
  <2> QED BY <2>1, <2>2, <2>6
<1>3. \A k \in Nat : k \in A
  <2>1. 0 \in A
    <3>1. Below(0) = {}
      BY <1>0
    <3>2. Good([n \in {} |-> n], 0)
      BY <3>1 DEF Unfolds
    <3> QED BY <3>2
  <2>2. ASSUME NEW k \in Nat, k \in A PROVE k + 1 \in A
    <3>1. PICK f : Good(f, k)
      BY <2>2
    <3>2. PICK g : g = [n \in Below(k + 1) |-> IF n \in Z THEN b[n] ELSE G[<<f[q[n]], n>>]]
      OBVIOUS
    <3>3. \A n \in Below(k + 1) : n \in D /\ (n \notin Z => q[n] \in Below(k))
      <4> TAKE n \in Below(k + 1)
      <4>1. n \in D /\ w[n] \in Nat /\ w[n] < k + 1
        BY <1>0
      <4>2. n \notin Z => q[n] \in D /\ w[q[n]] \in Nat /\ w[q[n]] < w[n]
        BY <1>0, <4>1
      <4> QED BY <4>1, <4>2
    <3>4. \A n \in Below(k + 1) : g[n] \in V
      <4> TAKE n \in Below(k + 1)
      <4>1. CASE n \in Z
        BY <3>2, <3>3, <4>1
      <4>2. CASE n \notin Z
        <5>1. f[q[n]] \in V
          BY <3>1, <3>3, <4>2
        <5> QED BY <3>2, <3>3, <4>2, <5>1
      <4> QED BY <4>1, <4>2
    <3>5. \A n \in Below(k) : f[n] = g[n]
      <4> TAKE n \in Below(k)
      <4>1. n \in Below(k + 1)
        BY <1>0
      <4> QED BY <3>1, <3>2, <4>1 DEF Unfolds
    <3>6. Unfolds(g, Below(k + 1), Z, q, b, G)
      BY <3>2, <3>3, <3>5 DEF Unfolds
    <3>7. g \in [Below(k + 1) -> V]
      <4> HIDE DEF Below, Good
      <4> QED BY <3>2, <3>4
    <3>8. Good(g, k + 1)
      BY <3>6, <3>7
    <3>9. k + 1 \in Nat
      OBVIOUS
    <3> HIDE DEF Good
    <3> QED BY <3>8, <3>9
  <2> HIDE DEF A
  <2> QED BY <2>1, <2>2, SetInduction
<1>4. PICK h : h = [k \in Nat |-> CHOOSE f : Good(f, k)]
  OBVIOUS
<1>5. \A k \in Nat : Good(h[k], k)
  BY <1>3, <1>4
<1>6. PICK f : f = [n \in D |-> h[w[n] + 1][n]]
  OBVIOUS
<1>7. \A n \in D : w[n] + 1 \in Nat /\ n \in Below(w[n] + 1)
  BY <1>0
<1>8. f \in [D -> V]
  <2> HIDE DEF Below
  <2> QED BY <1>5, <1>6, <1>7
<1>9. \A n \in D : n \notin Z => f[q[n]] = h[w[n] + 1][q[n]]
  <2> SUFFICES ASSUME NEW n \in D, n \notin Z PROVE f[q[n]] = h[w[n] + 1][q[n]]
    OBVIOUS
  <2>1. q[n] \in D /\ w[q[n]] \in Nat /\ w[n] \in Nat /\ w[q[n]] < w[n]
    BY <1>0
  <2>2. /\ w[q[n]] + 1 \in Nat /\ w[n] + 1 \in Nat /\ w[q[n]] + 1 <= w[n] + 1
        /\ q[n] \in Below(w[q[n]] + 1)
    BY <2>1
  <2>3. Good(h[w[q[n]] + 1], w[q[n]] + 1) /\ Good(h[w[n] + 1], w[n] + 1)
    BY <1>5, <2>2
  <2>4. f[q[n]] = h[w[q[n]] + 1][q[n]]
    BY <1>6, <2>1
  <2> HIDE DEF Below, Good
  <2> QED BY <1>2, <2>2, <2>3, <2>4
<1>10. Unfolds(f, D, Z, q, b, G)
  <2> SUFFICES ASSUME NEW n \in D PROVE f[n] = IF n \in Z THEN b[n] ELSE G[<<f[q[n]], n>>]
    BY DEF Unfolds
  <2>1. f[n] = h[w[n] + 1][n]
    BY <1>6
  <2>2. Unfolds(h[w[n] + 1], Below(w[n] + 1), Z, q, b, G)
    BY <1>5, <1>7
  <2>3. h[w[n] + 1][n] = IF n \in Z THEN b[n] ELSE G[<<h[w[n] + 1][q[n]], n>>]
    <3> HIDE DEF Below
    <3> QED BY <1>7, <2>2 DEF Unfolds
  <2> QED BY <1>9, <2>1, <2>3
<1> QED BY <1>8, <1>10

-----------------------------------------------------------------------------
\* The strings, and the characters behind their ends.
Texts == Seq(Chars)

LEMMA StrsAre ==
  ASSUME NEW n, n \in Int, NEW a \in Strs(n)
  PROVE  a \in Texts /\ Len(a) \in Nat /\ Len(a) <= n
<1>1. PICK m \in 0 .. n : a \in [1 .. m -> Chars]
  BY DEF Strs, BoundedSeq, SeqOf
<1>2. m \in Nat
  BY <1>1
<1> QED BY <1>1, <1>2, IsASeq DEF Texts

LEMMA AtIs ==
  ASSUME NEW a \in Texts, NEW i \in Nat
  PROVE  /\ i < Len(a) => At(a, i) = a[i + 1] /\ a[i + 1] \in Chars /\ At(a, i) # NUL
         /\ ~(i < Len(a)) => At(a, i) = NUL
         /\ At(a, i) \in Int
<1>1. Len(a) \in Nat /\ \A k \in 1 .. Len(a) : a[k] \in Chars
  BY DEF Texts
<1>2. NUL \in Int /\ \A c \in Chars : c \in Int /\ c # NUL
  BY LibraryAssumption DEF NUL
<1>3. CASE i < Len(a)
  <2>1. i + 1 \in 1 .. Len(a)
    BY <1>1, <1>3
  <2> QED BY <1>1, <1>2, <1>3, <2>1 DEF At
<1>4. CASE ~(i < Len(a))
  BY <1>2, <1>4 DEF At
<1> QED BY <1>3, <1>4

\* Texts with the same characters, and the same ends, are the same.
LEMMA SameText ==
  ASSUME NEW a \in Texts, NEW b \in Texts, Len(a) = Len(b),
         \A k \in Nat : k < Len(a) => At(a, k) = At(b, k)
  PROVE  a = b
<1>1. Len(a) \in Nat
  BY DEF Texts
<1>2. \A k \in 1 .. Len(a) : a[k] = b[k]
  <2> TAKE k \in 1 .. Len(a)
  <2>1. k - 1 \in Nat /\ k - 1 < Len(a) /\ (k - 1) + 1 = k
    BY <1>1
  <2> QED BY <2>1, AtIs
<1> QED BY <1>2, SeqEqual DEF Texts

-----------------------------------------------------------------------------
\* Where the loops of strcmp and strncmp stop.
LEMMA StopsAt ==
  ASSUME NEW a \in Texts, NEW b \in Texts, NEW n \in Int
  PROVE  /\ Differ(a, b, n) \in 0 .. Len(a)
         /\ ~GoesOn(a, b, Differ(a, b, n), n)
         /\ \A j \in Nat : j < Differ(a, b, n) => GoesOn(a, b, j, n)
         /\ \A j \in 0 .. Len(a) :
               (~GoesOn(a, b, j, n) /\ \A k \in Nat : k < j => GoesOn(a, b, k, n)) =>
                  j = Differ(a, b, n)
<1>1. PICK S : S = {i \in 0 .. Len(a) : ~GoesOn(a, b, i, n)}
  OBVIOUS
<1>2. Len(a) \in Nat
  BY DEF Texts
<1>3. Len(a) \in S
  <2>1. At(a, Len(a)) = NUL
    BY <1>2, AtIs
  <2> QED BY <1>1, <1>2, <2>1 DEF GoesOn
<1>4. S \in SUBSET Nat
  BY <1>1, <1>2
<1>5. PICK i : i = Differ(a, b, n)
  OBVIOUS
<1>6. i = Min(S)
  BY <1>1, <1>5 DEF Differ
<1>7. i \in S /\ \A k \in S : i <= k
  BY <1>3, <1>4, <1>6, MinOfNat
<1>8. i \in 0 .. Len(a) /\ ~GoesOn(a, b, i, n)
  BY <1>1, <1>7
<1>9. \A j \in Nat : j < i => GoesOn(a, b, j, n)
  BY <1>1, <1>2, <1>7, <1>8
<1>10. \A j \in 0 .. Len(a) :
          (~GoesOn(a, b, j, n) /\ \A k \in Nat : k < j => GoesOn(a, b, k, n)) => j = i
  <2> SUFFICES ASSUME NEW j \in 0 .. Len(a), ~GoesOn(a, b, j, n),
                      \A k \in Nat : k < j => GoesOn(a, b, k, n)
               PROVE  j = i
    OBVIOUS
  <2>1. j \in S /\ i <= j /\ i \in Nat /\ j \in Nat
    BY <1>1, <1>2, <1>7, <1>8
  <2>2. ~(i < j)
    BY <1>8, <2>1
  <2> QED BY <2>1, <2>2
<1> QED BY <1>5, <1>8, <1>9, <1>10

\* They say 0 when both strings end where they stop.
LEMMA CompareZero ==
  ASSUME NEW a \in Texts, NEW b \in Texts, NEW n \in Int, Compare(a, b, n) = 0
  PROVE  a = b
<1>0. Len(a) \in Nat
  BY DEF Texts
<1>1. PICK i \in Nat : i = Differ(a, b, n) /\ i <= Len(a)
  BY <1>0, StopsAt
<1>2. ~GoesOn(a, b, i, n) /\ \A j \in Nat : j < i => GoesOn(a, b, j, n)
  BY <1>1, StopsAt
<1>3. PICK x \in Int, y \in Int : x = At(a, i) /\ y = At(b, i)
  BY <1>1, AtIs
<1>4. Compare(a, b, n) = IF x # NUL /\ y # NUL /\ n # i THEN x - y
                         ELSE IF x # NUL \/ y # NUL THEN 1 ELSE 0
  BY <1>1, <1>3 DEF Compare
<1>5. x # NUL /\ y # NUL /\ n # i => x # y
  BY <1>2, <1>3 DEF GoesOn
<1>6. x = NUL /\ y = NUL
  BY <1>3, <1>4, <1>5
<1>7. Len(a) = i /\ Len(b) = i
  <2>1. Len(a) \in Nat /\ Len(b) \in Nat
    BY DEF Texts
  <2>2. ~(i < Len(a)) /\ ~(i < Len(b))
    BY <1>3, <1>6, AtIs
  <2>3. ~(Len(b) < i)
    <3> SUFFICES ASSUME Len(b) < i PROVE FALSE
      OBVIOUS
    <3>1. At(b, Len(b)) # NUL
      BY <1>2, <2>1 DEF GoesOn
    <3> QED BY <2>1, <3>1, AtIs
  <2> QED BY <1>1, <2>1, <2>2, <2>3
<1>8. \A k \in Nat : k < Len(a) => At(a, k) = At(b, k)
  BY <1>2, <1>7 DEF GoesOn
<1> QED BY <1>7, <1>8, SameText

LEMMA CompareSame ==
  ASSUME NEW a \in Texts
  PROVE  strcmp(a, a) = 0
<1>1. PICK i \in Nat : i = Differ(a, a, -1)
  BY StopsAt DEF Texts
<1>2. ~GoesOn(a, a, i, -1)
  BY <1>1, StopsAt
<1>3. At(a, i) = NUL
  BY <1>1, <1>2 DEF GoesOn
<1> QED BY <1>1, <1>3 DEF strcmp, Compare

\* The sign is that of the first difference.
LEMMA CompareSign ==
  ASSUME NEW a \in Texts, NEW b \in Texts, NEW i \in Nat, i < Len(a), i < Len(b),
         \A j \in 0 .. i - 1 : At(a, j) = At(b, j), At(a, i) # At(b, i)
  PROVE  (strcmp(a, b) < 0) = (At(a, i) < At(b, i))
<1>1. Len(a) \in Nat /\ Len(b) \in Nat
  BY DEF Texts
<1>2. \A k \in Nat : k < i => GoesOn(a, b, k, -1)
  <2> SUFFICES ASSUME NEW k \in Nat, k < i PROVE GoesOn(a, b, k, -1)
    OBVIOUS
  <2>1. k < Len(a) /\ k < Len(b) /\ k \in 0 .. i - 1 /\ k # -1
    BY <1>1
  <2>2. At(a, k) # NUL /\ At(b, k) # NUL
    BY <2>1, AtIs
  <2> QED BY <2>1, <2>2 DEF GoesOn
<1>3. ~GoesOn(a, b, i, -1)
  BY DEF GoesOn
<1>4. i = Differ(a, b, -1)
  <2>1. i \in 0 .. Len(a) /\ -1 \in Int
    BY <1>1
  <2> QED BY <1>2, <1>3, <2>1, StopsAt
<1>5. PICK x \in Int, y \in Int : x = At(a, i) /\ y = At(b, i) /\ x # NUL /\ y # NUL
  BY AtIs
<1>6. strcmp(a, b) = x - y
  BY <1>4, <1>5 DEF strcmp, Compare
<1>7. (x - y < 0) <=> (x < y)
  OBVIOUS
<1> QED BY <1>5, <1>6, <1>7

-----------------------------------------------------------------------------
\* Every step that changes call starts a call or ends one.
Fns == {"none", "strncmp", "memmove", "strStr", "strchr", "strspn", "atoi", "printf", "scanf"}
Starts(fn) ==
  CASE fn = "strncmp" -> CallCompare
    [] fn = "memmove" -> CallMove
    [] fn = "strStr" -> CallFind
    [] fn = "strchr" -> CallChar
    [] fn = "strspn" -> CallSpan
    [] fn = "atoi" -> CallNumber
    [] OTHER -> TRUE
LEMMA Steps ==
  ASSUME [Next]_vars
  PROVE  \/ UNCHANGED <<call, result>>
         \/ call'.fn \in Fns /\ Starts(call'.fn)
<1>1. CASE UNCHANGED vars
  BY <1>1 DEF vars
<1>2. CASE Return
  BY <1>2 DEF Return, Fns, Starts
<1>3. CASE CallStrtokAgain \/ CallStrtok \/ Forget
  BY <1>3 DEF CallStrtokAgain, CallStrtok, Forget, Cut
<1>4. CASE CallCompare
  <2>1. call'.fn = "strncmp"
    BY <1>4 DEF CallCompare, Calls
  <2> QED BY <1>4, <2>1 DEF Fns, Starts
<1>5. CASE CallMove
  <2>1. call'.fn = "memmove"
    BY <1>5 DEF CallMove, Calls
  <2> QED BY <1>5, <2>1 DEF Fns, Starts
<1>6. CASE CallFind
  <2>1. call'.fn = "strStr"
    BY <1>6 DEF CallFind, Calls
  <2> QED BY <1>6, <2>1 DEF Fns, Starts
<1>7. CASE CallChar
  <2>1. call'.fn = "strchr"
    BY <1>7 DEF CallChar, Calls
  <2> QED BY <1>7, <2>1 DEF Fns, Starts
<1>8. CASE CallSpan
  <2>1. call'.fn = "strspn"
    BY <1>8 DEF CallSpan, Calls
  <2> QED BY <1>8, <2>1 DEF Fns, Starts
<1>9. CASE CallNumber
  <2>1. call'.fn = "atoi"
    BY <1>9 DEF CallNumber, Calls
  <2> QED BY <1>9, <2>1 DEF Fns, Starts
<1>10. CASE CallPrint
  <2>1. call'.fn = "printf"
    BY <1>10 DEF CallPrint, Calls
  <2> QED BY <2>1 DEF Fns, Starts
<1>11. CASE CallScan
  <2>1. call'.fn = "scanf"
    BY <1>11 DEF CallScan, Calls
  <2> QED BY <2>1 DEF Fns, Starts
<1> QED BY <1>1, <1>2, <1>3, <1>4, <1>5, <1>6, <1>7, <1>8, <1>9, <1>10, <1>11 DEF Next

\* What CompareOrders says of one call.
Orders(a, b, n, all, first) ==
  /\ (all = 0) = (a = b)
  /\ first = 0 => \A i \in 0 .. n - 1 : At(a, i) = At(b, i)
  /\ \A i \in 0 .. Len(a) - 1 :
        (/\ i < Len(b)
         /\ \A j \in 0 .. i - 1 : At(a, j) = At(b, j)
         /\ At(a, i) # At(b, i)) =>
            (all < 0) = (At(a, i) < At(b, i))

\* strcmp and strncmp, for strings of any length over any characters.
THEOREM CompareRight == Spec => []CompareOrders
<1>1. Init => CompareOrders
  BY DEF Init, CompareOrders
<1>2. CompareOrders /\ [Next]_vars => CompareOrders'
  <2> SUFFICES ASSUME CompareOrders, [Next]_vars PROVE CompareOrders'
    OBVIOUS
  <2>1. CASE UNCHANGED <<call, result>>
    BY <2>1 DEF CompareOrders
  <2>2. CASE call'.fn = "strncmp" /\ Starts(call'.fn)
    <3>1. PICK a \in Strs(MaxLen), b \in Strs(MaxLen), n \in 0 .. MaxLen :
             /\ call' = [fn |-> "strncmp", a |-> a, b |-> b, n |-> n]
             /\ result' = [all |-> strcmp(a, b), first |-> strncmp(a, b, n)]
      BY <2>2 DEF Starts, CallCompare, Calls
    <3>2. a \in Texts /\ b \in Texts /\ n \in Int /\ n \in Nat /\ Len(a) \in Nat
      BY StrsAre, LibraryAssumption
    <3>3. (strcmp(a, b) = 0) <=> (a = b)
      BY <3>2, CompareZero, CompareSame DEF strcmp
    <3>4. strncmp(a, b, n) = 0 => \A i \in 0 .. n - 1 : At(a, i) = At(b, i)
      BY <3>2, CompareZero DEF strncmp
    <3>5. \A i \in 0 .. Len(a) - 1 :
            (/\ i < Len(b)
             /\ \A j \in 0 .. i - 1 : At(a, j) = At(b, j)
             /\ At(a, i) # At(b, i)) =>
                (strcmp(a, b) < 0) = (At(a, i) < At(b, i))
      <4> TAKE i \in 0 .. Len(a) - 1
      <4>1. i \in Nat /\ i < Len(a)
        BY <3>2
      <4> QED BY <3>2, <4>1, CompareSign
    <3>6. /\ call'.a = a /\ call'.b = b /\ call'.n = n
          /\ result'.all = strcmp(a, b) /\ result'.first = strncmp(a, b, n)
      BY <3>1
    <3>7. Orders(a, b, n, strcmp(a, b), strncmp(a, b, n))
      BY <3>3, <3>4, <3>5 DEF Orders
    <3>8. Orders(call'.a, call'.b, call'.n, result'.all, result'.first)
      BY ONLY <3>6, <3>7
    <3> QED BY ONLY <3>8 DEF CompareOrders, Orders
  <2>3. CASE call'.fn \in Fns \ {"strncmp"}
    BY <2>3 DEF CompareOrders, Fns
  <2> QED BY <2>1, <2>2, <2>3, Steps
<1> QED BY <1>1, <1>2, PTL DEF Spec

-----------------------------------------------------------------------------
\* strStr.  The first k characters of p are the last k of the first i of t.
Border(p, t, i, k) ==
  /\ k \in Nat /\ k <= Len(p) /\ k <= i
  /\ \A u \in 1 .. k : p[u] = t[i - k + u]
\* The longest border that is not longer than lim.
Longest(p, t, i, lim, j) ==
  Border(p, t, i, j) /\ j <= lim /\ \A k \in Nat : Border(p, t, i, k) /\ k <= lim => k <= j

\* A border of a border, and what two borders share.
LEMMA BorderOfBorder ==
  ASSUME NEW p \in Texts, NEW t \in Texts, NEW i \in Nat, NEW j \in Nat, NEW k \in Nat,
         Border(p, t, i, j)
  PROVE  /\ Border(p, p, j, k) => Border(p, t, i, k)
         /\ Border(p, t, i, k) /\ k <= j => Border(p, p, j, k)
<1>1. j <= i /\ j <= Len(p) /\ Len(p) \in Nat
  BY DEF Border, Texts
<1>2. \A u \in 1 .. j : p[u] = t[i - j + u]
  BY DEF Border
<1>3. ASSUME k <= j
      PROVE  \A u \in 1 .. k : p[j - k + u] = t[i - k + u]
  <2> TAKE u \in 1 .. k
  <2>1. PICK v \in Int : v = j - k + u
    OBVIOUS
  <2>2. v \in 1 .. j /\ i - j + v = i - k + u
    BY <1>3, <2>1
  <2> QED BY <1>2, <2>1, <2>2
<1>4. ASSUME Border(p, p, j, k) PROVE Border(p, t, i, k)
  <2>1. k <= j /\ k <= i /\ k <= Len(p)
    BY <1>1, <1>4 DEF Border
  <2> QED BY <1>3, <1>4, <2>1 DEF Border
<1>5. ASSUME Border(p, t, i, k), k <= j PROVE Border(p, p, j, k)
  <2>1. k <= Len(p)
    BY <1>1, <1>5
  <2> QED BY <1>3, <1>5, <2>1 DEF Border
<1> QED BY <1>4, <1>5

\* One character more.
LEMMA BorderGrows ==
  ASSUME NEW p \in Texts, NEW t \in Texts, NEW i \in Nat, NEW k \in Nat, i < Len(t)
  PROVE  Border(p, t, i + 1, k + 1) <=> Border(p, t, i, k) /\ At(p, k) = t[i + 1]
<1>1. Len(p) \in Nat /\ Len(t) \in Nat
  BY DEF Texts
<1>2. At(t, i) = t[i + 1] /\ At(t, i) # NUL
  BY AtIs
<1>3. /\ k < Len(p) => At(p, k) = p[k + 1]
      /\ ~(k < Len(p)) => At(p, k) = NUL
  BY AtIs
<1>4. ASSUME Border(p, t, i + 1, k + 1) PROVE Border(p, t, i, k) /\ At(p, k) = t[i + 1]
  <2>1. k + 1 <= Len(p) /\ k + 1 <= i + 1
    BY <1>4 DEF Border
  <2>2. \A u \in 1 .. k + 1 : p[u] = t[(i + 1) - (k + 1) + u]
    BY <1>4 DEF Border
  <2>3. \A u \in 1 .. k : p[u] = t[i - k + u]
    <3> TAKE u \in 1 .. k
    <3>1. u \in 1 .. k + 1 /\ (i + 1) - (k + 1) + u = i - k + u
      OBVIOUS
    <3> QED BY <2>2, <3>1
  <2>4. k + 1 \in 1 .. k + 1 /\ (i + 1) - (k + 1) + (k + 1) = i + 1
    OBVIOUS
  <2>5. p[k + 1] = t[i + 1]
    BY <2>2, <2>4
  <2> QED BY <1>1, <1>3, <2>1, <2>3, <2>5 DEF Border
<1>5. ASSUME Border(p, t, i, k), At(p, k) = t[i + 1] PROVE Border(p, t, i + 1, k + 1)
  <2>1. k < Len(p) /\ p[k + 1] = t[i + 1] /\ k <= i
    BY <1>1, <1>2, <1>3, <1>5 DEF Border
  <2>2. \A u \in 1 .. k : p[u] = t[i - k + u]
    BY <1>5 DEF Border
  <2>3. \A u \in 1 .. k + 1 : p[u] = t[(i + 1) - (k + 1) + u]
    <3> TAKE u \in 1 .. k + 1
    <3>1. (i + 1) - (k + 1) + u = i - k + u
      OBVIOUS
    <3>2. CASE u = k + 1
      <4>1. i - k + u = i + 1
        BY <3>2
      <4> QED BY <2>1, <3>1, <3>2, <4>1
    <3>3. CASE u # k + 1
      <4>1. u \in 1 .. k
        BY <3>3
      <4> QED BY <2>2, <3>1, <4>1
    <3> QED BY <3>2, <3>3
  <2> QED BY <1>1, <2>1, <2>3 DEF Border
<1> QED BY <1>4, <1>5

\* The inner loop of strStr: the longest border of the first j characters of the
\* needle that goes on with c, if there is one, and 0 otherwise.
Falls(p, j, c, r) ==
  /\ Border(p, p, j, r)
  /\ r = 0 \/ At(p, r) = c
  /\ \A k \in Nat : Border(p, p, j, k) /\ At(p, k) = c => k <= r
\* next is right as far as n.
NextRight(p, next, n) == \A k \in 1 .. n : Longest(p, p, k, k - 1, next[k])

FallIs(f, p, next, j, c) ==
  f = [k \in 0 .. j |-> IF k > 0 /\ At(p, k) # c THEN f[next[k]] ELSE k]
LEMMA FallExists ==
  ASSUME NEW p \in Texts, NEW next, NEW j \in Nat, NEW c, NextRight(p, next, j)
  PROVE  \E f : FallIs(f, p, next, j, c)
<1>1. PICK D : D = 0 .. j
  OBVIOUS
<1>2. PICK Z : Z = {k \in D : ~(k > 0 /\ At(p, k) # c)}
  OBVIOUS
<1>3. PICK q : q = next
  OBVIOUS
<1>4. PICK w : w = [k \in D |-> k]
  OBVIOUS
<1>5. Descends(D, Z, q, w)
  <2>1. w \in [D -> Nat]
    BY <1>1, <1>4
  <2>2. \A n \in D \ Z : q[n] \in D /\ w[q[n]] < w[n]
    <3> TAKE n \in D \ Z
    <3>1. n \in 1 .. j
      BY <1>1, <1>2
    <3>2. next[n] \in Nat /\ next[n] <= n - 1
      BY <3>1 DEF NextRight, Longest, Border
    <3> QED BY <1>1, <1>3, <1>4, <3>1, <3>2
  <2> QED BY <2>1, <2>2 DEF Descends
<1>6. PICK G : G = [x \in Nat \X D |-> x[1]]
  OBVIOUS
<1>7. G \in [Nat \X D -> Nat] /\ \A v \in Nat, n \in D : G[<<v, n>>] = v
  BY <1>6
<1>8. w \in [D -> Nat]
  BY <1>1, <1>4
<1>9. PICK f \in [D -> Nat] : Unfolds(f, D, Z, q, w, G)
  BY ONLY <1>5, <1>7, <1>8, Recursion
<1>10. \A k \in D : f[k] = IF k > 0 /\ At(p, k) # c THEN f[next[k]] ELSE k
  <2> TAKE k \in D
  <2>1. f[k] = IF k \in Z THEN w[k] ELSE G[<<f[q[k]], k>>]
    BY <1>9 DEF Unfolds
  <2>2. CASE k \in Z
    BY <1>2, <1>4, <2>1, <2>2
  <2>3. CASE k \notin Z
    <3>1. f[q[k]] \in Nat
      BY <1>5, <1>9, <2>3 DEF Descends
    <3> QED BY <1>2, <1>3, <1>7, <2>1, <2>3, <3>1
  <2> QED BY <2>2, <2>3
<1> QED BY <1>1, <1>9, <1>10 DEF FallIs

LEMMA FallRight ==
  ASSUME NEW p \in Texts, NEW next, NEW j \in Nat, NEW c \in Chars,
         j <= Len(p), NextRight(p, next, j)
  PROVE  Falls(p, j, c, Fall(p, next, j, c))
<1>1. PICK f : f = CHOOSE g : FallIs(g, p, next, j, c)
  OBVIOUS
<1>2. Fall(p, next, j, c) = f[j]
  BY <1>1 DEF Fall, FallIs
<1>3. FallIs(f, p, next, j, c)
  <2>1. \E g : FallIs(g, p, next, j, c)
    BY FallExists
  <2> QED BY <1>1, <2>1
<1>4. \A k \in 0 .. j : f[k] = IF k > 0 /\ At(p, k) # c THEN f[next[k]] ELSE k
  BY ONLY <1>3 DEF FallIs
<1>5. PICK S : S = {k \in 0 .. j : Falls(p, k, c, f[k])}
  OBVIOUS
<1>6. PICK D : D = 0 .. j
  OBVIOUS
<1>7. PICK w : w = [k \in D |-> k]
  OBVIOUS
<1>8. w \in [D -> Nat] /\ \A k \in D : w[k] = k
  BY <1>6, <1>7
<1>9. \A n \in D : (\A m \in D : w[m] < w[n] => m \in S) => n \in S
  <2> SUFFICES ASSUME NEW n \in D, \A m \in D : w[m] < w[n] => m \in S PROVE Falls(p, n, c, f[n])
    BY <1>5, <1>6
  <2>1. n \in Nat /\ n <= j /\ n <= Len(p) /\ Len(p) \in Nat
    BY <1>6 DEF Texts
  <2>2. CASE ~(n > 0 /\ At(p, n) # c)
    <3>1. f[n] = n
      BY <1>4, <1>6, <2>2
    <3>2. Border(p, p, n, n)
      <4>1. \A u \in 1 .. n : n - n + u = u
        BY <2>1
      <4> QED BY <2>1, <4>1 DEF Border
    <3>3. n = 0 \/ At(p, n) = c
      BY <2>1, <2>2
    <3>4. \A k \in Nat : Border(p, p, n, k) => k <= n
      BY DEF Border
    <3> QED BY <3>1, <3>2, <3>3, <3>4 DEF Falls
  <2>3. CASE n > 0 /\ At(p, n) # c
    <3>1. n \in 1 .. j
      BY <2>1, <2>3
    <3>2. PICK b : b = next[n]
      OBVIOUS
    <3>3. Longest(p, p, n, n - 1, b)
      BY <3>1, <3>2 DEF NextRight
    <3>4. b \in Nat /\ b <= n - 1 /\ Border(p, p, n, b)
      BY <3>3 DEF Longest, Border
    <3>5. b \in D /\ b < n
      BY <1>6, <2>1, <3>4
    <3>6. Falls(p, b, c, f[b])
      BY <1>5, <1>8, <3>5
    <3>7. f[n] = f[b]
      BY <1>4, <1>6, <2>3, <3>2
    <3>8. PICK r \in Nat : r = f[b]
      BY <3>6 DEF Falls, Border
    <3>9. Border(p, p, n, r)
      BY <2>1, <3>4, <3>6, <3>8, BorderOfBorder DEF Falls
    <3>10. \A k \in Nat : Border(p, p, n, k) /\ At(p, k) = c => k <= r
      <4> SUFFICES ASSUME NEW k \in Nat, Border(p, p, n, k), At(p, k) = c PROVE k <= r
        OBVIOUS
      <4>1. k # n /\ k <= n
        BY <2>3 DEF Border
      <4>2. k <= n - 1
        BY <2>1, <4>1
      <4>3. k <= b
        BY <3>3, <4>2 DEF Longest
      <4>4. Border(p, p, b, k)
        BY <2>1, <3>4, <4>3, BorderOfBorder
      <4> QED BY <3>6, <3>8, <4>4 DEF Falls
    <3> QED BY <3>6, <3>7, <3>8, <3>9, <3>10 DEF Falls
  <2> QED BY <2>2, <2>3
<1>10. D \subseteq S
  BY ONLY <1>8, <1>9, MeasureInduction
<1> QED BY <1>2, <1>5, <1>6, <1>10

\* One round of either loop of strStr: the longest border goes on.
LEMMA AdvanceRight ==
  ASSUME NEW p \in Texts, NEW t \in Texts, NEW next, NEW i \in Nat, i < Len(t),
         NEW lim \in Nat, NEW j, Longest(p, t, i, lim, j), NextRight(p, next, j)
  PROVE  Longest(p, t, i + 1, lim + 1, Advance(p, next, j, t[i + 1]))
<1>1. PICK c \in Chars : c = t[i + 1] /\ c # NUL
  BY AtIs
<1>2. j \in Nat /\ j <= Len(p) /\ Border(p, t, i, j) /\ j <= lim
  BY DEF Longest, Border
<1>3. PICK r : r = Fall(p, next, j, c)
  OBVIOUS
<1>4. Falls(p, j, c, r)
  BY <1>2, <1>3, FallRight
<1>5. r \in Nat /\ r <= j /\ Border(p, p, j, r)
  BY <1>4 DEF Falls, Border
<1>6. Border(p, t, i, r)
  BY <1>2, <1>5, BorderOfBorder
<1>7. \A k \in Nat : Border(p, t, i + 1, k + 1) /\ k + 1 <= lim + 1 => At(p, k) = c /\ k <= r
  <2> SUFFICES ASSUME NEW k \in Nat, Border(p, t, i + 1, k + 1), k + 1 <= lim + 1
               PROVE  At(p, k) = c /\ k <= r
    OBVIOUS
  <2>0. Border(p, t, i + 1, k + 1) <=> Border(p, t, i, k) /\ At(p, k) = t[i + 1]
    BY BorderGrows
  <2>1. Border(p, t, i, k) /\ At(p, k) = c
    BY <1>1, <2>0
  <2>2. k <= lim
    OBVIOUS
  <2>3. k <= j
    BY <2>1, <2>2 DEF Longest
  <2>4. Border(p, p, j, k)
    BY <1>2, <2>1, <2>3, BorderOfBorder
  <2> QED BY <1>4, <2>1, <2>4 DEF Falls
<1>8. PICK a : a = Advance(p, next, j, c)
  OBVIOUS
<1>9. a = IF At(p, r) = c THEN r + 1 ELSE r
  BY <1>3, <1>8 DEF Advance
<1>10. CASE At(p, r) = c
  <2>1. a = r + 1 /\ r + 1 \in Nat
    BY <1>5, <1>9, <1>10
  <2>2. Border(p, t, i + 1, r + 1)
    BY <1>1, <1>5, <1>6, <1>10, BorderGrows
  <2>3. r + 1 <= lim + 1
    BY <1>2, <1>5
  <2>4. \A k \in Nat : Border(p, t, i + 1, k) /\ k <= lim + 1 => k <= r + 1
    <3> SUFFICES ASSUME NEW k \in Nat, Border(p, t, i + 1, k), k <= lim + 1, k # 0 PROVE k <= r + 1
      BY <1>5
    <3>1. PICK m \in Nat : k = m + 1
      <4>1. k - 1 \in Nat /\ k = (k - 1) + 1
        OBVIOUS
      <4> QED BY <4>1
    <3>2. m <= r
      BY <1>7, <3>1
    <3> QED BY <1>5, <3>1, <3>2
  <2> QED BY <1>1, <1>8, <2>1, <2>2, <2>3, <2>4 DEF Longest
<1>11. CASE At(p, r) # c
  <2>1. r = 0 /\ a = 0
    BY <1>4, <1>9, <1>11 DEF Falls
  <2>2. Border(p, t, i + 1, 0)
    BY DEF Border, Texts
  <2>3. \A k \in Nat : Border(p, t, i + 1, k) /\ k <= lim + 1 => k <= 0
    <3> SUFFICES ASSUME NEW k \in Nat, Border(p, t, i + 1, k), k <= lim + 1, k # 0 PROVE FALSE
      OBVIOUS
    <3>1. PICK m \in Nat : k = m + 1
      <4>1. k - 1 \in Nat /\ k = (k - 1) + 1
        OBVIOUS
      <4> QED BY <4>1
    <3>2. At(p, m) = c /\ m <= r
      BY <1>7, <3>1
    <3> QED BY <1>11, <2>1, <3>2
  <2> QED BY <1>1, <1>8, <2>1, <2>2, <2>3 DEF Longest
<1> QED BY <1>10, <1>11

\* The table of strStr: next[k] is the longest border of the first k characters of
\* the needle that is shorter than they are.
BordersIs(f, p) ==
  f = [i \in 1 .. Len(p) |->
         IF i = 1 THEN <<0>>
         ELSE Append(f[i - 1], Advance(p, f[i - 1], Last(f[i - 1]), p[i]))]
\* A table for the first i characters.
Table(p, i, s) == s \in Seq(Nat) /\ Len(s) = i /\ NextRight(p, s, i)

LEMMA TableGrows ==
  ASSUME NEW p \in Texts, NEW i \in Nat, i # 0, i < Len(p), NEW s, Table(p, i, s)
  PROVE  Table(p, i + 1, Append(s, Advance(p, s, Last(s), p[i + 1])))
<1>1. PICK a : a = Advance(p, s, Last(s), p[i + 1])
  OBVIOUS
<1>2. s \in Seq(Nat) /\ Len(s) = i /\ i \in 1 .. i /\ \A k \in 1 .. i : Longest(p, p, k, k - 1, s[k])
  BY DEF Table, NextRight
<1>3. PICK j : j = Last(s)
  OBVIOUS
<1>4. j = s[i]
  BY <1>2, <1>3 DEF Last
<1>5. Longest(p, p, i, i - 1, j)
  BY <1>2, <1>4
<1>6. j \in Nat /\ j <= i - 1
  BY <1>5 DEF Longest, Border
<1>7. NextRight(p, s, j)
  <2>1. \A k \in 1 .. j : k \in 1 .. i
    BY <1>6
  <2> QED BY <1>2, <2>1 DEF NextRight
<1>8. PICK lim \in Nat : lim = i - 1 /\ lim + 1 = i
  <2>1. i - 1 \in Nat /\ (i - 1) + 1 = i
    OBVIOUS
  <2> QED BY <2>1
<1>9. Longest(p, p, i + 1, i, a)
  <2>1. Longest(p, p, i, lim, j)
    BY <1>5, <1>8
  <2>2. Longest(p, p, i + 1, lim + 1, Advance(p, s, j, p[i + 1]))
    BY <1>7, <2>1, AdvanceRight
  <2> QED BY <1>1, <1>3, <1>8, <2>2
<1>10. a \in Nat
  BY <1>9 DEF Longest, Border
<1>11. PICK u : u = Append(s, a)
  OBVIOUS
<1>12. u \in Seq(Nat) /\ Len(u) = i + 1 /\ u[i + 1] = a /\ \A k \in 1 .. i : u[k] = s[k]
  BY <1>2, <1>10, <1>11, AppendProperties
<1>13. \A k \in 1 .. i + 1 : Longest(p, p, k, k - 1, u[k])
  <2> TAKE k \in 1 .. i + 1
  <2>1. CASE k = i + 1
    <3>1. k - 1 = i
      BY <2>1
    <3> QED BY <1>9, <1>12, <2>1, <3>1
  <2>2. CASE k # i + 1
    <3>1. k \in 1 .. i
      BY <2>2
    <3> QED BY <1>2, <1>12, <3>1
  <2> QED BY <2>1, <2>2
<1>14. Table(p, i + 1, u)
  BY <1>12, <1>13 DEF Table, NextRight
<1> QED BY <1>1, <1>3, <1>11, <1>14

LEMMA FirstTable ==
  ASSUME NEW p \in Texts, Len(p) # 0
  PROVE  Table(p, 1, <<0>>)
<1>1. Border(p, p, 1, 0)
  BY DEF Border, Texts
<1>2. Longest(p, p, 1, 0, 0)
  BY <1>1 DEF Longest
<1>3. \A k \in 1 .. 1 : k = 1 /\ k - 1 = 0
  OBVIOUS
<1>4. <<0>> \in Seq(Nat) /\ Len(<<0>>) = 1 /\ <<0>>[1] = 0
  OBVIOUS
<1>5. NextRight(p, <<0>>, 1)
  BY <1>2, <1>3, <1>4 DEF NextRight
<1> QED BY <1>4, <1>5 DEF Table

\* The table exists: each of its values extends the one before.
LEMMA BordersExist ==
  ASSUME NEW p \in Texts, Len(p) # 0
  PROVE  \E f : BordersIs(f, p)
<1>1. PICK m \in Nat : m = Len(p) /\ m # 0
  BY DEF Texts
<1> DEFINE E(f, n) == f = [i \in 1 .. n |->
         IF i = 1 THEN <<0>>
         ELSE Append(f[i - 1], Advance(p, f[i - 1], Last(f[i - 1]), p[i]))]
           S == {n \in Nat : \E f : E(f, n)}
<1>2. 0 \in S
  <2>1. 1 .. 0 = {}
    OBVIOUS
  <2>2. E([i \in {} |-> i], 0)
    BY <2>1
  <2> QED BY <2>2
<1>3. ASSUME NEW n \in Nat, n \in S PROVE n + 1 \in S
  <2>1. PICK f : E(f, n)
    BY <1>3
  <2>2. PICK g : g = [i \in 1 .. n + 1 |-> IF i = n + 1
                        THEN IF i = 1 THEN <<0>>
                             ELSE Append(f[n], Advance(p, f[n], Last(f[n]), p[n + 1]))
                        ELSE f[i]]
    OBVIOUS
  <2>3. \A i \in 1 .. n + 1 : g[i] = IF i = 1 THEN <<0>>
              ELSE Append(g[i - 1], Advance(p, g[i - 1], Last(g[i - 1]), p[i]))
    <3>1. \A i \in 1 .. n : f[i] = IF i = 1 THEN <<0>>
              ELSE Append(f[i - 1], Advance(p, f[i - 1], Last(f[i - 1]), p[i]))
      BY <2>1
    <3>2. \A i \in 1 .. n : g[i] = f[i]
      BY <2>2
    <3>3. \A i \in 1 .. n : i # 1 => i - 1 \in 1 .. n
      OBVIOUS
    <3>4. g[n + 1] = IF n + 1 = 1 THEN <<0>>
                     ELSE Append(f[n], Advance(p, f[n], Last(f[n]), p[n + 1]))
      BY <2>2
    <3>5. n + 1 # 1 => n \in 1 .. n /\ (n + 1) - 1 = n
      OBVIOUS
    <3> TAKE i \in 1 .. n + 1
    <3>6. CASE i = n + 1
      BY <3>2, <3>4, <3>5, <3>6
    <3>7. CASE i # n + 1
      <4>1. i \in 1 .. n
        BY <3>7
      <4> QED BY <3>1, <3>2, <3>3, <4>1
    <3> QED BY <3>6, <3>7
  <2>4. E(g, n + 1)
    BY <2>2, <2>3
  <2>5. n + 1 \in Nat
    OBVIOUS
  <2> QED BY <2>4, <2>5
<1>4. \A n \in Nat : n \in S
  <2> HIDE DEF S
  <2> QED BY <1>2, <1>3, SetInduction
<1>5. PICK f : E(f, m)
  BY <1>1, <1>4
<1> QED BY <1>1, <1>5 DEF BordersIs

LEMMA BordersRight ==
  ASSUME NEW p \in Texts, Len(p) # 0
  PROVE  Table(p, Len(p), Borders(p))
<1>1. PICK f : f = CHOOSE g : BordersIs(g, p)
  OBVIOUS
<1>2. Borders(p) = f[Len(p)]
  BY <1>1 DEF Borders, BordersIs
<1>3. BordersIs(f, p)
  <2>1. \E g : BordersIs(g, p)
    BY BordersExist
  <2> QED BY <1>1, <2>1
<1>4. \A i \in 1 .. Len(p) : f[i] =
         IF i = 1 THEN <<0>>
         ELSE Append(f[i - 1], Advance(p, f[i - 1], Last(f[i - 1]), p[i]))
  BY ONLY <1>3 DEF BordersIs
<1>5. PICK m \in Nat : m = Len(p) /\ m # 0
  BY DEF Texts
<1>6. PICK S : S = {i \in Nat : i < m => Table(p, i + 1, f[i + 1])}
  OBVIOUS
<1>7. 0 \in S
  <2>1. 0 + 1 = 1 /\ 1 \in 1 .. Len(p)
    BY <1>5
  <2>2. f[1] = <<0>>
    BY <1>4, <2>1
  <2> QED BY <1>5, <1>6, <2>1, <2>2, FirstTable
<1>8. ASSUME NEW k \in Nat, k \in S PROVE k + 1 \in S
  <2> SUFFICES ASSUME k + 1 < m PROVE Table(p, (k + 1) + 1, f[(k + 1) + 1])
    BY <1>6
  <2>1. PICK i \in Nat : i = k + 1 /\ i # 0 /\ i < Len(p)
    BY <1>5
  <2>2. Table(p, i, f[i])
    BY <1>6, <1>8, <2>1
  <2>3. i + 1 \in 1 .. Len(p) /\ i + 1 # 1 /\ (i + 1) - 1 = i
    BY <1>5, <2>1
  <2>4. f[i + 1] = Append(f[i], Advance(p, f[i], Last(f[i]), p[i + 1]))
    BY <1>4, <2>3
  <2>5. Table(p, i + 1, f[i + 1])
    BY <2>1, <2>2, <2>4, TableGrows
  <2> QED BY <2>1, <2>5
<1>9. \A k \in Nat : k \in S
  BY ONLY <1>7, <1>8, SetInduction
<1>10. PICK k \in Nat : m = k + 1
  <2>1. m - 1 \in Nat /\ m = (m - 1) + 1
    BY <1>5
  <2> QED BY <2>1
<1>11. k < m
  BY <1>10
<1> QED BY <1>2, <1>5, <1>6, <1>9, <1>10, <1>11

\* The scan of strStr: matched[i] characters of the needle end at the first i of
\* the haystack, and no more.
MatchedIs(f, t, p, next) ==
  f = [i \in 0 .. Len(t) |-> IF i = 0 THEN 0 ELSE Advance(p, next, f[i - 1], t[i])]

LEMMA MatchedExists ==
  ASSUME NEW t \in Texts, NEW p, NEW next
  PROVE  \E f : MatchedIs(f, t, p, next)
<1>1. PICK m \in Nat : m = Len(t)
  BY DEF Texts
<1> DEFINE E(f, n) == f = [i \in 0 .. n |-> IF i = 0 THEN 0 ELSE Advance(p, next, f[i - 1], t[i])]
           S == {n \in Nat : \E f : E(f, n)}
<1>2. 0 \in S
  <2>1. E([i \in 0 .. 0 |-> 0], 0)
    OBVIOUS
  <2> QED BY <2>1
<1>3. ASSUME NEW n \in Nat, n \in S PROVE n + 1 \in S
  <2>1. PICK f : E(f, n)
    BY <1>3
  <2>2. PICK g : g = [i \in 0 .. n + 1 |-> IF i = n + 1 THEN Advance(p, next, f[n], t[n + 1])
                                           ELSE f[i]]
    OBVIOUS
  <2>3. \A i \in 0 .. n + 1 : g[i] = IF i = 0 THEN 0 ELSE Advance(p, next, g[i - 1], t[i])
    <3>1. \A i \in 0 .. n : f[i] = IF i = 0 THEN 0 ELSE Advance(p, next, f[i - 1], t[i])
      BY <2>1
    <3>2. (\A i \in 0 .. n : g[i] = f[i]) /\ g[n + 1] = Advance(p, next, f[n], t[n + 1])
      BY <2>2
    <3>3. \A i \in 0 .. n : i # 0 => i - 1 \in 0 .. n
      OBVIOUS
    <3>4. n + 1 # 0 /\ n \in 0 .. n /\ (n + 1) - 1 = n
      OBVIOUS
    <3> TAKE i \in 0 .. n + 1
    <3>5. CASE i = n + 1
      BY <3>2, <3>4, <3>5
    <3>6. CASE i # n + 1
      <4>1. i \in 0 .. n
        BY <3>6
      <4> QED BY <3>1, <3>2, <3>3, <4>1
    <3> QED BY <3>5, <3>6
  <2>4. E(g, n + 1)
    BY <2>2, <2>3
  <2>5. n + 1 \in Nat
    OBVIOUS
  <2> QED BY <2>4, <2>5
<1>4. \A n \in Nat : n \in S
  <2> HIDE DEF S
  <2> QED BY <1>2, <1>3, SetInduction
<1>5. PICK f : E(f, m)
  BY <1>1, <1>4
<1> QED BY <1>1, <1>5 DEF MatchedIs

LEMMA MatchedRight ==
  ASSUME NEW t \in Texts, NEW p \in Texts, NEW next, NextRight(p, next, Len(p)),
         NEW f, MatchedIs(f, t, p, next)
  PROVE  \A i \in 0 .. Len(t) : Longest(p, t, i, i, f[i])
<1>1. \A i \in 0 .. Len(t) : f[i] = IF i = 0 THEN 0 ELSE Advance(p, next, f[i - 1], t[i])
  BY ONLY MatchedIs(f, t, p, next) DEF MatchedIs
<1>2. PICK m \in Nat : m = Len(t)
  BY DEF Texts
<1>3. PICK S : S = {i \in Nat : i <= m => Longest(p, t, i, i, f[i])}
  OBVIOUS
<1>4. 0 \in S
  <2>1. f[0] = 0
    BY <1>1, <1>2
  <2>2. Border(p, t, 0, 0)
    BY DEF Border, Texts
  <2>3. Longest(p, t, 0, 0, 0)
    BY <2>2 DEF Longest
  <2> QED BY <1>3, <2>1, <2>3
<1>5. ASSUME NEW k \in Nat, k \in S PROVE k + 1 \in S
  <2> SUFFICES ASSUME k + 1 <= m PROVE Longest(p, t, k + 1, k + 1, f[k + 1])
    BY <1>3
  <2>1. k < Len(t) /\ k <= m /\ k + 1 \in 0 .. Len(t) /\ k + 1 # 0 /\ (k + 1) - 1 = k
    BY <1>2
  <2>2. f[k + 1] = Advance(p, next, f[k], t[k + 1])
    BY <1>1, <2>1
  <2>3. Longest(p, t, k, k, f[k])
    BY <1>3, <1>5, <2>1
  <2>4. NextRight(p, next, f[k])
    <3>1. PICK j \in Nat : j = f[k] /\ j <= Len(p)
      BY <2>3 DEF Longest, Border
    <3>2. \A u \in 1 .. j : u \in 1 .. Len(p)
      <4>1. Len(p) \in Nat
        BY DEF Texts
      <4> QED BY <3>1, <4>1
    <3> QED BY <3>1, <3>2 DEF NextRight
  <2> QED BY <2>1, <2>2, <2>3, <2>4, AdvanceRight
<1>6. \A k \in Nat : k \in S
  BY ONLY <1>4, <1>5, SetInduction
<1> QED BY <1>2, <1>3, <1>6

\* The needle stands at i when its last character is the i + Len(needle)th.
LEMMA OccursAt ==
  ASSUME NEW t \in Texts, NEW p \in Texts, NEW i \in Nat
  PROVE  Occurs(t, p, i) <=> i + Len(p) <= Len(t) /\ Border(p, t, i + Len(p), Len(p))
<1>1. PICK m \in Nat : m = Len(p)
  BY DEF Texts
<1>2. Len(t) \in Nat
  BY DEF Texts
<1>3. SUFFICES ASSUME i + m <= Len(t)
      PROVE  p = SubSeq(t, i + 1, i + m) <=> Border(p, t, i + m, m)
  BY <1>1 DEF Occurs
<1>4. PICK s : s = SubSeq(t, i + 1, i + m)
  OBVIOUS
<1>5. s \in Seq(Chars) /\ Len(s) = m /\ \A u \in 1 .. m : s[u] = t[i + u]
  <2>1. i + 1 \in 1 .. Len(t) + 1 /\ i + m \in i .. Len(t)
    BY <1>2, <1>3
  <2>2. \A u \in 1 .. m : (i + 1) + u - 1 = i + u
    OBVIOUS
  <2> QED BY <1>3, <1>4, <2>1, <2>2, SubSeqProperties DEF Texts
<1>6. p = s <=> \A u \in 1 .. m : p[u] = s[u]
  BY <1>1, <1>5, SeqEqual DEF Texts
<1>7. \A u \in 1 .. m : i + m - m + u = i + u
  OBVIOUS
<1>8. Border(p, t, i + m, m) <=> \A u \in 1 .. m : p[u] = t[i + u]
  BY <1>1, <1>7 DEF Border
<1> QED BY <1>4, <1>5, <1>6, <1>8

\* strStr finds the first place where the needle stands.
LEMMA StrStrRight ==
  ASSUME NEW t \in Texts, NEW p \in Texts
  PROVE  strStr(t, p) = Least({i \in 0 .. Len(t) : Occurs(t, p, i)})
<1>1. PICK m \in Nat, n \in Nat : m = Len(p) /\ n = Len(t)
  BY DEF Texts
<1>2. PICK P : P = {i \in 0 .. n : Occurs(t, p, i)}
  OBVIOUS
<1>3. CASE p = << >>
  <2>1. m = 0
    BY <1>1, <1>3
  <2>2. Border(p, t, 0, 0)
    BY DEF Border, Texts
  <2>3. Occurs(t, p, 0)
    <3>1. Occurs(t, p, 0) <=> 0 + m <= n /\ Border(p, t, 0 + m, m)
      BY <1>1, OccursAt
    <3>2. 0 + m = 0 /\ 0 <= n
      BY <2>1
    <3> QED BY <2>1, <2>2, <3>1, <3>2
  <2>4. 0 \in P /\ P \in SUBSET Int /\ \A i \in P : 0 <= i
    BY <1>1, <1>2, <2>3
  <2>5. Min(P) = 0
    BY ONLY <2>4, MinIs
  <2> QED BY <1>1, <1>2, <1>3, <2>4, <2>5 DEF strStr, Least
<1>4. CASE p # << >>
  <2>1. m # 0
    BY <1>1, <1>4 DEF Texts
  <2>2. PICK next : next = Borders(p)
    OBVIOUS
  <2>3. NextRight(p, next, Len(p))
    BY <1>1, <2>1, <2>2, BordersRight DEF Table
  <2> DEFINE f == CHOOSE g : MatchedIs(g, t, p, next)
             F == {i \in 1 .. Len(t) : f[i] = Len(p)}
  <2>4. Scan(t, p, next) = IF F = {} THEN -1 ELSE Min(F) - Len(p)
    BY DEF Scan, MatchedIs
  <2>5. MatchedIs(f, t, p, next)
    <3>1. \E g : MatchedIs(g, t, p, next)
      BY MatchedExists
    <3> QED BY <3>1
  <2> HIDE DEF f
  <2>6. \A i \in 0 .. n : Longest(p, t, i, i, f[i])
    BY <1>1, <2>3, <2>5, MatchedRight
  <2>7. F = {i \in 1 .. n : f[i] = m}
    BY <1>1
  <2> HIDE DEF F
  <2>8. strStr(t, p) = IF F = {} THEN -1 ELSE Min(F) - m
    BY <1>1, <1>4, <2>2, <2>4 DEF strStr
  <2>9. \A i \in 1 .. n : f[i] = m <=> Border(p, t, i, m)
    <3> TAKE i \in 1 .. n
    <3>1. Longest(p, t, i, i, f[i]) /\ i \in Nat
      BY <2>6
    <3>2. PICK j \in Nat : j = f[i] /\ j <= m /\ Border(p, t, i, j)
      BY <1>1, <3>1 DEF Longest, Border
    <3>3. Border(p, t, i, m) => m <= j
      BY <3>1, <3>2 DEF Longest, Border
    <3> QED BY <3>2, <3>3
  <2>10. \A i \in Nat : i \in P <=> i + m \in F
    <3> TAKE i \in Nat
    <3>1. i + m \in Nat /\ i + m # 0
      BY <2>1
    <3>2. Occurs(t, p, i) <=> i + m <= n /\ Border(p, t, i + m, m)
      BY <1>1, OccursAt
    <3>3. i + m \in 1 .. n => (f[i + m] = m <=> Border(p, t, i + m, m))
      BY <2>9
    <3> QED BY <1>2, <2>7, <3>1, <3>2, <3>3
  <2>11. \A k \in F : k - m \in Nat /\ (k - m) + m = k /\ k - m \in P
    <3> TAKE k \in F
    <3>1. k \in Nat /\ k \in 1 .. n /\ f[k] = m
      BY <2>7
    <3>2. Border(p, t, k, m)
      BY <2>9, <3>1
    <3>3. m <= k
      BY <3>2 DEF Border
    <3>4. k - m \in Nat /\ (k - m) + m = k
      BY <3>1, <3>3
    <3> QED BY <2>10, <3>4
  <2>12. P \in SUBSET Nat /\ F \in SUBSET Nat
    BY <1>1, <1>2, <2>7
  <2>13. CASE F = {}
    <3>1. P = {}
      BY <2>10, <2>12, <2>13
    <3> QED BY <1>1, <1>2, <2>8, <2>13, <3>1 DEF Least, NULL
  <2>14. CASE F # {}
    <3>1. PICK k \in F : k = Min(F) /\ \A x \in F : k <= x
      BY <2>12, <2>14, MinOfNat
    <3>2. PICK i \in Nat : i = k - m /\ i + m = k /\ i \in P
      BY <2>11, <3>1
    <3>3. \A x \in P : i <= x
      <4> TAKE x \in P
      <4>1. x \in Nat /\ x + m \in F
        BY <2>10, <2>12
      <4>2. k <= x + m /\ k \in Nat
        BY <2>12, <3>1, <4>1
      <4> QED BY <3>2, <4>1, <4>2
    <3>4. P \in SUBSET Int
      BY <2>12
    <3>5. Min(P) = i
      BY ONLY <3>2, <3>3, <3>4, MinIs
    <3> QED BY <1>1, <1>2, <2>8, <2>14, <3>1, <3>2, <3>5 DEF Least
  <2> QED BY <2>13, <2>14
<1> QED BY <1>3, <1>4

-----------------------------------------------------------------------------
\* strchr finds the first place of a character, strrchr the last one, the 0 at
\* the end being a character too.
Places(str, c) == {i \in 0 .. Len(str) : At(str, i) = c}

LEMMA StrchrRight ==
  ASSUME NEW str \in Texts, NEW c \in Chars \cup {NUL}, NEW before \in Chars
  PROVE  strchr(before, str, c) = Least(Places(str, c))
<1>1. PICK n \in Nat : n = Len(str)
  BY DEF Texts
<1>2. At(str, n) = NUL /\ \A i \in Nat : i < n => At(str, i) # NUL
  BY <1>1, AtIs
<1>3. PICK S : S = {i \in 0 .. n : At(str, i) \in {c, NUL}}
  OBVIOUS
<1>4. S \in SUBSET Nat /\ n \in S
  BY <1>1, <1>2, <1>3
<1>5. PICK stop \in S : stop = Min(S) /\ \A k \in S : stop <= k
  BY <1>4, MinOfNat
<1>6. stop \in Nat /\ stop <= n /\ \A i \in Nat : i < stop => At(str, i) # c /\ At(str, i) # NUL
  <2>1. stop \in Nat /\ stop <= n
    BY <1>1, <1>3, <1>5
  <2>2. ASSUME NEW i \in Nat, i < stop PROVE At(str, i) \notin {c, NUL}
    <3>1. i \in 0 .. n /\ ~(stop <= i)
      BY <2>1, <2>2
    <3>2. i \notin S
      BY <1>5, <3>1
    <3> QED BY <1>3, <3>1, <3>2
  <2> QED BY <2>1, <2>2
<1>7. before # NUL
  BY LibraryAssumption
<1>8. PICK P : P = Places(str, c)
  OBVIOUS
<1>9. \A i : i \in P <=> i \in 0 .. n /\ At(str, i) = c
  BY <1>1, <1>8 DEF Places
<1>10. CASE At(str, stop) = c
  <2>1. P \in SUBSET Int /\ stop \in P /\ \A k \in P : stop <= k
    BY <1>1, <1>6, <1>9, <1>10
  <2>2. Min(P) = stop
    BY ONLY <2>1, MinIs
  <2>3. PICK i \in Int : i = stop - 1 /\ i + 1 = stop
    BY <1>6
  <2>4. (IF i < 0 THEN before ELSE At(str, i)) # NUL
    BY <1>6, <1>7, <2>3
  <2>5. strchr(before, str, c) = i + 1
    BY <1>1, <1>3, <1>5, <1>10, <2>3, <2>4 DEF strchr
  <2> QED BY <1>8, <2>1, <2>2, <2>3, <2>5 DEF Least
<1>11. CASE At(str, stop) # c
  <2>1. At(str, stop) = NUL
    BY <1>3, <1>11
  <2>2. stop = n
    BY <1>2, <1>6, <2>1
  <2>3. P = {}
    BY <1>1, <1>2, <1>6, <1>9, <1>11, <2>2
  <2>4. ~(stop < 0)
    BY <1>6
  <2>5. strchr(before, str, c) = NULL
    BY <1>1, <1>3, <1>5, <1>11, <2>1, <2>4 DEF strchr
  <2> QED BY <1>8, <2>3, <2>5 DEF Least
<1> QED BY <1>10, <1>11

LEMMA StrrchrRight ==
  ASSUME NEW str \in Texts, NEW c \in Chars \cup {NUL}
  PROVE  strrchr(str, c) = Greatest(Places(str, c))
<1>1. PICK n \in Nat : n = Len(str)
  BY DEF Texts
<1>2. PICK S : S = {i \in 1 .. n : At(str, i) = c} \cup {0}
  OBVIOUS
<1>3. S \in SUBSET Nat /\ 0 \in S /\ \A k \in S : k <= n
  BY <1>1, <1>2
<1>4. PICK m \in S : m = Max(S) /\ \A k \in S : k <= m
  BY <1>1, <1>3, MaxOfNat
<1>5. PICK P : P = Places(str, c)
  OBVIOUS
<1>6. \A i : i \in P <=> i \in 0 .. n /\ At(str, i) = c
  BY <1>1, <1>5 DEF Places
<1>7. strrchr(str, c) = IF m = 0 /\ At(str, 0) # c THEN NULL ELSE m
  BY <1>1, <1>2, <1>4 DEF strrchr
<1>8. \A k \in P : k \in S
  BY <1>2, <1>6
<1>9. CASE m = 0 /\ At(str, 0) # c
  <2>1. P = {}
    <3> SUFFICES ASSUME NEW k \in P PROVE FALSE
      OBVIOUS
    <3>1. k \in Nat /\ k # 0 /\ k \in S
      BY <1>1, <1>6, <1>8, <1>9
    <3> QED BY <1>4, <1>9, <3>1
  <2> QED BY <1>5, <1>7, <1>9, <2>1 DEF Greatest
<1>10. CASE ~(m = 0 /\ At(str, 0) # c)
  <2>1. m \in P
    BY <1>1, <1>2, <1>6, <1>10
  <2>2. P \in SUBSET Int /\ \A k \in P : k <= m
    BY <1>1, <1>4, <1>6, <1>8
  <2>3. Max(P) = m
    BY ONLY <2>1, <2>2, MaxIs
  <2> QED BY <1>5, <1>7, <1>10, <2>1, <2>3 DEF Greatest
<1> QED BY <1>9, <1>10

\* strspn and strcspn test the characters of their second string.
First(str1, str2, in) ==
  Min({i \in 0 .. Len(str1) : i = Len(str1) \/ (At(str1, i) \in Range(str2)) = in})
LEMMA SpansRight ==
  ASSUME NEW str1 \in Texts, NEW str2 \in Texts
  PROVE  strspn(str1, str2) = First(str1, str2, FALSE) /\ strcspn(str1, str2) = First(str1, str2, TRUE)
<1>1. \A c : Contains(str2, c) <=> c \in Range(str2)
  <2>1. DOMAIN str2 = 1 .. Len(str2)
    BY DEF Texts
  <2> QED BY <2>1 DEF Contains, Range
<1>2. {i \in 0 .. Len(str1) : i = Len(str1) \/ ~Contains(str2, At(str1, i))}
        = {i \in 0 .. Len(str1) : i = Len(str1) \/ (At(str1, i) \in Range(str2)) = FALSE}
  BY <1>1
<1>3. {i \in 0 .. Len(str1) : i = Len(str1) \/ Contains(str2, At(str1, i))}
        = {i \in 0 .. Len(str1) : i = Len(str1) \/ (At(str1, i) \in Range(str2)) = TRUE}
  BY <1>1
<1>4. strspn(str1, str2) = First(str1, str2, FALSE)
  BY <1>2 DEF strspn, First
<1>5. strcspn(str1, str2) = First(str1, str2, TRUE)
  BY <1>3 DEF strcspn, First
<1> QED BY <1>4, <1>5

\* What SearchFindsFirst says of one call of strStr, of strchr and strrchr, and of
\* strspn and strcspn.
FindsText(h, n, r) == r = Least({i \in 0 .. Len(h) : Occurs(h, n, i)})
FindsChar(str, c, r) == r = [first |-> Least(Places(str, c)), last |-> Greatest(Places(str, c))]
FindsSpan(str1, str2, r) == r = [spn |-> First(str1, str2, FALSE), cspn |-> First(str1, str2, TRUE)]

\* The searches find the first place, in strings of any length over any characters.
THEOREM SearchRight == Spec => []SearchFindsFirst
<1>1. Init => SearchFindsFirst
  BY DEF Init, SearchFindsFirst
<1>2. SearchFindsFirst /\ [Next]_vars => SearchFindsFirst'
  <2> SUFFICES ASSUME SearchFindsFirst, [Next]_vars PROVE SearchFindsFirst'
    OBVIOUS
  <2>1. CASE UNCHANGED <<call, result>>
    BY <2>1 DEF SearchFindsFirst
  <2>2. CASE call'.fn = "strStr" /\ Starts(call'.fn)
    <3>1. PICK h \in Strs(MaxLen + 2), n \in Strs(MaxLen) :
             /\ call' = [fn |-> "strStr", haystack |-> h, needle |-> n]
             /\ result' = strStr(h, n)
      BY <2>2 DEF Starts, CallFind, Calls
    <3>2. h \in Texts /\ n \in Texts
      <4>1. MaxLen \in Int /\ MaxLen + 2 \in Int
        BY LibraryAssumption
      <4> QED BY <4>1, StrsAre
    <3>3. FindsText(h, n, result')
      BY <3>1, <3>2, StrStrRight DEF FindsText
    <3>4. call'.haystack = h /\ call'.needle = n /\ call'.fn = "strStr"
      BY <3>1
    <3>5. FindsText(call'.haystack, call'.needle, result')
      BY ONLY <3>3, <3>4
    <3> QED BY ONLY <3>4, <3>5 DEF SearchFindsFirst, FindsText
  <2>3. CASE call'.fn = "strchr" /\ Starts(call'.fn)
    <3>1. PICK str \in Strs(MaxLen), c \in Chars \cup {NUL}, before \in Chars :
             /\ call' = [fn |-> "strchr", str |-> str, c |-> c]
             /\ result' = [first |-> strchr(before, str, c), last |-> strrchr(str, c)]
      BY <2>3 DEF Starts, CallChar, Calls
    <3>2. str \in Texts
      BY LibraryAssumption, StrsAre
    <3>3. FindsChar(str, c, result')
      BY <3>1, <3>2, StrchrRight, StrrchrRight DEF FindsChar
    <3>4. call'.str = str /\ call'.c = c /\ call'.fn = "strchr"
      BY <3>1
    <3>5. FindsChar(call'.str, call'.c, result')
      BY ONLY <3>3, <3>4
    <3> QED BY ONLY <3>4, <3>5 DEF SearchFindsFirst, FindsChar, Places
  <2>4. CASE call'.fn = "strspn" /\ Starts(call'.fn)
    <3>1. PICK str1 \in Strs(MaxLen), str2 \in Strs(2) :
             /\ call' = [fn |-> "strspn", str1 |-> str1, str2 |-> str2]
             /\ result' = [spn |-> strspn(str1, str2), cspn |-> strcspn(str1, str2)]
      BY <2>4 DEF Starts, CallSpan, Calls
    <3>2. str1 \in Texts /\ str2 \in Texts
      BY LibraryAssumption, StrsAre
    <3>3. FindsSpan(str1, str2, result')
      BY <3>1, <3>2, SpansRight DEF FindsSpan
    <3>4. call'.str1 = str1 /\ call'.str2 = str2 /\ call'.fn = "strspn"
      BY <3>1
    <3>5. FindsSpan(call'.str1, call'.str2, result')
      BY ONLY <3>3, <3>4
    <3> QED BY ONLY <3>4, <3>5 DEF SearchFindsFirst, FindsSpan, First
  <2>5. CASE call'.fn \in Fns \ {"strStr", "strchr", "strspn"}
    BY <2>5 DEF SearchFindsFirst, Fns
  <2> QED BY <2>1, <2>2, <2>3, <2>4, <2>5, Steps
<1> QED BY <1>1, <1>2, PTL DEF Spec

-----------------------------------------------------------------------------
\* memmove, cell by cell.
Moved1(x, dest, src, len, k) == MoveCell(x, dest + Kth(dest, src, len, k), src + Kth(dest, src, len, k))
MovedIs(f, m, dest, src, len) ==
  f = [k \in 0 .. len |->
         IF k = 0 THEN m
         ELSE MoveCell(f[k - 1], dest + Kth(dest, src, len, k), src + Kth(dest, src, len, k))]

LEMMA MovedExists ==
  ASSUME NEW m, NEW dest, NEW src, NEW len \in Nat
  PROVE  \E f : MovedIs(f, m, dest, src, len)
<1> DEFINE N(x, k) == Moved1(x, dest, src, len, k)
           E(f, n) == f = [k \in 0 .. n |-> IF k = 0 THEN m ELSE N(f[k - 1], k)]
           S == {n \in Nat : \E f : E(f, n)}
<1> HIDE DEF N
<1>1. 0 \in S
  <2>1. E([i \in 0 .. 0 |-> m], 0)
    OBVIOUS
  <2> QED BY <2>1
<1>2. ASSUME NEW n \in Nat, n \in S PROVE n + 1 \in S
  <2>1. PICK f : E(f, n)
    BY <1>2
  <2>2. PICK g : g = [k \in 0 .. n + 1 |-> IF k = n + 1 THEN N(f[n], n + 1) ELSE f[k]]
    OBVIOUS
  <2>3. \A k \in 0 .. n + 1 : g[k] = IF k = 0 THEN m ELSE N(g[k - 1], k)
    <3>1. \A k \in 0 .. n : f[k] = IF k = 0 THEN m ELSE N(f[k - 1], k)
      BY <2>1
    <3>2. (\A k \in 0 .. n : g[k] = f[k]) /\ g[n + 1] = N(f[n], n + 1)
      BY <2>2
    <3>3. \A k \in 0 .. n : k # 0 => k - 1 \in 0 .. n
      OBVIOUS
    <3>4. n + 1 # 0 /\ n \in 0 .. n /\ (n + 1) - 1 = n
      OBVIOUS
    <3> TAKE k \in 0 .. n + 1
    <3>5. CASE k = n + 1
      BY <3>2, <3>4, <3>5
    <3>6. CASE k # n + 1
      <4>1. k \in 0 .. n
        BY <3>6
      <4> QED BY <3>1, <3>2, <3>3, <4>1
    <3> QED BY <3>5, <3>6
  <2>4. E(g, n + 1)
    BY <2>2, <2>3
  <2>5. n + 1 \in Nat
    OBVIOUS
  <2> QED BY <2>4, <2>5
<1>3. \A n \in Nat : n \in S
  <2> HIDE DEF S
  <2> QED BY <1>1, <1>2, SetInduction
<1>4. PICK f : E(f, len)
  BY <1>3
<1> QED BY <1>4 DEF MovedIs, N, Moved1

\* What the memory is when the cells lo to hi of the destination are moved.
PartMoved(x, m, dest, src, lo, hi) ==
  x = [i \in DOMAIN m |-> IF i \in lo .. hi THEN m[i - dest + src] ELSE m[i]]

LEMMA CellMoves ==
  ASSUME NEW n \in Nat, NEW m, DOMAIN m = 1 .. n, NEW dest \in Int, NEW src \in Int,
         NEW x, NEW lo \in Int, NEW hi \in Int, PartMoved(x, m, dest, src, lo, hi),
         NEW j \in Int, dest + j \in 1 .. n, src + j \in 1 .. n, src + j \notin lo .. hi
  PROVE  /\ dest + j = hi + 1 /\ lo <= hi + 1 =>
               PartMoved(MoveCell(x, dest + j, src + j), m, dest, src, lo, hi + 1)
         /\ dest + j = lo - 1 /\ lo <= hi + 1 =>
               PartMoved(MoveCell(x, dest + j, src + j), m, dest, src, lo - 1, hi)
<1>1. PICK d \in Int, s \in Int : d = dest + j /\ s = src + j
  OBVIOUS
<1>2. DOMAIN x = 1 .. n /\ \A i \in 1 .. n : x[i] = IF i \in lo .. hi THEN m[i - dest + src] ELSE m[i]
  BY DEF PartMoved
<1>3. x[s] = m[s]
  BY <1>1, <1>2
<1>4. PICK y : y = MoveCell(x, d, s)
  OBVIOUS
<1>5. y = [i \in 1 .. n |-> IF i = d THEN m[s] ELSE x[i]]
  BY <1>1, <1>2, <1>3, <1>4 DEF MoveCell
<1>6. d - dest + src = s
  BY <1>1
<1>7. y = [i \in 1 .. n |-> IF i = d \/ i \in lo .. hi THEN m[i - dest + src] ELSE m[i]]
  <2>1. \A i \in 1 .. n : y[i] = IF i = d \/ i \in lo .. hi THEN m[i - dest + src] ELSE m[i]
    BY <1>2, <1>5, <1>6
  <2> QED BY <1>5, <2>1
<1>8. ASSUME d = hi + 1, lo <= hi + 1
      PROVE  PartMoved(y, m, dest, src, lo, hi + 1)
  <2>1. \A i \in 1 .. n : (i = d \/ i \in lo .. hi) <=> i \in lo .. hi + 1
    BY <1>8
  <2> QED BY <1>7, <2>1 DEF PartMoved
<1>9. ASSUME d = lo - 1, lo <= hi + 1
      PROVE  PartMoved(y, m, dest, src, lo - 1, hi)
  <2>1. \A i \in 1 .. n : (i = d \/ i \in lo .. hi) <=> i \in lo - 1 .. hi
    BY <1>9
  <2> QED BY <1>7, <2>1 DEF PartMoved
<1> QED BY <1>1, <1>4, <1>8, <1>9

\* Upwards the cells from dest on are moved, downwards those before dest + len:
\* the cell to be moved is in neither case one that was written.
LEMMA MemmoveRight ==
  ASSUME NEW n \in Nat, NEW m \in [1 .. n -> Int], NEW len \in Nat,
         NEW dest \in Nat, NEW src \in Nat, dest # 0, src # 0,
         dest + len <= n + 1, src + len <= n + 1
  PROVE  PartMoved(memmove(m, dest, src, len), m, dest, src, dest, dest + len - 1)
<1>1. PICK f : f = CHOOSE g : MovedIs(g, m, dest, src, len)
  OBVIOUS
<1>2. memmove(m, dest, src, len) = f[len]
  BY <1>1 DEF memmove, MovedIs
<1>3. MovedIs(f, m, dest, src, len)
  <2>1. \E g : MovedIs(g, m, dest, src, len)
    BY MovedExists
  <2> QED BY <1>1, <2>1
<1>4. \A k \in 0 .. len : f[k] = IF k = 0 THEN m ELSE
         MoveCell(f[k - 1], dest + Kth(dest, src, len, k), src + Kth(dest, src, len, k))
  BY ONLY <1>3 DEF MovedIs
<1>5. \A k \in Nat : k < len =>
         f[k + 1] = MoveCell(f[k], dest + Kth(dest, src, len, k + 1), src + Kth(dest, src, len, k + 1))
  <2> SUFFICES ASSUME NEW k \in Nat, k < len
               PROVE  f[k + 1] = MoveCell(f[k], dest + Kth(dest, src, len, k + 1),
                                                src + Kth(dest, src, len, k + 1))
    OBVIOUS
  <2>1. k + 1 \in 0 .. len /\ k + 1 # 0 /\ (k + 1) - 1 = k
    OBVIOUS
  <2> QED BY <1>4, <2>1
<1>6. f[0] = m
  BY <1>4
<1>7. \A lo \in Int : PartMoved(m, m, dest, src, lo, lo - 1)
  <2> TAKE lo \in Int
  <2>1. lo .. lo - 1 = {}
    OBVIOUS
  <2>2. m = [i \in DOMAIN m |-> m[i]]
    OBVIOUS
  <2> QED BY <2>1, <2>2 DEF PartMoved
<1>8. CASE dest < src
  <2>1. PICK S : S = {k \in Nat : k <= len => PartMoved(f[k], m, dest, src, dest, dest + k - 1)}
    OBVIOUS
  <2>2. 0 \in S
    <3>1. dest + 0 - 1 = dest - 1 /\ dest \in Int
      OBVIOUS
    <3>2. PartMoved(f[0], m, dest, src, dest, dest + 0 - 1)
      BY <1>6, <1>7, <3>1
    <3> QED BY <2>1, <3>2
  <2>3. ASSUME NEW k \in Nat, k \in S PROVE k + 1 \in S
    <3> SUFFICES ASSUME k + 1 <= len
                 PROVE  PartMoved(f[k + 1], m, dest, src, dest, dest + (k + 1) - 1)
      BY <2>1
    <3>1. k < len /\ k <= len
      OBVIOUS
    <3>2. Kth(dest, src, len, k + 1) = k
      BY <1>8 DEF Kth
    <3>3. f[k + 1] = MoveCell(f[k], dest + k, src + k)
      BY <1>5, <3>1, <3>2
    <3>4. PartMoved(f[k], m, dest, src, dest, dest + k - 1)
      BY <2>1, <2>3, <3>1
    <3>5. PICK hi \in Int : hi = dest + k - 1
      OBVIOUS
    <3>6. /\ dest + k \in 1 .. n /\ src + k \in 1 .. n /\ src + k \notin dest .. hi
          /\ dest + k = hi + 1 /\ dest <= hi + 1 /\ dest + (k + 1) - 1 = hi + 1
          /\ dest \in Int /\ src \in Int /\ k \in Int
      BY <1>8, <3>5
    <3>7. PartMoved(f[k], m, dest, src, dest, hi)
      BY <3>4, <3>5
    <3>8. PartMoved(MoveCell(f[k], dest + k, src + k), m, dest, src, dest, hi + 1)
      BY <3>6, <3>7, CellMoves
    <3> QED BY <3>3, <3>6, <3>8
  <2>4. \A k \in Nat : k \in S
    BY ONLY <2>2, <2>3, SetInduction
  <2> QED BY <1>2, <2>1, <2>4
<1>9. CASE ~(dest < src)
  <2>1. PICK S : S = {k \in Nat : k <= len =>
                        PartMoved(f[k], m, dest, src, dest + len - k, dest + len - 1)}
    OBVIOUS
  <2>2. 0 \in S
    <3>1. PICK lo \in Int : lo = dest + len - 0 /\ dest + len - 1 = lo - 1
      OBVIOUS
    <3> QED BY <1>6, <1>7, <2>1, <3>1
  <2>3. ASSUME NEW k \in Nat, k \in S PROVE k + 1 \in S
    <3> SUFFICES ASSUME k + 1 <= len
                 PROVE  PartMoved(f[k + 1], m, dest, src, dest + len - (k + 1), dest + len - 1)
      BY <2>1
    <3>1. k < len /\ k <= len
      OBVIOUS
    <3>2. PICK j \in Int : j = len - (k + 1)
      OBVIOUS
    <3>3. Kth(dest, src, len, k + 1) = j
      BY <1>9, <3>2 DEF Kth
    <3>4. f[k + 1] = MoveCell(f[k], dest + j, src + j)
      BY <1>5, <3>1, <3>3
    <3>5. PartMoved(f[k], m, dest, src, dest + len - k, dest + len - 1)
      BY <2>1, <2>3, <3>1
    <3>6. PICK hi \in Int, lo \in Int : hi = dest + len - 1 /\ lo = dest + len - k
      OBVIOUS
    <3>7. /\ dest + j \in 1 .. n /\ src + j \in 1 .. n /\ src + j \notin lo .. hi
          /\ dest + j = lo - 1 /\ lo <= hi + 1 /\ dest + len - (k + 1) = lo - 1
          /\ dest \in Int /\ src \in Int
      BY <1>9, <3>2, <3>6
    <3>8. PartMoved(f[k], m, dest, src, lo, hi)
      BY <3>5, <3>6
    <3>9. PartMoved(MoveCell(f[k], dest + j, src + j), m, dest, src, lo - 1, hi)
      BY <3>7, <3>8, CellMoves
    <3> QED BY <3>4, <3>6, <3>7, <3>9
  <2>4. \A k \in Nat : k \in S
    BY ONLY <2>2, <2>3, SetInduction
  <2>5. dest + len - len = dest
    OBVIOUS
  <2> QED BY <1>2, <2>1, <2>4, <2>5
<1> QED BY <1>8, <1>9

\* memmove moves what was there before the call, in memories of any size.
THEOREM MoveRight == Spec => []MoveKeepsSource
<1>1. Init => MoveKeepsSource
  BY DEF Init, MoveKeepsSource
<1>2. MoveKeepsSource /\ [Next]_vars => MoveKeepsSource'
  <2> SUFFICES ASSUME MoveKeepsSource, [Next]_vars PROVE MoveKeepsSource'
    OBVIOUS
  <2>1. CASE UNCHANGED <<call, result>>
    BY <2>1 DEF MoveKeepsSource
  <2>2. CASE call'.fn = "memmove" /\ Starts(call'.fn)
    <3>1. PICK n \in Nat : n = 2 * MaxLen
      BY LibraryAssumption
    <3>2. PICK m : m = [i \in 1 .. n |-> i]
      OBVIOUS
    <3>3. PICK len \in 0 .. MaxLen, dest \in 1 .. MaxLen, src \in 1 .. MaxLen :
             /\ call' = [fn |-> "memmove", before |-> m, dest |-> dest, src |-> src, len |-> len]
             /\ result' = memmove(m, dest, src, len)
      BY <2>2, <3>1, <3>2 DEF Starts, CallMove, Calls
    <3>4. /\ len \in Nat /\ dest \in Nat /\ src \in Nat /\ dest # 0 /\ src # 0
          /\ dest + len <= n + 1 /\ src + len <= n + 1
      BY <3>1, LibraryAssumption
    <3>5. m \in [1 .. n -> Int]
      BY <3>2
    <3>6. PartMoved(result', m, dest, src, dest, dest + len - 1)
      BY <3>3, <3>4, <3>5, MemmoveRight
    <3>7. call'.before = m /\ call'.dest = dest /\ call'.src = src /\ call'.len = len
      BY <3>3
    <3>8. PartMoved(result', call'.before, call'.dest, call'.src, call'.dest,
                    call'.dest + call'.len - 1)
      BY ONLY <3>6, <3>7
    <3> QED BY ONLY <3>8 DEF MoveKeepsSource, PartMoved
  <2>3. CASE call'.fn \in Fns \ {"memmove"}
    BY <2>3 DEF MoveKeepsSource, Fns
  <2> QED BY <2>1, <2>2, <2>3, Steps
<1> QED BY <1>1, <1>2, PTL DEF Spec

-----------------------------------------------------------------------------
\* Numbers.  A text spells a number to a base when the loop of atoi, over all of
\* its characters, ends with it.
Value(f, s, base) ==
  /\ f \in [0 .. Len(s) -> Int] /\ f[0] = 0
  /\ \A i \in 1 .. Len(s) : f[i] = f[i - 1] * base + DigitValue(s[i], base)
Spells(s, base, v) ==
  /\ s \in Seq(Int) /\ \A i \in 1 .. Len(s) : IsDigit(s[i], base)
  /\ \E f : Value(f, s, base) /\ f[Len(s)] = v

LEMMA SpellsNothing ==
  ASSUME NEW base \in Int
  PROVE  Spells(<< >>, base, 0)
<1>1. PICK f : f = [i \in 0 .. 0 |-> 0]
  OBVIOUS
<1>2. f \in [0 .. 0 -> Int] /\ f[0] = 0
  BY <1>1
<1>3. << >> \in Seq(Int) /\ Len(<< >>) = 0 /\ 1 .. 0 = {}
  OBVIOUS
<1>4. Value(f, << >>, base) /\ f[Len(<< >>)] = 0
  BY <1>2, <1>3 DEF Value
<1> QED BY <1>3, <1>4 DEF Spells

LEMMA SpellsMore ==
  ASSUME NEW base \in Int, NEW s, NEW v, Spells(s, base, v), NEW c \in Int, IsDigit(c, base),
         DigitValue(c, base) \in Int
  PROVE  Spells(Append(s, c), base, v * base + DigitValue(c, base))
<1>1. s \in Seq(Int) /\ Len(s) \in Nat /\ \A i \in 1 .. Len(s) : IsDigit(s[i], base)
  BY DEF Spells
<1>2. PICK f : Value(f, s, base) /\ f[Len(s)] = v
  BY DEF Spells
<1>3. PICK n \in Nat : n = Len(s)
  BY <1>1
<1>4. PICK t : t = Append(s, c)
  OBVIOUS
<1>5. t \in Seq(Int) /\ Len(t) = n + 1 /\ t[n + 1] = c /\ \A i \in 1 .. n : t[i] = s[i]
  BY <1>1, <1>3, <1>4, AppendProperties
<1>6. /\ f \in [0 .. n -> Int] /\ f[0] = 0 /\ f[n] = v
      /\ \A i \in 1 .. n : f[i] = f[i - 1] * base + DigitValue(s[i], base)
  BY <1>2, <1>3 DEF Value
<1>7. v \in Int
  BY <1>6
<1>8. PICK d \in Int, w \in Int : d = DigitValue(c, base) /\ w = v * base + d
  BY <1>7
<1>9. PICK g : g = [i \in 0 .. n + 1 |-> IF i = n + 1 THEN w ELSE f[i]]
  OBVIOUS
<1>10. g \in [0 .. n + 1 -> Int] /\ g[0] = 0 /\ g[n + 1] = w /\ \A i \in 0 .. n : g[i] = f[i]
  BY <1>6, <1>8, <1>9
<1>11. \A i \in 1 .. n + 1 : g[i] = g[i - 1] * base + DigitValue(t[i], base)
  <2> TAKE i \in 1 .. n + 1
  <2>1. CASE i = n + 1
    <3>1. i - 1 = n /\ n \in 0 .. n
      BY <2>1
    <3>2. g[i - 1] = v /\ t[i] = c /\ g[i] = w
      BY <1>5, <1>6, <1>10, <2>1, <3>1
    <3> QED BY <1>8, <3>2
  <2>2. CASE i # n + 1
    <3>1. i \in 1 .. n /\ i \in 0 .. n /\ i - 1 \in 0 .. n
      BY <2>2
    <3> QED BY <1>5, <1>6, <1>10, <3>1
  <2> QED BY <2>1, <2>2
<1>12. \A i \in 1 .. n + 1 : IsDigit(t[i], base)
  <2> TAKE i \in 1 .. n + 1
  <2>1. CASE i = n + 1
    BY <1>5, <2>1
  <2>2. CASE i # n + 1
    <3>1. i \in 1 .. n
      BY <2>2
    <3> QED BY <1>1, <1>3, <1>5, <3>1
  <2> QED BY <2>1, <2>2
<1>13. Value(g, t, base)
  BY <1>5, <1>10, <1>11 DEF Value
<1>14. Spells(t, base, w)
  BY <1>5, <1>10, <1>12, <1>13 DEF Spells
<1> QED BY <1>4, <1>8, <1>14

\* atoi reads what a text spells, and all of it.
AtoiIs(f, a, base, len) ==
  f = [i \in 0 .. len |-> IF i = 0 THEN 0 ELSE f[i - 1] * base + DigitValue(a[i], base)]
LEMMA AtoiSpells ==
  ASSUME NEW base \in Int, NEW s, NEW v, Spells(s, base, v)
  PROVE  atoi(s, base) = <<v, Len(s)>>
<1>1. s \in Seq(Int) /\ \A i \in 1 .. Len(s) : IsDigit(s[i], base)
  BY DEF Spells
<1>2. PICK n \in Nat : n = Len(s)
  BY <1>1
<1>3. PICK f : Value(f, s, base) /\ f[n] = v
  BY <1>2 DEF Spells
<1>4. PICK S : S = {i \in 0 .. n : ~IsDigit(At(s, i), base)}
  OBVIOUS
<1>5. n \in S
  <2>1. At(s, n) = NUL
    BY <1>2 DEF At
  <2> QED BY <1>4, <2>1 DEF IsDigit
<1>6. \A i \in S : n <= i
  <2> SUFFICES ASSUME NEW i \in S, i < n PROVE FALSE
    BY <1>2, <1>4
  <2>1. i \in Nat /\ i + 1 \in 1 .. n
    BY <1>4
  <2>2. At(s, i) = s[i + 1]
    BY <1>2, <2>1 DEF At
  <2> QED BY <1>1, <1>2, <1>4, <2>1, <2>2
<1>7. S \in SUBSET Int
  BY <1>4
<1>8. Min(S) = n
  BY ONLY <1>5, <1>6, <1>7, MinIs
<1>9. PICK g : g = CHOOSE h : AtoiIs(h, s, base, n)
  OBVIOUS
<1>10. atoi(s, base) = <<g[n], n>>
  BY <1>2, <1>4, <1>8, <1>9 DEF atoi, AtoiIs
<1>11. AtoiIs(f, s, base, n)
  <2>1. /\ f \in [0 .. n -> Int] /\ f[0] = 0
        /\ \A i \in 1 .. n : f[i] = f[i - 1] * base + DigitValue(s[i], base)
    BY <1>2, <1>3 DEF Value
  <2>2. \A i \in 0 .. n : f[i] = IF i = 0 THEN 0 ELSE f[i - 1] * base + DigitValue(s[i], base)
    <3> TAKE i \in 0 .. n
    <3>1. i # 0 => i \in 1 .. n
      OBVIOUS
    <3> QED BY <2>1, <3>1
  <2> QED BY ONLY <2>1, <2>2 DEF AtoiIs
<1>12. AtoiIs(g, s, base, n)
  BY <1>9, <1>11
<1>13. \A i \in 0 .. n : g[i] = IF i = 0 THEN 0 ELSE g[i - 1] * base + DigitValue(s[i], base)
  BY ONLY <1>12 DEF AtoiIs
<1>14. \A i \in 0 .. n : f[i] = IF i = 0 THEN 0 ELSE f[i - 1] * base + DigitValue(s[i], base)
  BY ONLY <1>11 DEF AtoiIs
<1>15. PICK T : T = {i \in Nat : i <= n => f[i] = g[i]}
  OBVIOUS
<1>16. 0 \in T
  BY <1>13, <1>14, <1>15
<1>17. ASSUME NEW k \in Nat, k \in T PROVE k + 1 \in T
  <2> SUFFICES ASSUME k + 1 <= n PROVE f[k + 1] = g[k + 1]
    BY <1>15
  <2>1. k + 1 \in 0 .. n /\ k + 1 # 0 /\ (k + 1) - 1 = k
    OBVIOUS
  <2>2. f[k] = g[k]
    BY <1>15, <1>17
  <2> QED BY <1>13, <1>14, <2>1, <2>2
<1>18. \A k \in Nat : k \in T
  BY ONLY <1>16, <1>17, SetInduction
<1>19. f[n] = g[n]
  BY <1>15, <1>18
<1> QED BY <1>2, <1>3, <1>10, <1>19

-----------------------------------------------------------------------------
\* The digits printf prints are a text that spells the number: the recursive
\* functions exist, each number having a smaller one in front of its last digit.
DigitOf(n) ==
  LET q == Quotient(n) IN ZERO + (IF n < 0 THEN q * 10 - n ELSE n - q * 10)
LEMMA Quotients ==
  ASSUME NEW n \in Int
  PROVE  /\ Quotient(n) \in Int /\ DigitOf(n) \in Int
         /\ n >= 0 => /\ Quotient(n) \in Nat /\ DigitOf(n) - ZERO \in 0 .. 9
                      /\ Quotient(n) * 10 + (DigitOf(n) - ZERO) = n
                      /\ n < 10 => Quotient(n) = 0
                      /\ Quotient(n) # 0 => Quotient(n) < n
         /\ (n < 0 /\ Quotient(n) # 0) => Quotient(n) < 0 /\ n < Quotient(n)
<1>1. PICK a \in Int : a = n \div 10 /\ 10 * a <= n /\ n < 10 * a + 10
  OBVIOUS
<1>2. PICK b \in Int : b = (n + 9) \div 10 /\ 10 * b <= n + 9 /\ n + 9 < 10 * b + 10
  OBVIOUS
<1>3. Quotient(n) = IF n < 0 THEN b ELSE a
  BY <1>1, <1>2 DEF Quotient
<1>4. CASE n >= 0
  BY <1>1, <1>3, <1>4 DEF DigitOf, ZERO
<1>5. CASE n < 0
  BY <1>2, <1>3, <1>5 DEF DigitOf, ZERO
<1> QED BY <1>4, <1>5

DecIs(f) ==
  f = [n \in Int |-> (IF Quotient(n) = 0 THEN << >> ELSE f[Quotient(n)]) \o <<DigitOf(n)>>]
LEMMA DecExists == \E f : DecIs(f)
<1>1. PICK Z : Z = {n \in Int : Quotient(n) = 0}
  OBVIOUS
<1>2. PICK q : q = [n \in Int |-> Quotient(n)]
  OBVIOUS
<1>3. PICK w : w = [n \in Int |-> IF n < 0 THEN -n ELSE n]
  OBVIOUS
<1>4. PICK b : b = [n \in Int |-> <<DigitOf(n)>>]
  OBVIOUS
<1>5. PICK G : G = [x \in Seq(Int) \X Int |-> x[1] \o <<DigitOf(x[2])>>]
  OBVIOUS
<1>6. \A n \in Int : <<DigitOf(n)>> \in Seq(Int)
  <2> TAKE n \in Int
  <2>1. DigitOf(n) \in Int
    BY Quotients
  <2> QED BY <2>1
<1>7. b \in [Int -> Seq(Int)]
  BY <1>4, <1>6
<1>8. \A v \in Seq(Int), n \in Int : G[<<v, n>>] = v \o <<DigitOf(n)>>
  BY <1>5
<1>9. G \in [Seq(Int) \X Int -> Seq(Int)]
  <2>1. \A v \in Seq(Int), n \in Int : v \o <<DigitOf(n)>> \in Seq(Int)
    BY <1>6, ConcatProperties
  <2> QED BY <1>5, <2>1
<1>10. Descends(Int, Z, q, w)
  <2>1. w \in [Int -> Nat]
    BY <1>3
  <2>2. \A n \in Int \ Z : q[n] \in Int /\ w[q[n]] < w[n]
    <3> TAKE n \in Int \ Z
    <3>1. PICK m \in Int : m = Quotient(n) /\ m # 0
      BY <1>1, Quotients
    <3>2. n >= 0 => m \in Nat /\ m < n
      BY <3>1, Quotients
    <3>3. n < 0 => m < 0 /\ n < m
      BY <3>1, Quotients
    <3>4. w[m] < w[n]
      BY <1>3, <3>2, <3>3
    <3> QED BY <1>2, <3>1, <3>4
  <2> QED BY <2>1, <2>2 DEF Descends
<1>11. PICK f \in [Int -> Seq(Int)] : Unfolds(f, Int, Z, q, b, G)
  BY ONLY <1>7, <1>9, <1>10, Recursion
<1>12. \A n \in Int : f[n] = (IF Quotient(n) = 0 THEN << >> ELSE f[Quotient(n)]) \o <<DigitOf(n)>>
  <2> TAKE n \in Int
  <2>1. f[n] = IF n \in Z THEN b[n] ELSE G[<<f[q[n]], n>>]
    BY <1>11 DEF Unfolds
  <2>2. CASE Quotient(n) = 0
    <3>1. f[n] = <<DigitOf(n)>>
      BY <1>1, <1>4, <2>1, <2>2
    <3>2. << >> \o <<DigitOf(n)>> = <<DigitOf(n)>>
      BY <1>6, ConcatEmptySeq
    <3> QED BY <2>2, <3>1, <3>2
  <2>3. CASE Quotient(n) # 0
    <3>1. q[n] = Quotient(n) /\ q[n] \in Int
      BY <1>2, Quotients
    <3>2. f[q[n]] \in Seq(Int)
      BY <1>11, <3>1
    <3>3. f[n] = f[Quotient(n)] \o <<DigitOf(n)>>
      BY <1>1, <1>8, <2>1, <2>3, <3>1, <3>2
    <3> QED BY <2>3, <3>3
  <2> QED BY <2>2, <2>3
<1> QED BY <1>11, <1>12 DEF DecIs

LEMMA DecSpells == \A n \in Nat : Spells(DecDigits[n], 10, n)
<1>1. PICK f : f = CHOOSE g : DecIs(g)
  OBVIOUS
<1>2. DecDigits = f
  BY <1>1 DEF DecDigits, DecIs, DigitOf
<1>3. DecIs(f)
  BY <1>1, DecExists
<1>4. \A n \in Int : f[n] = (IF Quotient(n) = 0 THEN << >> ELSE f[Quotient(n)]) \o <<DigitOf(n)>>
  BY ONLY <1>3 DEF DecIs
<1>5. PICK S : S = {n \in Nat : Spells(f[n], 10, n)}
  OBVIOUS
<1>6. PICK w : w = [n \in Nat |-> n]
  OBVIOUS
<1>7. w \in [Nat -> Nat] /\ \A n \in Nat : w[n] = n
  BY <1>6
<1>8. \A n \in Nat : (\A m \in Nat : w[m] < w[n] => m \in S) => n \in S
  <2> SUFFICES ASSUME NEW n \in Nat, \A m \in Nat : w[m] < w[n] => m \in S
               PROVE  Spells(f[n], 10, n)
    BY <1>5
  <2>1. PICK q \in Nat, c \in Int : /\ q = Quotient(n) /\ c = DigitOf(n)
                                    /\ c - ZERO \in 0 .. 9 /\ q * 10 + (c - ZERO) = n
                                    /\ q # 0 => q < n
    <3>1. n \in Int /\ n >= 0
      OBVIOUS
    <3> QED BY <3>1, Quotients
  <2>2. PICK s : s = IF q = 0 THEN << >> ELSE f[q]
    OBVIOUS
  <2>3. Spells(s, 10, q)
    <3>1. CASE q = 0
      BY <2>2, <3>1, SpellsNothing
    <3>2. CASE q # 0
      <4>1. q \in S
        BY <1>7, <2>1, <3>2
      <4> QED BY <1>5, <2>2, <3>2, <4>1
    <3> QED BY <3>1, <3>2
  <2>4. DigitValue(c, 10) = c - ZERO
    BY DEF DigitValue
  <2>5. IsDigit(c, 10)
    BY <2>1, <2>4 DEF IsDigit, NUL, ZERO
  <2>6. Spells(Append(s, c), 10, n)
    <3>1. DigitValue(c, 10) \in Int /\ 10 \in Int
      BY <2>1, <2>4
    <3>2. Spells(Append(s, c), 10, q * 10 + DigitValue(c, 10))
      BY ONLY <2>1, <2>3, <2>5, <3>1, SpellsMore
    <3> QED BY <2>1, <2>4, <3>2
  <2>7. Append(s, c) = s \o <<c>>
    BY <2>1, <2>3, AppendIsConcat DEF Spells
  <2>8. f[n] = s \o <<c>>
    <3>1. n \in Int
      OBVIOUS
    <3>2. f[n] = (IF Quotient(n) = 0 THEN << >> ELSE f[Quotient(n)]) \o <<DigitOf(n)>>
      BY <1>4, <3>1
    <3>3. f[n] = (IF q = 0 THEN << >> ELSE f[q]) \o <<c>>
      BY ONLY <2>1, <3>2
    <3> QED BY ONLY <2>2, <3>3
  <2> QED BY <2>6, <2>7, <2>8
<1>9. Nat \subseteq S
  BY ONLY <1>7, <1>8, MeasureInduction
<1> QED BY <1>2, <1>5, <1>9

\* The same to base 16 ...
HexDigit(n) == IF n % 16 < 10 THEN ZERO + (n % 16) ELSE Ca + (n % 16) - 10
LEMMA Sixteenths ==
  ASSUME NEW n \in Nat
  PROVE  /\ n \div 16 \in Nat /\ HexDigit(n) \in Int /\ IsDigit(HexDigit(n), 16)
         /\ DigitValue(HexDigit(n), 16) \in Int
         /\ (n \div 16) * 16 + DigitValue(HexDigit(n), 16) = n
         /\ n < 16 => n \div 16 = 0
         /\ ~(n < 16) => n \div 16 < n
<1>1. PICK q \in Nat, r \in Nat : q = n \div 16 /\ r = n % 16 /\ q * 16 + r = n /\ r < 16
  OBVIOUS
<1>2. PICK c \in Int : c = HexDigit(n) /\ c = IF r < 10 THEN 48 + r ELSE 87 + r
  BY <1>1 DEF HexDigit, ZERO, Ca
<1>3. DigitValue(c, 16) = r
  BY <1>1, <1>2 DEF DigitValue, NINE, Ca, ZERO
<1>4. IsDigit(c, 16)
  BY <1>1, <1>2, <1>3 DEF IsDigit, NUL, NINE
<1> QED BY <1>1, <1>2, <1>3, <1>4

HexIs(f) ==
  f = [n \in Nat |-> (IF n < 16 THEN << >> ELSE f[n \div 16]) \o <<HexDigit(n)>>]
LEMMA HexExists == \E f : HexIs(f)
<1>1. PICK Z : Z = {n \in Nat : n < 16}
  OBVIOUS
<1>2. PICK q : q = [n \in Nat |-> n \div 16]
  OBVIOUS
<1>3. PICK w : w = [n \in Nat |-> n]
  OBVIOUS
<1>4. PICK b : b = [n \in Nat |-> <<HexDigit(n)>>]
  OBVIOUS
<1>5. PICK G : G = [x \in Seq(Int) \X Nat |-> x[1] \o <<HexDigit(x[2])>>]
  OBVIOUS
<1>6. \A n \in Nat : <<HexDigit(n)>> \in Seq(Int)
  <2> TAKE n \in Nat
  <2>1. HexDigit(n) \in Int
    BY Sixteenths
  <2> QED BY <2>1
<1>7. b \in [Nat -> Seq(Int)]
  BY <1>4, <1>6
<1>8. \A v \in Seq(Int), n \in Nat : G[<<v, n>>] = v \o <<HexDigit(n)>>
  BY <1>5
<1>9. G \in [Seq(Int) \X Nat -> Seq(Int)]
  <2>1. \A v \in Seq(Int), n \in Nat : v \o <<HexDigit(n)>> \in Seq(Int)
    BY <1>6, ConcatProperties
  <2> QED BY <1>5, <2>1
<1>10. Descends(Nat, Z, q, w)
  <2>1. w \in [Nat -> Nat]
    BY <1>3
  <2>2. \A n \in Nat \ Z : q[n] \in Nat /\ w[q[n]] < w[n]
    <3> TAKE n \in Nat \ Z
    <3>1. PICK m \in Nat : m = n \div 16 /\ m < n
      BY <1>1, Sixteenths
    <3> QED BY <1>2, <1>3, <3>1
  <2> QED BY <2>1, <2>2 DEF Descends
<1>11. PICK f \in [Nat -> Seq(Int)] : Unfolds(f, Nat, Z, q, b, G)
  BY ONLY <1>7, <1>9, <1>10, Recursion
<1>12. \A n \in Nat : f[n] = (IF n < 16 THEN << >> ELSE f[n \div 16]) \o <<HexDigit(n)>>
  <2> TAKE n \in Nat
  <2>1. f[n] = IF n \in Z THEN b[n] ELSE G[<<f[q[n]], n>>]
    BY <1>11 DEF Unfolds
  <2>2. CASE n < 16
    <3>1. f[n] = <<HexDigit(n)>>
      BY <1>1, <1>4, <2>1, <2>2
    <3>2. << >> \o <<HexDigit(n)>> = <<HexDigit(n)>>
      BY <1>6, ConcatEmptySeq
    <3> QED BY <2>2, <3>1, <3>2
  <2>3. CASE ~(n < 16)
    <3>1. q[n] = n \div 16 /\ q[n] \in Nat
      BY <1>2, Sixteenths
    <3>2. f[q[n]] \in Seq(Int)
      BY <1>11, <3>1
    <3>3. f[n] = f[n \div 16] \o <<HexDigit(n)>>
      BY <1>1, <1>8, <2>1, <2>3, <3>1, <3>2
    <3> QED BY <2>3, <3>3
  <2> QED BY <2>2, <2>3
<1> QED BY <1>11, <1>12 DEF HexIs

LEMMA HexSpells == \A n \in Nat : Spells(HexDigits[n], 16, n)
<1>1. PICK f : f = CHOOSE g : HexIs(g)
  OBVIOUS
<1>2. HexDigits = f
  BY <1>1 DEF HexDigits, HexIs, HexDigit
<1>3. HexIs(f)
  BY <1>1, HexExists
<1>4. \A n \in Nat : f[n] = (IF n < 16 THEN << >> ELSE f[n \div 16]) \o <<HexDigit(n)>>
  BY ONLY <1>3 DEF HexIs
<1>5. PICK S : S = {n \in Nat : Spells(f[n], 16, n)}
  OBVIOUS
<1>6. PICK w : w = [n \in Nat |-> n]
  OBVIOUS
<1>7. w \in [Nat -> Nat] /\ \A n \in Nat : w[n] = n
  BY <1>6
<1>8. \A n \in Nat : (\A m \in Nat : w[m] < w[n] => m \in S) => n \in S
  <2> SUFFICES ASSUME NEW n \in Nat, \A m \in Nat : w[m] < w[n] => m \in S
               PROVE  Spells(f[n], 16, n)
    BY <1>5
  <2>1. PICK q \in Nat, c \in Int : /\ q = n \div 16 /\ c = HexDigit(n) /\ IsDigit(c, 16)
                                    /\ DigitValue(c, 16) \in Int /\ q * 16 + DigitValue(c, 16) = n
                                    /\ n < 16 => q = 0
                                    /\ ~(n < 16) => q < n
    BY Sixteenths
  <2>2. PICK s : s = IF n < 16 THEN << >> ELSE f[q]
    OBVIOUS
  <2>3. Spells(s, 16, q)
    <3>1. CASE n < 16
      BY <2>1, <2>2, <3>1, SpellsNothing
    <3>2. CASE ~(n < 16)
      <4>1. q \in S
        BY <1>7, <2>1, <3>2
      <4> QED BY <1>5, <2>2, <3>2, <4>1
    <3> QED BY <3>1, <3>2
  <2>4. Spells(Append(s, c), 16, n)
    <3>1. 16 \in Int
      OBVIOUS
    <3>2. Spells(Append(s, c), 16, q * 16 + DigitValue(c, 16))
      BY ONLY <2>1, <2>3, <3>1, SpellsMore
    <3> QED BY <2>1, <3>2
  <2>5. Append(s, c) = s \o <<c>>
    BY <2>1, <2>3, AppendIsConcat DEF Spells
  <2>6. f[n] = s \o <<c>>
    BY <1>4, <2>1, <2>2
  <2> QED BY <2>4, <2>5, <2>6
<1>9. Nat \subseteq S
  BY ONLY <1>7, <1>8, MeasureInduction
<1> QED BY <1>2, <1>5, <1>9

\* ... and for itoa, whose digits come out backwards.
RestIs(f) == f = [n \in Nat |-> IF n = 0 THEN << >> ELSE <<ZERO + (n % 10)>> \o f[n \div 10]]
LEMMA Tenths ==
  ASSUME NEW n \in Nat
  PROVE  /\ n \div 10 \in Nat /\ n % 10 \in 0 .. 9 /\ (n \div 10) * 10 + (n % 10) = n
         /\ n # 0 => n \div 10 < n
OBVIOUS

LEMMA RestExists == \E f : RestIs(f)
<1>1. PICK Z : Z = {0}
  OBVIOUS
<1>2. PICK q : q = [n \in Nat |-> n \div 10]
  OBVIOUS
<1>3. PICK w : w = [n \in Nat |-> n]
  OBVIOUS
<1>4. PICK b : b = [n \in Nat |-> << >>]
  OBVIOUS
<1>5. PICK G : G = [x \in Seq(Int) \X Nat |-> <<ZERO + (x[2] % 10)>> \o x[1]]
  OBVIOUS
<1>6. b \in [Nat -> Seq(Int)]
  BY <1>4
<1>7. \A v \in Seq(Int), n \in Nat : G[<<v, n>>] = <<ZERO + (n % 10)>> \o v
  BY <1>5
<1>8. G \in [Seq(Int) \X Nat -> Seq(Int)]
  <2>1. \A n \in Nat : <<ZERO + (n % 10)>> \in Seq(Int)
    BY Tenths DEF ZERO
  <2>2. \A v \in Seq(Int), n \in Nat : <<ZERO + (n % 10)>> \o v \in Seq(Int)
    BY <2>1, ConcatProperties
  <2> QED BY <1>5, <2>2
<1>9. Descends(Nat, Z, q, w)
  <2>1. w \in [Nat -> Nat]
    BY <1>3
  <2>2. \A n \in Nat \ Z : q[n] \in Nat /\ w[q[n]] < w[n]
    <3> TAKE n \in Nat \ Z
    <3>1. PICK m \in Nat : m = n \div 10 /\ m < n
      BY <1>1, Tenths
    <3> QED BY <1>2, <1>3, <3>1
  <2> QED BY <2>1, <2>2 DEF Descends
<1>10. PICK f \in [Nat -> Seq(Int)] : Unfolds(f, Nat, Z, q, b, G)
  BY ONLY <1>6, <1>8, <1>9, Recursion
<1>11. \A n \in Nat : f[n] = IF n = 0 THEN << >> ELSE <<ZERO + (n % 10)>> \o f[n \div 10]
  <2> TAKE n \in Nat
  <2>1. f[n] = IF n \in Z THEN b[n] ELSE G[<<f[q[n]], n>>]
    BY <1>10 DEF Unfolds
  <2>2. CASE n = 0
    BY <1>1, <1>4, <2>1, <2>2
  <2>3. CASE n # 0
    <3>1. q[n] = n \div 10 /\ q[n] \in Nat
      BY <1>2, Tenths
    <3>2. f[q[n]] \in Seq(Int)
      BY <1>10, <3>1
    <3> QED BY <1>1, <1>7, <2>1, <2>3, <3>1, <3>2
  <2> QED BY <2>2, <2>3
<1> QED BY <1>10, <1>11 DEF RestIs

LEMMA ReverseGrows ==
  ASSUME NEW s \in Seq(Int), NEW c \in Int
  PROVE  Reverse(<<c>> \o s) = Append(Reverse(s), c) /\ Reverse(s) \in Seq(Int)
<1>1. PICK n \in Nat : n = Len(s)
  OBVIOUS
<1>2. PICK r : r = Reverse(s)
  OBVIOUS
<1>3. r = [i \in 1 .. n |-> s[n - i + 1]]
  BY <1>1, <1>2 DEF Reverse
<1>4. r \in Seq(Int) /\ Len(r) = n
  <2>1. \A i \in 1 .. n : n - i + 1 \in 1 .. n
    OBVIOUS
  <2>2. \A i \in 1 .. n : s[n - i + 1] \in Int
    BY <1>1, <2>1
  <2> QED BY <1>3, <2>2, IsASeq
<1>5. PICK t : t = <<c>> \o s
  OBVIOUS
<1>6. t \in Seq(Int) /\ Len(t) = n + 1 /\ t[1] = c /\ \A i \in 1 .. n : t[i + 1] = s[i]
  <2>1. <<c>> \in Seq(Int) /\ Len(<<c>>) = 1 /\ <<c>>[1] = c
    OBVIOUS
  <2>2. /\ t \in Seq(Int) /\ Len(t) = 1 + n
        /\ \A i \in 1 .. 1 + n : t[i] = IF i <= 1 THEN <<c>>[i] ELSE s[i - 1]
    BY <1>1, <1>5, <2>1, ConcatProperties
  <2>3. t[1] = c
    BY <2>1, <2>2
  <2>4. \A i \in 1 .. n : t[i + 1] = s[i]
    <3> TAKE i \in 1 .. n
    <3>1. i + 1 \in 1 .. 1 + n /\ ~(i + 1 <= 1) /\ (i + 1) - 1 = i
      OBVIOUS
    <3> QED BY <2>2, <3>1
  <2> QED BY <2>2, <2>3, <2>4
<1>7. PICK u : u = Reverse(t)
  OBVIOUS
<1>8. u = [i \in 1 .. n + 1 |-> t[(n + 1) - i + 1]]
  BY <1>6, <1>7 DEF Reverse
<1>9. u \in Seq(Int) /\ Len(u) = n + 1
  <2>1. \A i \in 1 .. n + 1 : (n + 1) - i + 1 \in 1 .. n + 1
    OBVIOUS
  <2>2. \A i \in 1 .. n + 1 : t[(n + 1) - i + 1] \in Int
    BY <1>6, <2>1
  <2> QED BY <1>8, <2>2, IsASeq
<1>10. PICK v : v = Append(r, c)
  OBVIOUS
<1>11. v \in Seq(Int) /\ Len(v) = n + 1 /\ v[n + 1] = c /\ \A i \in 1 .. n : v[i] = r[i]
  BY <1>4, <1>10, AppendProperties
<1>12. \A i \in 1 .. n + 1 : u[i] = v[i]
  <2> TAKE i \in 1 .. n + 1
  <2>1. CASE i = n + 1
    <3>1. (n + 1) - i + 1 = 1
      BY <2>1
    <3> QED BY <1>6, <1>8, <1>11, <2>1, <3>1
  <2>2. CASE i # n + 1
    <3>1. PICK j \in 1 .. n : j = n - i + 1 /\ (n + 1) - i + 1 = j + 1
      BY <2>2
    <3>2. i \in 1 .. n
      BY <2>2
    <3>3. u[i] = s[j]
      BY <1>6, <1>8, <3>1
    <3>4. v[i] = s[j]
      BY <1>3, <1>11, <3>1, <3>2
    <3> QED BY <3>3, <3>4
  <2> QED BY <2>1, <2>2
<1>13. u = v
  BY <1>9, <1>11, <1>12, SeqEqual
<1> QED BY <1>2, <1>4, <1>5, <1>7, <1>10, <1>13

LEMMA RestSpells == \A n \in Nat : Spells(Reverse(Remainders(n, 10)), 10, n)
<1>1. PICK f : f = CHOOSE g : RestIs(g)
  OBVIOUS
<1>2. \A n : Remainders(n, 10) = f[n]
  BY <1>1 DEF Remainders, RestIs
<1>3. RestIs(f)
  BY <1>1, RestExists
<1>4. \A n \in Nat : f[n] = IF n = 0 THEN << >> ELSE <<ZERO + (n % 10)>> \o f[n \div 10]
  BY ONLY <1>3 DEF RestIs
<1>5. PICK S : S = {n \in Nat : f[n] \in Seq(Int) /\ Spells(Reverse(f[n]), 10, n)}
  OBVIOUS
<1>6. PICK w : w = [n \in Nat |-> n]
  OBVIOUS
<1>7. w \in [Nat -> Nat] /\ \A n \in Nat : w[n] = n
  BY <1>6
<1>8. \A n \in Nat : (\A m \in Nat : w[m] < w[n] => m \in S) => n \in S
  <2> SUFFICES ASSUME NEW n \in Nat, \A m \in Nat : w[m] < w[n] => m \in S
               PROVE  n \in S
    OBVIOUS
  <2>1. CASE n = 0
    <3>1. f[n] = << >>
      BY <1>4, <2>1
    <3>2. Len(<< >>) = 0 /\ 1 .. 0 = {} /\ << >> \in Seq(Int)
      OBVIOUS
    <3>3. Reverse(<< >>) = << >>
      BY <3>2 DEF Reverse
    <3>4. Spells(<< >>, 10, 0)
      BY SpellsNothing
    <3>5. f[n] \in Seq(Int)
      BY <3>1, <3>2
    <3>6. Reverse(f[n]) = << >>
      BY <3>1, <3>3
    <3>7. Spells(Reverse(f[n]), 10, n)
      BY ONLY <2>1, <3>4, <3>6
    <3> QED BY <1>5, <3>5, <3>7
  <2>2. CASE n # 0
    <3>1. PICK q \in Nat, r \in 0 .. 9 : /\ q = n \div 10 /\ r = n % 10
                                         /\ q * 10 + r = n /\ q < n
      BY <2>2, Tenths
    <3>2. PICK c \in Int : c = ZERO + r
      BY DEF ZERO
    <3>3. f[q] \in Seq(Int) /\ Spells(Reverse(f[q]), 10, q)
      BY <1>5, <1>7, <3>1
    <3>4. f[n] = <<c>> \o f[q]
      BY <1>4, <2>2, <3>1, <3>2
    <3>5. DigitValue(c, 10) = r /\ IsDigit(c, 10)
      BY <3>2 DEF DigitValue, IsDigit, ZERO, NUL
    <3>6. Spells(Append(Reverse(f[q]), c), 10, n)
      <4>1. 10 \in Int /\ DigitValue(c, 10) \in Int
        BY <3>5
      <4>2. Spells(Append(Reverse(f[q]), c), 10, q * 10 + DigitValue(c, 10))
        BY ONLY <3>2, <3>3, <3>5, <4>1, SpellsMore
      <4> QED BY <3>1, <3>5, <4>2
    <3>7. Reverse(f[n]) = Append(Reverse(f[q]), c)
      BY <3>3, <3>4, ReverseGrows
    <3>8. f[n] \in Seq(Int)
      <4>1. <<c>> \in Seq(Int)
        OBVIOUS
      <4> QED BY <3>3, <3>4, <4>1, ConcatProperties
    <3> QED BY <1>5, <3>6, <3>7, <3>8
  <2> QED BY <2>1, <2>2
<1>9. Nat \subseteq S
  BY ONLY <1>7, <1>8, MeasureInduction
<1> QED BY <1>2, <1>5, <1>9

\* A number printed with %d or %x, or by itoa, is read back by atoi, whatever the
\* number.
THEOREM NumbersRight == Spec => []NumbersReadBack
<1>1. Init => NumbersReadBack
  BY DEF Init, NumbersReadBack
<1>2. NumbersReadBack /\ [Next]_vars => NumbersReadBack'
  <2> SUFFICES ASSUME NumbersReadBack, [Next]_vars PROVE NumbersReadBack'
    OBVIOUS
  <2>1. CASE UNCHANGED <<call, result>>
    BY <2>1 DEF NumbersReadBack
  <2>2. CASE call'.fn = "atoi" /\ Starts(call'.fn)
    <3>1. PICK n \in Numbers :
             /\ call' = [fn |-> "atoi", n |-> n]
             /\ result' = [decimal |-> atoi(Decimal(n), 10), hex |-> atoi(Hexadecimal(n), 16),
                           itoa |-> atoi(itoa(n, 10), 10)]
      BY <2>2 DEF Starts, CallNumber, Calls
    <3>2. n \in Nat
      BY LibraryAssumption
    <3>3. Decimal(n) = DecDigits[n]
      <4>1. Spells(DecDigits[n], 10, n)
        BY <3>2, DecSpells
      <4>2. DecDigits[n] \in Seq(Int)
        BY <4>1 DEF Spells
      <4>3. PICK d : d = DecDigits[n]
        OBVIOUS
      <4>4. << >> \o d = d
        BY <4>2, <4>3, ConcatEmptySeq
      <4>5. Decimal(n) = (IF n < 0 THEN <<MINUS>> ELSE << >>) \o d
        BY <4>3 DEF Decimal
      <4>6. ~(n < 0)
        BY <3>2
      <4> QED BY ONLY <4>3, <4>4, <4>5, <4>6
    <3>4. atoi(Decimal(n), 10) = <<n, Len(Decimal(n))>>
      BY <3>2, <3>3, DecSpells, AtoiSpells
    <3>5. atoi(Hexadecimal(n), 16) = <<n, Len(Hexadecimal(n))>>
      BY <3>2, HexSpells, AtoiSpells DEF Hexadecimal
    <3>6. atoi(itoa(n, 10), 10)[1] = n
      BY <3>2, RestSpells, AtoiSpells DEF itoa
    <3>7. /\ call'.n = n /\ result'.decimal = atoi(Decimal(n), 10)
          /\ result'.hex = atoi(Hexadecimal(n), 16)
          /\ result'.itoa = atoi(itoa(n, 10), 10)
      BY <3>1
    <3> QED BY ONLY <3>4, <3>5, <3>6, <3>7 DEF NumbersReadBack
  <2>3. CASE call'.fn \in Fns \ {"atoi"}
    BY <2>3 DEF NumbersReadBack, Fns
  <2> QED BY <2>1, <2>2, <2>3, Steps
<1> QED BY <1>1, <1>2, PTL DEF Spec

-----------------------------------------------------------------------------
\* strtok.  Where a token ends, and where the search for it began.
EndOf(ts, k) == ts[k].at + Len(ts[k].text)
FromOf(ts, k) == IF k = 1 THEN 0 ELSE EndOf(ts, k - 1) + 1
\* What one call finds in a line from a place on: delimiters, then the token, then
\* a delimiter or the end.
Found(ln, d, from, start, end) ==
  /\ start \in Nat /\ end \in Nat /\ from <= start /\ start <= end /\ end <= Len(ln)
  /\ \A i \in from + 1 .. start : Contains(d, ln[i])
  /\ \A i \in start + 1 .. end : ~Contains(d, ln[i])
  /\ end < Len(ln) => Contains(d, ln[end + 1])
FoundAt(ts, ln, k) ==
  /\ ts[k].text = SubSeq(ln, ts[k].at + 1, EndOf(ts, k))
  /\ Found(ln, ts[k].delimiters, FromOf(ts, k), ts[k].at, EndOf(ts, k))
\* The memory from place i on is still what it was.
Uncut(m, ln, i) ==
  m \in Seq(Int) /\ Len(m) = Len(ln) /\ \A j \in Nat : i < j /\ j <= Len(ln) => m[j] = ln[j]

TokenRecords == [at : Nat, text : Texts, delimiters : Texts]
\* The tokens are what the calls found, each after the one before, and every
\* character up to lim was looked at by some call.
History(ts, ln, lim) ==
  /\ \A k \in 1 .. Len(ts) : FoundAt(ts, ln, k)
  /\ \A j, k \in 1 .. Len(ts) : j < k => EndOf(ts, j) < ts[k].at
  /\ \A i \in 1 .. lim : \E k \in 1 .. Len(ts) : FromOf(ts, k) < i /\ i <= EndOf(ts, k) + 1
\* s_mem is behind the delimiter after the last token, and null when that ends with
\* the line.
Tokens(ln, ts, sm, m) ==
  /\ ln \in Texts /\ ts \in Seq(TokenRecords) /\ sm \in Int
  /\ sm # NULL =>
        /\ ts # << >> /\ sm = EndOf(ts, Len(ts)) + 1 /\ sm <= Len(ln)
        /\ Uncut(m, ln, sm) /\ History(ts, ln, sm)
  /\ sm = NULL =>
        /\ ts # << >> => EndOf(ts, Len(ts)) = Len(ln)
        /\ History(ts, ln, Len(ln))
TokInv == Tokens(line, tokens, s_mem, mem)

\* The characters from the ith, i not included, to the jth.
LEMMA PartIs ==
  ASSUME NEW S, NEW s \in Seq(S), NEW i \in Nat, NEW j \in Nat, i <= j, j <= Len(s)
  PROVE  /\ SubSeq(s, i + 1, j) \in Seq(S) /\ Len(SubSeq(s, i + 1, j)) = j - i
         /\ \A k \in 1 .. j - i : SubSeq(s, i + 1, j)[k] = s[i + k]
<1>1. i + 1 \in Int /\ j \in Int /\ \A k \in i + 1 .. j : s[k] \in S
  OBVIOUS
<1>2. PICK p : p = SubSeq(s, i + 1, j)
  OBVIOUS
<1>3. /\ p \in Seq(S) /\ Len(p) = IF i + 1 <= j THEN j - (i + 1) + 1 ELSE 0
      /\ \A k \in 1 .. j - (i + 1) + 1 : p[k] = s[(i + 1) + k - 1]
  BY ONLY <1>1, <1>2, SubSeqProperties
<1>4. j - (i + 1) + 1 = j - i /\ (~(i + 1 <= j) => j - i = 0)
      /\ \A k \in 1 .. j - i : (i + 1) + k - 1 = i + k
  OBVIOUS
<1> QED BY <1>2, <1>3, <1>4
PartOf(p, s, i, j) == Len(p) = j - i /\ \A k \in 1 .. j - i : p[k] = s[i + k]
LEMMA PartOfIs ==
  ASSUME NEW S, NEW s \in Seq(S), NEW i \in Nat, NEW j \in Nat, i <= j, j <= Len(s)
  PROVE  PartOf(SubSeq(s, i + 1, j), s, i, j)
BY PartIs DEF PartOf

\* One call of strtok, on a memory that is uncut from there on.
CutRight(t, ln, d, from) ==
  \E end \in Nat :
     /\ Found(ln, d, from, t.at, end)
     /\ CString(t.mem, t.at) = SubSeq(ln, t.at + 1, end)
     /\ end < Len(ln) => t.s_mem = end + 1 /\ Uncut(t.mem, ln, end + 1)
     /\ end = Len(ln) => t.s_mem = NULL
LEMMA TokenRight ==
  ASSUME NEW ln \in Texts, NEW m, NEW d \in Texts, NEW from \in Nat,
         from <= Len(ln), Uncut(m, ln, from)
  PROVE  CutRight(Token(m, d, from), ln, d, from)
<1>1. PICK n \in Nat : n = Len(ln)
  BY DEF Texts
<1>2. m \in Seq(Int) /\ Len(m) = n /\ \A j \in Nat : from < j /\ j <= n => m[j] = ln[j]
  BY <1>1 DEF Uncut
<1>3. At(m, n) = NUL
  BY <1>2 DEF At
<1>4. \A i \in Nat : from <= i /\ i < n =>
         At(m, i) = ln[i + 1] /\ At(m, i) # NUL /\ m[i + 1] = ln[i + 1]
  <2> TAKE i \in Nat
  <2> SUFFICES ASSUME from <= i, i < n
               PROVE  At(m, i) = ln[i + 1] /\ At(m, i) # NUL /\ m[i + 1] = ln[i + 1]
    OBVIOUS
  <2>1. At(m, i) = m[i + 1]
    BY <1>2 DEF At
  <2>2. i + 1 \in Nat /\ from < i + 1 /\ i + 1 <= n
    OBVIOUS
  <2>3. m[i + 1] = ln[i + 1]
    BY <1>2, <2>2
  <2>4. ln[i + 1] = At(ln, i) /\ At(ln, i) # NUL
    BY <1>1, AtIs
  <2> QED BY <2>1, <2>3, <2>4
<1>5. ~Contains(d, NUL)
  <2>1. \A i \in 1 .. Len(d) : d[i] \in Chars
    BY DEF Texts
  <2> QED BY <2>1, LibraryAssumption DEF Contains
<1>6. PICK S : S = {i \in from .. n : ~DelimAt(m, d, i)}
  OBVIOUS
<1>7. S \in SUBSET Nat /\ n \in S
  BY <1>1, <1>3, <1>5, <1>6 DEF DelimAt
<1>8. PICK start \in S : start = Min(S) /\ \A k \in S : start <= k
  BY <1>7, MinOfNat
<1>9. start \in Nat /\ from <= start /\ start <= n
  BY <1>1, <1>6, <1>8
<1>10. start = SkipDelims(m, d, from)
  BY <1>2, <1>6, <1>8 DEF SkipDelims
<1>11. PICK E : E = {i \in start .. n : At(m, i) = NUL \/ DelimAt(m, d, i)}
  OBVIOUS
<1>12. E \in SUBSET Nat /\ n \in E
  BY <1>3, <1>9, <1>11
<1>13. PICK end \in E : end = Min(E) /\ \A k \in E : end <= k
  BY <1>12, MinOfNat
<1>14. end \in Nat /\ start <= end /\ end <= n
  BY <1>9, <1>11, <1>13
<1>15. end = TokenEnd(m, d, start)
  BY <1>2, <1>11, <1>13 DEF TokenEnd
<1>16. \A i \in from + 1 .. start : Contains(d, ln[i])
  <2> TAKE i \in from + 1 .. start
  <2>1. PICK k \in Nat : k = i - 1 /\ k + 1 = i /\ from <= k /\ k < start /\ k < n
    BY <1>9
  <2>2. k \notin S
    BY <1>8, <1>9, <2>1
  <2>3. DelimAt(m, d, k)
    BY <1>6, <2>1, <2>2
  <2> QED BY <1>4, <2>1, <2>3 DEF DelimAt
<1>17. \A k \in Nat : start <= k /\ k < end =>
          At(m, k) = ln[k + 1] /\ At(m, k) # NUL /\ m[k + 1] = ln[k + 1] /\ ~Contains(d, ln[k + 1])
  <2> TAKE k \in Nat
  <2> SUFFICES ASSUME start <= k, k < end
               PROVE  At(m, k) = ln[k + 1] /\ At(m, k) # NUL /\ m[k + 1] = ln[k + 1]
                      /\ ~Contains(d, ln[k + 1])
    OBVIOUS
  <2>1. from <= k /\ k < n
    BY <1>9, <1>14
  <2>2. At(m, k) = ln[k + 1] /\ At(m, k) # NUL /\ m[k + 1] = ln[k + 1]
    BY <1>4, <2>1
  <2>3. k \notin E
    BY <1>13, <1>14
  <2>4. ~DelimAt(m, d, k)
    BY <1>11, <1>14, <2>1, <2>3
  <2> QED BY <2>2, <2>4 DEF DelimAt
<1>18. \A i \in start + 1 .. end : ~Contains(d, ln[i])
  <2> TAKE i \in start + 1 .. end
  <2>1. PICK k \in Nat : k = i - 1 /\ k + 1 = i /\ start <= k /\ k < end
    BY <1>9, <1>14
  <2> QED BY <1>17, <2>1
<1>19. end < n => Contains(d, ln[end + 1]) /\ At(m, end) # NUL
  <2> SUFFICES ASSUME end < n PROVE Contains(d, ln[end + 1]) /\ At(m, end) # NUL
    OBVIOUS
  <2>1. At(m, end) = ln[end + 1] /\ At(m, end) # NUL
    BY <1>4, <1>9, <1>14
  <2>2. At(m, end) = NUL \/ DelimAt(m, d, end)
    BY <1>11, <1>13
  <2> QED BY <2>1, <2>2 DEF DelimAt
<1>20. Found(ln, d, from, start, end)
  BY <1>1, <1>9, <1>14, <1>16, <1>18, <1>19 DEF Found
<1>21. PICK t : t = Token(m, d, from)
  OBVIOUS
<1>22. PICK x : x = t.mem
  OBVIOUS
<1>23. t.at = start
  BY <1>10, <1>15, <1>21 DEF Token
<1>24. /\ end < n => x = [m EXCEPT ![end + 1] = NUL] /\ t.s_mem = end + 1
       /\ end = n => x = m /\ t.s_mem = NULL
  <2>1. CASE end < n
    BY <1>10, <1>15, <1>19, <1>21, <1>22, <2>1 DEF Token
  <2>2. CASE end = n
    BY <1>3, <1>10, <1>15, <1>21, <1>22, <2>2 DEF Token
  <2> QED BY <1>14, <2>1, <2>2
<1>25. /\ x \in Seq(Int) /\ Len(x) = n
       /\ \A j \in 1 .. n : j # end + 1 => x[j] = m[j]
       /\ end < n => x[end + 1] = NUL
  <2>1. CASE end < n
    <3>1. x = [m EXCEPT ![end + 1] = NUL] /\ end + 1 \in 1 .. n /\ NUL \in Int
      BY <1>14, <1>24, <2>1 DEF NUL
    <3>2. x \in Seq(Int) /\ Len(x) = n
      BY <1>2, <3>1, ExceptSeq
    <3> QED BY <1>2, <3>1, <3>2
  <2>2. CASE end = n
    BY <1>2, <1>24, <2>2
  <2> QED BY <1>14, <2>1, <2>2
<1>26. At(x, end) = NUL
  BY <1>14, <1>25 DEF At
<1>27. \A k \in Nat : start <= k /\ k < end => At(x, k) = ln[k + 1] /\ At(x, k) # NUL /\ x[k + 1] = ln[k + 1]
  <2> TAKE k \in Nat
  <2> SUFFICES ASSUME start <= k, k < end
               PROVE  At(x, k) = ln[k + 1] /\ At(x, k) # NUL /\ x[k + 1] = ln[k + 1]
    OBVIOUS
  <2>1. k + 1 \in 1 .. n /\ k + 1 # end + 1 /\ k < n
    BY <1>14
  <2>2. x[k + 1] = m[k + 1]
    BY <1>25, <2>1
  <2>3. At(x, k) = x[k + 1]
    BY <1>25, <2>1 DEF At
  <2> QED BY <1>17, <2>2, <2>3
<1>28. Min({j \in start .. n : At(x, j) = NUL}) = end
  <2>1. PICK T : T = {j \in start .. n : At(x, j) = NUL}
    OBVIOUS
  <2>2. T \in SUBSET Int /\ end \in T
    BY <1>9, <1>14, <1>26, <2>1
  <2>3. \A k \in T : end <= k
    <3> SUFFICES ASSUME NEW k \in T, k < end PROVE FALSE
      BY <1>14, <2>2
    <3>1. k \in Nat /\ start <= k /\ At(x, k) = NUL
      BY <1>9, <2>1
    <3> QED BY <1>27, <3>1
  <2>4. Min(T) = end
    BY ONLY <2>2, <2>3, MinIs
  <2> QED BY <2>1, <2>4
<1>29. CString(x, start) = SubSeq(x, start + 1, end)
  BY <1>25, <1>28 DEF CString
<1>30. SubSeq(x, start + 1, end) = SubSeq(ln, start + 1, end)
  <2>1. \A k \in start + 1 .. end : x[k] = ln[k]
    <3> TAKE k \in start + 1 .. end
    <3>1. PICK j \in Nat : j = k - 1 /\ j + 1 = k /\ start <= j /\ j < end
      BY <1>9, <1>14
    <3> QED BY <1>27, <3>1
  <2>2. ln \in Seq(Chars) /\ x \in Seq(Int) /\ start \in Nat /\ end \in Nat
        /\ start <= end /\ end <= Len(ln) /\ end <= Len(x)
    BY <1>1, <1>9, <1>14, <1>25 DEF Texts
  <2>3. PICK a \in Seq(Int), b \in Seq(Chars) : a = SubSeq(x, start + 1, end) /\ b = SubSeq(ln, start + 1, end)
    <3>1. SubSeq(x, start + 1, end) \in Seq(Int)
      BY ONLY <2>2, PartIs
    <3>2. SubSeq(ln, start + 1, end) \in Seq(Chars)
      BY ONLY <2>2, PartIs
    <3> QED BY <3>1, <3>2
  <2>4. Len(a) = end - start /\ \A i \in 1 .. end - start : a[i] = x[start + i]
    <3>1. PartOf(SubSeq(x, start + 1, end), x, start, end)
      BY ONLY <2>2, PartOfIs
    <3>2. PartOf(a, x, start, end)
      BY ONLY <2>3, <3>1
    <3> QED BY ONLY <3>2 DEF PartOf
  <2>5. Len(b) = end - start /\ \A i \in 1 .. end - start : b[i] = ln[start + i]
    <3>1. PartOf(SubSeq(ln, start + 1, end), ln, start, end)
      BY ONLY <2>2, PartOfIs
    <3>2. PartOf(b, ln, start, end)
      BY ONLY <2>3, <3>1
    <3> QED BY ONLY <3>2 DEF PartOf
  <2>6. \A i \in 1 .. end - start : x[start + i] = ln[start + i]
    <3> TAKE i \in 1 .. end - start
    <3>1. start + i \in start + 1 .. end
      BY <1>9, <1>14
    <3> QED BY <2>1, <3>1
  <2>7. \A i \in 1 .. end - start : a[i] = b[i]
    BY <2>4, <2>5, <2>6
  <2>8. a = b
    BY ONLY <2>3, <2>4, <2>5, <2>7, SeqEqual
  <2> QED BY <2>3, <2>8
<1>31. end < n => Uncut(x, ln, end + 1)
  <2> SUFFICES ASSUME end < n PROVE Uncut(x, ln, end + 1)
    OBVIOUS
  <2>1. \A j \in Nat : end + 1 < j /\ j <= n => x[j] = ln[j]
    <3> TAKE j \in Nat
    <3> SUFFICES ASSUME end + 1 < j, j <= n PROVE x[j] = ln[j]
      OBVIOUS
    <3>1. j \in 1 .. n /\ j # end + 1 /\ from < j
      BY <1>9, <1>14
    <3> QED BY <1>2, <1>25, <3>1
  <2> QED BY <1>1, <1>25, <2>1 DEF Uncut
<1>32. /\ CString(t.mem, t.at) = SubSeq(ln, t.at + 1, end) /\ Found(ln, d, from, t.at, end)
       /\ end < Len(ln) => t.s_mem = end + 1 /\ Uncut(t.mem, ln, end + 1)
       /\ end = Len(ln) => t.s_mem = NULL
  BY <1>1, <1>20, <1>22, <1>23, <1>24, <1>29, <1>30, <1>31
<1> QED BY <1>14, <1>21, <1>32 DEF CutRight

LEMMA NoneIsEmpty ==
  ASSUME NEW S, NEW s \in Seq(S)
  PROVE  s # << >> <=> Len(s) # 0
<1>1. s # << >> => Len(s) # 0
  BY EmptySeq
<1> QED BY <1>1, EmptySeq

\* One token more: a call that goes on where the last token was cut off.
GoesOnAt(ts, from) == from = IF ts = << >> THEN 0 ELSE EndOf(ts, Len(ts)) + 1
LEMMA TokenAdds ==
  ASSUME NEW ln \in Texts, NEW ts \in Seq(TokenRecords), NEW m, NEW d \in Texts, NEW from \in Nat,
         from <= Len(ln), Uncut(m, ln, from), History(ts, ln, from),
         GoesOnAt(ts, from), NEW t, t = Token(m, d, from)
  PROVE  Tokens(ln, Append(ts, [at |-> t.at, text |-> CString(t.mem, t.at), delimiters |-> d]),
                t.s_mem, t.mem)
<1>1. PICK L \in Nat, n \in Nat : L = Len(ln) /\ n = Len(ts)
  BY DEF Texts
<1>2. PICK end \in Nat : /\ Found(ln, d, from, t.at, end)
                         /\ CString(t.mem, t.at) = SubSeq(ln, t.at + 1, end)
                         /\ end < L => t.s_mem = end + 1 /\ Uncut(t.mem, ln, end + 1)
                         /\ end = L => t.s_mem = NULL
  <2>1. CutRight(Token(m, d, from), ln, d, from)
    BY TokenRight
  <2> QED BY <1>1, <2>1 DEF CutRight
<1>3. PICK start \in Nat : start = t.at /\ from <= start /\ start <= end /\ end <= L
  BY <1>1, <1>2 DEF Found
<1>4. PICK x : x = SubSeq(ln, start + 1, end)
  OBVIOUS
<1>5. x \in Texts /\ Len(x) = end - start
  <2>1. ln \in Seq(Chars) /\ start <= end /\ end <= Len(ln)
    BY <1>1, <1>3 DEF Texts
  <2>2. x \in Seq(Chars) /\ Len(x) = end - start
    BY ONLY <1>4, <2>1, start \in Nat, end \in Nat, PartIs
  <2> QED BY <2>2 DEF Texts
<1>6. PICK r : r = [at |-> start, text |-> x, delimiters |-> d]
  OBVIOUS
<1>7. r \in TokenRecords /\ r.at = start /\ r.text = x /\ r.delimiters = d
  <2>1. x \in Texts /\ d \in Texts /\ start \in Nat
    BY <1>5
  <2>2. r \in TokenRecords
    BY ONLY <1>6, <2>1 DEF TokenRecords
  <2> QED BY ONLY <1>6, <2>2
<1>8. PICK us : us = Append(ts, r)
  OBVIOUS
<1>9. us \in Seq(TokenRecords) /\ us # << >> /\ Len(us) = n + 1
      /\ us[n + 1] = r /\ \A k \in 1 .. n : us[k] = ts[k]
  BY <1>1, <1>7, <1>8, AppendProperties
<1>10. EndOf(us, n + 1) = end
  <2>1. start + (end - start) = end
    BY <1>3
  <2> QED BY <1>5, <1>7, <1>9, <2>1 DEF EndOf
<1>11. \A k \in 1 .. n : EndOf(us, k) = EndOf(ts, k) /\ FromOf(us, k) = FromOf(ts, k)
  <2> TAKE k \in 1 .. n
  <2>1. EndOf(us, k) = EndOf(ts, k)
    BY <1>9 DEF EndOf
  <2>2. CASE k = 1
    BY <2>1, <2>2 DEF FromOf
  <2>3. CASE k # 1
    <3>1. k - 1 \in 1 .. n
      BY <2>3
    <3>2. EndOf(us, k - 1) = EndOf(ts, k - 1)
      BY <1>9, <3>1 DEF EndOf
    <3> QED BY <2>1, <3>2 DEF FromOf
  <2> QED BY <2>2, <2>3
<1>12. FromOf(us, n + 1) = from
  <2>1. CASE n = 0
    <3>1. ts = << >> /\ n + 1 = 1
      <4>1. Len(ts) = 0
        BY <1>1, <2>1
      <4>2. ts = << >>
        BY ONLY <4>1, ts \in Seq(TokenRecords), NoneIsEmpty
      <4> QED BY <2>1, <4>2
    <3>2. from = 0
      BY <3>1 DEF GoesOnAt
    <3> QED BY ONLY <3>1, <3>2 DEF FromOf
  <2>2. CASE n # 0
    <3>1. ts # << >> /\ n + 1 # 1 /\ (n + 1) - 1 = n /\ n \in 1 .. n
      BY <1>1, <2>2
    <3>2. EndOf(us, n) = EndOf(ts, n)
      BY <1>11, <3>1
    <3>3. from = EndOf(us, n) + 1
      BY <1>1, <3>1, <3>2 DEF GoesOnAt
    <3> QED BY <3>1, <3>3 DEF FromOf
  <2> QED BY <2>1, <2>2
<1>13. \A k \in 1 .. n : EndOf(ts, k) \in Nat /\ ts[k].at \in Nat /\ ts[k].at <= EndOf(ts, k)
  <2> TAKE k \in 1 .. n
  <2>1. FoundAt(ts, ln, k)
    BY <1>1 DEF History
  <2> QED BY <2>1 DEF FoundAt, Found
<1>14. \A k \in 1 .. n + 1 : FoundAt(us, ln, k)
  <2> TAKE k \in 1 .. n + 1
  <2>1. CASE k = n + 1
    <3>1. us[k].text = SubSeq(ln, us[k].at + 1, EndOf(us, k))
      BY <1>4, <1>7, <1>9, <1>10, <2>1
    <3>2. Found(ln, us[k].delimiters, FromOf(us, k), us[k].at, EndOf(us, k))
      BY <1>2, <1>3, <1>7, <1>9, <1>10, <1>12, <2>1
    <3> QED BY <3>1, <3>2 DEF FoundAt
  <2>2. CASE k # n + 1
    <3>1. k \in 1 .. n
      BY <2>2
    <3>2. FoundAt(ts, ln, k)
      BY <1>1, <3>1 DEF History
    <3> QED BY <1>9, <1>11, <3>1, <3>2 DEF FoundAt
  <2> QED BY <2>1, <2>2
<1>15. \A j \in 1 .. n : EndOf(ts, j) < from
  <2> TAKE j \in 1 .. n
  <2>1. n \in 1 .. n /\ ts # << >>
    BY <1>1
  <2>2. PICK e \in Nat : e = EndOf(ts, n) /\ from = e + 1 /\ ts[n].at \in Nat /\ ts[n].at <= e
    BY <1>1, <1>13, <2>1 DEF GoesOnAt
  <2>3. CASE j = n
    BY <2>2, <2>3
  <2>4. CASE j # n
    <3>1. j < n
      BY <2>4
    <3>2. EndOf(ts, j) < ts[n].at
      BY <1>1, <2>1, <3>1 DEF History
    <3>3. EndOf(ts, j) \in Nat
      BY <1>13
    <3> QED BY <2>2, <3>2, <3>3
  <2> QED BY <2>3, <2>4
<1>16. \A j, k \in 1 .. n + 1 : j < k => EndOf(us, j) < us[k].at
  <2> TAKE j, k \in 1 .. n + 1
  <2> SUFFICES ASSUME j < k PROVE EndOf(us, j) < us[k].at
    OBVIOUS
  <2>1. j \in 1 .. n
    OBVIOUS
  <2>2. CASE k = n + 1
    <3>1. PICK e \in Nat : e = EndOf(us, j) /\ e < from
      BY <1>11, <1>13, <1>15, <2>1
    <3>2. us[k].at = start
      BY <1>7, <1>9, <2>2
    <3> QED BY <1>3, <3>1, <3>2
  <2>3. CASE k # n + 1
    <3>1. k \in 1 .. n
      BY <2>3
    <3>2. EndOf(ts, j) < ts[k].at
      BY <1>1, <2>1, <3>1 DEF History
    <3> QED BY <1>9, <1>11, <2>1, <3>1, <3>2
  <2> QED BY <2>2, <2>3
<1>17. \A i \in 1 .. end + 1 : \E k \in 1 .. n + 1 : FromOf(us, k) < i /\ i <= EndOf(us, k) + 1
  <2> TAKE i \in 1 .. end + 1
  <2>1. CASE i <= from
    <3>1. PICK k \in 1 .. n : FromOf(ts, k) < i /\ i <= EndOf(ts, k) + 1
      BY <1>1, <2>1 DEF History
    <3>2. k \in 1 .. n + 1
      OBVIOUS
    <3> QED BY <1>11, <3>1, <3>2
  <2>2. CASE ~(i <= from)
    <3>1. n + 1 \in 1 .. n + 1 /\ from < i /\ i <= end + 1
      BY <2>2
    <3> QED BY <1>10, <1>12, <3>1
  <2> QED BY <2>1, <2>2
<1>18. CASE end < L
  <2>1. History(us, ln, end + 1)
    BY <1>9, <1>14, <1>16, <1>17 DEF History
  <2>2. t.s_mem = end + 1 /\ t.s_mem \in Int /\ t.s_mem # NULL /\ end + 1 <= L
    BY <1>2, <1>18 DEF NULL
  <2>3. Tokens(ln, us, t.s_mem, t.mem)
    BY <1>1, <1>2, <1>9, <1>10, <1>18, <2>1, <2>2 DEF Tokens
  <2> QED BY <1>2, <1>3, <1>4, <1>6, <1>8, <2>3
<1>19. CASE end = L
  <2>1. \A i \in 1 .. L : i \in 1 .. end + 1
    BY <1>19
  <2>2. History(us, ln, L)
    BY <1>9, <1>14, <1>16, <1>17, <2>1 DEF History
  <2>3. t.s_mem = NULL /\ t.s_mem \in Int
    BY <1>2, <1>19 DEF NULL
  <2>4. Tokens(ln, us, t.s_mem, t.mem)
    BY <1>1, <1>9, <1>10, <1>19, <2>2, <2>3 DEF Tokens
  <2> QED BY <1>2, <1>3, <1>4, <1>6, <1>8, <2>4
<1> QED BY <1>3, <1>18, <1>19

LEMMA NoTokens == Tokens(<< >>, << >>, NULL, << >>)
<1>1. << >> \in Texts /\ << >> \in Seq(TokenRecords) /\ NULL \in Int
  BY EmptySeq DEF Texts, NULL
<1>2. PICK e \in Texts : e = << >> /\ Len(e) = 0
  BY <1>1, EmptySeq DEF Texts
<1>3. History(<< >>, << >>, 0)
  BY <1>2 DEF History
<1> QED BY <1>1, <1>2, <1>3 DEF Tokens

\* What strtok keeps, whatever is called.
LEMMA TokensKept ==
  ASSUME TokInv, [Next]_vars
  PROVE  TokInv'
<1>1. CASE UNCHANGED <<mem, s_mem, line, tokens>>
  BY <1>1 DEF TokInv
<1>2. CASE Forget
  <2>1. /\ line' = << >> /\ tokens' = << >> /\ s_mem' = NULL /\ mem' = << >>
    BY <1>2 DEF Forget
  <2> QED BY <2>1, NoTokens DEF TokInv
<1>3. \A d \in Delimiters : d \in Texts
  BY StrsAre DEF Delimiters
<1>4. CASE CallStrtokAgain
  <2>1. PICK d, t :
           /\ d \in Delimiters
           /\ t = Token(mem, d, s_mem)
           /\ tokens' = Append(tokens, [at |-> t.at, text |-> CString(t.mem, t.at), delimiters |-> d])
           /\ mem' = t.mem /\ s_mem' = t.s_mem /\ line' = line
    BY <1>4 DEF CallStrtokAgain, Cut
  <2>2. s_mem # NULL
    BY <1>4 DEF CallStrtokAgain
  <2>3. /\ line \in Texts /\ tokens \in Seq(TokenRecords) /\ s_mem \in Int
        /\ tokens # << >> /\ s_mem = EndOf(tokens, Len(tokens)) + 1 /\ s_mem <= Len(line)
        /\ Uncut(mem, line, s_mem) /\ History(tokens, line, s_mem)
    BY <2>2 DEF TokInv, Tokens
  <2>4. GoesOnAt(tokens, s_mem)
    BY <2>3 DEF GoesOnAt
  <2>5. s_mem \in Nat
    <3>1. PICK n \in Nat : n = Len(tokens) /\ n \in 1 .. n /\ n \in 1 .. Len(tokens)
      BY <2>3, EmptySeq
    <3>2. FoundAt(tokens, line, n)
      BY <2>3, <3>1 DEF History
    <3>3. EndOf(tokens, n) \in Nat
      BY <3>2 DEF FoundAt, Found
    <3> QED BY <2>3, <3>1, <3>3
  <2>6. d \in Texts
    BY <1>3, <2>1
  <2>7. Tokens(line, Append(tokens, [at |-> t.at, text |-> CString(t.mem, t.at), delimiters |-> d]),
               t.s_mem, t.mem)
    BY ONLY <2>1, <2>3, <2>4, <2>5, <2>6, TokenAdds
  <2> QED BY <2>1, <2>7 DEF TokInv
<1>5. CASE Idle /\ CallStrtok
  <2>0. PICK str \in Strs(MaxLen), d \in Delimiters : Cut(str, d, 0) /\ line' = str
    BY <1>5 DEF CallStrtok
  <2>1. PICK t :
           /\ t = Token(str, d, 0)
           /\ tokens' = Append(tokens, [at |-> t.at, text |-> CString(t.mem, t.at), delimiters |-> d])
           /\ mem' = t.mem /\ s_mem' = t.s_mem /\ line' = str
    BY <2>0 DEF Cut
  <2>2. tokens = << >>
    BY <1>5 DEF Idle
  <2>3. str \in Texts /\ d \in Texts /\ Len(str) \in Nat
    BY <1>3, LibraryAssumption, StrsAre
  <2>4. str \in Seq(Int)
    <3>1. str \in [1 .. Len(str) -> Chars]
      BY <2>3 DEF Texts
    <3>2. str \in [1 .. Len(str) -> Int]
      BY <3>1, LibraryAssumption
    <3> QED BY <2>3, <3>2, IsASeq
  <2>5. Uncut(str, str, 0)
    BY <2>4 DEF Uncut
  <2>6. << >> \in Seq(TokenRecords)
    BY EmptySeq
  <2>7. History(<< >>, str, 0)
    <3>1. PICK e : e = << >> /\ Len(e) = 0
      BY EmptySeq
    <3>2. 1 .. Len(e) = {} /\ 1 .. 0 = {}
      BY <3>1
    <3> QED BY <3>1, <3>2 DEF History
  <2>8. GoesOnAt(<< >>, 0) /\ 0 \in Nat /\ 0 <= Len(str)
    BY <2>3 DEF GoesOnAt
  <2>9. Tokens(str, Append(<< >>, [at |-> t.at, text |-> CString(t.mem, t.at), delimiters |-> d]),
               t.s_mem, t.mem)
    BY ONLY <2>1, <2>3, <2>5, <2>6, <2>7, <2>8, TokenAdds
  <2> QED BY <2>1, <2>2, <2>9 DEF TokInv
<1> QED BY <1>1, <1>2, <1>4, <1>5 DEF Next, Return, CallCompare, CallMove, CallFind, CallChar,
           CallSpan, CallNumber, CallPrint, CallScan, Calls, vars

\* The record of a token, and what FoundAt says of it.
LEMMA ATokenIs ==
  ASSUME NEW ln \in Texts, NEW ts \in Seq(TokenRecords), NEW lim, History(ts, ln, lim),
         NEW k \in 1 .. Len(ts)
  PROVE  /\ ts[k].at \in Nat /\ ts[k].text \in Texts /\ ts[k].delimiters \in Texts
         /\ EndOf(ts, k) \in Nat /\ ts[k].at <= EndOf(ts, k) /\ EndOf(ts, k) <= Len(ln)
         /\ Len(ts[k].text) \in Nat
         /\ \A i \in 1 .. Len(ts[k].text) : ts[k].text[i] = ln[ts[k].at + i]
<1>1. ts[k] \in TokenRecords
  OBVIOUS
<1>2. ts[k].at \in Nat /\ ts[k].text \in Texts /\ ts[k].delimiters \in Texts
  BY <1>1 DEF TokenRecords
<1>3. FoundAt(ts, ln, k)
  BY DEF History
<1>4. /\ EndOf(ts, k) \in Nat /\ ts[k].at <= EndOf(ts, k) /\ EndOf(ts, k) <= Len(ln)
      /\ ts[k].text = SubSeq(ln, ts[k].at + 1, EndOf(ts, k))
  BY <1>3 DEF FoundAt, Found
<1>5. PICK at \in Nat, end \in Nat, text \in Texts :
         /\ at = ts[k].at /\ end = EndOf(ts, k) /\ text = ts[k].text
         /\ at <= end /\ end <= Len(ln) /\ text = SubSeq(ln, at + 1, end)
  BY <1>2, <1>4
<1>6. Len(text) = end - at /\ \A i \in 1 .. end - at : text[i] = ln[at + i]
  <2>1. ln \in Seq(Chars)
    BY DEF Texts
  <2>2. at \in Nat /\ end \in Nat
    OBVIOUS
  <2>3. at <= end /\ end <= Len(ln)
    BY <1>5
  <2>4. /\ Len(SubSeq(ln, at + 1, end)) = end - at
        /\ \A i \in 1 .. end - at : SubSeq(ln, at + 1, end)[i] = ln[at + i]
    BY ONLY <2>1, <2>2, <2>3, PartIs
  <2> QED BY <1>5, <2>4
<1>7. Len(text) \in Nat
  <2>1. at <= end /\ Len(text) = end - at
    BY <1>5, <1>6
  <2> QED BY ONLY <2>1, at \in Nat, end \in Nat
<1> QED BY <1>2, <1>4, <1>5, <1>6, <1>7

\* From what strtok keeps follows what it promises.
LEMMA WordsFollow ==
  ASSUME TokInv
  PROVE  TokensAreWords
<1>1. line \in Texts /\ tokens \in Seq(TokenRecords)
  BY DEF TokInv, Tokens
<1>2. PICK n \in Nat, L \in Nat : n = Len(tokens) /\ L = Len(line)
                                 /\ DOMAIN tokens = 1 .. n /\ DOMAIN line = 1 .. L
  BY <1>1 DEF Texts
<1>3. PICK lim : History(tokens, line, lim) /\ (s_mem = NULL => lim = L)
  BY <1>2 DEF TokInv, Tokens
<1>4. \A k \in 1 .. n, c \in Chars :
         Contains(tokens[k].delimiters, c) => ~Contains(tokens[k].text, c)
  <2> TAKE k \in 1 .. n, c \in Chars
  <2> SUFFICES ASSUME Contains(tokens[k].delimiters, c), Contains(tokens[k].text, c) PROVE FALSE
    OBVIOUS
  <2>1. PICK i \in 1 .. Len(tokens[k].text) : tokens[k].text[i] = c
    BY DEF Contains
  <2>2. k \in 1 .. Len(tokens)
    BY <1>2
  <2>3. /\ tokens[k].text[i] = line[tokens[k].at + i]
        /\ tokens[k].at \in Nat /\ Len(tokens[k].text) \in Nat
    BY ONLY <1>1, <1>3, <2>1, <2>2, ATokenIs
  <2>4. tokens[k].at + i \in tokens[k].at + 1 .. EndOf(tokens, k)
    BY <2>3 DEF EndOf
  <2>5. FoundAt(tokens, line, k)
    BY <1>2, <1>3 DEF History
  <2> QED BY <2>1, <2>3, <2>4, <2>5 DEF FoundAt, Found
<1>5. PICK D : D = tokens[1].delimiters
  OBVIOUS
<1> DEFINE Inside(i) == i \in DOMAIN line /\ ~Contains(D, line[i])
<1>6. ASSUME s_mem = NULL, \A k \in 1 .. n : tokens[k].delimiters = D
      PROVE  /\ \A k \in 1 .. n :
                   /\ tokens[k].text = SubSeq(line, tokens[k].at + 1, tokens[k].at + Len(tokens[k].text))
                   /\ ~Inside(tokens[k].at) /\ ~Inside(tokens[k].at + Len(tokens[k].text) + 1)
             /\ \A j, k \in 1 .. n : j < k => tokens[j].at + Len(tokens[j].text) < tokens[k].at
             /\ \A i \in 1 .. L : Inside(i) <=> \E k \in 1 .. n : i \in TokenPlace(k)
  <2>1. \A k \in 1 .. n :
          \E at \in Nat, end \in Nat, from \in Int :
             /\ at = tokens[k].at /\ end = EndOf(tokens, k) /\ from = FromOf(tokens, k)
             /\ from <= at /\ at <= end /\ end <= L
             /\ \A i \in from + 1 .. at : ~Inside(i)
             /\ \A i \in at + 1 .. end : Inside(i)
             /\ ~Inside(end + 1)
    <3> TAKE k \in 1 .. n
    <3>1. PICK at \in Nat, end \in Nat :
             at = tokens[k].at /\ end = EndOf(tokens, k) /\ at <= end /\ end <= L
      BY <1>1, <1>2, <1>3, ATokenIs
    <3>2. PICK from \in Int : from = FromOf(tokens, k) /\ 0 <= from
      <4>1. CASE k = 1
        BY <4>1 DEF FromOf
      <4>2. CASE k # 1
        <5>1. k - 1 \in 1 .. n
          BY <4>2
        <5>2. EndOf(tokens, k - 1) \in Nat
          BY <1>1, <1>2, <1>3, <5>1, ATokenIs
        <5> QED BY <4>2, <5>2 DEF FromOf
      <4> QED BY <4>1, <4>2
    <3>3. Found(line, D, from, at, end)
      <4>1. FoundAt(tokens, line, k)
        BY <1>2, <1>3 DEF History
      <4> QED BY <1>6, <3>1, <3>2, <4>1 DEF FoundAt
    <3>4. from <= at /\ \A i \in from + 1 .. at : ~Inside(i)
      BY <3>3 DEF Found
    <3>5. \A i \in at + 1 .. end : Inside(i)
      <4> TAKE i \in at + 1 .. end
      <4>1. i \in 1 .. L
        BY <3>1
      <4> QED BY <1>2, <3>3, <4>1 DEF Found
    <3>6. ~Inside(end + 1)
      <4> SUFFICES ASSUME end + 1 \in 1 .. L PROVE Contains(D, line[end + 1])
        BY <1>2
      <4> QED BY <1>2, <3>1, <3>3 DEF Found
    <3> QED BY <3>1, <3>2, <3>4, <3>5, <3>6
  <2>2. \A k \in 1 .. n : ~Inside(tokens[k].at)
    <3> TAKE k \in 1 .. n
    <3>1. PICK at \in Nat, from \in Int :
             /\ at = tokens[k].at /\ from = FromOf(tokens, k) /\ from <= at
             /\ \A i \in from + 1 .. at : ~Inside(i)
      BY <2>1
    <3>2. CASE from < at
      BY <3>1, <3>2
    <3>3. CASE from = at /\ k = 1
      <4>1. at = 0
        BY <3>1, <3>3 DEF FromOf
      <4> QED BY <1>2, <3>1, <4>1
    <3>4. CASE from = at /\ k # 1
      <4>1. k - 1 \in 1 .. n
        BY <3>4
      <4>2. PICK end \in Nat : end = EndOf(tokens, k - 1) /\ ~Inside(end + 1)
        BY <2>1, <4>1
      <4>3. at = end + 1
        BY <3>1, <3>4, <4>2 DEF FromOf
      <4> QED BY <3>1, <4>2, <4>3
    <3> QED BY <3>1, <3>2, <3>3, <3>4
  <2>3. \A k \in 1 .. n :
           /\ tokens[k].text = SubSeq(line, tokens[k].at + 1, tokens[k].at + Len(tokens[k].text))
           /\ ~Inside(tokens[k].at + Len(tokens[k].text) + 1)
    <3> TAKE k \in 1 .. n
    <3>1. EndOf(tokens, k) = tokens[k].at + Len(tokens[k].text)
      BY DEF EndOf
    <3>2. FoundAt(tokens, line, k)
      BY <1>2, <1>3 DEF History
    <3>3. ~Inside(EndOf(tokens, k) + 1)
      BY <2>1
    <3> QED BY <3>1, <3>2, <3>3 DEF FoundAt
  <2>4. \A j, k \in 1 .. n : j < k => tokens[j].at + Len(tokens[j].text) < tokens[k].at
    BY <1>2, <1>3 DEF History, EndOf
  <2>5. \A i \in 1 .. L : Inside(i) => \E k \in 1 .. n : i \in TokenPlace(k)
    <3> TAKE i \in 1 .. L
    <3> SUFFICES ASSUME Inside(i) PROVE \E k \in 1 .. n : i \in TokenPlace(k)
      OBVIOUS
    <3>1. PICK k \in 1 .. n : FromOf(tokens, k) < i /\ i <= EndOf(tokens, k) + 1
      BY <1>2, <1>3, <1>6 DEF History
    <3>2. PICK at \in Nat, end \in Nat, from \in Int :
             /\ at = tokens[k].at /\ end = EndOf(tokens, k) /\ from = FromOf(tokens, k)
             /\ \A j \in from + 1 .. at : ~Inside(j)
             /\ ~Inside(end + 1)
      BY <2>1
    <3>3. ~(i \in from + 1 .. at) /\ i # end + 1
      BY <3>2
    <3>4. i \in at + 1 .. end
      BY <3>1, <3>2, <3>3
    <3>5. i \in TokenPlace(k)
      BY <3>2, <3>4 DEF TokenPlace, EndOf
    <3> QED BY <3>5
  <2>6. \A i \in 1 .. L, k \in 1 .. n : i \in TokenPlace(k) => Inside(i)
    <3> TAKE i \in 1 .. L, k \in 1 .. n
    <3> SUFFICES ASSUME i \in TokenPlace(k) PROVE Inside(i)
      OBVIOUS
    <3>1. i \in tokens[k].at + 1 .. EndOf(tokens, k)
      BY DEF TokenPlace, EndOf
    <3> QED BY <2>1, <3>1
  <2> HIDE DEF Inside
  <2> QED BY <2>2, <2>3, <2>4, <2>5, <2>6
<1> QED BY <1>2, <1>4, <1>5, <1>6 DEF TokensAreWords

\* The tokens of strtok are the words of the line, whole, in order and once each,
\* whatever the line, and no token has a delimiter of its call in it.
THEOREM TokensRight == Spec => []TokensAreWords
<1>1. Init => TokInv
  BY NoTokens DEF Init, TokInv
<1>2. TokInv /\ [Next]_vars => TokInv'
  BY TokensKept
<1>3. TokInv => TokensAreWords
  BY WordsFollow
<1> QED BY <1>1, <1>2, <1>3, PTL DEF Spec
=============================================================================
