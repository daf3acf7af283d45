---------------------------- MODULE LinkedProofs ----------------------------
(***************************************************************************)
(* Proofs about LinkedPrograms: whatever the programs, the lists in memory  *)
(* stay circular and implement the sequences of Programs; and a semaphore   *)
(* nobody destroys lets no more through than it was created with and was    *)
(* given, which is what keeps neighbouring philosophers, and producers and  *)
(* consumers, apart.                                                        *)
(***************************************************************************)
EXTENDS LinkedPrograms, FiniteSetTheorems, SequenceTheorems, WellFoundedInduction, TLAPS

-----------------------------------------------------------------------------
\* Induction over the natural numbers, for a set of them.
LEMMA SetInduction ==
  ASSUME NEW S, 0 \in S, \A k \in Nat : k \in S => k + 1 \in S
  PROVE  \A k \in Nat : k \in S
<1> DEFINE T == Nat \ S
<1>1. SUFFICES ASSUME T # {} PROVE FALSE
  OBVIOUS
<1>2. PICK m \in T : \A k \in T : ~(k < m)
  <2>1. \E m \in T : \A k \in T : <<k, m>> \notin OpToRel(<, Nat)
    <3>1. T \subseteq Nat  OBVIOUS
    <3> HIDE DEF T
    <3> QED BY <1>1, <3>1, NatLessThanWellFounded, WFMin
  <2> QED BY <2>1 DEF OpToRel
<1>3. m \in Nat /\ m # 0 /\ m \notin S
  OBVIOUS
<1>4. m - 1 \in Nat /\ m - 1 < m
  BY <1>3
<1>5. m - 1 \in S
  BY <1>2, <1>4
<1>6. (m - 1) + 1 \in S
  BY <1>4, <1>5
<1> QED BY <1>3, <1>6

\* A function can be applied again and again.
Iterates(f, n, N1, a) == f = [i \in 0 .. n |-> IF i = 0 THEN a ELSE N1[f[i - 1]]]
LEMMA Iterated ==
  ASSUME NEW F, NEW a, NEW n \in Nat
  PROVE  \E f : Iterates(f, n, F, a)
<1> DEFINE S == {k \in Nat : \E f : Iterates(f, k, F, a)}
<1>1. 0 \in S
  <2>1. Iterates([i \in 0 .. 0 |-> a], 0, F, a)
    BY DEF Iterates
  <2> QED BY <2>1
<1>2. ASSUME NEW k \in Nat, k \in S
      PROVE  k + 1 \in S
  <2>1. PICK f : Iterates(f, k, F, a)
    BY <1>2
  <2>2. PICK g : g = [i \in 0 .. k + 1 |-> IF i = k + 1 THEN F[f[k]] ELSE f[i]]
    OBVIOUS
  <2>3. \A i \in 0 .. k + 1 : g[i] = IF i = 0 THEN a ELSE F[g[i - 1]]
    <3>1. \A i \in 0 .. k : f[i] = IF i = 0 THEN a ELSE F[f[i - 1]]
      BY <2>1 DEF Iterates
    <3> QED BY <2>2, <3>1
  <2>4. Iterates(g, k + 1, F, a)
    BY <2>2, <2>3 DEF Iterates
  <2> QED BY <2>4
<1>3. \A k \in Nat : k \in S
  <2> HIDE DEF S
  <2> QED BY <1>1, <1>2, SetInduction
<1> QED BY <1>3
-----------------------------------------------------------------------------
\* The nodes: heads of lists, and items that are in a list or in none.
Sems == 0 .. MAX_SEMAPHORE - 1
Heads == {Available, Busy} \cup {Process(s) : s \in Sems}
Members == {Member(s) : s \in Sems}
Items == Members \cup {Link(p) : p \in Proc \cup {-1}}
Nodes == Heads \cup Items
Links == [next : [Nodes -> Nodes], last : [Nodes -> Nodes]]

LEMMA NodeFacts ==
  /\ \A s, t : Process(s) = Process(t) => s = t
  /\ \A s, t : Member(s) = Member(t) => s = t
  /\ \A p, q : Link(p) = Link(q) => p = q
  /\ \A s, p : Member(s) # Link(p)
  /\ \A s : Process(s) # Available /\ Process(s) # Busy
  /\ Available # Busy
  /\ Heads \cap Items = {}
  /\ \A s : Process(s)[2] = s /\ Member(s)[2] = s /\ Link(s)[2] = s
  /\ \A s : Process(s)[1] # "link" /\ Member(s)[1] # "link" /\ Link(s)[1] = "link"
  /\ Available[1] # "link" /\ Busy[1] # "link"
<1>1. \A x \in Heads : x[1] \in {"available", "busy", "process"}
  BY DEF Heads, Available, Busy, Process
<1>2. \A x \in Items : x[1] \in {"list", "link"}
  BY DEF Items, Members, Member, Link
<1>3. Heads \cap Items = {}
  BY <1>1, <1>2
<1>4. /\ \A s : Process(s)[1] = "process" /\ Process(s)[2] = s
      /\ \A s : Member(s)[1] = "list" /\ Member(s)[2] = s
      /\ \A p : Link(p)[1] = "link" /\ Link(p)[2] = p
      /\ Available[1] = "available" /\ Busy[1] = "busy"
  BY DEF Process, Member, Link, Available, Busy
<1> QED BY <1>3, <1>4

LEMMA NumberFacts ==
  /\ N \in Nat /\ N >= 2 /\ Producers \in Nat /\ Rounds \in Nat /\ MAX_SEMAPHORE \in Nat
  /\ Max({N, 3 * Producers}) \in Nat
  /\ N <= Max({N, 3 * Producers}) /\ 3 * Producers <= Max({N, 3 * Producers})
<1>1. N \in Nat /\ N >= 2 /\ Producers \in Nat /\ Rounds \in Nat /\ MAX_SEMAPHORE \in Nat
  BY NAssumption
<1>2. \E m \in {N, 3 * Producers} : \A y \in {N, 3 * Producers} : m >= y
  BY <1>1
<1>3. /\ Max({N, 3 * Producers}) \in {N, 3 * Producers}
      /\ \A y \in {N, 3 * Producers} : Max({N, 3 * Producers}) >= y
  BY <1>2 DEF Max
<1> QED BY <1>1, <1>3

LEMMA NodesFinite == IsFiniteSet(Nodes)
<1>1. IsFiniteSet(Sems) /\ IsFiniteSet(Proc)
  <2>1. 0 \in Int /\ MAX_SEMAPHORE - 1 \in Int /\ Max({N, 3 * Producers}) - 1 \in Int
    BY NumberFacts
  <2> QED BY <2>1, FS_Interval DEF Sems, Proc
<1>2. IsFiniteSet(Proc \cup {-1})
  BY <1>1, FS_AddElement
<1>3. IsFiniteSet({Process(s) : s \in Sems})
  <2>1. PICK f : f = [s \in Sems |-> Process(s)]  OBVIOUS
  <2>2. f \in Surjection(Sems, {Process(s) : s \in Sems})
    BY <2>1 DEF Surjection
  <2> QED BY <1>1, <2>2, FS_Surjection
<1>4. IsFiniteSet(Members)
  <2>1. PICK f : f = [s \in Sems |-> Member(s)]  OBVIOUS
  <2>2. f \in Surjection(Sems, Members)
    BY <2>1 DEF Surjection, Members
  <2> QED BY <1>1, <2>2, FS_Surjection
<1>5. IsFiniteSet({Link(p) : p \in Proc \cup {-1}})
  <2>1. PICK f : f = [p \in Proc \cup {-1} |-> Link(p)]  OBVIOUS
  <2>2. f \in Surjection(Proc \cup {-1}, {Link(p) : p \in Proc \cup {-1}})
    BY <2>1 DEF Surjection
  <2> QED BY <1>2, <2>2, FS_Surjection
<1>6. IsFiniteSet({Available, Busy})
  <2>1. {Available, Busy} = {Available} \cup {Busy}
    OBVIOUS
  <2>2. IsFiniteSet({Available} \cup {Busy})
    BY FS_AddElement, FS_Singleton
  <2> QED BY <2>1, <2>2
<1> QED BY <1>3, <1>4, <1>5, <1>6, FS_Union DEF Nodes, Heads, Items
-----------------------------------------------------------------------------
\* The nodes of a list around its head: h, the items of s, and h again.  In a
\* chain each leads to the next and back, and no item comes twice.
Node(h, s, i) == IF i \in 1 .. Len(s) THEN s[i] ELSE h
Follows(L, x, y) == L.next[x] = y /\ L.last[y] = x
Chain(L, h, s) == \A i \in 0 .. Len(s) : Follows(L, Node(h, s, i), Node(h, s, i + 1))
Once(s) == \A i, j \in 1 .. Len(s) : s[i] = s[j] => i = j

LEMMA NodeIs ==
  ASSUME NEW h \in Heads, NEW s \in Seq(Items)
  PROVE  /\ Node(h, s, 0) = h /\ Node(h, s, Len(s) + 1) = h
         /\ \A i \in 1 .. Len(s) : Node(h, s, i) = s[i] /\ s[i] \in Items /\ s[i] # h
         /\ \A i \in 0 .. Len(s) + 1 : Node(h, s, i) \in Nodes
<1>1. Len(s) \in Nat /\ \A i \in 1 .. Len(s) : s[i] \in Items
  OBVIOUS
<1>2. \A x \in Items : x # h
  BY NodeFacts
<1> QED BY <1>1, <1>2 DEF Node, Nodes

\* Ring finds the items of a chain.
LEMMA RingIs ==
  ASSUME NEW L \in Links, NEW h \in Heads, NEW s \in Seq(Items), Once(s), Chain(L, h, s)
  PROVE  Ring(L, h) = s
<1> DEFINE n == Cardinality(DOMAIN L.next)
           node == CHOOSE f : f = [i \in 0 .. n + 1 |-> IF i = 0 THEN h ELSE L.next[f[i - 1]]]
           Ends(k) == node[k + 1] = h \/ k = n
           len == CHOOSE k \in 0 .. n : Ends(k) /\ \A j \in 0 .. k - 1 : ~Ends(j)
<1>1. DOMAIN L.next = Nodes /\ n \in Nat
  BY NodesFinite, FS_CardinalityType DEF Links
<1>2. Len(s) \in Nat /\ Len(s) <= n
  <2>1. \A i \in 1 .. Len(s) : s[i] \in Nodes
    BY NodeIs DEF Nodes
  <2>2. PICK f : f = [i \in 1 .. Len(s) |-> s[i]]  OBVIOUS
  <2>3. f \in Injection(1 .. Len(s), Nodes)
    BY <2>1, <2>2 DEF Injection, IsInjective, Once
  <2>4. Cardinality(1 .. Len(s)) = Len(s)
    <3>1. 1 \in Int /\ Len(s) \in Nat  OBVIOUS
    <3>2. Cardinality(1 .. Len(s)) = IF 1 > Len(s) THEN 0 ELSE Len(s) - 1 + 1
      BY <3>1, FS_Interval
    <3> QED BY <3>1, <3>2
  <2> QED BY <1>1, <2>3, <2>4, FS_Injection, NodesFinite
<1>3. node = [i \in 0 .. n + 1 |-> IF i = 0 THEN h ELSE L.next[node[i - 1]]]
  <2>1. \E f : f = [i \in 0 .. n + 1 |-> IF i = 0 THEN h ELSE L.next[f[i - 1]]]
    <3>1. \A m \in Nat : \E f : Iterates(f, m, L.next, h)
      BY Iterated
    <3>2. \E f : Iterates(f, n + 1, L.next, h)
      <4>1. n + 1 \in Nat  BY <1>1
      <4> HIDE DEF n
      <4> QED BY <4>1, <3>1
    <3> QED BY <3>2 DEF Iterates
  <2> QED BY <2>1
<1> HIDE DEF node
<1>4. \A i \in 0 .. Len(s) + 1 : node[i] = Node(h, s, i)
  <2> DEFINE S == {k \in Nat : k <= Len(s) + 1 => node[k] = Node(h, s, k)}
  <2>1. 0 \in S
    BY <1>1, <1>3, NodeIs
  <2>2. ASSUME NEW k \in Nat, k \in S PROVE k + 1 \in S
    <3>1. SUFFICES ASSUME k + 1 <= Len(s) + 1 PROVE node[k + 1] = Node(h, s, k + 1)
      OBVIOUS
    <3>2. node[k] = Node(h, s, k) /\ k \in 0 .. Len(s)
      BY <1>2, <2>2, <3>1
    <3>3. node[k + 1] = L.next[node[k]]
      BY <1>1, <1>2, <1>3, <3>2
    <3> QED BY <3>2, <3>3 DEF Chain, Follows
  <2>3. \A k \in Nat : k \in S
    <3> HIDE DEF S
    <3> QED BY <2>1, <2>2, SetInduction
  <2> QED BY <1>2, <2>3
<1>5. \A k \in 0 .. n : Ends(k) /\ (\A j \in 0 .. k - 1 : ~Ends(j)) <=> k = Len(s)
  <2>1. Ends(Len(s)) /\ Len(s) \in 0 .. n
    BY <1>2, <1>4, NodeIs
  <2>2. \A j \in 0 .. Len(s) - 1 : ~Ends(j)
    BY <1>2, <1>4, NodeIs
  <2> HIDE DEF Ends
  <2> QED BY <1>1, <1>2, <2>1, <2>2
<1>6. len = Len(s)
  <2> HIDE DEF Ends
  <2> QED BY <1>2, <1>5
<1>7. Ring(L, h) = [i \in 1 .. len |-> node[i]]
  BY DEF Ring, node
<1>8. \A i \in 1 .. Len(s) : node[i] = s[i]
  BY <1>2, <1>4, NodeIs
<1> HIDE DEF len
<1> QED BY <1>6, <1>7, <1>8
-----------------------------------------------------------------------------
\* A list for each head, and no item in two of them or twice in one.
Apart(c) ==
  /\ c \in [Heads -> Seq(Items)]
  /\ \A h, k \in Heads : \A i \in 1 .. Len(c[h]), j \in 1 .. Len(c[k]) :
        c[h][i] = c[k][j] => h = k /\ i = j
Chains(L, c) == Apart(c) /\ \A h \in Heads : Chain(L, h, c[h])
Unlisted(c, x) == \A h \in Heads : \A i \in 1 .. Len(c[h]) : c[h][i] # x

LEMMA ChainsRing ==
  ASSUME NEW L \in Links, NEW c, Chains(L, c), NEW h \in Heads
  PROVE  Ring(L, h) = c[h]
<1>1. c[h] \in Seq(Items) /\ Once(c[h]) /\ Chain(L, h, c[h])
  BY DEF Chains, Apart, Once
<1> QED BY <1>1, RingIs

\* The place of a node tells where it is.
LEMMA Placed ==
  ASSUME NEW c, Apart(c), NEW h \in Heads, NEW k \in Heads,
         NEW i \in 0 .. Len(c[h]), NEW j \in 0 .. Len(c[k]),
         Node(h, c[h], i) = Node(k, c[k], j)
  PROVE  h = k /\ i = j
<1>1. c[h] \in Seq(Items) /\ c[k] \in Seq(Items)
  BY DEF Apart
<1>2. \A x \in Heads : \A y \in Items : x # y
  BY NodeFacts
<1>3. CASE i = 0 /\ j = 0
  BY <1>1, <1>3, NodeIs
<1>4. CASE i # 0 /\ j # 0
  <2>1. i \in 1 .. Len(c[h]) /\ j \in 1 .. Len(c[k])
    BY <1>1, <1>4
  <2>2. c[h][i] = c[k][j]
    BY <1>1, <2>1, NodeIs
  <2> QED BY <2>1, <2>2 DEF Apart
<1>5. CASE i = 0 /\ j # 0
  <2>1. Node(h, c[h], i) = h /\ Node(k, c[k], j) \in Items
    BY <1>1, <1>5, NodeIs
  <2> QED BY <1>2, <2>1
<1>6. CASE i # 0 /\ j = 0
  <2>1. Node(h, c[h], i) \in Items /\ Node(k, c[k], j) = k
    BY <1>1, <1>6, NodeIs
  <2> QED BY <1>2, <2>1
<1> QED BY <1>3, <1>4, <1>5, <1>6

\* An item put into a list after its first m.
With(s, m, x) ==
  [i \in 1 .. Len(s) + 1 |-> IF i <= m THEN s[i] ELSE IF i = m + 1 THEN x ELSE s[i - 1]]
\* The list without its m-th item.
Without(s, m) == [i \in 1 .. Len(s) - 1 |-> IF i < m THEN s[i] ELSE s[i + 1]]

LEMMA WithIs ==
  ASSUME NEW s \in Seq(Items), NEW x \in Items, NEW m \in 0 .. Len(s)
  PROVE  /\ With(s, m, x) \in Seq(Items) /\ Len(With(s, m, x)) = Len(s) + 1
         /\ \A i \in 1 .. Len(s) + 1 :
              With(s, m, x)[i] = IF i <= m THEN s[i] ELSE IF i = m + 1 THEN x ELSE s[i - 1]
<1>1. Len(s) \in Nat /\ \A i \in 1 .. Len(s) : s[i] \in Items
  OBVIOUS
<1>2. \A i \in 1 .. Len(s) + 1 :
        (IF i <= m THEN s[i] ELSE IF i = m + 1 THEN x ELSE s[i - 1]) \in Items
  BY <1>1
<1>3. With(s, m, x) \in [1 .. Len(s) + 1 -> Items]
  BY <1>2 DEF With
<1>4. With(s, m, x) \in Seq(Items) /\ Len(With(s, m, x)) = Len(s) + 1
  BY <1>1, <1>3
<1>5. \A i \in 1 .. Len(s) + 1 :
        With(s, m, x)[i] = IF i <= m THEN s[i] ELSE IF i = m + 1 THEN x ELSE s[i - 1]
  BY DEF With
<1> HIDE DEF With
<1> QED BY <1>4, <1>5

LEMMA NodeWith ==
  ASSUME NEW s \in Seq(Items), NEW x \in Items, NEW m \in 0 .. Len(s), NEW h \in Heads
  PROVE  \A i \in 0 .. Len(s) + 2 : Node(h, With(s, m, x), i) =
            IF i <= m THEN Node(h, s, i) ELSE IF i = m + 1 THEN x ELSE Node(h, s, i - 1)
<1>1. Len(s) \in Nat  OBVIOUS
<1>2. PICK w : w = With(s, m, x)
  OBVIOUS
<1>3. /\ Len(w) = Len(s) + 1
      /\ \A i \in 1 .. Len(s) + 1 :
           w[i] = IF i <= m THEN s[i] ELSE IF i = m + 1 THEN x ELSE s[i - 1]
  BY <1>2, WithIs
<1> QED BY <1>1, <1>2, <1>3 DEF Node

LEMMA WithoutIs ==
  ASSUME NEW s \in Seq(Items), NEW m \in 1 .. Len(s)
  PROVE  /\ Without(s, m) \in Seq(Items) /\ Len(Without(s, m)) = Len(s) - 1
         /\ \A i \in 1 .. Len(s) - 1 : Without(s, m)[i] = IF i < m THEN s[i] ELSE s[i + 1]
<1>1. Len(s) \in Nat /\ \A i \in 1 .. Len(s) : s[i] \in Items
  OBVIOUS
<1>2. \A i \in 1 .. Len(s) - 1 : (IF i < m THEN s[i] ELSE s[i + 1]) \in Items
  BY <1>1
<1>3. Without(s, m) \in [1 .. Len(s) - 1 -> Items]
  BY <1>2 DEF Without
<1>4. Without(s, m) \in Seq(Items) /\ Len(Without(s, m)) = Len(s) - 1
  BY <1>1, <1>3
<1>5. \A i \in 1 .. Len(s) - 1 : Without(s, m)[i] = IF i < m THEN s[i] ELSE s[i + 1]
  BY DEF Without
<1> HIDE DEF Without
<1> QED BY <1>4, <1>5

LEMMA NodeWithout ==
  ASSUME NEW s \in Seq(Items), NEW m \in 1 .. Len(s), NEW h \in Heads
  PROVE  \A i \in 0 .. Len(s) : Node(h, Without(s, m), i) =
            IF i < m THEN Node(h, s, i) ELSE Node(h, s, i + 1)
<1>5. PICK w : w = Without(s, m)
  OBVIOUS
<1>6. PICK n \in Nat : n = Len(s)
  OBVIOUS
<1>1. n = Len(s) /\ w = Without(s, m)
  BY <1>5, <1>6
<1>2. Len(w) = n - 1 /\ \A i \in 1 .. n - 1 : w[i] = IF i < m THEN s[i] ELSE s[i + 1]
  BY <1>1, WithoutIs
<1>3. m \in Nat /\ 1 <= m /\ m <= n
  BY <1>1
<1>4. ASSUME NEW i \in 0 .. n
      PROVE  Node(h, w, i) = IF i < m THEN Node(h, s, i) ELSE Node(h, s, i + 1)
  <2>1. CASE i \in 1 .. n - 1
    <3>1. Node(h, w, i) = w[i] /\ Node(h, s, i) = s[i] /\ Node(h, s, i + 1) = s[i + 1]
      BY <1>1, <1>2, <2>1 DEF Node
    <3> QED BY <1>2, <2>1, <3>1
  <2>2. CASE i = 0
    BY <1>1, <1>2, <1>3, <2>2 DEF Node
  <2>3. CASE i = n
    <3>1. ~(i < m) \/ i = 0
      BY <1>3, <2>3
    <3>2. Node(h, w, n) = h /\ Node(h, s, n + 1) = h
      BY <1>1, <1>2 DEF Node
    <3> QED BY <1>3, <2>3, <3>1, <3>2
  <2> QED BY <2>1, <2>2, <2>3
<1> QED BY <1>1, <1>4

\* What __list_add and list_del_init write.
LEMMA InsertIs ==
  ASSUME NEW L \in Links, NEW a \in Nodes, NEW b \in Nodes, NEW x \in Nodes, x # a, x # b
  PROVE  /\ Insert(L, a, b, x) \in Links
         /\ \A y \in Nodes :
              /\ Insert(L, a, b, x).next[y] = IF y = a THEN x ELSE IF y = x THEN b ELSE L.next[y]
              /\ Insert(L, a, b, x).last[y] = IF y = b THEN x ELSE IF y = x THEN a ELSE L.last[y]
BY DEF Insert, Links

LEMMA DelIs ==
  ASSUME NEW L \in Links, NEW x \in Nodes
  PROVE  /\ ListDelInit(L, x) \in Links
         /\ \A y \in Nodes :
              /\ ListDelInit(L, x).next[y] =
                   IF y = x THEN x ELSE IF y = L.last[x] THEN L.next[x] ELSE L.next[y]
              /\ ListDelInit(L, x).last[y] =
                   IF y = x THEN x ELSE IF y = L.next[x] THEN L.last[x] ELSE L.last[y]
BY DEF ListDelInit, ListInit, Bypass, Links

\* An item that is in no list can be put into one,
LEMMA Inserted ==
  ASSUME NEW L \in Links, NEW c, Chains(L, c), NEW h \in Heads, NEW m \in 0 .. Len(c[h]),
         NEW x \in Items, Unlisted(c, x), NEW a, NEW b, NEW d,
         a = Node(h, c[h], m), b = Node(h, c[h], m + 1),
         d = [c EXCEPT ![h] = With(c[h], m, x)]
  PROVE  /\ Insert(L, a, b, x) \in Links
         /\ Chains(Insert(L, a, b, x), d)
<1> DEFINE P(k, i) == Node(k, c[k], i)
<1>1. /\ Apart(c) /\ c \in [Heads -> Seq(Items)] /\ c[h] \in Seq(Items)
      /\ \A k \in Heads : c[k] \in Seq(Items) /\ Len(c[k]) \in Nat
  BY DEF Chains, Apart
<1>2. /\ \A k \in Heads : P(k, 0) = k /\ P(k, Len(c[k]) + 1) = k
      /\ \A k \in Heads : \A i \in 0 .. Len(c[k]) + 1 : P(k, i) \in Nodes
  BY <1>1, NodeIs
<1>3. \A k \in Heads : \A i \in 0 .. Len(c[k]) + 1 : P(k, i) # x
  <2>1. \A k \in Heads : k # x
    BY NodeFacts
  <2> QED BY <1>1, <2>1, NodeIs DEF Unlisted
<1>4. \A k, l \in Heads : \A i \in 0 .. Len(c[k]), j \in 0 .. Len(c[l]) :
        P(k, i) = P(l, j) => k = l /\ i = j
  BY <1>1, Placed
<1>5. a \in Nodes /\ b \in Nodes /\ x \in Nodes /\ x # a /\ x # b
  BY <1>1, <1>2, <1>3 DEF Nodes
<1> DEFINE M == Insert(L, a, b, x)
<1>6. /\ M \in Links
      /\ \A y \in Nodes :
           /\ M.next[y] = IF y = a THEN x ELSE IF y = x THEN b ELSE L.next[y]
           /\ M.last[y] = IF y = b THEN x ELSE IF y = x THEN a ELSE L.last[y]
  BY <1>5 DEF Insert, Links
<1> HIDE DEF M
<1>7. \A k \in Heads : \A i \in 0 .. Len(c[k]) :
        L.next[P(k, i)] = P(k, i + 1) /\ L.last[P(k, i + 1)] = P(k, i)
  BY DEF Chains, Chain, Follows
<1>8. d \in [Heads -> Seq(Items)] /\ d[h] = With(c[h], m, x) /\ \A k \in Heads : k # h => d[k] = c[k]
  BY <1>1, WithIs
<1>9. Apart(d)
  <2>1. \A k \in Heads : \A i \in 1 .. Len(d[k]) :
          \/ d[k][i] = x /\ k = h /\ i = m + 1
          \/ k # h /\ i \in 1 .. Len(c[k]) /\ d[k][i] = c[k][i]
          \/ k = h /\ i <= m /\ i \in 1 .. Len(c[h]) /\ d[k][i] = c[h][i]
          \/ k = h /\ i > m + 1 /\ i - 1 \in 1 .. Len(c[h]) /\ d[k][i] = c[h][i - 1]
    <3>1. \A i \in 1 .. Len(d[h]) :
            \/ d[h][i] = x /\ i = m + 1
            \/ i <= m /\ i \in 1 .. Len(c[h]) /\ d[h][i] = c[h][i]
            \/ i > m + 1 /\ i - 1 \in 1 .. Len(c[h]) /\ d[h][i] = c[h][i - 1]
      <4>1. /\ Len(d[h]) = Len(c[h]) + 1
            /\ \A i \in 1 .. Len(c[h]) + 1 :
                 d[h][i] = IF i <= m THEN c[h][i] ELSE IF i = m + 1 THEN x ELSE c[h][i - 1]
        <5>1. /\ Len(With(c[h], m, x)) = Len(c[h]) + 1
              /\ \A i \in 1 .. Len(c[h]) + 1 : With(c[h], m, x)[i] =
                   IF i <= m THEN c[h][i] ELSE IF i = m + 1 THEN x ELSE c[h][i - 1]
          <6>1. c[h] \in Seq(Items) /\ m \in 0 .. Len(c[h]) /\ x \in Items
            BY <1>1
          <6> QED BY <6>1, WithIs
        <5> QED BY <1>8, <5>1
      <4> QED BY <1>1, <4>1
    <3> QED BY <1>8, <3>1
  <2> SUFFICES ASSUME NEW k \in Heads, NEW l \in Heads, NEW i \in 1 .. Len(d[k]),
                      NEW j \in 1 .. Len(d[l]), d[k][i] = d[l][j]
               PROVE  k = l /\ i = j
    BY <1>8 DEF Apart
  <2>2. CASE d[k][i] = x
    <3>1. \A l1 \in Heads : \A i1 \in 1 .. Len(c[l1]) : c[l1][i1] # x
      BY DEF Unlisted
    <3>2. ASSUME NEW k1 \in Heads, NEW i1 \in 1 .. Len(d[k1]), d[k1][i1] = x
          PROVE  k1 = h /\ i1 = m + 1
      <4>1. \/ d[k1][i1] = x /\ k1 = h /\ i1 = m + 1
            \/ k1 # h /\ i1 \in 1 .. Len(c[k1]) /\ d[k1][i1] = c[k1][i1]
            \/ k1 = h /\ i1 <= m /\ i1 \in 1 .. Len(c[h]) /\ d[k1][i1] = c[h][i1]
            \/ k1 = h /\ i1 > m + 1 /\ i1 - 1 \in 1 .. Len(c[h]) /\ d[k1][i1] = c[h][i1 - 1]
        BY <2>1
      <4> QED BY <3>1, <3>2, <4>1
    <3> QED BY <2>2, <3>2
  <2>3. CASE d[k][i] # x
    <3>1. /\ \/ k # h /\ i \in 1 .. Len(c[k]) /\ d[k][i] = c[k][i]
             \/ k = h /\ i <= m /\ i \in 1 .. Len(c[h]) /\ d[k][i] = c[h][i]
             \/ k = h /\ i > m + 1 /\ i - 1 \in 1 .. Len(c[h]) /\ d[k][i] = c[h][i - 1]
          /\ \/ l # h /\ j \in 1 .. Len(c[l]) /\ d[l][j] = c[l][j]
             \/ l = h /\ j <= m /\ j \in 1 .. Len(c[h]) /\ d[l][j] = c[h][j]
             \/ l = h /\ j > m + 1 /\ j - 1 \in 1 .. Len(c[h]) /\ d[l][j] = c[h][j - 1]
      BY <2>1, <2>3
    <3> QED BY <1>1, <3>1 DEF Apart
  <2> QED BY <2>2, <2>3
<1>10. ASSUME NEW k \in Heads, k # h
       PROVE  Chain(M, k, d[k])
  <2> SUFFICES ASSUME NEW i \in 0 .. Len(c[k])
               PROVE  Follows(M, P(k, i), P(k, i + 1))
    BY <1>8, <1>10 DEF Chain
  <2>1. P(k, i) # a
    BY <1>1, <1>4, <1>10
  <2>2. P(k, i + 1) # b
    <3>1. \E j \in 0 .. Len(c[k]) : P(k, i + 1) = P(k, j)
      BY <1>1, <1>2
    <3>2. \E j \in 0 .. Len(c[h]) : b = P(h, j)
      BY <1>1, <1>2
    <3> QED BY <1>4, <1>10, <3>1, <3>2
  <2>3. P(k, i) \in Nodes /\ P(k, i + 1) \in Nodes /\ P(k, i) # x /\ P(k, i + 1) # x
    BY <1>1, <1>2, <1>3
  <2> QED BY <1>6, <1>7, <2>1, <2>2, <2>3 DEF Follows
<1>11. Chain(M, h, d[h])
  <2>1. /\ Len(d[h]) = Len(c[h]) + 1
        /\ \A i \in 0 .. Len(c[h]) + 2 :
             Node(h, d[h], i) = IF i <= m THEN P(h, i) ELSE IF i = m + 1 THEN x ELSE P(h, i - 1)
    <3>1. Len(With(c[h], m, x)) = Len(c[h]) + 1
      BY <1>1, WithIs
    <3>2. \A i \in 0 .. Len(c[h]) + 2 : Node(h, With(c[h], m, x), i) =
            IF i <= m THEN P(h, i) ELSE IF i = m + 1 THEN x ELSE P(h, i - 1)
      BY <1>1, NodeWith
    <3> QED BY <1>8, <3>1, <3>2
  <2> SUFFICES ASSUME NEW i \in 0 .. Len(c[h]) + 1
               PROVE  Follows(M, Node(h, d[h], i), Node(h, d[h], i + 1))
    BY <2>1 DEF Chain
  <2>2. CASE i < m
    <3>1. Node(h, d[h], i) = P(h, i) /\ Node(h, d[h], i + 1) = P(h, i + 1)
      BY <1>1, <2>1, <2>2
    <3>2. P(h, i) # a
      BY <1>1, <1>4, <2>2
    <3>3. P(h, i + 1) # b
      <4>1. \E j \in 0 .. Len(c[h]) : b = P(h, j) /\ j # i + 1
        BY <1>1, <1>2, <2>2
      <4> QED BY <1>1, <1>4, <2>2, <4>1
    <3>4. P(h, i) \in Nodes /\ P(h, i + 1) \in Nodes /\ P(h, i) # x /\ P(h, i + 1) # x
      BY <1>1, <1>2, <1>3, <2>2
    <3>5. i \in 0 .. Len(c[h])
      BY <1>1, <2>2
    <3> HIDE DEF P
    <3>6. M.next[P(h, i)] = P(h, i + 1) /\ M.last[P(h, i + 1)] = P(h, i)
      BY <1>6, <1>7, <3>2, <3>3, <3>4, <3>5
    <3> QED BY <3>1, <3>6 DEF Follows
  <2>3. CASE i = m
    <3>1. Node(h, d[h], i) = a /\ Node(h, d[h], i + 1) = x
      BY <1>1, <2>1, <2>3
    <3> QED BY <1>5, <1>6, <3>1 DEF Follows
  <2>4. CASE i = m + 1
    <3>1. Node(h, d[h], i) = x /\ Node(h, d[h], i + 1) = b
      BY <1>1, <2>1, <2>4
    <3> QED BY <1>5, <1>6, <3>1 DEF Follows
  <2>5. CASE i > m + 1
    <3>1. Node(h, d[h], i) = P(h, i - 1) /\ Node(h, d[h], i + 1) = P(h, i)
      BY <1>1, <2>1, <2>5
    <3>2. P(h, i - 1) # a
      BY <1>1, <1>4, <2>5
    <3>3. P(h, i) # b
      <4>1. \E j \in 0 .. Len(c[h]) : P(h, i) = P(h, j) /\ j # m + 1
        <5>1. CASE i = Len(c[h]) + 1
          BY <1>1, <1>2, <5>1
        <5>2. CASE i # Len(c[h]) + 1
          <6>1. i \in 0 .. Len(c[h]) /\ i # m + 1
            <7>1. Len(c[h]) \in Nat /\ m \in Nat
              BY <1>1
            <7> QED BY <2>5, <5>2, <7>1
          <6> HIDE DEF P
          <6> QED BY <6>1
        <5> QED BY <5>1, <5>2
      <4>2. m + 1 \in 0 .. Len(c[h])
        BY <1>1, <2>5
      <4> QED BY <1>4, <4>1, <4>2
    <3>4. P(h, i - 1) \in Nodes /\ P(h, i) \in Nodes /\ P(h, i - 1) # x /\ P(h, i) # x
      BY <1>1, <1>2, <1>3, <2>5
    <3>5. L.next[P(h, i - 1)] = P(h, i) /\ L.last[P(h, i)] = P(h, i - 1)
      <4>1. i - 1 \in 0 .. Len(c[h]) /\ (i - 1) + 1 = i
        BY <1>1, <2>5
      <4> HIDE DEF P
      <4> QED BY <1>7, <4>1
    <3> QED BY <1>6, <3>1, <3>2, <3>3, <3>4, <3>5 DEF Follows
  <2> QED BY <1>1, <2>2, <2>3, <2>4, <2>5
<1> QED BY <1>6, <1>9, <1>10, <1>11 DEF M, Chains

\* and one that is in a list can be taken out.
LEMMA Removed ==
  ASSUME NEW L \in Links, NEW c, Chains(L, c), NEW h \in Heads, NEW m \in 1 .. Len(c[h]),
         NEW x, x = c[h][m], NEW d, d = [c EXCEPT ![h] = Without(c[h], m)]
  PROVE  /\ ListDelInit(L, x) \in Links
         /\ Chains(ListDelInit(L, x), d)
         /\ Unlisted(d, x)
<1> DEFINE P(k, i) == Node(k, c[k], i)
<1>1. /\ Apart(c) /\ c \in [Heads -> Seq(Items)] /\ c[h] \in Seq(Items)
      /\ \A k \in Heads : c[k] \in Seq(Items) /\ Len(c[k]) \in Nat
  BY DEF Chains, Apart
<1>2. /\ \A k \in Heads : P(k, 0) = k /\ P(k, Len(c[k]) + 1) = k
      /\ \A k \in Heads : \A i \in 0 .. Len(c[k]) + 1 : P(k, i) \in Nodes
  BY <1>1, NodeIs
<1>3. Len(c[h]) \in Nat /\ m \in Nat /\ m >= 1 /\ m <= Len(c[h])
  BY <1>1
<1>4. \A k, l \in Heads : \A i \in 0 .. Len(c[k]), j \in 0 .. Len(c[l]) :
        P(k, i) = P(l, j) => k = l /\ i = j
  BY <1>1, Placed
<1>5. x = P(h, m) /\ x \in Nodes /\ x \in Items
  BY <1>1, NodeIs DEF Nodes
<1>6. \A k \in Heads : \A i \in 0 .. Len(c[k]) :
        L.next[P(k, i)] = P(k, i + 1) /\ L.last[P(k, i + 1)] = P(k, i)
  BY DEF Chains, Chain, Follows
<1> DEFINE a == P(h, m - 1)
           b == P(h, m + 1)
           M == ListDelInit(L, x)
<1>7. L.last[x] = a /\ L.next[x] = b
  <2>1. m - 1 \in 0 .. Len(c[h]) /\ m \in 0 .. Len(c[h]) /\ (m - 1) + 1 = m
    BY <1>3
  <2> HIDE DEF P
  <2> QED BY <1>5, <1>6, <2>1
<1>8. /\ M \in Links
      /\ \A y \in Nodes :
           /\ M.next[y] = IF y = x THEN x ELSE IF y = a THEN b ELSE L.next[y]
           /\ M.last[y] = IF y = x THEN x ELSE IF y = b THEN a ELSE L.last[y]
  <2> HIDE DEF a, b, P
  <2> QED BY <1>5, <1>7, DelIs
<1> HIDE DEF M
<1>9. d \in [Heads -> Seq(Items)] /\ d[h] = Without(c[h], m) /\ \A k \in Heads : k # h => d[k] = c[k]
  BY <1>1, WithoutIs
<1>10. /\ Len(d[h]) = Len(c[h]) - 1
       /\ \A i \in 1 .. Len(c[h]) - 1 : d[h][i] = IF i < m THEN c[h][i] ELSE c[h][i + 1]
  <2>1. /\ Len(Without(c[h], m)) = Len(c[h]) - 1
        /\ \A i \in 1 .. Len(c[h]) - 1 :
             Without(c[h], m)[i] = IF i < m THEN c[h][i] ELSE c[h][i + 1]
    BY <1>1, WithoutIs
  <2> QED BY <1>9, <2>1
<1>11. \A k \in Heads : \A i \in 1 .. Len(d[k]) :
         \/ k # h /\ i \in 1 .. Len(c[k]) /\ d[k][i] = c[k][i]
         \/ k = h /\ i < m /\ i \in 1 .. Len(c[h]) /\ d[k][i] = c[h][i]
         \/ k = h /\ i >= m /\ i + 1 \in 1 .. Len(c[h]) /\ d[k][i] = c[h][i + 1]
  <2>1. \A i \in 1 .. Len(d[h]) :
          \/ i < m /\ i \in 1 .. Len(c[h]) /\ d[h][i] = c[h][i]
          \/ i >= m /\ i + 1 \in 1 .. Len(c[h]) /\ d[h][i] = c[h][i + 1]
    <3> SUFFICES ASSUME NEW i \in 1 .. Len(c[h]) - 1
                 PROVE  \/ i < m /\ i \in 1 .. Len(c[h]) /\ d[h][i] = c[h][i]
                        \/ i >= m /\ i + 1 \in 1 .. Len(c[h]) /\ d[h][i] = c[h][i + 1]
      BY <1>10
    <3>1. d[h][i] = IF i < m THEN c[h][i] ELSE c[h][i + 1]
      BY <1>10
    <3>2. i \in 1 .. Len(c[h]) /\ i + 1 \in 1 .. Len(c[h]) /\ (i < m \/ i >= m)
      BY <1>3
    <3> QED BY <3>1, <3>2
  <2> QED BY <1>9, <2>1
<1>12. Apart(d)
  <2> SUFFICES ASSUME NEW k \in Heads, NEW l \in Heads, NEW i \in 1 .. Len(d[k]),
                      NEW j \in 1 .. Len(d[l]), d[k][i] = d[l][j]
               PROVE  k = l /\ i = j
    BY <1>9 DEF Apart
  <2>1. /\ \/ k # h /\ i \in 1 .. Len(c[k]) /\ d[k][i] = c[k][i]
           \/ k = h /\ i < m /\ i \in 1 .. Len(c[h]) /\ d[k][i] = c[h][i]
           \/ k = h /\ i >= m /\ i + 1 \in 1 .. Len(c[h]) /\ d[k][i] = c[h][i + 1]
        /\ \/ l # h /\ j \in 1 .. Len(c[l]) /\ d[l][j] = c[l][j]
           \/ l = h /\ j < m /\ j \in 1 .. Len(c[h]) /\ d[l][j] = c[h][j]
           \/ l = h /\ j >= m /\ j + 1 \in 1 .. Len(c[h]) /\ d[l][j] = c[h][j + 1]
    BY <1>11
  <2>2. i \in Int /\ j \in Int
    OBVIOUS
  <2> QED BY <1>1, <1>3, <2>1, <2>2 DEF Apart
<1>13. Unlisted(d, x)
  <2> SUFFICES ASSUME NEW k \in Heads, NEW i \in 1 .. Len(d[k]), d[k][i] = c[h][m]
               PROVE  FALSE
    BY DEF Unlisted
  <2>1. \/ k # h /\ i \in 1 .. Len(c[k]) /\ d[k][i] = c[k][i]
        \/ k = h /\ i < m /\ i \in 1 .. Len(c[h]) /\ d[k][i] = c[h][i]
        \/ k = h /\ i >= m /\ i + 1 \in 1 .. Len(c[h]) /\ d[k][i] = c[h][i + 1]
    BY <1>11
  <2> QED BY <1>1, <1>3, <2>1 DEF Apart
<1>14. ASSUME NEW k \in Heads, k # h
       PROVE  Chain(M, k, d[k])
  <2> SUFFICES ASSUME NEW i \in 0 .. Len(c[k])
               PROVE  Follows(M, P(k, i), P(k, i + 1))
    BY <1>9, <1>14 DEF Chain
  <2>1. P(k, i) # a /\ P(k, i) # x
    BY <1>1, <1>3, <1>4, <1>5, <1>14
  <2>2. P(k, i + 1) # b /\ P(k, i + 1) # x
    <3>1. \E j \in 0 .. Len(c[k]) : P(k, i + 1) = P(k, j)
      BY <1>1, <1>2
    <3>2. \E j \in 0 .. Len(c[h]) : b = P(h, j)
      BY <1>1, <1>2, <1>3
    <3>3. x = P(h, m) /\ m \in 0 .. Len(c[h])
      BY <1>3, <1>5
    <3> QED BY <1>4, <1>14, <3>1, <3>2, <3>3
  <2>3. P(k, i) \in Nodes /\ P(k, i + 1) \in Nodes
    BY <1>1, <1>2
  <2> QED BY <1>6, <1>8, <2>1, <2>2, <2>3 DEF Follows
<1>15. Chain(M, h, d[h])
  <2>1. \A i \in 0 .. Len(c[h]) :
          Node(h, d[h], i) = IF i < m THEN P(h, i) ELSE P(h, i + 1)
    BY <1>1, <1>9, NodeWithout
  <2> SUFFICES ASSUME NEW i \in 0 .. Len(c[h]) - 1
               PROVE  Follows(M, Node(h, d[h], i), Node(h, d[h], i + 1))
    BY <1>10 DEF Chain
  <2> HIDE DEF P
  <2>0. i \in Nat /\ i <= Len(c[h]) - 1
    BY <1>3
  <2>2. CASE i < m - 1
    <3>1. Node(h, d[h], i) = P(h, i) /\ Node(h, d[h], i + 1) = P(h, i + 1)
      <4>1. i \in 0 .. Len(c[h]) /\ i + 1 \in 0 .. Len(c[h]) /\ i < m /\ i + 1 < m
        BY <1>3, <2>0, <2>2
      <4> QED BY <2>1, <4>1
    <3>2. P(h, i) # a /\ P(h, i) # x
      <4>1. i \in 0 .. Len(c[h]) /\ m - 1 \in 0 .. Len(c[h]) /\ m \in 0 .. Len(c[h])
            /\ i # m - 1 /\ i # m
        BY <1>3, <2>0, <2>2
      <4> QED BY <1>4, <1>5, <4>1
    <3>3. P(h, i + 1) # b /\ P(h, i + 1) # x
      <4>1. PICK j \in 0 .. Len(c[h]) : b = P(h, j) /\ j # i + 1
        <5>1. CASE m = Len(c[h])
          <6>1. b = P(h, 0) /\ 0 \in 0 .. Len(c[h]) /\ 0 # i + 1
            BY <1>2, <1>3, <2>0, <5>1
          <6> QED BY <6>1
        <5>2. CASE m # Len(c[h])
          <6>1. m + 1 \in 0 .. Len(c[h]) /\ m + 1 # i + 1
            BY <1>3, <2>0, <2>2, <5>2
          <6> QED BY <6>1
        <5> QED BY <5>1, <5>2
      <4>2. i + 1 \in 0 .. Len(c[h]) /\ i + 1 # m /\ m \in 0 .. Len(c[h])
        BY <1>3, <2>2
      <4>3. P(h, i + 1) # P(h, j) /\ P(h, i + 1) # P(h, m)
        <5>1. PICK q \in 0 .. Len(c[h]) : q = i + 1
          BY <4>2
        <5>2. q # j /\ q # m
          BY <4>1, <4>2, <5>1
        <5>3. P(h, q) # P(h, j) /\ P(h, q) # P(h, m)
          BY <1>4, <4>2, <5>2
        <5> QED BY <5>1, <5>3
      <4> QED BY <1>5, <4>1, <4>3
    <3>4. P(h, i) \in Nodes /\ P(h, i + 1) \in Nodes
      <4>1. i \in 0 .. Len(c[h]) + 1 /\ i + 1 \in 0 .. Len(c[h]) + 1
        BY <1>3, <2>0, <2>2
      <4> QED BY <1>2, <4>1
    <3> QED BY <1>3, <1>6, <1>8, <2>2, <3>1, <3>2, <3>3, <3>4 DEF Follows
  <2>3. CASE i = m - 1
    <3>1. Node(h, d[h], i) = a /\ Node(h, d[h], i + 1) = b
      BY <1>3, <2>1, <2>3
    <3>2. a # x /\ b # x
      <4>1. \E j \in 0 .. Len(c[h]) : b = P(h, j) /\ j # m
        BY <1>1, <1>2, <1>3
      <4>2. m - 1 \in 0 .. Len(c[h]) /\ m \in 0 .. Len(c[h]) /\ m - 1 # m
        BY <1>3
      <4> QED BY <1>4, <1>5, <4>1, <4>2
    <3>3. a \in Nodes /\ b \in Nodes
      <4>1. m - 1 \in 0 .. Len(c[h]) + 1 /\ m + 1 \in 0 .. Len(c[h]) + 1
        BY <1>3
      <4> QED BY <1>2, <4>1
    <3> QED BY <1>8, <3>1, <3>2, <3>3 DEF Follows
  <2>4. CASE i >= m
    <3>1. Node(h, d[h], i) = P(h, i + 1) /\ Node(h, d[h], i + 1) = P(h, i + 2)
      BY <1>3, <2>1, <2>4
    <3>2. P(h, i + 1) # a /\ P(h, i + 1) # x
      <4>1. i + 1 \in 0 .. Len(c[h]) /\ m - 1 \in 0 .. Len(c[h]) /\ m \in 0 .. Len(c[h])
            /\ i + 1 # m - 1 /\ i + 1 # m
        BY <1>3, <2>0, <2>4
      <4> QED BY <1>4, <1>5, <4>1
    <3>3. P(h, i + 2) # b /\ P(h, i + 2) # x
      <4>1. \E j \in 0 .. Len(c[h]) : P(h, i + 2) = P(h, j) /\ j # m + 1 /\ j # m
        <5>1. CASE i + 1 = Len(c[h])
          BY <1>1, <1>2, <1>3, <5>1
        <5>2. CASE i + 1 # Len(c[h])
          <6>1. i + 2 \in 0 .. Len(c[h]) /\ i + 2 # m + 1 /\ i + 2 # m
            BY <1>3, <2>4, <5>2
          <6> HIDE DEF P
          <6> QED BY <6>1
        <5> QED BY <5>1, <5>2
      <4>2. m + 1 \in 0 .. Len(c[h]) /\ m \in 0 .. Len(c[h])
        BY <1>3, <2>4
      <4> QED BY <1>4, <1>5, <4>1, <4>2
    <3>4. P(h, i + 1) \in Nodes /\ P(h, i + 2) \in Nodes
      <4>1. i + 1 \in 0 .. Len(c[h]) + 1 /\ i + 2 \in 0 .. Len(c[h]) + 1
        BY <1>3, <2>0, <2>4
      <4> QED BY <1>2, <4>1
    <3>5. L.next[P(h, i + 1)] = P(h, i + 2) /\ L.last[P(h, i + 2)] = P(h, i + 1)
      <4>1. i + 1 \in 0 .. Len(c[h]) /\ (i + 1) + 1 = i + 2
        BY <1>3
      <4> HIDE DEF P
      <4> QED BY <1>6, <4>1
    <3> QED BY <1>8, <3>1, <3>2, <3>3, <3>4, <3>5 DEF Follows
  <2> QED BY <1>3, <2>2, <2>3, <2>4
<1> QED BY <1>8, <1>12, <1>13, <1>14, <1>15 DEF M, Chains
-----------------------------------------------------------------------------
\* list_add_tail, list_add, list_empty and list_head on chains.
LEMMA TailAdded ==
  ASSUME NEW L \in Links, NEW c, Chains(L, c), NEW h \in Heads, NEW x \in Items, Unlisted(c, x),
         NEW d, d = [c EXCEPT ![h] = Append(c[h], x)]
  PROVE  ListAddTail(L, x, h) \in Links /\ Chains(ListAddTail(L, x, h), d)
<1>1. c[h] \in Seq(Items) /\ Len(c[h]) \in Nat /\ Len(c[h]) \in 0 .. Len(c[h])
  BY DEF Chains, Apart
<1>2. L.last[h] = Node(h, c[h], Len(c[h])) /\ h = Node(h, c[h], Len(c[h]) + 1)
  BY <1>1, NodeIs DEF Chains, Chain, Follows
<1>3. With(c[h], Len(c[h]), x) = Append(c[h], x)
  BY <1>1 DEF With
<1> QED BY <1>1, <1>2, <1>3, Inserted DEF ListAddTail

LEMMA FrontAdded ==
  ASSUME NEW L \in Links, NEW c, Chains(L, c), NEW h \in Heads, NEW x \in Items, Unlisted(c, x),
         NEW d, d = [c EXCEPT ![h] = <<x>> \o c[h]]
  PROVE  ListAdd(L, x, h) \in Links /\ Chains(ListAdd(L, x, h), d)
<1>1. c[h] \in Seq(Items) /\ Len(c[h]) \in Nat /\ 0 \in 0 .. Len(c[h])
  BY DEF Chains, Apart
<1>2. h = Node(h, c[h], 0) /\ L.next[h] = Node(h, c[h], 0 + 1)
  <2>1. h = Node(h, c[h], 0)
    BY <1>1, NodeIs
  <2>2. Follows(L, Node(h, c[h], 0), Node(h, c[h], 0 + 1))
    BY <1>1 DEF Chains, Chain
  <2> QED BY <2>1, <2>2 DEF Follows
<1>3. With(c[h], 0, x) = <<x>> \o c[h]
  <2>1. PICK w : w = <<x>> \o c[h]  OBVIOUS
  <2>2. /\ w \in Seq(Items) /\ Len(w) = Len(c[h]) + 1
        /\ \A i \in 1 .. Len(c[h]) + 1 : w[i] = IF i = 1 THEN x ELSE c[h][i - 1]
    <3>1. <<x>> \in Seq(Items) /\ Len(<<x>>) = 1 /\ <<x>>[1] = x
      OBVIOUS
    <3> QED BY <1>1, <2>1, <3>1
  <2>3. w = [i \in 1 .. Len(c[h]) + 1 |-> w[i]]
    BY <1>1, <2>2
  <2>4. \A i \in 1 .. Len(c[h]) + 1 :
          w[i] = IF i <= 0 THEN c[h][i] ELSE IF i = 0 + 1 THEN x ELSE c[h][i - 1]
    BY <1>1, <2>2
  <2> QED BY <2>1, <2>3, <2>4 DEF With
<1> QED BY <1>1, <1>2, <1>3, Inserted DEF ListAdd

LEMMA EmptyIs ==
  ASSUME NEW L \in Links, NEW c, Chains(L, c), NEW h \in Heads
  PROVE  /\ ListEmpty(L, h) <=> c[h] = << >>
         /\ c[h] # << >> => ListHead(L, h) = c[h][1] /\ Without(c[h], 1) = Tail(c[h])
<1>1. c[h] \in Seq(Items) /\ Len(c[h]) \in Nat
  BY DEF Chains, Apart
<1>2. L.next[h] = Node(h, c[h], 1)
  BY <1>1, NodeIs DEF Chains, Chain, Follows
<1>3. Len(c[h]) = 0 => L.next[h] = h
  BY <1>1, <1>2, NodeIs
<1>4. Len(c[h]) # 0 => L.next[h] = c[h][1] /\ c[h][1] # h
  BY <1>1, <1>2, NodeIs
<1>5. c[h] # << >> => Without(c[h], 1) = Tail(c[h])
  BY <1>1 DEF Without
<1> QED BY <1>1, <1>3, <1>4, <1>5 DEF ListEmpty, ListHead

-----------------------------------------------------------------------------
\* A table whose lists are c: the semaphores are in one of two of them, and
\* processes that sleep in those of the waiters.
Tables == [value : [Sems -> Int], links : Links]
Good(T, asl, c) ==
  /\ T \in Tables
  /\ Chains(T.links, c)
  /\ \A h \in {Available, Busy} : \A i \in 1 .. Len(c[h]) : c[h][i] \in Members
  /\ \A s \in Sems : \A i \in 1 .. Len(c[Process(s)]) : \E p \in asl : c[Process(s)][i] = Link(p)
  /\ \A s \in Sems : \E h \in {Available, Busy} : \E i \in 1 .. Len(c[h]) : c[h][i] = Member(s)

Owned(list) == [i \in DOMAIN list |-> list[i][2]]
Seen(T, c) ==
  [value |-> T.value, waiters |-> [s \in Sems |-> Owned(c[Process(s)])], avail |-> Owned(c[Available])]

LEMMA ViewIs ==
  ASSUME NEW T, NEW asl, NEW c, Good(T, asl, c)
  PROVE  View(T) = Seen(T, c)
<1>1. T.links \in Links /\ DOMAIN T.value = Sems
  BY DEF Good, Tables
<1>2. \A h \in Heads : Ring(T.links, h) = c[h]
  BY <1>1, ChainsRing DEF Good
<1>3. \A s \in Sems : Process(s) \in Heads
  BY DEF Heads
<1>4. Available \in Heads
  BY DEF Heads
<1> QED BY <1>1, <1>2, <1>3, <1>4 DEF View, Seen, Owners, Owned

\* The owners of the nodes of a longer and of a shorter list.
LEMMA OwnedIs ==
  ASSUME NEW q \in Seq(Items)
  PROVE  /\ DOMAIN Owned(q) = 1 .. Len(q) /\ Len(Owned(q)) = Len(q)
         /\ Owned(q) \in Seq({q[i][2] : i \in 1 .. Len(q)})
         /\ \A i \in 1 .. Len(q) : Owned(q)[i] = q[i][2]
         /\ (q = << >> <=> Owned(q) = << >>)
         /\ \A x \in Items : Owned(Append(q, x)) = Append(Owned(q), x[2])
         /\ q # << >> => Owned(Tail(q)) = Tail(Owned(q)) /\ Head(Owned(q)) = q[1][2]
<1>1. Len(q) \in Nat /\ DOMAIN q = 1 .. Len(q)
  OBVIOUS
<1>2. PICK w : w = Owned(q)
  OBVIOUS
<1>3. w = [i \in 1 .. Len(q) |-> q[i][2]]
  BY <1>1, <1>2 DEF Owned
<1>4. w \in Seq({q[i][2] : i \in 1 .. Len(q)}) /\ Len(w) = Len(q) /\ DOMAIN w = 1 .. Len(q)
  BY <1>1, <1>3
<1>5. ASSUME NEW x \in Items
      PROVE  Owned(Append(q, x)) = Append(w, x[2])
  <2>1. PICK r : r = Append(q, x)
    OBVIOUS
  <2>2. /\ DOMAIN r = 1 .. Len(q) + 1 /\ r[Len(q) + 1] = x
        /\ \A i \in 1 .. Len(q) : r[i] = q[i]
    BY <1>1, <2>1
  <2>3. PICK v : v = Append(w, x[2])
    OBVIOUS
  <2>4. v = [i \in 1 .. Len(w) + 1 |-> IF i = Len(w) + 1 THEN x[2] ELSE w[i]]
    BY <1>1, <1>4, <2>3
  <2>5. Owned(r) = [i \in 1 .. Len(q) + 1 |-> r[i][2]]
    BY <2>2 DEF Owned
  <2>6. \A i \in 1 .. Len(q) + 1 : r[i][2] = IF i = Len(w) + 1 THEN x[2] ELSE w[i]
    BY <1>1, <1>3, <1>4, <2>2
  <2> QED BY <1>4, <2>1, <2>3, <2>4, <2>5, <2>6
<1>6. ASSUME q # << >>
      PROVE  Owned(Tail(q)) = Tail(w) /\ Head(w) = q[1][2]
  <2>1. PICK r : r = Tail(q)
    OBVIOUS
  <2>2. /\ DOMAIN r = 1 .. Len(q) - 1
        /\ \A i \in 1 .. Len(q) - 1 : r[i] = q[i + 1]
    BY <1>1, <1>6, <2>1
  <2>3. PICK v : v = Tail(w)
    OBVIOUS
  <2>4. w # << >> /\ Len(w) >= 1
    BY <1>1, <1>4, <1>6
  <2>5. v = [i \in 1 .. Len(q) - 1 |-> w[i + 1]]
    <3>1. PICK S : w \in Seq(S)
      BY <1>4
    <3>2. v \in Seq(S) /\ Len(v) = Len(q) - 1 /\ \A i \in 1 .. Len(v) : v[i] = w[i + 1]
      BY <1>4, <2>3, <2>4, <3>1, HeadTailProperties
    <3> QED BY <3>2
  <2>6. Owned(r) = [i \in 1 .. Len(q) - 1 |-> r[i][2]]
    BY <2>2 DEF Owned
  <2>7. \A i \in 1 .. Len(q) - 1 : r[i][2] = w[i + 1]
    BY <1>1, <1>3, <2>2
  <2>8. Head(w) = q[1][2]
    BY <1>1, <1>3, <1>4, <1>6
  <2> QED BY <2>1, <2>3, <2>5, <2>6, <2>7, <2>8
<1>7. q = << >> <=> w = << >>
  BY <1>1, <1>4
<1> QED BY <1>2, <1>3, <1>4, <1>5, <1>6, <1>7

\* The link of a process that does not sleep is in no list.
LEMMA AwakeUnlisted ==
  ASSUME NEW T, NEW asl, NEW c, Good(T, asl, c), NEW p, p \notin asl
  PROVE  Unlisted(c, Link(p))
<1> SUFFICES ASSUME NEW h \in Heads, NEW i \in 1 .. Len(c[h]), c[h][i] = Link(p)
             PROVE  FALSE
  BY DEF Unlisted
<1>1. CASE h \in {Available, Busy}
  <2>1. c[h][i] \in Members
    BY <1>1 DEF Good
  <2> QED BY <2>1, NodeFacts DEF Members
<1>2. CASE \E s \in Sems : h = Process(s)
  <2>1. PICK s \in Sems : h = Process(s)
    BY <1>2
  <2>2. PICK q \in asl : c[h][i] = Link(q)
    BY <2>1 DEF Good
  <2> QED BY <2>2, NodeFacts
<1> QED BY <1>1, <1>2 DEF Heads

\* The operations of Semaphore, field by field.
Fields == {"value", "waiters", "avail"}
LEMMA FieldsIs ==
  ASSUME NEW D, D = [f \in Fields |-> D[f]]
  PROVE  D = [value |-> D.value, waiters |-> D.waiters, avail |-> D.avail]
BY DEF Fields

LEMMA DownIs ==
  ASSUME NEW v, NEW w, NEW a, NEW s, NEW p,
         NEW T, T = [value |-> v, waiters |-> w, avail |-> a]
  PROVE  Down(T, s, p) =
           [value   |-> [v EXCEPT ![s] = v[s] - 1],
            waiters |-> [w EXCEPT ![s] = IF v[s] <= 0 THEN Append(w[s], p) ELSE w[s]],
            avail   |-> a]
<1>1. PICK x : x = v[s] - 1
  OBVIOUS
<1>2. PICK y : y = IF v[s] <= 0 THEN Append(w[s], p) ELSE w[s]
  OBVIOUS
<1>3. Down(T, s, p) = [T EXCEPT !.value[s] = x, !.waiters[s] = y]
  BY <1>1, <1>2 DEF Down, Blocks
<1>4. [T EXCEPT !.value[s] = x, !.waiters[s] = y] =
        [value |-> [v EXCEPT ![s] = x], waiters |-> [w EXCEPT ![s] = y], avail |-> a]
  <2>1. PICK D : D = [T EXCEPT !.value[s] = x, !.waiters[s] = y]
    OBVIOUS
  <2>2. D = [f \in Fields |-> D[f]]
    BY <2>1 DEF Fields
  <2>3. D = [value |-> D.value, waiters |-> D.waiters, avail |-> D.avail]
    BY <2>2, FieldsIs
  <2> QED BY <2>1, <2>3
<1> QED BY <1>1, <1>2, <1>3, <1>4

LEMMA UpIs ==
  ASSUME NEW v, NEW w, NEW a, NEW s,
         NEW T, T = [value |-> v, waiters |-> w, avail |-> a],
         NEW b \in BOOLEAN, b <=> v[s] + 1 <= 0 /\ w[s] # << >>,
         NEW y, y = (IF b THEN RemoveFirst(w[s], Head(w[s])) ELSE w[s]),
         NEW V, V = [v EXCEPT ![s] = v[s] + 1], NEW Y, Y = [w EXCEPT ![s] = y]
  PROVE  /\ Wakes(T, s) <=> b
         /\ Woken(T, s) = Head(w[s])
         /\ Up(T, s) = [value |-> V, waiters |-> Y, avail |-> a]
<1>1. PICK x : x = v[s] + 1
  OBVIOUS
<1>3. /\ Wakes(T, s) <=> b
      /\ Woken(T, s) = Head(w[s])
  BY DEF Wakes, Woken
<1>4. Up(T, s) = [T EXCEPT !.value[s] = x, !.waiters[s] = y]
  BY <1>1, <1>3 DEF Up
<1>5. [T EXCEPT !.value[s] = x, !.waiters[s] = y] =
        [value |-> [v EXCEPT ![s] = x], waiters |-> [w EXCEPT ![s] = y], avail |-> a]
  <2>1. PICK D : D = [T EXCEPT !.value[s] = x, !.waiters[s] = y]
    OBVIOUS
  <2>2. D = [f \in Fields |-> D[f]]
    BY <2>1 DEF Fields
  <2>3. D = [value |-> D.value, waiters |-> D.waiters, avail |-> D.avail]
    BY <2>2, FieldsIs
  <2> QED BY <2>1, <2>3
<1> QED BY <1>1, <1>3, <1>4, <1>5

LEMMA DiscardIs ==
  ASSUME NEW v, NEW w, NEW a, NEW s,
         NEW T, T = [value |-> v, waiters |-> w, avail |-> a]
  PROVE  Discard(T, s) =
           [value |-> [v EXCEPT ![s] = 0], waiters |-> w, avail |-> <<s>> \o RemoveFirst(a, s)]
<1>1. PICK y : y = <<s>> \o RemoveFirst(a, s)
  OBVIOUS
<1>2. Discard(T, s) = [T EXCEPT !.value[s] = 0, !.avail = y]
  BY <1>1 DEF Discard
<1>3. [T EXCEPT !.value[s] = 0, !.avail = y] =
        [value |-> [v EXCEPT ![s] = 0], waiters |-> w, avail |-> y]
  <2>1. PICK D : D = [T EXCEPT !.value[s] = 0, !.avail = y]
    OBVIOUS
  <2>2. D = [f \in Fields |-> D[f]]
    BY <2>1 DEF Fields
  <2>3. D = [value |-> D.value, waiters |-> D.waiters, avail |-> D.avail]
    BY <2>2, FieldsIs
  <2> QED BY <2>1, <2>3
<1> QED BY <1>1, <1>2, <1>3

\* do_sem_wait.
LEMMA DownTable ==
  ASSUME NEW T, NEW asl, NEW c, Good(T, asl, c), NEW s \in Sems, NEW p \in Proc, p \notin asl,
         NEW U, U = LinkDown(T, s, p),
         NEW asl2, asl2 = (IF T.value[s] <= 0 THEN asl \cup {p} ELSE asl),
         NEW d, d = IF T.value[s] <= 0 THEN [c EXCEPT ![Process(s)] = Append(c[Process(s)], Link(p))]
                    ELSE c
  PROVE  Good(U, asl2, d) /\ Seen(U, d) = Down(Seen(T, c), s, p)
<1>1. /\ T.links \in Links /\ T.value \in [Sems -> Int] /\ T.value[s] \in Int
      /\ Chains(T.links, c) /\ c \in [Heads -> Seq(Items)]
  BY DEF Good, Tables, Chains, Apart
<1>2. T.value[s] - 1 < 0 <=> T.value[s] <= 0
  BY <1>1
<1>3. PICK W : W = [T.value EXCEPT ![s] = T.value[s] - 1]
  OBVIOUS
<1>4. W \in [Sems -> Int]
  BY <1>1, <1>3
<1>5. Process(s) \in Heads /\ Link(p) \in Items
  BY DEF Heads, Items
<1>6. c[Process(s)] \in Seq(Items)
  BY <1>1, <1>5
<1>9. CASE T.value[s] <= 0
  <2>1. U = [value |-> W, links |-> ListAddTail(T.links, Link(p), Process(s))]
    BY <1>2, <1>3, <1>9 DEF LinkDown
  <2>2. d = [c EXCEPT ![Process(s)] = Append(c[Process(s)], Link(p))]
    BY <1>9
  <2>3. Unlisted(c, Link(p))
    BY AwakeUnlisted
  <2>4. U.links \in Links /\ Chains(U.links, d)
    <3>1. /\ ListAddTail(T.links, Link(p), Process(s)) \in Links
          /\ Chains(ListAddTail(T.links, Link(p), Process(s)), d)
      BY <1>1, <1>5, <2>2, <2>3, TailAdded
    <3> QED BY <2>1, <3>1
  <2>5. /\ d[Process(s)] = Append(c[Process(s)], Link(p))
        /\ \A h \in Heads : h # Process(s) => d[h] = c[h]
    BY <1>1, <1>5, <2>2
  <2>6. /\ d[Available] = c[Available] /\ d[Busy] = c[Busy]
        /\ \A t \in Sems : t # s => d[Process(t)] = c[Process(t)]
    BY <2>5, NodeFacts DEF Heads
  <2>7. \A h \in {Available, Busy} : \A i \in 1 .. Len(d[h]) : d[h][i] \in Members
    BY <2>6 DEF Good
  <2>8. \A t \in Sems : \E h \in {Available, Busy} : \E i \in 1 .. Len(d[h]) : d[h][i] = Member(t)
    BY <2>6 DEF Good
  <2>9. \A t \in Sems : \A i \in 1 .. Len(d[Process(t)]) :
          \E q \in asl2 : d[Process(t)][i] = Link(q)
    <3> SUFFICES ASSUME NEW t \in Sems, NEW i \in 1 .. Len(d[Process(t)])
                 PROVE  \E q \in asl \cup {p} : d[Process(t)][i] = Link(q)
      BY <1>9
    <3>1. CASE t # s
      BY <2>6, <3>1 DEF Good
    <3>2. CASE t = s
      <4>1. \/ i \in 1 .. Len(c[Process(s)]) /\ d[Process(s)][i] = c[Process(s)][i]
            \/ d[Process(s)][i] = Link(p)
        BY <1>6, <2>5, <3>2
      <4> QED BY <3>2, <4>1 DEF Good
    <3> QED BY <3>1, <3>2
  <2>10. Good(U, asl2, d)
    <3>1. U \in Tables
      BY <1>4, <2>1, <2>4 DEF Tables
    <3> QED BY <2>4, <2>7, <2>8, <2>9, <3>1 DEF Good
  <2>11. Owned(d[Process(s)]) = Append(Owned(c[Process(s)]), p)
    <3>1. Owned(Append(c[Process(s)], Link(p))) = Append(Owned(c[Process(s)]), Link(p)[2])
      BY <1>5, <1>6, OwnedIs
    <3> QED BY <2>5, <3>1, NodeFacts
  <2>12. Seen(U, d) = Down(Seen(T, c), s, p)
    <3>1. PICK w : w = [t \in Sems |-> Owned(c[Process(t)])]
      OBVIOUS
    <3>2. Seen(T, c) = [value |-> T.value, waiters |-> w, avail |-> Owned(c[Available])]
      BY <3>1 DEF Seen
    <3>3. w[s] = Owned(c[Process(s)])
      BY <3>1
    <3>4. Down(Seen(T, c), s, p) =
            [value |-> W, waiters |-> [w EXCEPT ![s] = Append(w[s], p)], avail |-> Owned(c[Available])]
      BY <1>3, <1>9, <3>2, DownIs
    <3>5. [w EXCEPT ![s] = Append(w[s], p)] = [t \in Sems |-> Owned(d[Process(t)])]
      <4>1. \A t \in Sems : [w EXCEPT ![s] = Append(w[s], p)][t] = Owned(d[Process(t)])
        BY <2>6, <2>11, <3>1, <3>3
      <4> QED BY <3>1, <4>1
    <3>6. U.value = W /\ d[Available] = c[Available]
      BY <2>1, <2>6
    <3> QED BY <3>4, <3>5, <3>6 DEF Seen
  <2> QED BY <2>10, <2>12
<1>10. CASE ~(T.value[s] <= 0)
  <2>1. U = [value |-> W, links |-> T.links] /\ d = c /\ asl2 = asl
    BY <1>2, <1>3, <1>10 DEF LinkDown
  <2>2. Good(U, asl2, d)
    <3>1. U.links = T.links /\ U \in Tables
      BY <1>1, <1>4, <2>1 DEF Tables
    <3> QED BY <2>1, <3>1 DEF Good
  <2>3. Seen(U, d) = Down(Seen(T, c), s, p)
    <3>1. PICK w : w = [t \in Sems |-> Owned(c[Process(t)])]
      OBVIOUS
    <3>2. Seen(T, c) = [value |-> T.value, waiters |-> w, avail |-> Owned(c[Available])]
      BY <3>1 DEF Seen
    <3>3. Down(Seen(T, c), s, p) =
            [value |-> W, waiters |-> [w EXCEPT ![s] = w[s]], avail |-> Owned(c[Available])]
      BY <1>3, <1>10, <3>2, DownIs
    <3>4. [w EXCEPT ![s] = w[s]] = w
      BY <3>1
    <3>5. U.value = W /\ d = c
      BY <2>1
    <3> QED BY <3>1, <3>3, <3>4, <3>5 DEF Seen
  <2> QED BY <2>2, <2>3
<1> QED BY <1>9, <1>10
\* Taking an element out of a sequence in which it comes once.
LEMMA RemoveFirstIs ==
  ASSUME NEW S, NEW s \in Seq(S), NEW m \in 1 .. Len(s), \A i \in 1 .. Len(s) : s[i] = s[m] => i = m
  PROVE  RemoveFirst(s, s[m]) = Without(s, m)
<1>1. Len(s) \in Nat /\ m \in Nat /\ 1 <= m /\ m <= Len(s) /\ \A i \in 1 .. Len(s) : s[i] \in S
  OBVIOUS
<1>2. RemoveFirst(s, s[m]) = RemoveAt(s, m)
  <2> DEFINE I == {i \in 1 .. Len(s) : s[i] = s[m]}
  <2>1. I = {m}  OBVIOUS
  <2>2. Min(I) = m  BY <2>1 DEF Min
  <2> QED BY <2>1, <2>2 DEF RemoveFirst, SelectInSeq
<1>3. PICK a : a = SubSeq(s, 1, m - 1)  OBVIOUS
<1>4. PICK b : b = SubSeq(s, m + 1, Len(s))  OBVIOUS
<1>5. a \in Seq(S) /\ Len(a) = m - 1 /\ \A i \in 1 .. m - 1 : a[i] = s[i]
  <2>1. \A i \in 1 .. m - 1 : s[i] \in S
    BY <1>1
  <2> QED BY <1>1, <1>3, <2>1, SubSeqProperties
<1>6. b \in Seq(S) /\ Len(b) = Len(s) - m /\ \A i \in 1 .. Len(s) - m : b[i] = s[i + m]
  <2>1. \A i \in m + 1 .. Len(s) : s[i] \in S
    BY <1>1
  <2>2. m + 1 \in Int /\ Len(s) \in Int /\ m + 1 <= Len(s) + 1
    BY <1>1
  <2>3. b \in Seq(S) /\ Len(b) = Len(s) - (m + 1) + 1
        /\ \A i \in 1 .. Len(b) : b[i] = s[(m + 1) + i - 1]
    BY <1>4, <2>1, <2>2, SubSeqProperties
  <2> QED BY <1>1, <2>3
<1>7. PICK r : r = a \o b  OBVIOUS
<1>8. /\ r \in Seq(S) /\ Len(r) = Len(s) - 1
      /\ \A i \in 1 .. Len(s) - 1 : r[i] = IF i < m THEN s[i] ELSE s[i + 1]
  <2>1. /\ r \in Seq(S) /\ Len(r) = Len(a) + Len(b)
        /\ \A i \in 1 .. Len(a) + Len(b) : r[i] = IF i <= Len(a) THEN a[i] ELSE b[i - Len(a)]
    BY <1>5, <1>6, <1>7, ConcatProperties
  <2>2. Len(r) = Len(s) - 1
    BY <1>1, <1>5, <1>6, <2>1
  <2>3. ASSUME NEW i \in 1 .. Len(s) - 1
        PROVE  r[i] = IF i < m THEN s[i] ELSE s[i + 1]
    <3>1. r[i] = IF i <= m - 1 THEN a[i] ELSE b[i - (m - 1)]
      BY <1>1, <1>5, <1>6, <2>1
    <3>2. CASE i < m
      BY <1>1, <1>5, <3>1, <3>2
    <3>3. CASE ~(i < m)
      <4>1. ~(i <= m - 1) /\ i - (m - 1) \in 1 .. Len(s) - m /\ (i - (m - 1)) + m = i + 1
        BY <1>1, <3>3
      <4>2. b[i - (m - 1)] = s[(i - (m - 1)) + m]
        BY <1>6, <4>1
      <4> QED BY <3>1, <3>3, <4>1, <4>2
    <3> QED BY <3>2, <3>3
  <2> QED BY <2>1, <2>2, <2>3
<1>9. r = [i \in 1 .. Len(s) - 1 |-> r[i]]
  BY <1>8
<1>10. r = Without(s, m)
  BY <1>8, <1>9 DEF Without
<1> QED BY <1>2, <1>3, <1>4, <1>7, <1>10 DEF RemoveAt

LEMMA OwnedWithout ==
  ASSUME NEW q \in Seq(Items), NEW m \in 1 .. Len(q)
  PROVE  Owned(Without(q, m)) = Without(Owned(q), m)
<1>1. PICK r : r = Without(q, m)  OBVIOUS
<1>2. /\ DOMAIN r = 1 .. Len(q) - 1
      /\ \A i \in 1 .. Len(q) - 1 : r[i] = IF i < m THEN q[i] ELSE q[i + 1]
  BY <1>1, WithoutIs DEF Without
<1>3. PICK w : w = Owned(q)  OBVIOUS
<1>4. Len(w) = Len(q) /\ \A i \in 1 .. Len(q) : w[i] = q[i][2]
  BY <1>3, OwnedIs
<1>5. Len(q) \in Nat  OBVIOUS
<1>6. \A i \in 1 .. Len(q) - 1 : r[i][2] = IF i < m THEN w[i] ELSE w[i + 1]
  BY <1>2, <1>4, <1>5
<1>7. Owned(r) = [i \in 1 .. Len(q) - 1 |-> r[i][2]]
  BY <1>2 DEF Owned
<1> QED BY <1>1, <1>3, <1>4, <1>6, <1>7 DEF Without

\* do_sem_signal.
LEMMA UpTable ==
  ASSUME NEW T, NEW asl, NEW c, Good(T, asl, c), NEW s \in Sems,
         NEW U, U = LinkUp(T, s), NEW k, k = ListHead(T.links, Process(s))[2],
         NEW asl2, asl2 = (IF LinkWakes(T, s) THEN asl \ {k} ELSE asl),
         NEW d, d = IF LinkWakes(T, s) THEN [c EXCEPT ![Process(s)] = Without(c[Process(s)], 1)]
                    ELSE c
  PROVE  /\ Good(U, asl2, d) /\ Seen(U, d) = Up(Seen(T, c), s)
         /\ LinkWakes(T, s) <=> Wakes(Seen(T, c), s)
         /\ LinkWakes(T, s) => k = Woken(Seen(T, c), s)
         /\ k \in asl \/ ~LinkWakes(T, s)
<1>1. /\ T.links \in Links /\ T.value \in [Sems -> Int] /\ T.value[s] \in Int
      /\ Chains(T.links, c) /\ c \in [Heads -> Seq(Items)] /\ Apart(c)
  BY DEF Good, Tables, Chains, Apart
<1>2. PICK W : W = [T.value EXCEPT ![s] = T.value[s] + 1]
  OBVIOUS
<1>3. W \in [Sems -> Int]
  BY <1>1, <1>2
<1>4. Process(s) \in Heads
  BY DEF Heads
<1>5. PICK q : q = c[Process(s)]
  OBVIOUS
<1>6. q \in Seq(Items) /\ Len(q) \in Nat
  BY <1>1, <1>4, <1>5
<1>7. PICK w : w = [t \in Sems |-> Owned(c[Process(t)])]
  OBVIOUS
<1>8. Seen(T, c) = [value |-> T.value, waiters |-> w, avail |-> Owned(c[Available])]
  BY <1>7 DEF Seen
<1>9. w[s] = Owned(q)
  BY <1>5, <1>7
<1>10. /\ Wakes(Seen(T, c), s) <=> T.value[s] + 1 <= 0 /\ w[s] # << >>
       /\ Woken(Seen(T, c), s) = Head(w[s])
       /\ Up(Seen(T, c), s) =
            [value   |-> W,
             waiters |-> [w EXCEPT ![s] = IF Wakes(Seen(T, c), s) THEN RemoveFirst(w[s], Head(w[s]))
                                          ELSE w[s]],
             avail   |-> Owned(c[Available])]
  <2>1. PICK X : X = Seen(T, c)
    OBVIOUS
  <2>2. PICK v : v = T.value
    OBVIOUS
  <2>3. PICK a : a = Owned(c[Available])
    OBVIOUS
  <2>4. X = [value |-> v, waiters |-> w, avail |-> a]
    BY <1>8, <2>1, <2>2, <2>3
  <2>5. W = [v EXCEPT ![s] = v[s] + 1]
    BY <1>2, <2>2
  <2>6. /\ Wakes(X, s) <=> v[s] + 1 <= 0 /\ w[s] # << >>
        /\ Woken(X, s) = Head(w[s])
        /\ Up(X, s) =
             [value   |-> [v EXCEPT ![s] = v[s] + 1],
              waiters |-> [w EXCEPT ![s] = IF Wakes(X, s) THEN RemoveFirst(w[s], Head(w[s]))
                                          ELSE w[s]],
              avail   |-> a]
    <3>1. PICK b \in BOOLEAN : b <=> v[s] + 1 <= 0 /\ w[s] # << >>
      OBVIOUS
    <3>2. PICK y : y = IF b THEN RemoveFirst(w[s], Head(w[s])) ELSE w[s]
      OBVIOUS
    <3>3. PICK Y : Y = [w EXCEPT ![s] = y]
      OBVIOUS
    <3>4. /\ Wakes(X, s) <=> b
          /\ Woken(X, s) = Head(w[s])
          /\ Up(X, s) = [value |-> W, waiters |-> Y, avail |-> a]
      BY <2>4, <2>5, <3>1, <3>2, <3>3, UpIs
    <3> QED BY <2>5, <3>1, <3>2, <3>3, <3>4
  <2> QED BY <2>1, <2>2, <2>3, <2>5, <2>6
<1>11. LinkWakes(T, s) <=> T.value[s] + 1 <= 0 /\ q # << >>
  BY <1>1, <1>4, <1>5, EmptyIs DEF LinkWakes
<1>12. q = << >> <=> w[s] = << >>
  BY <1>6, <1>9, OwnedIs
<1>13. LinkWakes(T, s) <=> Wakes(Seen(T, c), s)
  BY <1>10, <1>11, <1>12
<1>14. CASE LinkWakes(T, s)
  <2>1. q # << >> /\ 1 \in 1 .. Len(q)
    BY <1>6, <1>11, <1>14
  <2>2. ListHead(T.links, Process(s)) = q[1]
    BY <1>1, <1>4, <1>5, <2>1, EmptyIs
  <2>3. k = q[1][2] /\ k = Head(w[s])
    BY <1>6, <1>9, <2>1, <2>2, OwnedIs
  <2>4. PICK p \in asl : q[1] = Link(p)
    BY <1>5, <2>1 DEF Good
  <2>5. k = p
    BY <2>3, <2>4, NodeFacts
  <2>6. U = [value |-> W, links |-> ListDelInit(T.links, q[1])]
    BY <1>2, <1>14, <2>2 DEF LinkUp
  <2>7. d = [c EXCEPT ![Process(s)] = Without(q, 1)]
    BY <1>5, <1>14
  <2>8. U.links \in Links /\ Chains(U.links, d) /\ Unlisted(d, Link(k))
    <3>1. /\ ListDelInit(T.links, q[1]) \in Links
          /\ Chains(ListDelInit(T.links, q[1]), d)
          /\ Unlisted(d, q[1])
      <4>1. PICK h \in Heads : h = Process(s)
        BY <1>4
      <4>0. PICK m \in 1 .. Len(c[h]) : m = 1
        BY <1>5, <2>1, <4>1
      <4>2. q[1] = c[h][m]
        BY <1>5, <4>0, <4>1
      <4>7. d = [c EXCEPT ![h] = Without(c[h], m)]
        BY <1>5, <2>7, <4>0, <4>1
      <4>3. PICK L \in Links : L = T.links
        BY <1>1
      <4>4. PICK x : x = c[h][m]
        OBVIOUS
      <4>5. Chains(L, c)
        BY <1>1, <4>3
      <4>6. ListDelInit(L, x) \in Links /\ Chains(ListDelInit(L, x), d) /\ Unlisted(d, x)
        BY <4>4, <4>5, <4>7, Removed
      <4> QED BY <4>2, <4>3, <4>4, <4>6
    <3> QED BY <2>4, <2>5, <2>6, <3>1
  <2>9. /\ d[Process(s)] = Without(q, 1)
        /\ \A h \in Heads : h # Process(s) => d[h] = c[h]
    BY <1>1, <1>4, <2>7
  <2>10. /\ d[Available] = c[Available] /\ d[Busy] = c[Busy]
         /\ \A t \in Sems : t # s => d[Process(t)] = c[Process(t)]
    BY <2>9, NodeFacts DEF Heads
  <2>11. \A h \in {Available, Busy} : \A i \in 1 .. Len(d[h]) : d[h][i] \in Members
    BY <2>10 DEF Good
  <2>12. \A t \in Sems : \E h \in {Available, Busy} : \E i \in 1 .. Len(d[h]) : d[h][i] = Member(t)
    BY <2>10 DEF Good
  <2>13. \A t \in Sems : \A i \in 1 .. Len(d[Process(t)]) :
           \E r \in asl2 : d[Process(t)][i] = Link(r)
    <3> SUFFICES ASSUME NEW t \in Sems, NEW i \in 1 .. Len(d[Process(t)])
                 PROVE  \E r \in asl \ {k} : d[Process(t)][i] = Link(r)
      BY <1>14
    <3>1. d[Process(t)][i] # Link(k)
      BY <2>8 DEF Unlisted, Heads
    <3>2. \E r \in asl : d[Process(t)][i] = Link(r)
      <4>1. CASE t # s
        BY <2>10, <4>1 DEF Good
      <4>2. CASE t = s
        <5>0. /\ Len(Without(q, 1)) = Len(q) - 1
              /\ \A j \in 1 .. Len(q) - 1 : Without(q, 1)[j] = IF j < 1 THEN q[j] ELSE q[j + 1]
          BY <1>6, <2>1, WithoutIs
        <5>1. i \in 1 .. Len(q) - 1 /\ d[Process(t)][i] = q[i + 1]
          BY <1>6, <2>9, <4>2, <5>0
        <5>2. i + 1 \in 1 .. Len(q)
          BY <1>6, <5>1
        <5> QED BY <1>5, <5>1, <5>2 DEF Good
      <4> QED BY <4>1, <4>2
    <3> QED BY <3>1, <3>2
  <2>14. Good(U, asl2, d)
    <3>1. U \in Tables
      BY <1>3, <2>6, <2>8 DEF Tables
    <3> QED BY <2>8, <2>11, <2>12, <2>13, <3>1 DEF Good
  <2>15. RemoveFirst(w[s], Head(w[s])) = Owned(d[Process(s)])
    <3>1. Head(w[s]) = w[s][1] /\ w[s] \in Seq({q[i][2] : i \in 1 .. Len(q)}) /\ Len(w[s]) = Len(q)
      BY <1>6, <1>9, <2>1, <2>3, OwnedIs
    <3>2. \A i \in 1 .. Len(w[s]) : w[s][i] = w[s][1] => i = 1
      <4>0. SUFFICES ASSUME NEW i \in 1 .. Len(q), w[s][i] = w[s][1] PROVE i = 1
        BY <3>1
      <4>1. w[s][i] = q[i][2] /\ w[s][1] = q[1][2]
        BY <1>6, <1>9, <2>1, OwnedIs
      <4>2. PICK r \in asl : q[i] = Link(r)
        BY <1>5 DEF Good
      <4>3. q[i] = q[1]
        <5>1. Link(r)[2] = r /\ Link(p)[2] = p
          BY DEF Link
        <5> QED BY <2>4, <4>0, <4>1, <4>2, <5>1
      <4> QED BY <1>1, <1>4, <1>5, <2>1, <4>3 DEF Apart
    <3>3. RemoveFirst(w[s], w[s][1]) = Without(w[s], 1)
      BY <2>1, <3>1, <3>2, RemoveFirstIs
    <3>4. Owned(Without(q, 1)) = Without(w[s], 1)
      BY <1>6, <1>9, <2>1, OwnedWithout
    <3> QED BY <2>9, <3>1, <3>3, <3>4
  <2>16. Seen(U, d) = Up(Seen(T, c), s)
    <3>1. PICK e : e = Owned(d[Process(s)])
      OBVIOUS
    <3>2. [w EXCEPT ![s] = e] = [t \in Sems |-> Owned(d[Process(t)])]
      <4>1. \A t \in Sems : [w EXCEPT ![s] = e][t] = Owned(d[Process(t)])
        BY <1>7, <2>10, <3>1
      <4> QED BY <1>7, <4>1
    <3>3. U.value = W /\ d[Available] = c[Available]
      BY <2>6, <2>10
    <3>4. Up(Seen(T, c), s) =
            [value |-> W, waiters |-> [w EXCEPT ![s] = e], avail |-> Owned(c[Available])]
      BY <1>10, <1>13, <1>14, <2>15, <3>1
    <3> QED BY <3>2, <3>3, <3>4 DEF Seen
  <2> QED BY <1>10, <1>13, <2>3, <2>5, <2>14, <2>16
<1>15. CASE ~LinkWakes(T, s)
  <2>1. U = [value |-> W, links |-> T.links] /\ d = c /\ asl2 = asl
    BY <1>2, <1>15 DEF LinkUp
  <2>2. Good(U, asl2, d)
    <3>1. U.links = T.links /\ U \in Tables
      BY <1>1, <1>3, <2>1 DEF Tables
    <3>2. Good(T, asl2, d)
      BY <2>1
    <3> QED BY <3>1, <3>2 DEF Good
  <2>3. [w EXCEPT ![s] = w[s]] = w
    BY <1>7
  <2>4. Up(Seen(T, c), s) = [value |-> W, waiters |-> w, avail |-> Owned(c[Available])]
    BY <1>10, <1>13, <1>15, <2>3
  <2>5. Seen(U, d) = Up(Seen(T, c), s)
    BY <1>7, <2>1, <2>4 DEF Seen
  <2> QED BY <1>13, <1>15, <2>2, <2>5
<1> QED BY <1>14, <1>15

LEMMA OwnedFront ==
  ASSUME NEW q \in Seq(Items), NEW x \in Items
  PROVE  /\ Owned(<<x>> \o q) = <<x[2]>> \o Owned(q)
         /\ <<x>> \o q \in Seq(Items) /\ Len(<<x>> \o q) = Len(q) + 1
         /\ (<<x>> \o q)[1] = x /\ \A i \in 1 .. Len(q) : (<<x>> \o q)[i + 1] = q[i]
<1>1. Len(q) \in Nat  OBVIOUS
<1>2. PICK r : r = <<x>> \o q  OBVIOUS
<1>3. /\ r \in Seq(Items) /\ Len(r) = Len(q) + 1 /\ r[1] = x
      /\ \A i \in 1 .. Len(q) : r[i + 1] = q[i]
      /\ \A i \in 1 .. Len(q) + 1 : i # 1 => r[i] = q[i - 1]
  <2>1. <<x>> \in Seq(Items) /\ Len(<<x>>) = 1 /\ <<x>>[1] = x
    OBVIOUS
  <2> QED BY <1>1, <1>2, <2>1
<1>4. PICK w : w = Owned(q)  OBVIOUS
<1>5. PICK S : S = {q[i][2] : i \in 1 .. Len(q)} \cup {x[2]}  OBVIOUS
<1>6. w \in Seq(S) /\ Len(w) = Len(q) /\ \A i \in 1 .. Len(q) : w[i] = q[i][2]
  <2>1. w \in Seq({q[i][2] : i \in 1 .. Len(q)}) /\ Len(w) = Len(q)
        /\ \A i \in 1 .. Len(q) : w[i] = q[i][2]
    BY <1>4, OwnedIs
  <2>2. w = [i \in 1 .. Len(q) |-> q[i][2]]
    BY <1>1, <1>4 DEF Owned
  <2>3. \A i \in 1 .. Len(q) : q[i][2] \in S
    BY <1>5
  <2>4. w \in Seq(S)
    BY <1>1, <2>2, <2>3
  <2> QED BY <2>1, <2>4
<1>7. PICK v : v = <<x[2]>> \o w  OBVIOUS
<1>8. v = [i \in 1 .. Len(q) + 1 |-> IF i = 1 THEN x[2] ELSE w[i - 1]]
  <2>1. PICK u : u = <<x[2]>>
    OBVIOUS
  <2>2. u \in Seq(S) /\ Len(u) = 1 /\ u[1] = x[2]
    BY <1>5, <2>1
  <2>3. /\ v \in Seq(S) /\ Len(v) = Len(u) + Len(w)
        /\ \A i \in 1 .. Len(u) + Len(w) : v[i] = IF i <= Len(u) THEN u[i] ELSE w[i - Len(u)]
    BY <1>6, <1>7, <2>1, <2>2, ConcatProperties
  <2>4. Len(v) = Len(q) + 1
    BY <1>1, <1>6, <2>2, <2>3
  <2>5. \A i \in 1 .. Len(q) + 1 : v[i] = IF i = 1 THEN x[2] ELSE w[i - 1]
    BY <1>1, <1>6, <2>2, <2>3
  <2>6. v = [i \in 1 .. Len(q) + 1 |-> v[i]]
    BY <2>3, <2>4
  <2> QED BY <2>5, <2>6
<1>9. Owned(r) = [i \in 1 .. Len(q) + 1 |-> r[i][2]]
  BY <1>3 DEF Owned
<1>10. \A i \in 1 .. Len(q) + 1 : r[i][2] = IF i = 1 THEN x[2] ELSE w[i - 1]
  <2> SUFFICES ASSUME NEW i \in 1 .. Len(q) + 1 PROVE r[i][2] = IF i = 1 THEN x[2] ELSE w[i - 1]
    OBVIOUS
  <2>1. CASE i = 1
    BY <1>3, <2>1
  <2>2. CASE i # 1
    <3>1. i - 1 \in 1 .. Len(q)
      BY <1>1, <2>2
    <3> QED BY <1>3, <1>6, <2>2, <3>1
  <2> QED BY <2>1, <2>2
<1> QED BY <1>2, <1>3, <1>4, <1>7, <1>8, <1>9, <1>10

\* sys_sem_destroy.
LEMMA DiscardTable ==
  ASSUME NEW T, NEW asl, NEW c, Good(T, asl, c), NEW s \in Sems,
         NEW U, U = LinkDiscard(T, s)
  PROVE  \E d : Good(U, asl, d) /\ Seen(U, d) = Discard(Seen(T, c), s)
<1>1. /\ T.links \in Links /\ T.value \in [Sems -> Int]
      /\ Chains(T.links, c) /\ c \in [Heads -> Seq(Items)] /\ Apart(c)
  BY DEF Good, Tables, Chains, Apart
<1>2. PICK W : W = [T.value EXCEPT ![s] = 0]
  OBVIOUS
<1>3. W \in [Sems -> Int]
  BY <1>1, <1>2
<1>0. PICK h \in {Available, Busy} : \E i \in 1 .. Len(c[h]) : c[h][i] = Member(s)
  BY DEF Good
<1>4. PICK m \in 1 .. Len(c[h]) : c[h][m] = Member(s)
  BY <1>0
<1>5. Available \in Heads /\ Busy \in Heads /\ h \in Heads /\ Available # Busy
  BY NodeFacts DEF Heads
<1>6. PICK x : x = Member(s)
  OBVIOUS
<1>7. x \in Items /\ x \in Members /\ x[2] = s
  BY <1>6, NodeFacts DEF Items, Members
<1>8. PICK e : e = [c EXCEPT ![h] = Without(c[h], m)]
  OBVIOUS
<1>9. PICK M : M = ListDelInit(T.links, x)
  OBVIOUS
<1>10. M \in Links /\ Chains(M, e) /\ Unlisted(e, x)
  BY <1>1, <1>4, <1>5, <1>6, <1>8, <1>9, Removed
<1>11. e \in [Heads -> Seq(Items)] /\ e[Available] \in Seq(Items) /\ Len(e[Available]) \in Nat
  BY <1>5, <1>10 DEF Chains, Apart
<1>12. PICK d : d = [e EXCEPT ![Available] = <<x>> \o e[Available]]
  OBVIOUS
<1>13. U = [value |-> W, links |-> ListAdd(M, x, Available)]
  BY <1>2, <1>6, <1>9 DEF LinkDiscard
<1>14. U.links \in Links /\ Chains(U.links, d)
  <2>1. ListAdd(M, x, Available) \in Links /\ Chains(ListAdd(M, x, Available), d)
    BY <1>5, <1>7, <1>10, <1>12, FrontAdded
  <2> QED BY <1>13, <2>1
<1>15. /\ e[h] = Without(c[h], m)
       /\ \A k \in Heads : k # h => e[k] = c[k]
       /\ d[Available] = <<x>> \o e[Available]
       /\ \A k \in Heads : k # Available => d[k] = e[k]
  BY <1>1, <1>5, <1>8, <1>11, <1>12
<1>16. /\ c[h] \in Seq(Items) /\ Len(c[h]) \in Nat
       /\ Len(e[h]) = Len(c[h]) - 1
       /\ \A i \in 1 .. Len(c[h]) - 1 : e[h][i] = IF i < m THEN c[h][i] ELSE c[h][i + 1]
  <2>1. c[h] \in Seq(Items) /\ Len(c[h]) \in Nat
    BY <1>1, <1>5
  <2>2. /\ Len(Without(c[h], m)) = Len(c[h]) - 1
        /\ \A i \in 1 .. Len(c[h]) - 1 :
             Without(c[h], m)[i] = IF i < m THEN c[h][i] ELSE c[h][i + 1]
    BY <2>1, WithoutIs
  <2> QED BY <1>15, <2>1, <2>2
<1>17. /\ Len(d[Available]) = Len(e[Available]) + 1 /\ d[Available][1] = x
       /\ \A i \in 1 .. Len(e[Available]) : d[Available][i + 1] = e[Available][i]
  BY <1>7, <1>11, <1>15, OwnedFront
<1>18. \A t \in Sems : d[Process(t)] = c[Process(t)]
  <2>1. \A t \in Sems : Process(t) \in Heads /\ Process(t) # Available /\ Process(t) # h
    BY NodeFacts DEF Heads
  <2> QED BY <1>15, <2>1
<1>19. \A k \in {Available, Busy} : \A i \in 1 .. Len(e[k]) : e[k][i] \in Members
  <2> SUFFICES ASSUME NEW k \in {Available, Busy}, NEW i \in 1 .. Len(e[k])
               PROVE  e[k][i] \in Members
    OBVIOUS
  <2>1. CASE k # h
    BY <1>5, <1>15, <2>1 DEF Good
  <2>2. CASE k = h
    <3>1. i \in 1 .. Len(c[h]) /\ i + 1 \in 1 .. Len(c[h]) /\ i \in 1 .. Len(c[h]) - 1
      BY <1>16, <2>2
    <3> QED BY <1>16, <2>2, <3>1 DEF Good
  <2> QED BY <2>1, <2>2
<1>20. \A k \in {Available, Busy} : \A i \in 1 .. Len(d[k]) : d[k][i] \in Members
  <2> SUFFICES ASSUME NEW k \in {Available, Busy}, NEW i \in 1 .. Len(d[k])
               PROVE  d[k][i] \in Members
    OBVIOUS
  <2>1. CASE k # Available
    BY <1>5, <1>15, <1>19, <2>1
  <2>2. CASE k = Available
    <3>1. i = 1 \/ (i - 1 \in 1 .. Len(e[Available]) /\ (i - 1) + 1 = i)
      BY <1>11, <1>17, <2>2
    <3>2. i = 1 \/ (i - 1 \in 1 .. Len(e[Available]) /\ d[k][i] = e[Available][i - 1])
      BY <1>17, <2>2, <3>1
    <3> QED BY <1>7, <1>17, <1>19, <2>2, <3>2
  <2> QED BY <2>1, <2>2
<1>21. \A t \in Sems : \E k \in {Available, Busy} : \E i \in 1 .. Len(d[k]) : d[k][i] = Member(t)
  <2> SUFFICES ASSUME NEW t \in Sems
               PROVE  \E k \in {Available, Busy} : \E i \in 1 .. Len(d[k]) : d[k][i] = Member(t)
    OBVIOUS
  <2>1. CASE t = s
    <3>1. 1 \in 1 .. Len(d[Available]) /\ d[Available][1] = Member(t)
      BY <1>6, <1>11, <1>17, <2>1
    <3> QED BY <3>1
  <2>2. CASE t # s
    <3>1. \E k \in {Available, Busy} : \E i \in 1 .. Len(c[k]) : c[k][i] = Member(t)
      BY DEF Good
    <3>0. PICK k \in {Available, Busy} : \E i \in 1 .. Len(c[k]) : c[k][i] = Member(t)
      BY <3>1
    <3>2. PICK i \in 1 .. Len(c[k]) : c[k][i] = Member(t)
      BY <3>0
    <3>3. \E j \in 1 .. Len(e[k]) : e[k][j] = Member(t)
      <4>1. CASE k # h
        BY <1>5, <1>15, <3>2, <4>1
      <4>2. CASE k = h
        <5>1. i # m
          BY <1>4, <2>2, <3>2, <4>2, NodeFacts
        <5>2. \/ i < m /\ i \in 1 .. Len(c[h]) - 1
              \/ i - 1 \in 1 .. Len(c[h]) - 1 /\ ~(i - 1 < m) /\ (i - 1) + 1 = i
          BY <1>16, <3>2, <4>2, <5>1
        <5>3. \/ e[h][i] = Member(t) /\ i \in 1 .. Len(e[h])
              \/ e[h][i - 1] = Member(t) /\ i - 1 \in 1 .. Len(e[h])
          BY <1>16, <3>2, <4>2, <5>2
        <5> QED BY <4>2, <5>3
      <4> QED BY <4>1, <4>2
    <3>4. PICK j \in 1 .. Len(e[k]) : e[k][j] = Member(t)
      BY <3>3
    <3>5. CASE k # Available
      BY <1>5, <1>15, <3>4, <3>5
    <3>6. CASE k = Available
      <4>1. j + 1 \in 1 .. Len(d[k]) /\ d[k][j + 1] = Member(t)
        BY <1>11, <1>17, <3>4, <3>6
      <4> QED BY <4>1
    <3> QED BY <3>5, <3>6
  <2> QED BY <2>1, <2>2
<1>22. Good(U, asl, d)
  <2>1. U \in Tables
    BY <1>3, <1>13, <1>14 DEF Tables
  <2>2. \A t \in Sems : \A i \in 1 .. Len(d[Process(t)]) : \E p \in asl : d[Process(t)][i] = Link(p)
    BY <1>18 DEF Good
  <2> QED BY <1>14, <1>20, <1>21, <2>1, <2>2 DEF Good
<1>23. PICK a : a = Owned(c[Available])
  OBVIOUS
<1>24. RemoveFirst(a, s) = Owned(e[Available])
  <2>1. c[Available] \in Seq(Items) /\ Len(c[Available]) \in Nat
    BY <1>1, <1>5
  <2>2. Len(a) = Len(c[Available]) /\ \A i \in 1 .. Len(a) : a[i] = c[Available][i][2]
    BY <1>23, <2>1, OwnedIs
  <2>3. PICK S : a \in Seq(S)
    BY <1>23, <2>1, OwnedIs
  <2>4. \A i \in 1 .. Len(a) : a[i] = s => c[Available][i] = x
    <3> SUFFICES ASSUME NEW i \in 1 .. Len(a), a[i] = s PROVE c[Available][i] = x
      OBVIOUS
    <3>1. c[Available][i] \in Members
      BY <2>2 DEF Good
    <3>2. PICK t \in Sems : c[Available][i] = Member(t)
      BY <3>1 DEF Members
    <3> QED BY <1>6, <2>2, <3>2, NodeFacts
  <2>5. \A i \in 1 .. Len(a) : a[i] = s => h = Available /\ i = m
    BY <1>1, <1>4, <1>5, <1>6, <2>2, <2>4 DEF Apart
  <2>6. CASE h = Available
    <3>1. m \in 1 .. Len(a) /\ a[m] = s
      BY <1>4, <1>6, <1>7, <2>2, <2>6
    <3>2. RemoveFirst(a, a[m]) = Without(a, m)
      BY <2>3, <2>5, <3>1, RemoveFirstIs
    <3>3. Owned(Without(c[Available], m)) = Without(a, m)
      BY <1>4, <1>23, <2>1, <2>6, OwnedWithout
    <3> QED BY <1>15, <2>6, <3>1, <3>2, <3>3
  <2>7. CASE h # Available
    <3>1. RemoveFirst(a, s) = a
      BY <2>5, <2>7 DEF RemoveFirst
    <3> QED BY <1>5, <1>15, <1>23, <2>7, <3>1
  <2> QED BY <2>6, <2>7
<1>25. Seen(U, d) = Discard(Seen(T, c), s)
  <2>1. PICK w : w = [t \in Sems |-> Owned(c[Process(t)])]
    OBVIOUS
  <2>2. Seen(T, c) = [value |-> T.value, waiters |-> w, avail |-> a]
    BY <1>23, <2>1 DEF Seen
  <2>3. Discard(Seen(T, c), s) =
          [value |-> W, waiters |-> w, avail |-> <<s>> \o Owned(e[Available])]
    <3>1. PICK X : X = Seen(T, c)
      OBVIOUS
    <3>2. PICK v : v = T.value
      OBVIOUS
    <3>3. X = [value |-> v, waiters |-> w, avail |-> a]
      BY <2>2, <3>1, <3>2
    <3>4. Discard(X, s) = [value |-> [v EXCEPT ![s] = 0], waiters |-> w, avail |-> <<s>> \o RemoveFirst(a, s)]
      BY <3>3, DiscardIs
    <3> QED BY <1>2, <1>24, <3>1, <3>2, <3>4
  <2>4. Owned(d[Available]) = <<s>> \o Owned(e[Available])
    BY <1>7, <1>11, <1>15, OwnedFront
  <2>5. w = [t \in Sems |-> Owned(d[Process(t)])]
    BY <1>18, <2>1
  <2>6. U.value = W
    BY <1>13
  <2> QED BY <2>3, <2>4, <2>5, <2>6 DEF Seen
<1> QED BY <1>22, <1>25

-----------------------------------------------------------------------------
\* The lists when the semaphores below lo are busy and the rest, below hi, are
\* available, in order.
Stock(lo, hi) ==
  [h \in Heads |-> IF h = Available THEN [i \in 1 .. hi - lo |-> Member(lo + i - 1)]
                   ELSE IF h = Busy THEN [i \in 1 .. lo |-> Member(i - 1)] ELSE << >>]

Stocked(c, lo, hi) ==
  /\ c \in [Heads -> Seq(Items)] /\ Len(c[Available]) = hi - lo /\ Len(c[Busy]) = lo
  /\ \A i \in 1 .. hi - lo : c[Available][i] = Member(lo + i - 1)
  /\ \A i \in 1 .. lo : c[Busy][i] = Member(i - 1)
  /\ \A s \in Sems : c[Process(s)] = << >>

LEMMA StockIs ==
  ASSUME NEW lo \in Nat, NEW hi \in Nat, lo <= hi, hi <= MAX_SEMAPHORE
  PROVE  Stocked(Stock(lo, hi), lo, hi)
<1>0. MAX_SEMAPHORE \in Nat
  BY NumberFacts
<1>1. /\ Available \in Heads /\ Busy \in Heads /\ Available # Busy
      /\ \A s \in Sems : Process(s) \in Heads /\ Process(s) # Available /\ Process(s) # Busy
  BY NodeFacts DEF Heads
<1>2. \A i \in 1 .. hi - lo : Member(lo + i - 1) \in Items
  <2> SUFFICES ASSUME NEW i \in 1 .. hi - lo PROVE Member(lo + i - 1) \in Items
    OBVIOUS
  <2>1. lo + i - 1 \in Sems
    BY <1>0 DEF Sems
  <2> QED BY <2>1 DEF Items, Members
<1>3. \A i \in 1 .. lo : Member(i - 1) \in Items
  <2> SUFFICES ASSUME NEW i \in 1 .. lo PROVE Member(i - 1) \in Items
    OBVIOUS
  <2>1. i - 1 \in Sems
    BY <1>0 DEF Sems
  <2> QED BY <2>1 DEF Items, Members
<1>4. PICK a : a = [i \in 1 .. hi - lo |-> Member(lo + i - 1)]
  OBVIOUS
<1>5. PICK b : b = [i \in 1 .. lo |-> Member(i - 1)]
  OBVIOUS
<1>6. a \in Seq(Items) /\ Len(a) = hi - lo /\ \A i \in 1 .. hi - lo : a[i] = Member(lo + i - 1)
  <2>1. hi - lo \in Nat
    OBVIOUS
  <2> QED BY <1>2, <1>4, <2>1
<1>7. b \in Seq(Items) /\ Len(b) = lo /\ \A i \in 1 .. lo : b[i] = Member(i - 1)
  BY <1>3, <1>5
<1>8. << >> \in Seq(Items)
  OBVIOUS
<1>9. Stock(lo, hi) = [h \in Heads |-> IF h = Available THEN a ELSE IF h = Busy THEN b ELSE << >>]
  BY <1>4, <1>5 DEF Stock
<1> HIDE DEF Stock
<1>10. Stock(lo, hi) \in [Heads -> Seq(Items)]
  BY <1>6, <1>7, <1>8, <1>9
<1>11. /\ Stock(lo, hi)[Available] = a /\ Stock(lo, hi)[Busy] = b
       /\ \A s \in Sems : Stock(lo, hi)[Process(s)] = << >>
  BY <1>1, <1>9
<1> QED BY <1>6, <1>7, <1>10, <1>11 DEF Stocked

\* sem_init: every node but the links of the processes refers to itself.
Self == [x \in Nodes |-> IF x[1] = "link" THEN Link(-1) ELSE x]
Pushes(f, n) ==
  f = [k \in 0 .. n |-> IF k = 0 THEN [next |-> Self, last |-> Self]
                        ELSE ListAddTail(f[k - 1], Member(k - 1), Available)]

LEMMA Pushed == \A n \in Nat : \E f : Pushes(f, n)
<1> DEFINE S == {n \in Nat : \E f : Pushes(f, n)}
<1>1. 0 \in S
  <2>1. Pushes([i \in 0 .. 0 |-> [next |-> Self, last |-> Self]], 0)
    BY DEF Pushes
  <2> QED BY <2>1
<1>2. ASSUME NEW n \in Nat, n \in S
      PROVE  n + 1 \in S
  <2>1. PICK f : Pushes(f, n)
    BY <1>2
  <2>2. PICK g : g = [k \in 0 .. n + 1 |->
                        IF k = n + 1 THEN ListAddTail(f[n], Member(n), Available) ELSE f[k]]
    OBVIOUS
  <2>3. \A k \in 0 .. n + 1 : g[k] = IF k = 0 THEN [next |-> Self, last |-> Self]
                                     ELSE ListAddTail(g[k - 1], Member(k - 1), Available)
    <3>1. \A k \in 0 .. n : f[k] = IF k = 0 THEN [next |-> Self, last |-> Self]
                                   ELSE ListAddTail(f[k - 1], Member(k - 1), Available)
      BY <2>1 DEF Pushes
    <3>2. /\ \A k \in 0 .. n : g[k] = f[k]
          /\ g[n + 1] = ListAddTail(f[n], Member(n), Available)
      BY <2>2
    <3>3. \A k \in 1 .. n : k - 1 \in 0 .. n
      OBVIOUS
    <3>4. n \in 0 .. n /\ (n + 1) - 1 = n
      OBVIOUS
    <3> QED BY <3>1, <3>2, <3>3, <3>4
  <2>4. Pushes(g, n + 1)
    BY <2>2, <2>3 DEF Pushes
  <2> QED BY <2>4
<1>3. \A n \in Nat : n \in S
  <2> HIDE DEF S
  <2> QED BY <1>1, <1>2, SetInduction
<1> QED BY <1>3

LEMMA PushedChains ==
  ASSUME NEW n \in Nat, n <= MAX_SEMAPHORE, NEW f, Pushes(f, n)
  PROVE  f[n] \in Links /\ Chains(f[n], Stock(0, n))
<1>0. /\ \A k \in 0 .. n : f[k] = IF k = 0 THEN [next |-> Self, last |-> Self]
                                  ELSE ListAddTail(f[k - 1], Member(k - 1), Available)
      /\ MAX_SEMAPHORE \in Nat
  BY NumberFacts DEF Pushes
<1> DEFINE S == {k \in Nat : k <= n => f[k] \in Links /\ Chains(f[k], Stock(0, k))}
<1>1. 0 \in S
  <2>1. PICK L : L = [next |-> Self, last |-> Self]
    OBVIOUS
  <2>2. \A x \in Nodes : Self[x] \in Nodes
    BY DEF Self, Nodes, Items
  <2>3. L \in Links
    BY <2>1, <2>2 DEF Links, Self
  <2>4. PICK c : c = Stock(0, 0)
    OBVIOUS
  <2>5. c \in [Heads -> Seq(Items)] /\ \A h \in Heads : c[h] = << >>
    <3>1. /\ c \in [Heads -> Seq(Items)] /\ Len(c[Available]) = 0 /\ Len(c[Busy]) = 0
          /\ \A s \in Sems : c[Process(s)] = << >>
      <4>1. 0 \in Nat /\ 0 <= 0 /\ 0 <= MAX_SEMAPHORE /\ 0 - 0 = 0
        BY <1>0
      <4>2. /\ c \in [Heads -> Seq(Items)] /\ Len(c[Available]) = 0 - 0 /\ Len(c[Busy]) = 0
            /\ \A s \in Sems : c[Process(s)] = << >>
        <5>1. Stocked(c, 0, 0)
          BY <2>4, <4>1, StockIs
        <5> QED BY <5>1 DEF Stocked
      <4> QED BY <4>1, <4>2
    <3>2. c[Available] = << >> /\ c[Busy] = << >>
      BY <3>1 DEF Heads
    <3> QED BY <3>1, <3>2 DEF Heads
  <2>6. \A h \in Heads : L.next[h] = h /\ L.last[h] = h
    <3>1. \A h \in Heads : h[1] # "link" /\ h \in Nodes
      BY NodeFacts DEF Heads, Nodes
    <3> QED BY <2>1, <3>1 DEF Self
  <2>7. Chains(L, c)
    <3>1. \A h \in Heads : Chain(L, h, c[h])
      BY <2>5, <2>6 DEF Chain, Follows, Node
    <3>2. Apart(c)
      BY <2>5 DEF Apart
    <3> QED BY <3>1, <3>2 DEF Chains
  <2>8. f[0] = L
    BY <1>0, <2>1
  <2> QED BY <2>3, <2>4, <2>7, <2>8
<1>2. ASSUME NEW k \in Nat, k \in S
      PROVE  k + 1 \in S
  <2>1. SUFFICES ASSUME k + 1 <= n
                 PROVE  f[k + 1] \in Links /\ Chains(f[k + 1], Stock(0, k + 1))
    OBVIOUS
  <2>2. f[k] \in Links /\ Chains(f[k], Stock(0, k))
    BY <1>2, <2>1
  <2>3. f[k + 1] = ListAddTail(f[k], Member(k), Available)
    <3>1. k + 1 \in 0 .. n /\ k + 1 # 0 /\ (k + 1) - 1 = k
      BY <2>1
    <3> QED BY <1>0, <3>1
  <2>4. PICK c : c = Stock(0, k)
    OBVIOUS
  <2>5. /\ c \in [Heads -> Seq(Items)] /\ Len(c[Available]) = k /\ Len(c[Busy]) = 0
        /\ \A i \in 1 .. k : c[Available][i] = Member(0 + i - 1)
        /\ \A s \in Sems : c[Process(s)] = << >>
    <3>1. 0 \in Nat /\ 0 <= k /\ k <= MAX_SEMAPHORE /\ k - 0 = k
      BY <1>0, <2>1
    <3> HIDE DEF S
    <3>2. /\ c \in [Heads -> Seq(Items)] /\ Len(c[Available]) = k - 0 /\ Len(c[Busy]) = 0
          /\ \A i \in 1 .. k - 0 : c[Available][i] = Member(0 + i - 1)
          /\ \A s \in Sems : c[Process(s)] = << >>
      <4>1. Stocked(c, 0, k)
        BY <2>4, <3>1, StockIs
      <4> QED BY <4>1 DEF Stocked
    <3> QED BY <3>1, <3>2
  <2>6. Available \in Heads /\ Busy \in Heads /\ Member(k) \in Items
    <3>1. k \in Sems
      BY <1>0, <2>1 DEF Sems
    <3> QED BY <3>1 DEF Heads, Items, Members
  <2>7. Unlisted(c, Member(k))
    <3> SUFFICES ASSUME NEW h \in Heads, NEW i \in 1 .. Len(c[h])
                 PROVE  c[h][i] # Member(k)
      BY DEF Unlisted
    <3>1. h = Available
      BY <2>5 DEF Heads
    <3>2. c[h][i] = Member(0 + i - 1) /\ 0 + i - 1 # k
      BY <2>5, <3>1
    <3> QED BY <3>2, NodeFacts
  <2>8. PICK d : d = [c EXCEPT ![Available] = Append(c[Available], Member(k))]
    OBVIOUS
  <2>9. f[k + 1] \in Links /\ Chains(f[k + 1], d)
    BY <2>2, <2>3, <2>4, <2>6, <2>7, <2>8, TailAdded
  <2>10. d = Stock(0, k + 1)
    <3>1. PICK e : e = Stock(0, k + 1)
      OBVIOUS
    <3>2. /\ e \in [Heads -> Seq(Items)] /\ Len(e[Available]) = k + 1 /\ Len(e[Busy]) = 0
          /\ \A i \in 1 .. k + 1 : e[Available][i] = Member(0 + i - 1)
          /\ \A s \in Sems : e[Process(s)] = << >>
      <4>1. k + 1 <= MAX_SEMAPHORE /\ (k + 1) - 0 = k + 1 /\ k + 1 \in Nat /\ 0 <= k + 1
        BY <1>0, <2>1
      <4> HIDE DEF S
      <4>2. PICK m \in Nat : m = k + 1
        BY <4>1
      <4>3. /\ e \in [Heads -> Seq(Items)] /\ Len(e[Available]) = m - 0 /\ Len(e[Busy]) = 0
            /\ \A i \in 1 .. m - 0 : e[Available][i] = Member(0 + i - 1)
            /\ \A s \in Sems : e[Process(s)] = << >>
        <5>1. 0 \in Nat /\ 0 <= m /\ m <= MAX_SEMAPHORE /\ e = Stock(0, m)
          BY <3>1, <4>1, <4>2
        <5>2. Stocked(e, 0, m)
          BY <5>1, StockIs
        <5> QED BY <5>2 DEF Stocked
      <4> QED BY <4>1, <4>2, <4>3
    <3>3. d[Available] = e[Available]
      <4>1. PICK q : q = Append(c[Available], Member(k))
        OBVIOUS
      <4>2. q \in Seq(Items) /\ Len(q) = k + 1 /\ \A i \in 1 .. k + 1 : q[i] = Member(0 + i - 1)
        <5>1. c[Available] \in Seq(Items)
          BY <2>5, <2>6
        <5>2. 0 + (k + 1) - 1 = k
          OBVIOUS
        <5> QED BY <2>5, <2>6, <4>1, <5>1, <5>2
      <4>3. e[Available] \in Seq(Items)
        BY <2>6, <3>2
      <4>4. e[Available] = q
        BY <3>2, <4>2, <4>3, SeqEqual
      <4> QED BY <2>5, <2>6, <2>8, <4>1, <4>4
    <3>4. c[Busy] = << >> /\ e[Busy] = << >>
      BY <2>5, <2>6, <3>2
    <3>5. \A h \in Heads : d[h] = e[h]
      BY <2>5, <2>8, <3>2, <3>3, <3>4 DEF Heads
    <3>6. d \in [Heads -> Seq(Items)]
      BY <2>9 DEF Chains, Apart
    <3> QED BY <3>1, <3>2, <3>5, <3>6
  <2> QED BY <2>9, <2>10
<1>3. \A k \in Nat : k \in S
  <2> HIDE DEF S
  <2> QED BY <1>1, <1>2, SetInduction
<1> QED BY <1>3

\* The table sem_init leaves.
LEMMA FreshIs ==
  LET T == Fresh(MAX_SEMAPHORE, Proc \cup {-1}, -1)
  IN  T.links \in Links /\ Chains(T.links, Stock(0, MAX_SEMAPHORE)) /\ T.value = [s \in Sems |-> 0]
<1> DEFINE n == MAX_SEMAPHORE
           P == Proc \cup {-1}
           all == {Process(s) : s \in 0 .. n - 1} \cup {Member(s) : s \in 0 .. n - 1}
                  \cup {Link(p) : p \in P} \cup {Available, Busy}
           self == [x \in all |-> IF x[1] = "link" THEN Link(-1) ELSE x]
           pushed == CHOOSE f : f = [k \in 0 .. n |->
                        IF k = 0 THEN [next |-> self, last |-> self]
                        ELSE ListAddTail(f[k - 1], Member(k - 1), Available)]
<1>1. n \in Nat
  BY NumberFacts
<1>2. all = Nodes
  BY DEF Nodes, Heads, Items, Members, Sems
<1>3. self = Self
  BY <1>2 DEF Self
<1>4. Pushes(pushed, n)
  <2>1. \E f : Pushes(f, n)
    BY <1>1, Pushed
  <2>2. \E f : f = [k \in 0 .. n |-> IF k = 0 THEN [next |-> self, last |-> self]
                                     ELSE ListAddTail(f[k - 1], Member(k - 1), Available)]
    <3> HIDE DEF self
    <3> QED BY <1>3, <2>1 DEF Pushes
  <2>3. pushed = [k \in 0 .. n |-> IF k = 0 THEN [next |-> self, last |-> self]
                                   ELSE ListAddTail(pushed[k - 1], Member(k - 1), Available)]
    <3> HIDE DEF self
    <3> QED BY <2>2
  <2> HIDE DEF self, pushed
  <2> QED BY <1>3, <2>3 DEF Pushes
<1>5. Fresh(n, P, -1) = [value |-> [s \in 0 .. n - 1 |-> 0], links |-> pushed[n]]
  BY DEF Fresh, pushed, self, all
<1> HIDE DEF pushed
<1>6. pushed[n] \in Links /\ Chains(pushed[n], Stock(0, n))
  BY <1>1, <1>4, PushedChains
<1>7. PICK T : T = Fresh(n, P, -1)
  OBVIOUS
<1>8. T.links = pushed[n] /\ T.value = [s \in Sems |-> 0]
  <2>1. PICK L : L = pushed[n]
    OBVIOUS
  <2>2. PICK v : v = [s \in Sems |-> 0]
    OBVIOUS
  <2>3. v = [s \in 0 .. n - 1 |-> 0]
    BY <2>2 DEF Sems
  <2>4. T = [value |-> v, links |-> L]
    BY <1>5, <1>7, <2>1, <2>3, Zenon
  <2>5. T.value = v /\ T.links = L
    BY <2>4
  <2> QED BY <2>1, <2>2, <2>5
<1>9. T.links \in Links /\ Chains(T.links, Stock(0, n))
  BY <1>6, <1>8
<1> QED BY <1>7, <1>8, <1>9

\* sys_sem_init, for one value after another.
Picks(f, n, T, initial) == f = [k \in 0 .. n |-> IF k = 0 THEN T ELSE Pick(f[k - 1], initial[k])]

LEMMA PicksExist == ASSUME NEW T, NEW initial PROVE \A n \in Nat : \E f : Picks(f, n, T, initial)
<1> DEFINE S == {n \in Nat : \E f : Picks(f, n, T, initial)}
<1>1. 0 \in S
  <2>1. Picks([i \in 0 .. 0 |-> T], 0, T, initial)
    BY DEF Picks
  <2> QED BY <2>1
<1>2. ASSUME NEW n \in Nat, n \in S
      PROVE  n + 1 \in S
  <2>1. PICK f : Picks(f, n, T, initial)
    BY <1>2
  <2>2. PICK g : g = [k \in 0 .. n + 1 |-> IF k = n + 1 THEN Pick(f[n], initial[n + 1]) ELSE f[k]]
    OBVIOUS
  <2>3. \A k \in 0 .. n + 1 : g[k] = IF k = 0 THEN T ELSE Pick(g[k - 1], initial[k])
    <3>1. \A k \in 0 .. n : f[k] = IF k = 0 THEN T ELSE Pick(f[k - 1], initial[k])
      BY <2>1 DEF Picks
    <3>2. /\ \A k \in 0 .. n : g[k] = f[k]
          /\ g[n + 1] = Pick(f[n], initial[n + 1])
      BY <2>2
    <3>3. \A k \in 1 .. n : k - 1 \in 0 .. n
      OBVIOUS
    <3>4. n \in 0 .. n /\ (n + 1) - 1 = n
      OBVIOUS
    <3> QED BY <3>1, <3>2, <3>3, <3>4
  <2>4. Picks(g, n + 1, T, initial)
    BY <2>2, <2>3 DEF Picks
  <2> QED BY <2>4
<1>3. \A n \in Nat : n \in S
  <2> HIDE DEF S
  <2> QED BY <1>1, <1>2, SetInduction
<1> QED BY <1>3

\* The values after the first k.
Values(k, initial) == [s \in Sems |-> IF s < k THEN initial[s + 1] ELSE 0]

LEMMA PicksAre ==
  ASSUME NEW initial \in Seq(Nat), Len(initial) <= MAX_SEMAPHORE,
         NEW T, T.links \in Links, Chains(T.links, Stock(0, MAX_SEMAPHORE)), T.value = [s \in Sems |-> 0],
         NEW f, Picks(f, Len(initial), T, initial)
  PROVE  /\ f[Len(initial)].links \in Links
         /\ Chains(f[Len(initial)].links, Stock(Len(initial), MAX_SEMAPHORE))
         /\ f[Len(initial)].value = Values(Len(initial), initial)
         /\ Len(initial) = 0 => f[Len(initial)] = T
         /\ Len(initial) # 0 =>
              f[Len(initial)] = [value |-> f[Len(initial)].value, links |-> f[Len(initial)].links]
<1> DEFINE max == MAX_SEMAPHORE
           n == Len(initial)
<1>0. /\ max \in Nat /\ n \in Nat /\ n <= max
      /\ \A k \in 0 .. n : f[k] = IF k = 0 THEN T ELSE Pick(f[k - 1], initial[k])
  <2>1. n \in Nat /\ max \in Nat
    BY NumberFacts
  <2>2. \A k \in 0 .. n : f[k] = IF k = 0 THEN T ELSE Pick(f[k - 1], initial[k])
    BY DEF Picks
  <2> QED BY <2>1, <2>2
<1> HIDE DEF max, n
<1> DEFINE S == {k \in Nat : k <= n => /\ f[k].links \in Links
                                       /\ Chains(f[k].links, Stock(k, max))
                                       /\ f[k].value = Values(k, initial)
                                       /\ k = 0 => f[k] = T
                                       /\ k # 0 => f[k] = [value |-> f[k].value, links |-> f[k].links]}
<1>1. 0 \in S
  <2>1. T.value = Values(0, initial)
    <3>1. \A s \in Sems : ~(s < 0)
      BY <1>0 DEF Sems, max
    <3> QED BY <3>1 DEF Values
  <2> QED BY <1>0, <2>1 DEF max
<1>2. ASSUME NEW k \in Nat, k \in S
      PROVE  k + 1 \in S
  <2>1. SUFFICES ASSUME k + 1 <= n
                 PROVE  /\ f[k + 1].links \in Links
                        /\ Chains(f[k + 1].links, Stock(k + 1, max))
                        /\ f[k + 1].value = Values(k + 1, initial)
                        /\ f[k + 1] = [value |-> f[k + 1].value, links |-> f[k + 1].links]
    <3>1. k + 1 # 0 /\ k + 1 \in Nat
      OBVIOUS
    <3> QED BY <3>1
  <2>2. PICK L : L = f[k].links
    OBVIOUS
  <2>3. L \in Links /\ Chains(L, Stock(k, max)) /\ f[k].value = Values(k, initial)
    BY <1>0, <1>2, <2>1, <2>2
  <2>4. f[k + 1] = Pick(f[k], initial[k + 1])
    <3>1. k + 1 \in 0 .. n /\ k + 1 # 0 /\ (k + 1) - 1 = k
      BY <1>0, <2>1
    <3> QED BY <1>0, <3>1
  <2> HIDE DEF S
  <2>5. PICK c : c = Stock(k, max)
    OBVIOUS
  <2>6. k < max /\ k <= max /\ max <= MAX_SEMAPHORE /\ k + 1 <= max /\ k \in Sems
    BY <1>0, <2>1 DEF Sems, max
  <2>7. /\ c \in [Heads -> Seq(Items)] /\ Len(c[Available]) = max - k /\ Len(c[Busy]) = k
        /\ \A i \in 1 .. max - k : c[Available][i] = Member(k + i - 1)
        /\ \A i \in 1 .. k : c[Busy][i] = Member(i - 1)
        /\ \A s \in Sems : c[Process(s)] = << >>
    <3>1. max \in Nat /\ k <= max /\ max <= MAX_SEMAPHORE
      BY <1>0, <2>6
    <3>2. Stocked(c, k, max)
      BY <2>5, <3>1, StockIs
    <3> QED BY <3>2 DEF Stocked
  <2>8. Available \in Heads /\ Busy \in Heads /\ Available # Busy /\ Member(k) \in Items
    BY <2>6, NodeFacts DEF Heads, Items, Members
  <2>9. c[Available] # << >> /\ 1 \in 1 .. Len(c[Available]) /\ c[Available][1] = Member(k)
    <3>1. 1 \in 1 .. max - k /\ k + 1 - 1 = k
      BY <1>0, <2>6
    <3> QED BY <2>7, <3>1
  <2>10. L.next[Available] = Member(k)
    BY <2>3, <2>5, <2>8, <2>9, EmptyIs DEF ListHead
  <2>11. PICK M : M = ListDelInit(L, Member(k))
    OBVIOUS
  <2>12. f[k + 1] = [value |-> [Values(k, initial) EXCEPT ![k] = initial[k + 1]],
                     links |-> ListAddTail(M, Member(k), Busy)]
    BY <2>2, <2>3, <2>4, <2>10, <2>11, NodeFacts DEF Pick
  <2>13. PICK e : e = [c EXCEPT ![Available] = Without(c[Available], 1)]
    OBVIOUS
  <2>14. M \in Links /\ Chains(M, e) /\ Unlisted(e, Member(k))
    <3>1. PICK h \in Heads : h = Available
      BY <2>8
    <3>2. PICK x : x = Member(k)
      OBVIOUS
    <3>3. /\ L \in Links /\ Chains(L, c) /\ h \in Heads /\ 1 \in 1 .. Len(c[h]) /\ x = c[h][1]
          /\ e = [c EXCEPT ![h] = Without(c[h], 1)]
      BY <2>3, <2>5, <2>9, <2>13, <3>1, <3>2
    <3>4. ListDelInit(L, x) \in Links /\ Chains(ListDelInit(L, x), e) /\ Unlisted(e, x)
      BY ONLY <3>3, Removed
    <3> QED BY <2>11, <3>2, <3>4
  <2>15. PICK d : d = [e EXCEPT ![Busy] = Append(e[Busy], Member(k))]
    OBVIOUS
  <2>16. ListAddTail(M, Member(k), Busy) \in Links /\ Chains(ListAddTail(M, Member(k), Busy), d)
    BY <2>8, <2>14, <2>15, TailAdded
  <2>17. d = Stock(k + 1, max)
    <3>1. PICK g : g = Stock(k + 1, max)
      OBVIOUS
    <3>2. /\ g \in [Heads -> Seq(Items)] /\ Len(g[Available]) = max - (k + 1) /\ Len(g[Busy]) = k + 1
          /\ \A i \in 1 .. max - (k + 1) : g[Available][i] = Member((k + 1) + i - 1)
          /\ \A i \in 1 .. k + 1 : g[Busy][i] = Member(i - 1)
          /\ \A s \in Sems : g[Process(s)] = << >>
      <4>1. PICK m \in Nat : m = k + 1
        OBVIOUS
      <4>2. max \in Nat /\ m <= max /\ max <= MAX_SEMAPHORE /\ g = Stock(m, max)
        BY <1>0, <2>6, <3>1, <4>1
      <4>3. /\ g \in [Heads -> Seq(Items)] /\ Len(g[Available]) = max - m /\ Len(g[Busy]) = m
            /\ \A i \in 1 .. max - m : g[Available][i] = Member(m + i - 1)
            /\ \A i \in 1 .. m : g[Busy][i] = Member(i - 1)
            /\ \A s \in Sems : g[Process(s)] = << >>
        <5>1. Stocked(g, m, max)
          BY <4>2, StockIs
        <5> QED BY <5>1 DEF Stocked
      <4> QED BY <4>1, <4>3
    <3>3. /\ e \in [Heads -> Seq(Items)] /\ d \in [Heads -> Seq(Items)]
      BY <2>14, <2>16 DEF Chains, Apart
    <3>4. d[Available] = Without(c[Available], 1) /\ d[Busy] = Append(c[Busy], Member(k))
      BY <2>7, <2>8, <2>13, <2>15, <3>3
    <3>5. d[Available] = g[Available]
      <4>1. c[Available] \in Seq(Items) /\ g[Available] \in Seq(Items) /\ d[Available] \in Seq(Items)
        BY <2>7, <2>8, <3>2, <3>3
      <4>2. /\ Len(d[Available]) = max - k - 1
            /\ \A i \in 1 .. max - k - 1 : d[Available][i] = c[Available][i + 1]
        <5>1. /\ Len(d[Available]) = Len(c[Available]) - 1
              /\ \A i \in 1 .. Len(c[Available]) - 1 :
                   d[Available][i] = IF i < 1 THEN c[Available][i] ELSE c[Available][i + 1]
          <6>1. PICK r : r = c[Available]
            OBVIOUS
          <6>2. r \in Seq(Items) /\ 1 \in 1 .. Len(r) /\ d[Available] = Without(r, 1)
            BY <2>9, <3>4, <4>1, <6>1
          <6>3. /\ Len(Without(r, 1)) = Len(r) - 1
                /\ \A i \in 1 .. Len(r) - 1 : Without(r, 1)[i] = IF i < 1 THEN r[i] ELSE r[i + 1]
            BY <6>2, WithoutIs
          <6> QED BY <6>1, <6>2, <6>3
        <5> QED BY <1>0, <2>6, <2>7, <5>1
      <4>3. \A i \in 1 .. max - k - 1 : d[Available][i] = g[Available][i]
        <5> SUFFICES ASSUME NEW i \in 1 .. max - k - 1 PROVE d[Available][i] = g[Available][i]
          OBVIOUS
        <5>1. i + 1 \in 1 .. max - k /\ i \in 1 .. max - (k + 1) /\ k + (i + 1) - 1 = (k + 1) + i - 1
          BY <1>0, <2>6
        <5>2. d[Available][i] = c[Available][i + 1]
          BY <4>2
        <5>3. c[Available][i + 1] = Member(k + (i + 1) - 1)
          BY <2>7, <5>1
        <5>4. g[Available][i] = Member((k + 1) + i - 1)
          BY <3>2, <5>1
        <5> QED BY <5>1, <5>2, <5>3, <5>4
      <4>4. Len(d[Available]) = Len(g[Available])
        BY <1>0, <2>6, <3>2, <4>2
      <4>5. \A i \in 1 .. Len(d[Available]) : d[Available][i] = g[Available][i]
        BY <4>2, <4>3
      <4> QED BY <4>1, <4>4, <4>5, SeqEqual
    <3>6. d[Busy] = g[Busy]
      <4>1. PICK q : q = Append(c[Busy], Member(k))
        OBVIOUS
      <4>2. c[Busy] \in Seq(Items) /\ g[Busy] \in Seq(Items)
        BY <2>7, <2>8, <3>2
      <4>3. q \in Seq(Items) /\ Len(q) = k + 1 /\ \A i \in 1 .. k + 1 : q[i] = Member(i - 1)
        <5>1. (k + 1) - 1 = k
          OBVIOUS
        <5> QED BY <2>7, <2>8, <4>1, <4>2, <5>1
      <4>4. g[Busy] = q
        BY <3>2, <4>2, <4>3, SeqEqual
      <4> QED BY <3>4, <4>1, <4>4
    <3>7. \A s \in Sems : d[Process(s)] = << >> /\ g[Process(s)] = << >>
      <4>1. \A s \in Sems : Process(s) \in Heads /\ Process(s) # Available /\ Process(s) # Busy
        BY NodeFacts DEF Heads
      <4> QED BY <2>7, <2>8, <2>13, <2>15, <3>2, <3>3, <4>1
    <3>8. \A h \in Heads : d[h] = g[h]
      BY <3>5, <3>6, <3>7 DEF Heads
    <3> QED BY <3>1, <3>2, <3>3, <3>8
  <2>18. [Values(k, initial) EXCEPT ![k] = initial[k + 1]] = Values(k + 1, initial)
    <3>1. \A s \in Sems : s < k + 1 <=> s < k \/ s = k
      BY <1>0 DEF Sems, max
    <3>2. ~(k < k)
      OBVIOUS
    <3> QED BY <3>1, <3>2 DEF Values
  <2>19. f[k + 1] = [value |-> Values(k + 1, initial), links |-> ListAddTail(M, Member(k), Busy)]
    BY <2>12, <2>18
  <2> QED BY <2>16, <2>17, <2>19
<1>3. \A k \in Nat : k \in S
  <2> HIDE DEF S
  <2> QED BY <1>1, <1>2, SetInduction
<1>4. n \in S
  BY <1>0, <1>3
<1> QED BY <1>0, <1>4 DEF max, n

\* The table a test starts with.
LEMMA InitTable ==
  ASSUME NEW initial \in Seq(Nat), Len(initial) <= MAX_SEMAPHORE,
         NEW U, U = Picked(Fresh(MAX_SEMAPHORE, Proc \cup {-1}, -1), initial)
  PROVE  \E d : Good(U, {}, d) /\ Seen(U, d) = A!Created(initial)
<1> DEFINE T0 == Fresh(MAX_SEMAPHORE, Proc \cup {-1}, -1)
           picked == CHOOSE f : f = [k \in 0 .. Len(initial) |->
                        IF k = 0 THEN T0 ELSE Pick(f[k - 1], initial[k])]
<1>1. PICK n : n = Len(initial)
  OBVIOUS
<1>2. n \in Nat /\ n <= MAX_SEMAPHORE /\ MAX_SEMAPHORE \in Nat
  BY <1>1, NumberFacts
<1>3. Picks(picked, n, T0, initial)
  <2> HIDE DEF T0
  <2>1. \E f : Picks(f, n, T0, initial)
    BY <1>2, PicksExist
  <2>2. \E f : f = [k \in 0 .. Len(initial) |-> IF k = 0 THEN T0 ELSE Pick(f[k - 1], initial[k])]
    BY <1>1, <2>1 DEF Picks
  <2>3. picked = [k \in 0 .. Len(initial) |-> IF k = 0 THEN T0 ELSE Pick(picked[k - 1], initial[k])]
    BY <2>2
  <2> HIDE DEF picked
  <2> QED BY <1>1, <2>3 DEF Picks
<1>4. U = picked[Len(initial)]
  BY DEF Picked, picked, T0
<1> HIDE DEF picked
<1>5. /\ T0.links \in Links /\ Chains(T0.links, Stock(0, MAX_SEMAPHORE)) /\ T0.value = [s \in Sems |-> 0]
  BY FreshIs
<1>6. T0 = [value |-> T0.value, links |-> T0.links]
  BY DEF Fresh
<1> HIDE DEF T0
<1>7. /\ U.links \in Links /\ Chains(U.links, Stock(n, MAX_SEMAPHORE))
      /\ U.value = Values(n, initial) /\ U = [value |-> U.value, links |-> U.links]
  <2>1. PICK T : T = T0
    OBVIOUS
  <2>2. PICK f : f = picked
    OBVIOUS
  <2>3. /\ T.links \in Links /\ Chains(T.links, Stock(0, MAX_SEMAPHORE)) /\ T.value = [s \in Sems |-> 0]
        /\ Picks(f, Len(initial), T, initial)
    BY <1>1, <1>3, <1>5, <2>1, <2>2
  <2>4. /\ f[Len(initial)].links \in Links
        /\ Chains(f[Len(initial)].links, Stock(Len(initial), MAX_SEMAPHORE))
        /\ f[Len(initial)].value = Values(Len(initial), initial)
        /\ Len(initial) = 0 => f[Len(initial)] = T
        /\ Len(initial) # 0 =>
             f[Len(initial)] = [value |-> f[Len(initial)].value, links |-> f[Len(initial)].links]
    BY <2>3, PicksAre
  <2> QED BY <1>1, <1>4, <1>6, <2>1, <2>2, <2>4
<1>8. PICK d : d = Stock(n, MAX_SEMAPHORE)
  OBVIOUS
<1>9. /\ d \in [Heads -> Seq(Items)] /\ Len(d[Available]) = MAX_SEMAPHORE - n /\ Len(d[Busy]) = n
      /\ \A i \in 1 .. MAX_SEMAPHORE - n : d[Available][i] = Member(n + i - 1)
      /\ \A i \in 1 .. n : d[Busy][i] = Member(i - 1)
      /\ \A s \in Sems : d[Process(s)] = << >>
  <2>1. n \in Nat /\ MAX_SEMAPHORE \in Nat /\ n <= MAX_SEMAPHORE /\ MAX_SEMAPHORE <= MAX_SEMAPHORE
    BY <1>2
  <2>2. Stocked(d, n, MAX_SEMAPHORE)
    BY <1>8, <2>1, StockIs
  <2> QED BY <2>2 DEF Stocked
<1>10. U \in Tables
  <2>1. U.value \in [Sems -> Int]
    <3>1. \A s \in Sems : s < n => s + 1 \in 1 .. Len(initial)
      BY <1>1, <1>2 DEF Sems
    <3>2. \A s \in Sems : s < n => initial[s + 1] \in Int
      BY <3>1
    <3>3. \A s \in Sems : (IF s < n THEN initial[s + 1] ELSE 0) \in Int
      BY <3>2
    <3>4. U.value = [s \in Sems |-> IF s < n THEN initial[s + 1] ELSE 0]
      BY <1>7 DEF Values
    <3> QED BY <3>3, <3>4
  <2> QED BY <1>7, <2>1 DEF Tables
<1>11. \A h \in {Available, Busy} : \A i \in 1 .. Len(d[h]) : d[h][i] \in Members
  <2>1. \A i \in 1 .. MAX_SEMAPHORE - n : n + i - 1 \in Sems
    BY <1>2 DEF Sems
  <2>2. \A i \in 1 .. n : i - 1 \in Sems
    BY <1>2 DEF Sems
  <2> QED BY <1>9, <2>1, <2>2 DEF Members
<1>12. \A s \in Sems : \E h \in {Available, Busy} : \E i \in 1 .. Len(d[h]) : d[h][i] = Member(s)
  <2> SUFFICES ASSUME NEW s \in Sems
               PROVE  \E h \in {Available, Busy} : \E i \in 1 .. Len(d[h]) : d[h][i] = Member(s)
    OBVIOUS
  <2>1. CASE s < n
    <3>1. s + 1 \in 1 .. n /\ (s + 1) - 1 = s
      BY <1>2, <2>1 DEF Sems
    <3> QED BY <1>9, <3>1
  <2>2. CASE ~(s < n)
    <3>1. s - n + 1 \in 1 .. MAX_SEMAPHORE - n /\ n + (s - n + 1) - 1 = s
      BY <1>2, <2>2 DEF Sems
    <3> QED BY <1>9, <3>1
  <2> QED BY <2>1, <2>2
<1>13. Good(U, {}, d)
  <2>1. \A s \in Sems : \A i \in 1 .. Len(d[Process(s)]) : \E p \in {} : d[Process(s)][i] = Link(p)
    BY <1>9
  <2> QED BY <1>7, <1>8, <1>10, <1>11, <1>12, <2>1 DEF Good
<1>14. Seen(U, d) = A!Created(initial)
  <2>1. A!Created(initial) =
          [value   |-> [s \in Sems |-> IF s < n THEN initial[s + 1] ELSE 0],
           waiters |-> [s \in Sems |-> << >>],
           avail   |-> [i \in 1 .. MAX_SEMAPHORE - n |-> n + i - 1]]
    BY <1>1 DEF A!Created, A!Sem, Sems
  <2>2. Owned(d[Available]) = [i \in 1 .. MAX_SEMAPHORE - n |-> n + i - 1]
    <3>1. Available \in Heads
      BY DEF Heads
    <3>2. DOMAIN d[Available] = 1 .. MAX_SEMAPHORE - n
      BY <1>2, <1>9, <3>1
    <3>3. \A i \in 1 .. MAX_SEMAPHORE - n : d[Available][i][2] = n + i - 1
      BY <1>9, NodeFacts
    <3> QED BY <3>2, <3>3 DEF Owned
  <2>3. [s \in Sems |-> Owned(d[Process(s)])] = [s \in Sems |-> << >>]
    <3>1. Owned(<< >>) = << >>
      <4>1. << >> \in Seq(Items)
        OBVIOUS
      <4> QED BY <4>1, OwnedIs
    <3> QED BY <1>9, <3>1
  <2> QED BY <1>7, <2>1, <2>2, <2>3 DEF Seen, Values
<1> QED BY <1>13, <1>14

-----------------------------------------------------------------------------
\* The inductive invariant: the lists of the table are chains.
Lists(T) == [h \in Heads |-> Ring(T.links, h)]
Placement ==
  /\ test \in DOMAIN Tests
  /\ pc \in [Proc -> Nat]
  /\ \A p \in Proc : pc[p] <= Len(Tests[test].program[p])
  /\ asleep \subseteq Proc
LInv == Placement /\ Good(table, asleep, Lists(table))

LEMMA ListsAre ==
  ASSUME NEW T, NEW asl, NEW c, Good(T, asl, c)
  PROVE  Good(T, asl, Lists(T)) /\ View(T) = Seen(T, Lists(T)) /\ View(T) = Seen(T, c)
<1>1. T.links \in Links /\ Chains(T.links, c)
  BY DEF Good, Tables
<1>2. c = Lists(T)
  <2>1. c \in [Heads -> Seq(Items)]
    BY <1>1 DEF Chains, Apart
  <2>2. \A h \in Heads : Ring(T.links, h) = c[h]
    BY <1>1, ChainsRing
  <2> QED BY <2>1, <2>2 DEF Lists
<1> QED BY <1>2, ViewIs

\* What TestAssumption says of a test.
LEMMA TestIs ==
  ASSUME NEW t \in DOMAIN Tests
  PROVE  /\ Tests[t].initial \in Seq(Nat) /\ Len(Tests[t].initial) <= MAX_SEMAPHORE
         /\ \A p \in Proc : /\ Tests[t].program[p] \in Seq(A!Calls \X Sems)
                            /\ Len(Tests[t].program[p]) \in Nat
<1>1. /\ Tests[t].initial \in Seq(Nat) /\ Len(Tests[t].initial) <= MAX_SEMAPHORE
      /\ Tests[t].program \in [Proc -> Seq(A!Calls \X Sems)]
  BY TestAssumption DEF A!Sem, Sems
<1>2. \A p \in Proc : Tests[t].program[p] \in Seq(A!Calls \X Sems)
  BY <1>1
<1> QED BY <1>1, <1>2

LEMMA CallIs ==
  ASSUME Placement, NEW p \in Proc, NEW call, A!Makes(p, call)
  PROVE  /\ p \notin asleep /\ A!NextCall(p)[1] = call /\ A!NextCall(p)[2] \in Sems
         /\ A!NextCall(p) = Tests[test].program[p][pc[p] + 1]
         /\ A!NextCall(p) = <<call, A!NextCall(p)[2]>>
         /\ pc[p] + 1 \in 1 .. Len(Tests[test].program[p])
         /\ test' = test /\ pc' = [pc EXCEPT ![p] = pc[p] + 1]
         /\ test' \in DOMAIN Tests /\ pc' \in [Proc -> Nat]
         /\ \A q \in Proc : pc'[q] <= Len(Tests[test'].program[q])
<1>1. /\ p \notin asleep /\ pc[p] # Len(Tests[test].program[p])
      /\ A!NextCall(p)[1] = call /\ test' = test /\ pc' = [pc EXCEPT ![p] = pc[p] + 1]
  BY DEF A!Makes, A!IsAt, A!Finished
<1>2. A!NextCall(p) = Tests[test].program[p][pc[p] + 1]
  BY DEF A!NextCall
<1>3. Tests[test].program[p] \in Seq(A!Calls \X Sems) /\ Len(Tests[test].program[p]) \in Nat
  BY TestIs DEF Placement
<1>4. pc[p] \in Nat /\ pc[p] <= Len(Tests[test].program[p])
  BY DEF Placement
<1>5. pc[p] + 1 \in 1 .. Len(Tests[test].program[p])
  BY <1>1, <1>3, <1>4
<1>6. A!NextCall(p) \in A!Calls \X Sems
  BY <1>2, <1>3, <1>5
<1>7. pc' \in [Proc -> Nat]
  BY <1>1, <1>4 DEF Placement
<1>8. \A q \in Proc : pc'[q] <= Len(Tests[test'].program[q])
  BY <1>1, <1>5 DEF Placement
<1> QED BY <1>1, <1>2, <1>5, <1>6, <1>7, <1>8 DEF Placement

\* Programs has operators of its own on the table, the same as these.
LEMMA SameTable ==
  /\ \A T, s, p : A!Down(T, s, p) = Down(T, s, p)
  /\ \A T, s : A!Blocks(T, s) = Blocks(T, s) /\ A!Wakes(T, s) = Wakes(T, s)
  /\ \A T, s : A!Woken(T, s) = Woken(T, s) /\ A!Up(T, s) = Up(T, s)
  /\ \A T, s : A!Discard(T, s) = Discard(T, s)
<1>1. \A S : A!Min(S) = Min(S)
  BY DEF A!Min, Min
<1>2. \A q, e : A!RemoveFirst(q, e) = RemoveFirst(q, e)
  BY <1>1 DEF A!RemoveFirst, RemoveFirst, A!SelectInSeq, SelectInSeq, A!RemoveAt, RemoveAt
<1>3. \A T, s : A!Wakes(T, s) = Wakes(T, s) /\ A!Woken(T, s) = Woken(T, s)
  BY DEF A!Wakes, Wakes, A!Woken, Woken
<1>4. \A T, s : A!Blocks(T, s) = Blocks(T, s)
  BY DEF A!Blocks, Blocks
<1>5. \A T, s, p : A!Down(T, s, p) = Down(T, s, p)
  BY <1>4 DEF A!Down, Down
<1>6. \A T, s : A!Up(T, s) = Up(T, s)
  BY <1>2, <1>3 DEF A!Up, Up
<1>7. \A T, s : A!Discard(T, s) = Discard(T, s)
  BY <1>2 DEF A!Discard, Discard
<1> QED BY <1>3, <1>4, <1>5, <1>6, <1>7

\* Each call keeps the lists in order and does to the sequences what the call
\* of Programs does.
LEMMA WaitImplements ==
  ASSUME LInv, NEW p \in Proc, SemWait(p)
  PROVE  LInv' /\ A!SemWait(p)
<1>1. PICK s : s = A!NextCall(p)[2]
  OBVIOUS
<1>2. /\ A!Makes(p, "wait") /\ table' = LinkDown(table, s, p)
      /\ asleep' = IF table.value[s] <= 0 THEN asleep \cup {p} ELSE asleep
  BY <1>1 DEF SemWait
<1>3. p \notin asleep /\ s \in Sems /\ Placement'
  <2>1. /\ p \notin asleep /\ s \in Sems
        /\ test' \in DOMAIN Tests /\ pc' \in [Proc -> Nat]
        /\ \A q \in Proc : pc'[q] <= Len(Tests[test'].program[q])
    BY <1>1, <1>2, CallIs DEF LInv
  <2>2. asleep' \subseteq Proc
    BY <1>2 DEF LInv, Placement
  <2> QED BY <2>1, <2>2 DEF Placement
<1>4. PICK d : Good(table', asleep', d) /\ Seen(table', d) = Down(Seen(table, Lists(table)), s, p)
  <2>1. PICK c : c = Lists(table)
    OBVIOUS
  <2>2. PICK d : d = IF table.value[s] <= 0
                     THEN [c EXCEPT ![Process(s)] = Append(c[Process(s)], Link(p))] ELSE c
    OBVIOUS
  <2>3. Good(table, asleep, c)
    BY <2>1 DEF LInv
  <2>4. Good(table', asleep', d) /\ Seen(table', d) = Down(Seen(table, c), s, p)
    BY <1>2, <1>3, <2>2, <2>3, DownTable
  <2> QED BY <2>1, <2>4
<1>5. Good(table', asleep', Lists(table')) /\ View(table') = Down(Seen(table, Lists(table)), s, p)
  BY <1>4, ListsAre
<1>6. View(table) = Seen(table, Lists(table))
  BY ListsAre DEF LInv
<1>7. LInv'
  <2>1. Good(table, asleep, Lists(table))'
    BY <1>5
  <2> QED BY <1>3, <2>1 DEF LInv
<1>8. View(table).value = table.value
  BY DEF View
<1>9. A!SemWait(p)
  <2>1. View(table)' = Down(View(table), s, p)
    BY <1>5, <1>6
  <2>2. asleep' = IF Blocks(View(table), s) THEN asleep \cup {p} ELSE asleep
    BY <1>2, <1>8 DEF Blocks
  <2> QED BY <1>1, <1>2, <2>1, <2>2, SameTable DEF A!SemWait
<1> QED BY <1>7, <1>9

LEMMA PostImplements ==
  ASSUME LInv, NEW p \in Proc, SemPost(p)
  PROVE  LInv' /\ A!SemPost(p)
<1>1. PICK s : s = A!NextCall(p)[2]
  OBVIOUS
<1>0. PICK k : k = ListHead(table.links, Process(s))[2]
  OBVIOUS
<1>2. /\ A!Makes(p, "post") /\ table' = LinkUp(table, s)
      /\ asleep' = IF LinkWakes(table, s) THEN asleep \ {k} ELSE asleep
  BY <1>1, <1>0 DEF SemPost
<1>3. s \in Sems /\ Placement'
  <2>1. /\ s \in Sems
        /\ test' \in DOMAIN Tests /\ pc' \in [Proc -> Nat]
        /\ \A q \in Proc : pc'[q] <= Len(Tests[test'].program[q])
    BY <1>1, <1>2, CallIs DEF LInv
  <2>2. asleep' \subseteq Proc
    BY <1>2 DEF LInv, Placement
  <2> QED BY <2>1, <2>2 DEF Placement
<1>6. View(table) = Seen(table, Lists(table))
  BY ListsAre DEF LInv
<1>4. /\ LinkWakes(table, s) <=> Wakes(View(table), s)
      /\ LinkWakes(table, s) => k = Woken(View(table), s)
      /\ \E d : Good(table', asleep', d) /\ Seen(table', d) = Up(View(table), s)
  <2>1. PICK c : c = Lists(table)
    OBVIOUS
  <2>2. PICK d : d = IF LinkWakes(table, s)
                     THEN [c EXCEPT ![Process(s)] = Without(c[Process(s)], 1)] ELSE c
    OBVIOUS
  <2>3. Good(table, asleep, c)
    BY <2>1 DEF LInv
  <2>4. /\ Good(table', asleep', d) /\ Seen(table', d) = Up(Seen(table, c), s)
        /\ LinkWakes(table, s) <=> Wakes(Seen(table, c), s)
        /\ LinkWakes(table, s) => k = Woken(Seen(table, c), s)
    BY <1>0, <1>2, <1>3, <2>2, <2>3, UpTable
  <2> QED BY <1>6, <2>1, <2>4
<1>5. Good(table', asleep', Lists(table')) /\ View(table') = Up(View(table), s)
  BY <1>4, ListsAre
<1>7. LInv'
  <2>1. Good(table, asleep, Lists(table))'
    BY <1>5
  <2> QED BY <1>3, <2>1 DEF LInv
<1>9. A!SemPost(p)
  <2>1. View(table)' = Up(View(table), s)
    BY <1>5
  <2>2. asleep' = IF Wakes(View(table), s) THEN asleep \ {Woken(View(table), s)} ELSE asleep
    BY <1>2, <1>4
  <2> QED BY <1>1, <1>2, <2>1, <2>2, SameTable DEF A!SemPost
<1> QED BY <1>7, <1>9

LEMMA DestroyImplements ==
  ASSUME LInv, NEW p \in Proc, SemDestroy(p)
  PROVE  LInv' /\ A!SemDestroy(p)
<1>1. PICK s : s = A!NextCall(p)[2]
  OBVIOUS
<1>2. A!Makes(p, "destroy") /\ table' = LinkDiscard(table, s) /\ asleep' = asleep
  BY <1>1 DEF SemDestroy
<1>3. s \in Sems /\ Placement'
  <2>1. /\ s \in Sems
        /\ test' \in DOMAIN Tests /\ pc' \in [Proc -> Nat]
        /\ \A q \in Proc : pc'[q] <= Len(Tests[test'].program[q])
    BY <1>1, <1>2, CallIs DEF LInv
  <2> QED BY <1>2, <2>1 DEF LInv, Placement
<1>6. View(table) = Seen(table, Lists(table))
  BY ListsAre DEF LInv
<1>4. \E d : Good(table', asleep, d) /\ Seen(table', d) = Discard(View(table), s)
  BY <1>2, <1>3, <1>6, DiscardTable DEF LInv
<1>5. Good(table', asleep, Lists(table')) /\ View(table') = Discard(View(table), s)
  BY <1>4, ListsAre
<1>7. LInv'
  <2>1. Good(table, asleep, Lists(table))'
    BY <1>2, <1>5
  <2> QED BY <1>3, <2>1 DEF LInv
<1>9. A!SemDestroy(p)
  <2>1. View(table)' = Discard(View(table), s)
    BY <1>5
  <2> QED BY <1>1, <1>2, <2>1, SameTable DEF A!SemDestroy
<1> QED BY <1>7, <1>9

LEMMA SleepImplements ==
  ASSUME LInv, NEW p \in Proc, Sleep(p)
  PROVE  LInv' /\ A!SleepEnds(p)
<1>1. A!Makes(p, "sleep") /\ table' = table /\ asleep' = asleep /\ A!SleepEnds(p)
  BY DEF Sleep, A!SleepEnds
<1>2. Placement'
  <2>1. /\ test' \in DOMAIN Tests /\ pc' \in [Proc -> Nat]
        /\ \A q \in Proc : pc'[q] <= Len(Tests[test'].program[q])
    BY <1>1, CallIs DEF LInv
  <2> QED BY <1>1, <2>1 DEF LInv, Placement
<1>3. Good(table, asleep, Lists(table))'
  BY <1>1 DEF LInv
<1> QED BY <1>1, <1>2, <1>3 DEF LInv

LEMMA LInvInit == Init => LInv /\ A!Init
<1> SUFFICES ASSUME Init PROVE LInv /\ A!Init
  OBVIOUS
<1>1. /\ test \in DOMAIN Tests /\ pc = [p \in Proc |-> 0] /\ asleep = {}
      /\ table = Picked(Fresh(MAX_SEMAPHORE, Proc \cup {-1}, -1), Tests[test].initial)
  BY DEF Init
<1>2. /\ Tests[test].initial \in Seq(Nat) /\ Len(Tests[test].initial) <= MAX_SEMAPHORE
      /\ \A p \in Proc : Len(Tests[test].program[p]) \in Nat
  BY <1>1, TestIs
<1>3. PICK d : Good(table, {}, d) /\ Seen(table, d) = A!Created(Tests[test].initial)
  BY <1>1, <1>2, InitTable
<1>4. Good(table, {}, Lists(table)) /\ View(table) = A!Created(Tests[test].initial)
  BY <1>3, ListsAre
<1>5. Placement
  BY <1>1, <1>2 DEF Placement
<1> QED BY <1>1, <1>4, <1>5 DEF LInv, A!Init

LEMMA LInvNext == LInv /\ [Next]_vars => LInv' /\ [A!Next]_A!vars
<1> SUFFICES ASSUME LInv, [Next]_vars PROVE LInv' /\ [A!Next]_A!vars
  OBVIOUS
<1>1. ASSUME NEW p \in Proc, Step(p) PROVE LInv' /\ A!Step(p)
  BY <1>1, WaitImplements, PostImplements, DestroyImplements, SleepImplements DEF Step, A!Step
<1>2. CASE UNCHANGED vars
  <2>1. Placement'
    BY <1>2 DEF LInv, Placement, vars
  <2>2. Good(table, asleep, Lists(table))'
    BY <1>2 DEF LInv, vars
  <2>3. UNCHANGED A!vars
    BY <1>2 DEF vars, A!vars
  <2> QED BY <2>1, <2>2, <2>3 DEF LInv
<1>3. CASE Next
  BY <1>1, <1>3 DEF Next, A!Next
<1> QED BY <1>2, <1>3

\* The lists in memory are chains in every state.
THEOREM Chained == Spec => []LInv
<1>1. Init => LInv  BY LInvInit
<1>2. LInv /\ [Next]_vars => LInv'  BY LInvNext
<1> QED BY <1>1, <1>2, PTL DEF Spec

\* Every list of the table leads back along the links it came by (list.h).
THEOREM AlwaysLinked == Spec => []Linked
<1>1. LInv => Linked
  <2> SUFFICES ASSUME LInv,
                      NEW h \in {Available, Busy} \cup {Process(s) : s \in A!Sem},
                      NEW x \in {h} \cup Range(Ring(table.links, h))
               PROVE  table.links.last[table.links.next[x]] = x
    BY DEF Linked
  <2>1. h \in Heads
    BY DEF Heads, A!Sem, Sems
  <2>2. PICK c : c = Lists(table)
    OBVIOUS
  <2>3. Chains(table.links, c) /\ c[h] = Ring(table.links, h)
    BY <2>1, <2>2 DEF LInv, Good, Lists
  <2>4. c[h] \in Seq(Items) /\ Len(c[h]) \in Nat
    BY <2>1, <2>3 DEF Chains, Apart
  <2>5. \E i \in 0 .. Len(c[h]) : x = Node(h, c[h], i)
    <3>1. CASE x = h
      <4>1. 0 \in 0 .. Len(c[h]) /\ Node(h, c[h], 0) = h
        BY <2>1, <2>4, NodeIs
      <4> QED BY <3>1, <4>1
    <3>2. CASE x \in Range(c[h])
      <4>1. PICK i \in 1 .. Len(c[h]) : x = c[h][i]
        BY <2>4, <3>2 DEF Range
      <4> QED BY <2>1, <2>4, <4>1, NodeIs
    <3> QED BY <2>3, <3>1, <3>2
  <2>6. PICK i \in 0 .. Len(c[h]) : x = Node(h, c[h], i)
    BY <2>5
  <2>7. Follows(table.links, Node(h, c[h], i), Node(h, c[h], i + 1))
    BY <2>1, <2>3 DEF Chains, Chain
  <2> QED BY <2>6, <2>7 DEF Follows
<1> QED BY <1>1, Chained, PTL

\* The table of linked lists implements the table of sequences.
THEOREM Implements == Spec => Sequences
<1>1. Init => A!Init  BY LInvInit
<1>2. LInv /\ [Next]_vars => [A!Next]_A!vars  BY LInvNext
<1> QED BY <1>1, <1>2, Chained, PTL DEF Spec, Sequences, A!Spec

-----------------------------------------------------------------------------
\* The calls that have returned, for programs of which at[p] calls are made and
\* those of asl sleep in the last.
Behind(prog, at, asl, call) ==
  {x \in UNION {{p} \X (1 .. at[p]) : p \in Proc} :
     prog[x[1]][x[2]] = call /\ ~(x[1] \in asl /\ x[2] = at[x[1]])}

\* One more call of p is made.
Advances(at, at2, p, j) == j = at[p] + 1 /\ at2 = [at EXCEPT ![p] = j]

\* A call that counts: it is behind afterwards, and was not before.
Adds(prog, at, at2, asl, asl2, call, p, j) ==
  /\ <<p, j>> \notin Behind(prog, at, asl, call)
  /\ Behind(prog, at2, asl2, call) =
       IF prog[p][j] = call THEN Behind(prog, at, asl, call) \cup {<<p, j>>}
       ELSE Behind(prog, at, asl, call)
Same(prog, at, at2, asl, asl2, call, p) ==
  Behind(prog, at2, asl2, call) = Behind(prog, at, asl, call)

LEMMA BehindIs ==
  ASSUME NEW prog, NEW at, NEW asl, NEW call, NEW B, B = Behind(prog, at, asl, call)
  PROVE  /\ \A q, i : <<q, i>> \in B <=>
              q \in Proc /\ i \in 1 .. at[q] /\ prog[q][i] = call /\ ~(q \in asl /\ i = at[q])
         /\ \A x \in B : x = <<x[1], x[2]>>
<1>1. \A q, i : <<q, i>> \in UNION {{p} \X (1 .. at[p]) : p \in Proc} <=> q \in Proc /\ i \in 1 .. at[q]
  OBVIOUS
<1>2. \A x \in UNION {{p} \X (1 .. at[p]) : p \in Proc} : x = <<x[1], x[2]>>
  OBVIOUS
<1> QED BY <1>1, <1>2 DEF Behind

\* A call that does not put to sleep is behind when it is made,
LEMMA BehindAdds ==
  ASSUME NEW prog, NEW at \in [Proc -> Nat], NEW asl, NEW p \in Proc, p \notin asl,
         NEW j, NEW at2, Advances(at, at2, p, j), NEW call
  PROVE  Adds(prog, at, at2, asl, asl, call, p, j)
<1>0. PICK B : B = Behind(prog, at, asl, call)
  OBVIOUS
<1>1. at[p] \in Nat /\ at2[p] = j /\ j = at[p] + 1 /\ \A q \in Proc : q # p => at2[q] = at[q]
  BY DEF Advances
<1>2. PICK C : C = Behind(prog, at2, asl, call)
  OBVIOUS
<1>3. /\ \A q, i : <<q, i>> \in B <=>
           q \in Proc /\ i \in 1 .. at[q] /\ prog[q][i] = call /\ ~(q \in asl /\ i = at[q])
      /\ \A x \in B : x = <<x[1], x[2]>>
  BY <1>0, BehindIs
<1>4. /\ \A q, i : <<q, i>> \in C <=>
           q \in Proc /\ i \in 1 .. at2[q] /\ prog[q][i] = call /\ ~(q \in asl /\ i = at2[q])
      /\ \A x \in C : x = <<x[1], x[2]>>
  BY <1>2, BehindIs
<1>5. <<p, j>> \notin B
  <2>1. ~(j \in 1 .. at[p])
    BY <1>1
  <2> QED BY <1>3, <2>1
<1>6. \A q, i : <<q, i>> \in C <=> <<q, i>> \in B \/ (q = p /\ i = j /\ prog[q][i] = call)
  <2> SUFFICES ASSUME NEW q, NEW i
               PROVE  <<q, i>> \in C <=>
                        <<q, i>> \in B \/ (q = p /\ i = j /\ prog[q][i] = call)
    OBVIOUS
  <2>1. CASE q # p
    BY <1>1, <1>3, <1>4, <2>1
  <2>2. CASE q = p
    <3>1. i \in 1 .. at2[p] <=> i \in 1 .. at[p] \/ i = j
      BY <1>1
    <3> QED BY <1>3, <1>4, <2>2, <3>1
  <2> QED BY <2>1, <2>2
<1>7. C = IF prog[p][j] = call THEN B \cup {<<p, j>>} ELSE B
  <2>1. \A x : x \in C <=> x \in B \/ (x = <<p, j>> /\ prog[p][j] = call)
    <3>1. <<p, j>> \in C <=> prog[p][j] = call
      BY <1>5, <1>6
    <3>2. ASSUME NEW x, x \in C
          PROVE  x \in B \/ (x = <<p, j>> /\ prog[p][j] = call)
      <4>1. PICK q, i : x = <<q, i>>
        BY <1>4, <3>2
      <4> QED BY <1>6, <3>2, <4>1
    <3>3. ASSUME NEW x, x \in B
          PROVE  x \in C
      <4>1. PICK q, i : x = <<q, i>>
        BY <1>3, <3>3
      <4> QED BY <1>6, <3>3, <4>1
    <3> QED BY <3>1, <3>2, <3>3
  <2>2. CASE prog[p][j] = call
    BY <2>1, <2>2
  <2>3. CASE prog[p][j] # call
    BY <2>1, <2>3
  <2> QED BY <2>2, <2>3
<1> QED BY <1>0, <1>2, <1>5, <1>7 DEF Adds

\* one that does is not,
LEMMA BehindSleeps ==
  ASSUME NEW prog, NEW at \in [Proc -> Nat], NEW asl, NEW p \in Proc, p \notin asl,
         NEW j, NEW at2, Advances(at, at2, p, j), NEW call
  PROVE  \A asl2 : asl2 = asl \cup {p} => Same(prog, at, at2, asl, asl2, call, p)
<1>0. SUFFICES ASSUME NEW asl2, asl2 = asl \cup {p}
               PROVE  Behind(prog, at2, asl2, call) = Behind(prog, at, asl, call)
  BY DEF Same
<1>1. at[p] \in Nat /\ at2[p] = j /\ j = at[p] + 1 /\ \A q \in Proc : q # p => at2[q] = at[q]
  BY DEF Advances
<1>2. PICK C : C = Behind(prog, at2, asl2, call)
  OBVIOUS
<1>3. PICK B : B = Behind(prog, at, asl, call)
  OBVIOUS
<1>4. /\ \A q, i : <<q, i>> \in B <=>
           q \in Proc /\ i \in 1 .. at[q] /\ prog[q][i] = call /\ ~(q \in asl /\ i = at[q])
      /\ \A x \in B : x = <<x[1], x[2]>>
  BY <1>3, BehindIs
<1>5. /\ \A q, i : <<q, i>> \in C <=>
           q \in Proc /\ i \in 1 .. at2[q] /\ prog[q][i] = call /\ ~(q \in asl2 /\ i = at2[q])
      /\ \A x \in C : x = <<x[1], x[2]>>
  BY <1>2, BehindIs
<1>6. \A q, i : <<q, i>> \in C <=> <<q, i>> \in B
  <2> SUFFICES ASSUME NEW q, NEW i PROVE <<q, i>> \in C <=> <<q, i>> \in B
    OBVIOUS
  <2>1. CASE q # p
    BY <1>0, <1>1, <1>4, <1>5, <2>1
  <2>2. CASE q = p
    <3>1. i \in 1 .. at2[p] /\ i # at2[p] <=> i \in 1 .. at[p]
      BY <1>1
    <3> QED BY <1>0, <1>4, <1>5, <2>2, <3>1
  <2> QED BY <2>1, <2>2
<1>7. \A x : x \in C <=> x \in B
  <2>1. ASSUME NEW x, x \in C PROVE x \in B
    <3>1. PICK q, i : x = <<q, i>>
      BY <1>5, <2>1
    <3> QED BY <1>6, <2>1, <3>1
  <2>2. ASSUME NEW x, x \in B PROVE x \in C
    <3>1. PICK q, i : x = <<q, i>>
      BY <1>4, <2>2
    <3> QED BY <1>6, <2>2, <3>1
  <2> QED BY <2>1, <2>2
<1> QED BY <1>2, <1>3, <1>7

\* until its process is woken.
LEMMA BehindWakes ==
  ASSUME NEW prog, NEW at \in [Proc -> Nat], NEW asl, NEW k \in Proc, k \in asl, at[k] >= 1, NEW call
  PROVE  \A asl2 : asl2 = asl \ {k} => Adds(prog, at, at, asl, asl2, call, k, at[k])
<1>0. PICK B : B = Behind(prog, at, asl, call)
  OBVIOUS
<1> SUFFICES ASSUME NEW asl2, asl2 = asl \ {k}
             PROVE  /\ <<k, at[k]>> \notin B
                    /\ Behind(prog, at, asl2, call) =
                         IF prog[k][at[k]] = call THEN B \cup {<<k, at[k]>>} ELSE B
  BY <1>0 DEF Adds
<1>1. at[k] \in 1 .. at[k]
  OBVIOUS
<1>2. PICK C : C = Behind(prog, at, asl2, call)
  OBVIOUS
<1>3. /\ \A q, i : <<q, i>> \in B <=>
           q \in Proc /\ i \in 1 .. at[q] /\ prog[q][i] = call /\ ~(q \in asl /\ i = at[q])
      /\ \A x \in B : x = <<x[1], x[2]>>
  BY <1>0, BehindIs
<1>4. /\ \A q, i : <<q, i>> \in C <=>
           q \in Proc /\ i \in 1 .. at[q] /\ prog[q][i] = call /\ ~(q \in asl2 /\ i = at[q])
      /\ \A x \in C : x = <<x[1], x[2]>>
  BY <1>2, BehindIs
<1>5. <<k, at[k]>> \notin B
  BY <1>3
<1>6. \A q, i : <<q, i>> \in C <=> <<q, i>> \in B \/ (q = k /\ i = at[k] /\ prog[q][i] = call)
  <2> SUFFICES ASSUME NEW q, NEW i
               PROVE  <<q, i>> \in C <=> <<q, i>> \in B \/ (q = k /\ i = at[k] /\ prog[q][i] = call)
    OBVIOUS
  <2>1. CASE q # k
    BY <1>3, <1>4, <2>1
  <2>2. CASE q = k
    BY <1>1, <1>3, <1>4, <2>2
  <2> QED BY <2>1, <2>2
<1>7. C = IF prog[k][at[k]] = call THEN B \cup {<<k, at[k]>>} ELSE B
  <2>1. \A x : x \in C <=> x \in B \/ (x = <<k, at[k]>> /\ prog[k][at[k]] = call)
    <3>1. <<k, at[k]>> \in C <=> prog[k][at[k]] = call
      BY <1>5, <1>6
    <3>2. ASSUME NEW x, x \in C
          PROVE  x \in B \/ (x = <<k, at[k]>> /\ prog[k][at[k]] = call)
      <4>1. PICK q, i : x = <<q, i>>
        BY <1>4, <3>2
      <4> QED BY <1>6, <3>2, <4>1
    <3>3. ASSUME NEW x, x \in B
          PROVE  x \in C
      <4>1. PICK q, i : x = <<q, i>>
        BY <1>3, <3>3
      <4> QED BY <1>6, <3>3, <4>1
    <3> QED BY <3>1, <3>2, <3>3
  <2>2. CASE prog[k][at[k]] = call
    BY <2>1, <2>2
  <2>3. CASE prog[k][at[k]] # call
    BY <2>1, <2>3
  <2> QED BY <2>2, <2>3
<1> QED BY <1>0, <1>2, <1>5, <1>7

-----------------------------------------------------------------------------
\* What do_sem_wait and do_sem_signal do to the value and to the waiters of t.
Holds(T, v, w, a) == T = [value |-> v, waiters |-> w, avail |-> a]
Lowers(v, v2, t, b) == v2 = [v EXCEPT ![t] = v[t] - 1] /\ (b <=> v[t] <= 0)
Raises(v, v2, w, t, b) == v2 = [v EXCEPT ![t] = v[t] + 1] /\ (b <=> v[t] + 1 <= 0 /\ w[t] # << >>)
Joins(w, w2, t, p, b) == w2 = [w EXCEPT ![t] = IF b THEN Append(w[t], p) ELSE w[t]]
Leaves(w, w2, t, b) == w2 = [w EXCEPT ![t] = IF b THEN RemoveFirst(w[t], Head(w[t])) ELSE w[t]]

LEMMA DownTo ==
  ASSUME NEW T, NEW v, NEW w, NEW a, Holds(T, v, w, a), NEW t, NEW p, NEW b \in BOOLEAN,
         NEW v2, Lowers(v, v2, t, b), NEW w2, Joins(w, w2, t, p, b)
  PROVE  /\ Blocks(T, t) <=> b
         /\ Holds(Down(T, t, p), v2, w2, a)
<1>0. T.value = v /\ T.waiters = w
  BY DEF Holds
<1>1. PICK x : x = v[t] - 1
  OBVIOUS
<1>2. PICK y : y = IF b THEN Append(w[t], p) ELSE w[t]
  OBVIOUS
<1>3. Blocks(T, t) <=> b
  BY <1>0 DEF Blocks, Lowers
<1>4. Down(T, t, p) = [T EXCEPT !.value[t] = x, !.waiters[t] = y]
  BY <1>0, <1>1, <1>2, <1>3 DEF Down
<1>5. PICK D : D = Down(T, t, p)
  OBVIOUS
<1>6. D = [f \in Fields |-> D[f]] /\ D.value = [v EXCEPT ![t] = x]
      /\ D.waiters = [w EXCEPT ![t] = y] /\ D.avail = a
  BY <1>4, <1>5 DEF Fields, Holds
<1>7. D = [value |-> D.value, waiters |-> D.waiters, avail |-> D.avail]
  BY <1>6, FieldsIs
<1>8. [v EXCEPT ![t] = x] = v2 /\ [w EXCEPT ![t] = y] = w2
  BY <1>1, <1>2 DEF Lowers, Joins
<1> QED BY <1>3, <1>5, <1>6, <1>7, <1>8 DEF Holds

\* The post of T to t wakes k if b, and leads to T2.
Upped(T, T2, t, b, k, v2, w2, a) ==
  (Wakes(T, t) <=> b) /\ Woken(T, t) = k /\ Holds(T2, v2, w2, a)
LEMMA UpTo ==
  ASSUME NEW T, NEW v, NEW w, NEW a, Holds(T, v, w, a), NEW t, NEW b \in BOOLEAN,
         NEW v2, Raises(v, v2, w, t, b), NEW w2, Leaves(w, w2, t, b)
  PROVE  Upped(T, Up(T, t), t, b, Head(w[t]), v2, w2, a)
<1>0. T.value = v /\ T.waiters = w
  BY DEF Holds
<1>1. PICK x : x = v[t] + 1
  OBVIOUS
<1>2. PICK y : y = IF b THEN RemoveFirst(w[t], Head(w[t])) ELSE w[t]
  OBVIOUS
<1>3. (Wakes(T, t) <=> b) /\ Woken(T, t) = Head(w[t])
  BY <1>0 DEF Wakes, Woken, Raises
<1>4. Up(T, t) = [T EXCEPT !.value[t] = x, !.waiters[t] = y]
  BY <1>0, <1>1, <1>2, <1>3 DEF Up
<1>5. PICK D : D = Up(T, t)
  OBVIOUS
<1>6. D = [f \in Fields |-> D[f]] /\ D.value = [v EXCEPT ![t] = x]
      /\ D.waiters = [w EXCEPT ![t] = y] /\ D.avail = a
  BY <1>4, <1>5 DEF Fields, Holds
<1>7. D = [value |-> D.value, waiters |-> D.waiters, avail |-> D.avail]
  BY <1>6, FieldsIs
<1>8. [v EXCEPT ![t] = x] = v2 /\ [w EXCEPT ![t] = y] = w2
  BY <1>1, <1>2 DEF Raises, Leaves
<1> QED BY <1>3, <1>5, <1>6, <1>7, <1>8 DEF Holds, Upped

\* Whoever waits sleeps in his last call, a sem_wait for that semaphore.
Sleepers(prog, at, asl, w) ==
  /\ w \in [Sems -> Seq(Proc)]
  /\ \A s \in Sems : Once(w[s])
  /\ \A s \in Sems : \A i \in 1 .. Len(w[s]) :
        w[s][i] \in asl /\ at[w[s][i]] >= 1 /\ prog[w[s][i]][at[w[s][i]]] = <<"wait", s>>

\* p makes a wait for t, and is put to sleep if b.
Waits(prog, at, at2, asl, asl2, w, w2, p, t, j, b) ==
  /\ p \in Proc /\ p \notin asl /\ t \in Sems /\ prog[p][j] = <<"wait", t>>
  /\ Advances(at, at2, p, j)
  /\ asl2 = (IF b THEN asl \cup {p} ELSE asl)
  /\ Joins(w, w2, t, p, b)

LEMMA WaitSleepers ==
  ASSUME NEW prog, NEW at \in [Proc -> Nat], NEW asl, NEW w, Sleepers(prog, at, asl, w),
         NEW p, NEW t, NEW j, NEW at2, NEW b \in BOOLEAN, NEW asl2, NEW w2,
         Waits(prog, at, at2, asl, asl2, w, w2, p, t, j, b)
  PROVE  Sleepers(prog, at2, asl2, w2)
<1> USE DEF Waits, Joins
<1>1. /\ w \in [Sems -> Seq(Proc)] /\ w[t] \in Seq(Proc) /\ Len(w[t]) \in Nat
      /\ at2[p] = j /\ j = at[p] + 1 /\ at[p] \in Nat /\ \A q \in Proc : q # p => at2[q] = at[q]
  BY DEF Sleepers, Advances
<1>2. \A s \in Sems : \A i \in 1 .. Len(w[s]) :
        /\ w[s][i] \in asl /\ w[s][i] \in Proc /\ w[s][i] # p
        /\ at2[w[s][i]] >= 1 /\ prog[w[s][i]][at2[w[s][i]]] = <<"wait", s>>
  <2> SUFFICES ASSUME NEW s \in Sems, NEW i \in 1 .. Len(w[s])
               PROVE  /\ w[s][i] \in asl /\ w[s][i] \in Proc /\ w[s][i] # p
                      /\ at2[w[s][i]] >= 1 /\ prog[w[s][i]][at2[w[s][i]]] = <<"wait", s>>
    OBVIOUS
  <2>1. w[s] \in Seq(Proc)
    BY <1>1
  <2>2. w[s][i] \in Proc
    BY <2>1
  <2>3. w[s][i] \in asl /\ at[w[s][i]] >= 1 /\ prog[w[s][i]][at[w[s][i]]] = <<"wait", s>>
    BY DEF Sleepers
  <2>4. w[s][i] # p
    BY <2>3
  <2>5. at2[w[s][i]] = at[w[s][i]]
    BY <1>1, <2>2, <2>4
  <2> QED BY <2>2, <2>3, <2>4, <2>5
<1>3. CASE ~b
  <2>1. w2 = w /\ asl2 = asl
    BY <1>1, <1>3
  <2>2. \A s \in Sems : Once(w[s])
    BY DEF Sleepers
  <2>3. Sleepers(prog, at2, asl, w)
    <3>1. \A s \in Sems : \A i \in 1 .. Len(w[s]) :
            w[s][i] \in asl /\ at2[w[s][i]] >= 1 /\ prog[w[s][i]][at2[w[s][i]]] = <<"wait", s>>
      BY <1>2
    <3> QED BY <1>1, <2>2, <3>1 DEF Sleepers
  <2> QED BY <2>1, <2>3
<1>4. CASE b
  <2>1. PICK q : q = Append(w[t], p)
    OBVIOUS
  <2>2. /\ q \in Seq(Proc) /\ Len(q) = Len(w[t]) + 1 /\ q[Len(w[t]) + 1] = p
        /\ \A i \in 1 .. Len(w[t]) : q[i] = w[t][i]
    BY <1>1, <2>1
  <2>3. w2 \in [Sems -> Seq(Proc)] /\ w2[t] = q /\ \A s \in Sems : s # t => w2[s] = w[s]
    BY <1>1, <1>4, <2>1, <2>2
  <2>4. \A i \in 1 .. Len(q) : i \in 1 .. Len(w[t]) \/ i = Len(w[t]) + 1
    BY <1>1, <2>2
  <2>5. Once(q)
    <3> SUFFICES ASSUME NEW i \in 1 .. Len(q), NEW l \in 1 .. Len(q), q[i] = q[l] PROVE i = l
      BY DEF Once
    <3>1. CASE i \in 1 .. Len(w[t]) /\ l \in 1 .. Len(w[t])
      BY <2>2, <3>1 DEF Sleepers, Once
    <3>2. CASE i = Len(w[t]) + 1 /\ l \in 1 .. Len(w[t])
      <4>1. q[i] = p /\ q[l] = w[t][l] /\ w[t][l] # p
        BY <1>2, <2>2, <3>2
      <4> QED BY <4>1
    <3>3. CASE l = Len(w[t]) + 1 /\ i \in 1 .. Len(w[t])
      <4>1. q[l] = p /\ q[i] = w[t][i] /\ w[t][i] # p
        BY <1>2, <2>2, <3>3
      <4> QED BY <4>1
    <3> QED BY <2>4, <3>1, <3>2, <3>3
  <2>6. \A s \in Sems : Once(w2[s])
    BY <2>3, <2>5 DEF Sleepers
  <2>7. ASSUME NEW s \in Sems, NEW i \in 1 .. Len(w2[s])
        PROVE  w2[s][i] \in asl2 /\ at2[w2[s][i]] >= 1 /\ prog[w2[s][i]][at2[w2[s][i]]] = <<"wait", s>>
    <3>0. asl2 = asl \cup {p}
      BY <1>4
    <3>1. CASE s # t
      BY <1>2, <2>3, <3>0, <3>1
    <3>2. CASE s = t /\ i \in 1 .. Len(w[t])
      <4>1. w2[s][i] = w[s][i]
        BY <2>2, <2>3, <3>2
      <4> QED BY <1>2, <3>0, <3>2, <4>1
    <3>3. CASE s = t /\ i = Len(w[t]) + 1
      <4>1. w2[s][i] = p
        BY <2>2, <2>3, <3>3
      <4> QED BY <1>1, <3>0, <3>3, <4>1
    <3> QED BY <2>3, <2>4, <3>1, <3>2, <3>3
  <2> QED BY <2>3, <2>6, <2>7 DEF Sleepers
<1> QED BY <1>3, <1>4

LEMMA OtherSleepers ==
  ASSUME NEW prog, NEW at \in [Proc -> Nat], NEW asl, NEW w, Sleepers(prog, at, asl, w),
         NEW p \in Proc, p \notin asl, NEW j, NEW at2, Advances(at, at2, p, j)
  PROVE  Sleepers(prog, at2, asl, w)
<1> SUFFICES ASSUME NEW s \in Sems, NEW i \in 1 .. Len(w[s])
             PROVE  w[s][i] \in asl /\ at2[w[s][i]] >= 1 /\ prog[w[s][i]][at2[w[s][i]]] = <<"wait", s>>
  BY DEF Sleepers
<1>1. w[s] \in Seq(Proc)
  BY DEF Sleepers
<1>2. w[s][i] \in Proc
  BY <1>1
<1>3. w[s][i] \in asl /\ at[w[s][i]] >= 1 /\ prog[w[s][i]][at[w[s][i]]] = <<"wait", s>>
  BY DEF Sleepers
<1>4. w[s][i] # p
  BY <1>3
<1>5. at2[w[s][i]] = at[w[s][i]]
  BY <1>2, <1>4 DEF Advances
<1> QED BY <1>3, <1>5

\* The first of the waiters sleeps,
WaitsFor(prog, at, asl, w, t, k) ==
  k \in Proc /\ k \in asl /\ at[k] >= 1 /\ prog[k][at[k]] = <<"wait", t>>
LEMMA HeadSleeps ==
  ASSUME NEW prog, NEW at, NEW asl, NEW w, Sleepers(prog, at, asl, w),
         NEW t \in Sems, w[t] # << >>, NEW k, k = Head(w[t])
  PROVE  WaitsFor(prog, at, asl, w, t, k)
<1>1. w[t] \in Seq(Proc) /\ Len(w[t]) \in Nat /\ 1 \in 1 .. Len(w[t]) /\ k = w[t][1] /\ k \in Proc
  <2>1. w[t] \in Seq(Proc) /\ Len(w[t]) \in Nat
    BY DEF Sleepers
  <2> QED BY <2>1
<1>2. k \in asl /\ at[k] >= 1 /\ prog[k][at[k]] = <<"wait", t>>
  BY <1>1 DEF Sleepers
<1> QED BY <1>1, <1>2 DEF WaitsFor

\* and is woken out of his list.
Wakens(asl, asl2, w, w2, t, k) ==
  /\ asl2 = asl \ {k}
  /\ t \in Sems /\ w[t] # << >> /\ k = Head(w[t]) /\ w2 = [w EXCEPT ![t] = Tail(w[t])]
LEMMA WakeSleepers ==
  ASSUME NEW prog, NEW at \in [Proc -> Nat], NEW asl, NEW w, Sleepers(prog, at, asl, w),
         NEW t, NEW k, NEW w2, NEW asl2, Wakens(asl, asl2, w, w2, t, k)
  PROVE  /\ Sleepers(prog, at, asl2, w2)
         /\ RemoveFirst(w[t], Head(w[t])) = Tail(w[t])
<1> USE DEF Wakens
<1>1. PICK q : q = w[t]
  OBVIOUS
<1>2. w \in [Sems -> Seq(Proc)] /\ q \in Seq(Proc) /\ Len(q) \in Nat /\ q # << >> /\ 1 \in 1 .. Len(q)
  <2>1. w \in [Sems -> Seq(Proc)] /\ q \in Seq(Proc) /\ Len(q) \in Nat /\ q # << >>
    BY <1>1 DEF Sleepers
  <2> QED BY <2>1
<1>3. k = q[1]
  BY <1>1, <1>2
<1>4. k \in Proc /\ k \in asl /\ at[k] >= 1 /\ prog[k][at[k]] = <<"wait", t>>
  <2>1. WaitsFor(prog, at, asl, w, t, k)
    BY HeadSleeps
  <2> QED BY <2>1 DEF WaitsFor
<1>5. PICK r : r = Tail(q)
  OBVIOUS
<1>6. r \in Seq(Proc) /\ Len(r) = Len(q) - 1 /\ \A i \in 1 .. Len(r) : r[i] = q[i + 1]
  BY <1>2, <1>5, HeadTailProperties
<1>7. RemoveFirst(q, q[1]) = r
  <2>1. \A i \in 1 .. Len(q) : q[i] = q[1] => i = 1
    BY <1>1, <1>2 DEF Sleepers, Once
  <2>2. RemoveFirst(q, q[1]) = Without(q, 1)
    BY <1>2, <2>1, RemoveFirstIs
  <2>3. Without(q, 1) = [i \in 1 .. Len(q) - 1 |-> q[i + 1]]
    BY <1>2 DEF Without
  <2>4. r = [i \in 1 .. Len(q) - 1 |-> q[i + 1]]
    <3>1. r = [i \in 1 .. Len(r) |-> r[i]]
      BY <1>6
    <3>2. 1 .. Len(r) = 1 .. Len(q) - 1
      BY <1>6
    <3> QED BY <1>6, <3>1, <3>2
  <2> QED BY <2>2, <2>3, <2>4
<1>8. w2 \in [Sems -> Seq(Proc)] /\ w2[t] = r /\ \A s \in Sems : s # t => w2[s] = w[s]
  BY <1>1, <1>2, <1>5, <1>6
<1>9. \A s \in Sems : Once(w2[s])
  <2>1. Once(r)
    <3> SUFFICES ASSUME NEW i \in 1 .. Len(r), NEW j \in 1 .. Len(r), r[i] = r[j] PROVE i = j
      BY DEF Once
    <3>0. i + 1 \in 1 .. Len(q) /\ j + 1 \in 1 .. Len(q)
      BY <1>2, <1>6
    <3>1. i + 1 \in 1 .. Len(q) /\ j + 1 \in 1 .. Len(q) /\ q[i + 1] = q[j + 1]
      BY <1>6, <3>0
    <3>2. i + 1 = j + 1
      BY <1>1, <3>1 DEF Sleepers, Once
    <3> QED BY <3>2
  <2> QED BY <1>8, <2>1 DEF Sleepers
<1>10. ASSUME NEW s \in Sems, NEW i \in 1 .. Len(w2[s])
       PROVE  /\ w2[s][i] \in asl \ {k} /\ at[w2[s][i]] >= 1
              /\ prog[w2[s][i]][at[w2[s][i]]] = <<"wait", s>>
  <2>1. CASE s # t
    <3>1. w2[s][i] = w[s][i] /\ i \in 1 .. Len(w[s])
      BY <1>8, <2>1
    <3>2. w[s][i] \in asl /\ at[w[s][i]] >= 1 /\ prog[w[s][i]][at[w[s][i]]] = <<"wait", s>>
      BY <3>1 DEF Sleepers
    <3>3. w[s][i] # k
      <4> SUFFICES ASSUME w[s][i] = k PROVE FALSE
        OBVIOUS
      <4>1. <<"wait", s>> = <<"wait", t>>
        BY <1>4, <3>2
      <4> QED BY <2>1, <4>1
    <3> QED BY <3>1, <3>2, <3>3
  <2>2. CASE s = t
    <3>1. i \in 1 .. Len(r) /\ w2[s][i] = r[i]
      BY <1>8, <2>2
    <3>0. i + 1 \in 1 .. Len(q) /\ i + 1 # 1
      BY <1>2, <1>6, <3>1
    <3>2. i + 1 \in 1 .. Len(q) /\ w2[s][i] = q[i + 1] /\ i + 1 # 1
      BY <1>6, <3>0, <3>1
    <3>3. q[i + 1] \in asl /\ at[q[i + 1]] >= 1 /\ prog[q[i + 1]][at[q[i + 1]]] = <<"wait", s>>
      BY <1>1, <2>2, <3>2 DEF Sleepers
    <3>4. q[i + 1] # k
      BY <1>1, <1>2, <1>3, <3>2 DEF Sleepers, Once
    <3> QED BY <3>2, <3>3, <3>4
  <2> QED BY <2>1, <2>2
<1>11. Sleepers(prog, at, asl \ {k}, w2)
  BY <1>8, <1>9, <1>10 DEF Sleepers
<1> QED BY <1>1, <1>3, <1>5, <1>7, <1>11

\* The waits for s that have returned, with its value and those who wait for
\* it, are the value n it was created with and the posts to it.
Balanced(prog, at, asl, v, w, n, s) ==
  /\ IsFiniteSet(Behind(prog, at, asl, <<"wait", s>>))
  /\ IsFiniteSet(Behind(prog, at, asl, <<"post", s>>))
  /\ Len(w[s]) = IF v[s] < 0 THEN -v[s] ELSE 0
  /\ Cardinality(Behind(prog, at, asl, <<"wait", s>>)) + v[s] + Len(w[s]) =
       n + Cardinality(Behind(prog, at, asl, <<"post", s>>))

\* One more on both sides of the books: somebody posts, and a waiter goes through
\* or nobody does.
Agree(in, m, l, n, out) == in + m + l = n + out
LEMMA BothSides ==
  ASSUME NEW in \in Nat, NEW m \in Int, NEW l \in Nat, NEW n \in Int, NEW out \in Nat,
         Agree(in, m, l, n, out)
  PROVE  Agree(in, m + 1, l, n, out + 1) /\ Agree(in + 1, m + 1, l - 1, n, out + 1)
BY DEF Agree

LEMMA Grown ==
  ASSUME NEW B, IsFiniteSet(B), NEW x, x \notin B, NEW b \in BOOLEAN,
         NEW C, C = IF b THEN B \cup {x} ELSE B
  PROVE  /\ IsFiniteSet(C) /\ Cardinality(B) \in Nat /\ Cardinality(C) \in Nat
         /\ Cardinality(C) = Cardinality(B) + (IF b THEN 1 ELSE 0)
<1>1. Cardinality(B) \in Nat
  BY FS_CardinalityType
<1>2. IsFiniteSet(B \cup {x}) /\ Cardinality(B \cup {x}) = Cardinality(B) + 1
  BY FS_AddElement
<1>3. CASE b
  BY <1>1, <1>2, <1>3
<1>4. CASE ~b
  BY <1>1, <1>4
<1> QED BY <1>3, <1>4

\* A wait that lets through adds a return, one that puts to sleep a waiter.
LEMMA WaitBalanced ==
  ASSUME NEW prog, NEW at \in [Proc -> Nat], NEW asl, NEW w, Sleepers(prog, at, asl, w),
         NEW v \in [Sems -> Int],
         NEW p, NEW t, NEW j, NEW at2, NEW b \in BOOLEAN, NEW asl2, NEW w2, NEW v2,
         Waits(prog, at, at2, asl, asl2, w, w2, p, t, j, b), Lowers(v, v2, t, b),
         NEW s \in Sems, NEW n \in Int, Balanced(prog, at, asl, v, w, n, s)
  PROVE  Balanced(prog, at2, asl2, v2, w2, n, s)
<1> USE DEF Waits, Joins, Lowers
<1> DEFINE In == Behind(prog, at, asl, <<"wait", s>>)
           Out == Behind(prog, at, asl, <<"post", s>>)
           In2 == Behind(prog, at2, asl2, <<"wait", s>>)
           Out2 == Behind(prog, at2, asl2, <<"post", s>>)
<1>1. /\ IsFiniteSet(In) /\ IsFiniteSet(Out)
      /\ Len(w[s]) = IF v[s] < 0 THEN -v[s] ELSE 0
      /\ Cardinality(In) + v[s] + Len(w[s]) = n + Cardinality(Out)
      /\ Cardinality(In) \in Nat /\ Cardinality(Out) \in Nat
  BY FS_CardinalityType DEF Balanced
<1>2. w[s] \in Seq(Proc) /\ w[t] \in Seq(Proc) /\ Len(w[s]) \in Nat /\ v[s] \in Int
  BY DEF Sleepers
<1>3. \A call : <<p, j>> \notin Behind(prog, at, asl, call)
                /\ Behind(prog, at2, asl2, call) =
                     IF prog[p][j] = call /\ ~b THEN Behind(prog, at, asl, call) \cup {<<p, j>>}
                     ELSE Behind(prog, at, asl, call)
  <2> SUFFICES ASSUME NEW call
               PROVE  /\ <<p, j>> \notin Behind(prog, at, asl, call)
                      /\ Behind(prog, at2, asl2, call) =
                           IF prog[p][j] = call /\ ~b
                           THEN Behind(prog, at, asl, call) \cup {<<p, j>>}
                           ELSE Behind(prog, at, asl, call)
    OBVIOUS
  <2>1. /\ <<p, j>> \notin Behind(prog, at, asl, call)
        /\ Behind(prog, at2, asl, call) =
             IF prog[p][j] = call THEN Behind(prog, at, asl, call) \cup {<<p, j>>}
             ELSE Behind(prog, at, asl, call)
    <3>1. Adds(prog, at, at2, asl, asl, call, p, j)
      BY BehindAdds
    <3> QED BY <3>1 DEF Adds
  <2>3. CASE b
    <3>1. asl2 = asl \cup {p}
      BY <2>3
    <3>2. Same(prog, at, at2, asl, asl2, call, p)
      BY <3>1, BehindSleeps
    <3> QED BY <2>1, <2>3, <3>2 DEF Same
  <2>4. CASE ~b
    BY <2>1, <2>4
  <2> QED BY <2>3, <2>4
<1>4. Out2 = Out
  <2>1. prog[p][j] # <<"post", s>>
    OBVIOUS
  <2> QED BY <1>3, <2>1
<1>5. PICK g \in BOOLEAN : g <=> s = t /\ ~b
  OBVIOUS
<1>6. PICK x : x = <<p, j>>
  OBVIOUS
<1>7. x \notin In /\ In2 = IF g THEN In \cup {x} ELSE In
  <2>1. prog[p][j] = <<"wait", s>> <=> s = t
    OBVIOUS
  <2> QED BY <1>3, <1>5, <1>6, <2>1
<1> HIDE DEF In, Out, In2, Out2
<1>8. IsFiniteSet(In2) /\ Cardinality(In2) \in Nat /\ Cardinality(In2) = Cardinality(In) + (IF g THEN 1 ELSE 0)
  BY <1>1, <1>7, Grown
<1>9. Len(w2[s]) = Len(w[s]) + (IF s = t /\ b THEN 1 ELSE 0) /\ v2[s] = v[s] - (IF s = t THEN 1 ELSE 0)
  <2>1. CASE s # t
    <3>1. w2[s] = w[s] /\ v2[s] = v[s]
      BY <2>1 DEF Sleepers
    <3> QED BY <1>2, <2>1, <3>1
  <2>2. CASE s = t
    <3>1. w2[s] = (IF b THEN Append(w[s], p) ELSE w[s]) /\ v2[s] = v[s] - 1
      BY <2>2 DEF Sleepers
    <3>2. Len(Append(w[s], p)) = Len(w[s]) + 1
      BY <1>2
    <3>3. CASE b
      <4>1. w2[s] = Append(w[s], p)
        BY <3>1, <3>3
      <4> QED BY <2>2, <3>1, <3>2, <3>3, <4>1
    <3>4. CASE ~b
      <4>1. w2[s] = w[s]
        BY <3>1, <3>4
      <4> QED BY <1>2, <2>2, <3>1, <3>4, <4>1
    <3> QED BY <3>3, <3>4
  <2> QED BY <2>1, <2>2
<1>10. Len(w2[s]) = IF v2[s] < 0 THEN -v2[s] ELSE 0
  <2>1. CASE s # t
    BY <1>1, <1>2, <1>9, <2>1
  <2>2. CASE s = t
    <3>1. b <=> v[s] <= 0
      BY <2>2
    <3> QED BY <1>1, <1>2, <1>9, <2>2, <3>1
  <2> QED BY <2>1, <2>2
<1>11. Cardinality(In2) + v2[s] + Len(w2[s]) = n + Cardinality(Out2)
  <2>1. CASE s # t
    BY <1>1, <1>2, <1>4, <1>5, <1>8, <1>9, <2>1
  <2>2. CASE s = t /\ b
    BY <1>1, <1>2, <1>4, <1>5, <1>8, <1>9, <2>2
  <2>3. CASE s = t /\ ~b
    BY <1>1, <1>2, <1>4, <1>5, <1>8, <1>9, <2>3
  <2> QED BY <2>1, <2>2, <2>3
<1> QED BY <1>1, <1>4, <1>8, <1>10, <1>11 DEF Balanced, In2, Out2, Out

\* p makes a post to t, and wakes k if b.
Posts(prog, at, at2, asl, asl2, w, w2, p, t, j, b, k) ==
  /\ p \in Proc /\ p \notin asl /\ t \in Sems /\ prog[p][j] = <<"post", t>>
  /\ Advances(at, at2, p, j)
  /\ k = Head(w[t])
  /\ asl2 = (IF b THEN asl \ {k} ELSE asl)
  /\ w2 = [w EXCEPT ![t] = IF b THEN Tail(w[t]) ELSE w[t]]

\* A post that nobody waits for adds to the value, any other a return.
LEMMA PostBalanced ==
  ASSUME NEW prog, NEW at \in [Proc -> Nat], NEW asl, NEW w, Sleepers(prog, at, asl, w),
         NEW v \in [Sems -> Int],
         NEW p, NEW t, NEW j, NEW at2, NEW k, NEW asl2, NEW w2,
         NEW b \in BOOLEAN, NEW v2,
         Posts(prog, at, at2, asl, asl2, w, w2, p, t, j, b, k), Raises(v, v2, w, t, b),
         NEW s \in Sems, NEW n \in Int, Balanced(prog, at, asl, v, w, n, s)
  PROVE  Balanced(prog, at2, asl2, v2, w2, n, s)
<1> USE DEF Posts, Raises
<1> DEFINE In == Behind(prog, at, asl, <<"wait", s>>)
           Out == Behind(prog, at, asl, <<"post", s>>)
           In2 == Behind(prog, at2, asl2, <<"wait", s>>)
           Out2 == Behind(prog, at2, asl2, <<"post", s>>)
<1>1. /\ IsFiniteSet(In) /\ IsFiniteSet(Out)
      /\ Len(w[s]) = IF v[s] < 0 THEN -v[s] ELSE 0
      /\ Cardinality(In) + v[s] + Len(w[s]) = n + Cardinality(Out)
      /\ Cardinality(In) \in Nat /\ Cardinality(Out) \in Nat
  BY FS_CardinalityType DEF Balanced
<1>2. w[s] \in Seq(Proc) /\ w[t] \in Seq(Proc) /\ Len(w[s]) \in Nat /\ v[s] \in Int
  BY DEF Sleepers
<1>3. \A call : <<p, j>> \notin Behind(prog, at, asl, call)
                /\ Behind(prog, at2, asl, call) =
                     IF prog[p][j] = call THEN Behind(prog, at, asl, call) \cup {<<p, j>>}
                     ELSE Behind(prog, at, asl, call)
  <2>1. \A call : Adds(prog, at, at2, asl, asl, call, p, j)
    BY BehindAdds
  <2> QED BY <2>1 DEF Adds
<1>4. b => /\ k \in Proc /\ k \in asl /\ at[k] >= 1 /\ prog[k][at[k]] = <<"wait", t>>
           /\ at2[k] = at[k] /\ at2 \in [Proc -> Nat]
  <2>1. b => k \in Proc /\ k \in asl /\ at[k] >= 1 /\ prog[k][at[k]] = <<"wait", t>>
    <3>1. b => WaitsFor(prog, at, asl, w, t, k)
      BY HeadSleeps
    <3> QED BY <3>1 DEF WaitsFor
  <2>2. b => k # p
    BY <2>1
  <2>3. at2 \in [Proc -> Nat] /\ \A q \in Proc : q # p => at2[q] = at[q]
    BY DEF Advances
  <2> QED BY <2>1, <2>2, <2>3
<1>5. \A call : b => /\ <<k, at[k]>> \notin Behind(prog, at2, asl, call)
                     /\ Behind(prog, at2, asl2, call) =
                          IF <<"wait", t>> = call THEN Behind(prog, at2, asl, call) \cup {<<k, at[k]>>}
                          ELSE Behind(prog, at2, asl, call)
  <2> SUFFICES ASSUME NEW call, b
               PROVE  /\ <<k, at[k]>> \notin Behind(prog, at2, asl, call)
                      /\ Behind(prog, at2, asl2, call) =
                           IF <<"wait", t>> = call THEN Behind(prog, at2, asl, call) \cup {<<k, at[k]>>}
                           ELSE Behind(prog, at2, asl, call)
    OBVIOUS
  <2>1. PICK r \in [Proc -> Nat] : r = at2
    BY <1>4
  <2>2. k \in Proc /\ k \in asl /\ r[k] >= 1 /\ r[k] = at[k] /\ prog[k][r[k]] = <<"wait", t>>
    BY <1>4, <2>1
  <2>3. /\ <<k, r[k]>> \notin Behind(prog, r, asl, call)
        /\ Behind(prog, r, asl2, call) =
             IF prog[k][r[k]] = call THEN Behind(prog, r, asl, call) \cup {<<k, r[k]>>}
             ELSE Behind(prog, r, asl, call)
    <3>1. asl2 = asl \ {k}
      OBVIOUS
    <3>2. Adds(prog, r, r, asl, asl2, call, k, r[k])
      BY <2>2, <3>1, BehindWakes
    <3> QED BY <3>2 DEF Adds
  <2> QED BY <2>1, <2>2, <2>3
<1>6. PICK g \in BOOLEAN : g <=> s = t
  OBVIOUS
<1>7. PICK x : x = <<p, j>>
  OBVIOUS
<1>8. x \notin Out /\ Out2 = IF g THEN Out \cup {x} ELSE Out
  <2>1. prog[p][j] = <<"post", s>> <=> s = t
    OBVIOUS
  <2>2. <<"wait", t>> # <<"post", s>>
    OBVIOUS
  <2>3. Out2 = Behind(prog, at2, asl, <<"post", s>>)
    BY <1>5, <2>2
  <2> QED BY <1>3, <1>6, <1>7, <2>1, <2>3
<1>9. PICK y : y = <<k, at[k]>>
  OBVIOUS
<1>10. PICK e \in BOOLEAN : e <=> s = t /\ b
  OBVIOUS
<1>11. (e => y \notin In) /\ In2 = IF e THEN In \cup {y} ELSE In
  <2>1. prog[p][j] # <<"wait", s>>
    OBVIOUS
  <2>2. Behind(prog, at2, asl, <<"wait", s>>) = In
    BY <1>3, <2>1
  <2>3. <<"wait", t>> = <<"wait", s>> <=> s = t
    OBVIOUS
  <2> QED BY <1>5, <1>9, <1>10, <2>2, <2>3
<1> HIDE DEF In, Out, In2, Out2
<1>12. IsFiniteSet(Out2) /\ Cardinality(Out2) \in Nat /\ Cardinality(Out2) = Cardinality(Out) + (IF g THEN 1 ELSE 0)
  BY <1>1, <1>8, Grown
<1>13. IsFiniteSet(In2) /\ Cardinality(In2) \in Nat /\ Cardinality(In2) = Cardinality(In) + (IF e THEN 1 ELSE 0)
  <2>1. CASE e
    BY <1>1, <1>11, <2>1, Grown
  <2>2. CASE ~e
    BY <1>1, <1>11, <2>2
  <2> QED BY <2>1, <2>2
<1>14. Len(w2[s]) = Len(w[s]) - (IF s = t /\ b THEN 1 ELSE 0) /\ v2[s] = v[s] + (IF s = t THEN 1 ELSE 0)
  <2>1. CASE s # t
    <3>1. w2[s] = w[s] /\ v2[s] = v[s]
      BY <2>1 DEF Sleepers
    <3> QED BY <1>2, <2>1, <3>1
  <2>2. CASE s = t
    <3>1. w2[s] = (IF b THEN Tail(w[s]) ELSE w[s]) /\ v2[s] = v[s] + 1
      BY <2>2 DEF Sleepers
    <3>2. b => Len(Tail(w[s])) = Len(w[s]) - 1
      BY <1>2, <2>2, HeadTailProperties
    <3>3. CASE b
      <4>1. w2[s] = Tail(w[s])
        BY <3>1, <3>3
      <4> QED BY <2>2, <3>1, <3>2, <3>3, <4>1
    <3>4. CASE ~b
      <4>1. w2[s] = w[s]
        BY <3>1, <3>4
      <4> QED BY <1>2, <2>2, <3>1, <3>4, <4>1
    <3> QED BY <3>3, <3>4
  <2> QED BY <2>1, <2>2
<1>15. Len(w2[s]) = IF v2[s] < 0 THEN -v2[s] ELSE 0
  <2>1. CASE s # t
    BY <1>1, <1>2, <1>14, <2>1
  <2>2. CASE s = t
    <3>1. PICK m \in Int : m = v[s]
      BY <1>2
    <3>2. PICK l \in Nat : l = Len(w[s])
      BY <1>2
    <3>3. l = IF m < 0 THEN -m ELSE 0
      BY <1>1, <3>1, <3>2
    <3>4. w[s] = << >> <=> l = 0
      BY <1>2, <3>2
    <3>5. b <=> m + 1 <= 0 /\ l # 0
      BY <2>2, <3>1, <3>4
    <3>6. CASE b
      <4>1. Len(w2[s]) = l - 1 /\ v2[s] = m + 1
        BY <1>14, <2>2, <3>1, <3>2, <3>6
      <4>2. m + 1 <= 0
        BY <3>5, <3>6
      <4>3. l - 1 = IF m + 1 < 0 THEN -(m + 1) ELSE 0
        BY <3>3, <4>2
      <4> QED BY <4>1, <4>3
    <3>7. CASE ~b
      <4>1. Len(w2[s]) = l /\ v2[s] = m + 1
        BY <1>14, <2>2, <3>1, <3>2, <3>7
      <4>2. ~(m + 1 <= 0 /\ l # 0)
        BY <3>5, <3>7
      <4>3. l = IF m + 1 < 0 THEN -(m + 1) ELSE 0
        BY <3>3, <4>2
      <4> QED BY <4>1, <4>3
    <3> QED BY <3>6, <3>7
  <2> QED BY <2>1, <2>2
<1>16. Cardinality(In2) + v2[s] + Len(w2[s]) = n + Cardinality(Out2)
  <2>1. CASE s # t
    BY <1>1, <1>2, <1>6, <1>10, <1>12, <1>13, <1>14, <2>1
  <2>2. CASE s = t /\ b
    <3>1. e /\ g
      BY <1>6, <1>10, <2>2
    <3>2. Cardinality(Out2) = Cardinality(Out) + 1 /\ Cardinality(In2) = Cardinality(In) + 1
      BY <1>1, <1>12, <1>13, <3>1
    <3>3. Len(w2[s]) = Len(w[s]) - 1 /\ v2[s] = v[s] + 1
      BY <1>2, <1>14, <2>2
    <3>4. PICK in \in Nat, out \in Nat, l \in Nat, m \in Int :
            in = Cardinality(In) /\ out = Cardinality(Out) /\ l = Len(w[s]) /\ m = v[s]
      BY <1>1, <1>2
    <3>5. Agree(in, m, l, n, out)
      BY <1>1, <3>4 DEF Agree
    <3>6. Agree(in + 1, m + 1, l - 1, n, out + 1)
      BY <3>5, BothSides
    <3> QED BY <3>2, <3>3, <3>4, <3>6 DEF Agree
  <2>3. CASE s = t /\ ~b
    <3>1. ~e /\ g
      BY <1>6, <1>10, <2>3
    <3>2. Cardinality(Out2) = Cardinality(Out) + 1 /\ Cardinality(In2) = Cardinality(In)
      BY <1>1, <1>12, <1>13, <3>1
    <3>3. Len(w2[s]) = Len(w[s]) /\ v2[s] = v[s] + 1
      BY <1>2, <1>14, <2>3
    <3>4. PICK in \in Nat, out \in Nat, l \in Nat, m \in Int :
            in = Cardinality(In) /\ out = Cardinality(Out) /\ l = Len(w[s]) /\ m = v[s]
      BY <1>1, <1>2
    <3>5. Agree(in, m, l, n, out)
      BY <1>1, <3>4 DEF Agree
    <3>6. Agree(in, m + 1, l, n, out + 1)
      BY <3>5, BothSides
    <3> QED BY <3>2, <3>3, <3>4, <3>6 DEF Agree
  <2> QED BY <2>1, <2>2, <2>3
<1> QED BY <1>12, <1>13, <1>15, <1>16 DEF Balanced, In2, Out2

\* The other calls concern the value of a semaphore at most by destroying it.
LEMMA OtherBalanced ==
  ASSUME NEW prog, NEW at \in [Proc -> Nat], NEW asl, NEW w, NEW v, NEW v2,
         NEW p \in Proc, p \notin asl,
         NEW j, NEW at2, Advances(at, at2, p, j),
         NEW s \in Sems, NEW n \in Int, Balanced(prog, at, asl, v, w, n, s), v2[s] = v[s],
         prog[p][j] # <<"wait", s>>, prog[p][j] # <<"post", s>>
  PROVE  Balanced(prog, at2, asl, v2, w, n, s)
<1>1. /\ Behind(prog, at2, asl, <<"wait", s>>) = Behind(prog, at, asl, <<"wait", s>>)
      /\ Behind(prog, at2, asl, <<"post", s>>) = Behind(prog, at, asl, <<"post", s>>)
  <2>1. \A call : Adds(prog, at, at2, asl, asl, call, p, j)
    BY BehindAdds
  <2> QED BY <2>1 DEF Adds
<1> QED BY <1>1 DEF Balanced

-----------------------------------------------------------------------------
\* The books of a table: every waiter sleeps in his wait, and the count of each
\* semaphore that no program destroys is right.
KeptBy(prog, s) == \A p \in Proc : \A i \in 1 .. Len(prog[p]) : prog[p][i] # <<"destroy", s>>
CreatedWith(initial, s) == IF s < Len(initial) THEN initial[s + 1] ELSE 0
Books(prog, initial, at, asl, v, w) ==
  /\ Sleepers(prog, at, asl, w)
  /\ \A s \in Sems : KeptBy(prog, s) => Balanced(prog, at, asl, v, w, CreatedWith(initial, s), s)
Counted(prog, initial, at, asl, T) == Books(prog, initial, at, asl, T.value, T.waiters)
Whole(T) ==
  /\ T = [value |-> T.value, waiters |-> T.waiters, avail |-> T.avail]
  /\ T.value \in [Sems -> Int]

LEMMA CreatedIs ==
  ASSUME NEW initial \in Seq(Nat), NEW s \in Sems
  PROVE  CreatedWith(initial, s) \in Nat
<1>1. CASE s < Len(initial)
  <2>1. s + 1 \in 1 .. Len(initial)
    BY <1>1, NumberFacts DEF Sems
  <2>2. initial[s + 1] \in Nat
    BY <2>1
  <2> QED BY <1>1, <2>2 DEF CreatedWith
<1>2. CASE ~(s < Len(initial))
  BY <1>2 DEF CreatedWith
<1> QED BY <1>1, <1>2

\* Each call keeps the books.
LEMMA WaitCounted ==
  ASSUME NEW prog, NEW initial \in Seq(Nat), NEW at \in [Proc -> Nat], NEW asl,
         NEW T, Whole(T), Counted(prog, initial, at, asl, T),
         NEW p \in Proc, p \notin asl, NEW t \in Sems, NEW j, prog[p][j] = <<"wait", t>>,
         NEW at2, Advances(at, at2, p, j),
         NEW asl2, asl2 = (IF Blocks(T, t) THEN asl \cup {p} ELSE asl),
         NEW T2, T2 = Down(T, t, p)
  PROVE  Counted(prog, initial, at2, asl2, T2)
<1>1. PICK v, w, a : v = T.value /\ w = T.waiters /\ a = T.avail
  OBVIOUS
<1>2. Holds(T, v, w, a) /\ v \in [Sems -> Int]
  BY <1>1 DEF Whole, Holds
<1>3. PICK b \in BOOLEAN : b <=> v[t] <= 0
  OBVIOUS
<1>4. PICK v2 : Lowers(v, v2, t, b)
  BY <1>3 DEF Lowers
<1>5. PICK w2 : Joins(w, w2, t, p, b)
  BY DEF Joins
<1>6. (Blocks(T, t) <=> b) /\ Holds(T2, v2, w2, a)
  BY <1>2, <1>4, <1>5, DownTo
<1>7. Sleepers(prog, at, asl, w) /\ \A s \in Sems : KeptBy(prog, s) => Balanced(prog, at, asl, v, w, CreatedWith(initial, s), s)
  BY <1>1 DEF Counted, Books
<1>8. Waits(prog, at, at2, asl, asl2, w, w2, p, t, j, b)
  BY <1>5, <1>6 DEF Waits
<1>9. Sleepers(prog, at2, asl2, w2)
  BY <1>7, <1>8, WaitSleepers
<1>10. ASSUME NEW s \in Sems, KeptBy(prog, s)
       PROVE  Balanced(prog, at2, asl2, v2, w2, CreatedWith(initial, s), s)
  <2>1. PICK n \in Int : n = CreatedWith(initial, s)
    BY CreatedIs
  <2>2. Balanced(prog, at, asl, v, w, n, s)
    BY <1>7, <1>10, <2>1
  <2>3. Balanced(prog, at2, asl2, v2, w2, n, s)
    BY <1>2, <1>4, <1>7, <1>8, <2>2, WaitBalanced
  <2> QED BY <2>1, <2>3
<1>11. T2.value = v2 /\ T2.waiters = w2
  BY <1>6 DEF Holds
<1> QED BY <1>9, <1>10, <1>11 DEF Counted, Books

LEMMA PostCounted ==
  ASSUME NEW prog, NEW initial \in Seq(Nat), NEW at \in [Proc -> Nat], NEW asl,
         NEW T, Whole(T), Counted(prog, initial, at, asl, T),
         NEW p \in Proc, p \notin asl, NEW t \in Sems, NEW j, prog[p][j] = <<"post", t>>,
         NEW at2, Advances(at, at2, p, j),
         NEW asl2, asl2 = (IF Wakes(T, t) THEN asl \ {Woken(T, t)} ELSE asl),
         NEW T2, T2 = Up(T, t)
  PROVE  Counted(prog, initial, at2, asl2, T2)
<1>1. PICK v, w, a : v = T.value /\ w = T.waiters /\ a = T.avail
  OBVIOUS
<1>2. Holds(T, v, w, a) /\ v \in [Sems -> Int]
  BY <1>1 DEF Whole, Holds
<1>3. PICK b \in BOOLEAN : b <=> v[t] + 1 <= 0 /\ w[t] # << >>
  OBVIOUS
<1>4. PICK k : k = Head(w[t])
  OBVIOUS
<1>5. PICK v2 : Raises(v, v2, w, t, b)
  BY <1>3 DEF Raises
<1>6. PICK w2 : Leaves(w, w2, t, b)
  BY DEF Leaves
<1>7. (Wakes(T, t) <=> b) /\ Woken(T, t) = Head(w[t]) /\ Holds(T2, v2, w2, a)
  <2>1. Upped(T, Up(T, t), t, b, Head(w[t]), v2, w2, a)
    BY <1>2, <1>5, <1>6, UpTo
  <2> QED BY <1>4, <2>1 DEF Upped
<1>8. asl2 = (IF b THEN asl \ {k} ELSE asl) /\ T2.value = v2 /\ T2.waiters = w2
  <2>1. T2.value = v2 /\ T2.waiters = w2
    BY <1>7 DEF Holds
  <2> QED BY <1>4, <1>7, <2>1
<1>9. Sleepers(prog, at, asl, w) /\ \A s \in Sems : KeptBy(prog, s) => Balanced(prog, at, asl, v, w, CreatedWith(initial, s), s)
  BY <1>1 DEF Counted, Books
<1>10. PICK w3, asl3 : w3 = [w EXCEPT ![t] = Tail(w[t])] /\ asl3 = asl \ {k}
  OBVIOUS
<1>11. ASSUME b
       PROVE  Sleepers(prog, at, asl3, w3) /\ RemoveFirst(w[t], Head(w[t])) = Tail(w[t])
  <2>1. Wakens(asl, asl3, w, w3, t, k)
    BY <1>3, <1>4, <1>10, <1>11 DEF Wakens
  <2> QED BY <1>9, <2>1, WakeSleepers
<1>12. w2 = [w EXCEPT ![t] = IF b THEN Tail(w[t]) ELSE w[t]]
  BY <1>6, <1>11 DEF Leaves
<1>13. Sleepers(prog, at2, asl2, w2)
  <2>1. CASE b
    <3>1. Sleepers(prog, at, asl3, w3) /\ p \notin asl3
      BY <1>10, <1>11, <2>1
    <3>2. Sleepers(prog, at2, asl3, w3)
      BY <3>1, OtherSleepers
    <3>3. asl2 = asl3 /\ w2 = w3
      BY <1>8, <1>10, <1>12, <2>1
    <3> QED BY <3>2, <3>3
  <2>2. CASE ~b
    <3>1. Sleepers(prog, at2, asl, w)
      BY <1>9, OtherSleepers
    <3>2. asl2 = asl
      BY <1>8, <2>2
    <3>3. w2 = w
      BY <1>9, <1>12, <2>2 DEF Sleepers
    <3> QED BY <3>1, <3>2, <3>3
  <2> QED BY <2>1, <2>2
<1>14. Posts(prog, at, at2, asl, asl2, w, w2, p, t, j, b, k)
  BY <1>4, <1>8, <1>12 DEF Posts
<1>15. ASSUME NEW s \in Sems, KeptBy(prog, s)
       PROVE  Balanced(prog, at2, asl2, v2, w2, CreatedWith(initial, s), s)
  <2>1. PICK n \in Int : n = CreatedWith(initial, s)
    BY CreatedIs
  <2>2. Balanced(prog, at, asl, v, w, n, s)
    BY <1>9, <1>15, <2>1
  <2>3. Balanced(prog, at2, asl2, v2, w2, n, s)
    BY <1>2, <1>5, <1>9, <1>14, <2>2, PostBalanced
  <2> QED BY <2>1, <2>3
<1> QED BY <1>8, <1>13, <1>15 DEF Counted, Books

Spares(prog, T, T2, p, j) ==
  /\ T2.waiters = T.waiters
  /\ \A s \in Sems : KeptBy(prog, s) =>
        /\ T2.value[s] = T.value[s]
        /\ prog[p][j] # <<"wait", s>> /\ prog[p][j] # <<"post", s>>
LEMMA OtherCounted ==
  ASSUME NEW prog, NEW initial \in Seq(Nat), NEW at \in [Proc -> Nat], NEW asl,
         NEW T, Counted(prog, initial, at, asl, T),
         NEW p \in Proc, p \notin asl, NEW j,
         NEW at2, Advances(at, at2, p, j),
         NEW T2, Spares(prog, T, T2, p, j)
  PROVE  Counted(prog, initial, at2, asl, T2)
<1> USE DEF Spares
<1>1. PICK v, w, v2 : v = T.value /\ w = T.waiters /\ v2 = T2.value
  OBVIOUS
<1>2. Sleepers(prog, at, asl, w) /\ \A s \in Sems : KeptBy(prog, s) => Balanced(prog, at, asl, v, w, CreatedWith(initial, s), s)
  BY <1>1 DEF Counted, Books
<1>3. Sleepers(prog, at2, asl, w)
  BY <1>2, OtherSleepers
<1>4. ASSUME NEW s \in Sems, KeptBy(prog, s)
      PROVE  Balanced(prog, at2, asl, v2, w, CreatedWith(initial, s), s)
  <2>1. PICK n \in Int : n = CreatedWith(initial, s)
    BY CreatedIs
  <2>2. /\ Balanced(prog, at, asl, v, w, n, s) /\ v2[s] = v[s]
        /\ prog[p][j] # <<"wait", s>> /\ prog[p][j] # <<"post", s>>
    BY <1>1, <1>2, <1>4, <2>1
  <2>3. /\ at \in [Proc -> Nat] /\ p \in Proc /\ p \notin asl /\ s \in Sems /\ n \in Int
        /\ Advances(at, at2, p, j)
    OBVIOUS
  <2>4. Balanced(prog, at2, asl, v2, w, n, s)
    BY ONLY <2>2, <2>3, OtherBalanced
  <2> QED BY <2>1, <2>4
<1> QED BY <1>1, <1>3, <1>4 DEF Counted, Books

-----------------------------------------------------------------------------
\* The inductive invariant of the values: with the lists in order, the books of
\* the table they stand for.
SInv == LInv /\ Counted(Tests[test].program, Tests[test].initial, pc, asleep, View(table))

LEMMA WholeTable ==
  ASSUME LInv
  PROVE  Whole(View(table)) /\ View(table).value = table.value
<1>1. View(table) = Seen(table, Lists(table))
  BY ListsAre DEF LInv
<1>2. table.value \in [Sems -> Int]
  BY DEF LInv, Good, Tables
<1> QED BY <1>1, <1>2 DEF Seen, Whole

\* When nothing has been called, nobody waits and every value is the first.
LEMMA SInvInit == Init => SInv
<1> SUFFICES ASSUME Init PROVE SInv
  OBVIOUS
<1>1. LInv /\ A!Init
  BY LInvInit
<1>2. test \in DOMAIN Tests /\ pc = [p \in Proc |-> 0] /\ asleep = {}
  BY DEF Init
<1>3. PICK prog, initial : prog = Tests[test].program /\ initial = Tests[test].initial
  OBVIOUS
<1>4. View(table) = A!Created(initial)
  BY <1>1, <1>3 DEF A!Init
<1>5. PICK v, w : v = View(table).value /\ w = View(table).waiters
  OBVIOUS
<1>6. v = [s \in Sems |-> CreatedWith(initial, s)] /\ w = [s \in Sems |-> << >>]
  BY <1>4, <1>5 DEF A!Created, A!Sem, Sems, CreatedWith
<1>7. Sleepers(prog, pc, asleep, w)
  <2>1. \A s \in Sems : w[s] = << >>
    BY <1>6
  <2>2. Len(<< >>) = 0 /\ << >> \in Seq(Proc)
    OBVIOUS
  <2>3. w \in [Sems -> Seq(Proc)]
    BY <1>6, <2>2
  <2>4. \A s \in Sems : Len(w[s]) = 0
    BY <2>1, <2>2
  <2> QED BY <2>3, <2>4 DEF Sleepers, Once
<1>8. \A call : Behind(prog, pc, asleep, call) = {}
  <2> SUFFICES ASSUME NEW call PROVE Behind(prog, pc, asleep, call) = {}
    OBVIOUS
  <2>1. PICK B : B = Behind(prog, pc, asleep, call)
    OBVIOUS
  <2>2. /\ \A q, i : <<q, i>> \in B <=>
             q \in Proc /\ i \in 1 .. pc[q] /\ prog[q][i] = call /\ ~(q \in asleep /\ i = pc[q])
        /\ \A x \in B : x = <<x[1], x[2]>>
    BY <2>1, BehindIs
  <2>3. ASSUME NEW x \in B PROVE FALSE
    <3>1. PICK q, i : x = <<q, i>>
      BY <2>2
    <3>2. q \in Proc /\ i \in 1 .. pc[q]
      BY <2>2, <2>3, <3>1
    <3> QED BY <1>2, <3>2
  <2> QED BY <2>1, <2>3
<1>9. ASSUME NEW s \in Sems
      PROVE  Balanced(prog, pc, asleep, v, w, CreatedWith(initial, s), s)
  <2>1. PICK n \in Nat : n = CreatedWith(initial, s)
    <3>1. initial \in Seq(Nat)
      BY <1>2, <1>3, TestIs
    <3> QED BY <3>1, CreatedIs
  <2>2. v[s] = n /\ Len(w[s]) = 0
    BY <1>6, <2>1
  <2>3. IsFiniteSet({}) /\ Cardinality({}) = 0
    BY FS_EmptySet
  <2>4. Balanced(prog, pc, asleep, v, w, n, s)
    <3>1. /\ Behind(prog, pc, asleep, <<"wait", s>>) = {}
          /\ Behind(prog, pc, asleep, <<"post", s>>) = {}
      BY <1>8
    <3>2. IsFiniteSet({}) /\ 0 = (IF v[s] < 0 THEN -v[s] ELSE 0) /\ 0 + v[s] + 0 = n + 0
      BY <2>2, <2>3
    <3> QED BY <2>2, <2>3, <3>1, <3>2 DEF Balanced
  <2> QED BY <2>1, <2>4
<1> QED BY <1>1, <1>3, <1>5, <1>7, <1>9 DEF SInv, Counted, Books

LEMMA SInvStep ==
  ASSUME SInv, NEW p \in Proc, Step(p)
  PROVE  SInv'
<1>1. LInv /\ LInv' /\ Placement
  <2>1. Next
    BY DEF Next
  <2> QED BY <2>1, LInvNext DEF SInv, LInv
<1>2. PICK prog, initial : prog = Tests[test].program /\ initial = Tests[test].initial
  OBVIOUS
<1>3. initial \in Seq(Nat) /\ pc \in [Proc -> Nat]
      /\ \A q \in Proc : prog[q] \in Seq(A!Calls \X Sems)
  BY <1>1, <1>2, TestIs DEF Placement
<1>4. PICK T, T2, at, at2, asl, asl2 :
        /\ T = View(table) /\ T2 = View(table') /\ at = pc /\ at2 = pc'
        /\ asl = asleep /\ asl2 = asleep'
  OBVIOUS
<1>5. Whole(T) /\ Counted(prog, initial, at, asl, T)
  BY <1>1, <1>2, <1>4, WholeTable DEF SInv
<1>6. ASSUME NEW call, A!Makes(p, call)
      PROVE  \E t \in Sems, j \in 1 .. Len(prog[p]) :
               /\ t = A!NextCall(p)[2] /\ p \notin asl /\ prog[p][j] = <<call, t>>
               /\ Advances(at, at2, p, j) /\ test' = test
  <2>1. /\ p \notin asleep /\ A!NextCall(p)[2] \in Sems
        /\ A!NextCall(p) = Tests[test].program[p][pc[p] + 1]
        /\ A!NextCall(p) = <<call, A!NextCall(p)[2]>>
        /\ pc[p] + 1 \in 1 .. Len(Tests[test].program[p])
        /\ test' = test /\ pc' = [pc EXCEPT ![p] = pc[p] + 1]
    BY <1>1, <1>6, CallIs
  <2>2. PICK j \in 1 .. Len(prog[p]) : j = pc[p] + 1
    BY <1>2, <2>1
  <2>3. Advances(at, at2, p, j)
    BY <1>4, <2>1, <2>2 DEF Advances
  <2> QED BY <1>2, <1>4, <2>1, <2>2, <2>3
<1>7. SUFFICES test' = test /\ Counted(prog, initial, at2, asl2, T2)
  BY <1>1, <1>2, <1>4 DEF SInv
<1>8. CASE SemWait(p)
  <2>1. A!SemWait(p)
    BY <1>1, <1>8, WaitImplements
  <2>2. PICK t \in Sems, j \in 1 .. Len(prog[p]) :
          /\ t = A!NextCall(p)[2] /\ p \notin asl /\ prog[p][j] = <<"wait", t>>
          /\ Advances(at, at2, p, j) /\ test' = test
    BY <1>6, <2>1 DEF A!SemWait
  <2>3. T2 = Down(T, t, p) /\ asl2 = IF Blocks(T, t) THEN asl \cup {p} ELSE asl
    BY <1>4, <2>1, <2>2, SameTable DEF A!SemWait
  <2>4. Counted(prog, initial, at2, asl2, T2)
    BY <1>3, <1>4, <1>5, <2>2, <2>3, WaitCounted
  <2> QED BY <2>2, <2>4
<1>9. CASE SemPost(p)
  <2>1. A!SemPost(p)
    BY <1>1, <1>9, PostImplements
  <2>2. PICK t \in Sems, j \in 1 .. Len(prog[p]) :
          /\ t = A!NextCall(p)[2] /\ p \notin asl /\ prog[p][j] = <<"post", t>>
          /\ Advances(at, at2, p, j) /\ test' = test
    BY <1>6, <2>1 DEF A!SemPost
  <2>3. T2 = Up(T, t) /\ asl2 = IF Wakes(T, t) THEN asl \ {Woken(T, t)} ELSE asl
    BY <1>4, <2>1, <2>2, SameTable DEF A!SemPost
  <2>4. Counted(prog, initial, at2, asl2, T2)
    BY <1>3, <1>4, <1>5, <2>2, <2>3, PostCounted
  <2> QED BY <2>2, <2>4
<1>10. CASE SemDestroy(p)
  <2>1. A!SemDestroy(p)
    BY <1>1, <1>10, DestroyImplements
  <2>2. PICK t \in Sems, j \in 1 .. Len(prog[p]) :
          /\ t = A!NextCall(p)[2] /\ p \notin asl /\ prog[p][j] = <<"destroy", t>>
          /\ Advances(at, at2, p, j) /\ test' = test
    BY <1>6, <2>1 DEF A!SemDestroy
  <2>3. T2 = Discard(T, t) /\ asl2 = asl
    BY <1>4, <2>1, <2>2, SameTable DEF A!SemDestroy
  <2>4. T2.waiters = T.waiters /\ \A s \in Sems : s # t => T2.value[s] = T.value[s]
    <3>1. PICK v, w, a : v = T.value /\ w = T.waiters /\ a = T.avail
      OBVIOUS
    <3>2. T = [value |-> v, waiters |-> w, avail |-> a] /\ v \in [Sems -> Int]
      BY <1>5, <3>1 DEF Whole
    <3>3. T2.waiters = w /\ T2.value = [v EXCEPT ![t] = 0]
      BY <2>3, <3>2 DEF Discard
    <3> QED BY <3>1, <3>2, <3>3
  <2>5. \A s \in Sems : KeptBy(prog, s) =>
           /\ T2.value[s] = T.value[s]
           /\ prog[p][j] # <<"wait", s>> /\ prog[p][j] # <<"post", s>>
    BY <2>2, <2>4 DEF KeptBy
  <2>6. Counted(prog, initial, at2, asl, T2)
    <3>1. Spares(prog, T, T2, p, j)
      BY <2>4, <2>5 DEF Spares
    <3> QED BY <1>3, <1>4, <1>5, <2>2, <3>1, OtherCounted
  <2> QED BY <2>2, <2>3, <2>6
<1>11. CASE Sleep(p)
  <2>1. A!SleepEnds(p) /\ table' = table
    BY <1>1, <1>11, SleepImplements DEF Sleep
  <2>2. PICK t \in Sems, j \in 1 .. Len(prog[p]) :
          /\ t = A!NextCall(p)[2] /\ p \notin asl /\ prog[p][j] = <<"sleep", t>>
          /\ Advances(at, at2, p, j) /\ test' = test
    BY <1>6, <2>1 DEF A!SleepEnds
  <2>3. T2 = T /\ asl2 = asl
    BY <1>4, <2>1 DEF A!SleepEnds
  <2>4. \A s \in Sems : /\ T2.value[s] = T.value[s]
                        /\ prog[p][j] # <<"wait", s>> /\ prog[p][j] # <<"post", s>>
    BY <2>2, <2>3
  <2>5. Counted(prog, initial, at2, asl, T2)
    <3>1. Spares(prog, T, T2, p, j)
      BY <2>3, <2>4 DEF Spares
    <3> QED BY <1>3, <1>4, <1>5, <2>2, <3>1, OtherCounted
  <2> QED BY <2>2, <2>3, <2>5
<1> QED BY <1>8, <1>9, <1>10, <1>11 DEF Step

LEMMA SInvNext == SInv /\ [Next]_vars => SInv'
<1> SUFFICES ASSUME SInv, [Next]_vars PROVE SInv'
  OBVIOUS
<1>1. CASE Next
  BY <1>1, SInvStep DEF Next
<1>2. CASE UNCHANGED vars
  <2>1. LInv'
    BY LInvNext DEF SInv
  <2>2. test' = test /\ pc' = pc /\ asleep' = asleep /\ table' = table
    BY <1>2 DEF vars
  <2>3. Counted(Tests[test].program, Tests[test].initial, pc, asleep, View(table))'
    BY <2>2 DEF SInv
  <2> QED BY <2>1, <2>3 DEF SInv
<1> QED BY <1>1, <1>2

\* Nobody gets through a semaphore who was not let through: the books are right
\* in every state (do_sem_wait, do_sem_signal).
THEOREM AlwaysCounted == Spec => []SInv
<1>1. Init => SInv  BY SInvInit
<1>2. SInv /\ [Next]_vars => SInv'  BY SInvNext
<1> QED BY <1>1, <1>2, PTL DEF Spec

-----------------------------------------------------------------------------
\* What the books say of a semaphore that no program destroys.
LEMMA AtMost ==
  ASSUME SInv, NEW s \in Sems, KeptBy(Tests[test].program, s),
         NEW n \in Nat, n = CreatedWith(Tests[test].initial, s)
  PROVE  /\ IsFiniteSet(Passed(<<"wait", s>>)) /\ IsFiniteSet(Passed(<<"post", s>>))
         /\ Cardinality(Passed(<<"wait", s>>)) \in Nat
         /\ Cardinality(Passed(<<"post", s>>)) \in Nat
         /\ Cardinality(Passed(<<"wait", s>>)) <= Cardinality(Passed(<<"post", s>>)) + n
<1>1. PICK v, w : v = View(table).value /\ w = View(table).waiters
  OBVIOUS
<1>2. Balanced(Tests[test].program, pc, asleep, v, w, n, s) /\ v \in [Sems -> Int] /\ w \in [Sems -> Seq(Proc)]
  BY <1>1, WholeTable DEF SInv, Counted, Books, Whole, Sleepers
<1>3. \A call : Passed(call) = Behind(Tests[test].program, pc, asleep, call)
  BY DEF Passed, Behind, Made, Returned
<1>4. PICK in, out : in = Passed(<<"wait", s>>) /\ out = Passed(<<"post", s>>)
  OBVIOUS
<1>5. PICK m \in Int, l \in Nat : m = v[s] /\ l = Len(w[s])
  <2>1. v[s] \in Int /\ w[s] \in Seq(Proc)
    BY <1>2
  <2> QED BY <2>1
<1>6. /\ IsFiniteSet(in) /\ IsFiniteSet(out)
      /\ l = IF m < 0 THEN -m ELSE 0
      /\ Cardinality(in) + m + l = n + Cardinality(out)
  BY <1>2, <1>3, <1>4, <1>5 DEF Balanced
<1>7. PICK x \in Nat, y \in Nat : x = Cardinality(in) /\ y = Cardinality(out)
  BY <1>6, FS_CardinalityType
<1>8. x <= y + n
  BY <1>6, <1>7
<1> QED BY <1>4, <1>6, <1>7, <1>8

\* A loop makes the calls it is made of, over and over.
LEMMA TimesIs ==
  ASSUME NEW n \in Nat, NEW S, NEW calls \in Seq(S), calls # << >>
  PROVE  /\ Times(n, calls) \in Seq(S)
         /\ \A i \in 1 .. Len(Times(n, calls)) : \E m \in 1 .. Len(calls) : Times(n, calls)[i] = calls[m]
<1>1. PICK l \in Nat \ {0} : l = Len(calls)
  BY EmptySeq
<1>2. PICK k \in Nat : k = n * l
  BY <1>1
<1>3. \A i \in 1 .. k : ((i - 1) % l) + 1 \in 1 .. l
  BY <1>1, <1>2
<1>4. Times(n, calls) = [i \in 1 .. k |-> calls[((i - 1) % l) + 1]]
  BY <1>1, <1>2 DEF Times
<1>5. \A m \in 1 .. l : calls[m] \in S
  BY <1>1
<1>6. Times(n, calls) \in [1 .. k -> S]
  BY <1>3, <1>4, <1>5
<1>7. Times(n, calls) \in Seq(S) /\ Len(Times(n, calls)) = k
  BY <1>2, <1>6
<1> QED BY <1>1, <1>3, <1>4, <1>7

-----------------------------------------------------------------------------
\* The calls of a program one after the other.
Longer(S, q, x, r) ==
  /\ q \in Seq(S) /\ x \in S /\ r \in Seq(S)
  /\ Len(r) = Len(q) + 1 /\ (\A i \in 1 .. Len(q) : r[i] = q[i]) /\ r[Len(q) + 1] = x
LEMMA LongerIs ==
  ASSUME NEW S, NEW q, NEW x, NEW r, Longer(S, q, x, r)
  PROVE  q \o <<x>> = r
<1> USE DEF Longer
<1>1. q \o <<x>> = Append(q, x)
  BY AppendIsConcat
<1>2. PICK s \in Seq(S) : s = Append(q, x)
  OBVIOUS
<1>3. /\ Len(s) = Len(q) + 1 /\ s[Len(q) + 1] = x
      /\ \A i \in 1 .. Len(q) : s[i] = q[i]
  BY <1>2
<1>4. \A i \in 1 .. Len(q) + 1 : i \in 1 .. Len(q) \/ i = Len(q) + 1
  OBVIOUS
<1>5. \A i \in 1 .. Len(q) + 1 : s[i] = r[i]
  BY <1>3, <1>4
<1>6. s = [i \in 1 .. Len(s) |-> s[i]] /\ r = [i \in 1 .. Len(r) |-> r[i]]
  OBVIOUS
<1>7. s = r
  BY <1>3, <1>5, <1>6
<1> QED BY <1>1, <1>2, <1>7

LEMMA ThreeInARow ==
  ASSUME NEW a, NEW b, NEW c
  PROVE  <<a>> \o <<b>> \o <<c>> = <<a, b, c>>
<1> PICK S : S = {a, b, c}
  OBVIOUS
<1>1. Longer(S, <<a>>, b, <<a, b>>)
  BY DEF Longer
<1>2. Longer(S, <<a, b>>, c, <<a, b, c>>)
  BY DEF Longer
<1>3. <<a>> \o <<b>> = <<a, b>>
  BY <1>1, LongerIs, Zenon
<1>4. <<a, b>> \o <<c>> = <<a, b, c>>
  BY <1>2, LongerIs, Zenon
<1> QED BY <1>3, <1>4, Zenon

\* What producers and consumers call, and what their semaphores start with.
LEMMA BufferCalls ==
  ASSUME test = "producers", test \in DOMAIN Tests
  PROVE  /\ mutex \in Sems /\ buffer \in Sems
         /\ KeptBy(Tests[test].program, mutex) /\ KeptBy(Tests[test].program, buffer)
         /\ CreatedWith(Tests[test].initial, mutex) = 1
         /\ CreatedWith(Tests[test].initial, buffer) = 0
<1>1. /\ Tests[test].initial = <<1, 0>>
      /\ Tests[test].program = [p \in Proc |-> IF p < Producers THEN Producer
                                               ELSE IF p < 3 * Producers THEN Consumer ELSE << >>]
  BY DEF Tests, ProducersAndConsumers, Mutex
<1>2. mutex \in Sems /\ buffer \in Sems
  <2>1. Len(Tests[test].initial) <= MAX_SEMAPHORE
    BY TestIs
  <2>2. 2 <= MAX_SEMAPHORE /\ MAX_SEMAPHORE \in Nat
    BY <1>1, <2>1, NumberFacts
  <2> QED BY <2>2 DEF mutex, buffer, Sems
<1>3. /\ CreatedWith(Tests[test].initial, mutex) = 1
      /\ CreatedWith(Tests[test].initial, buffer) = 0
  BY <1>1 DEF CreatedWith, mutex, buffer
<1> DEFINE S == {<<call, s>> : call \in {"wait", "post"}, s \in {0, 1}}
<1>4. \A n \in Nat : \A calls \in Seq(S) : calls # << >> =>
        Times(n, calls) \in Seq(S)
  BY TimesIs
<1>5. Producer \in Seq(S)
  <2>1. PICK calls : calls = Call("wait", mutex) \o Call("post", mutex) \o Call("post", buffer)
    OBVIOUS
  <2>2. calls = << <<"wait", 0>>, <<"post", 0>>, <<"post", 1>> >>
    BY <2>1, ThreeInARow, Zenon DEF Call, mutex, buffer
  <2>3. calls \in Seq(S) /\ calls # << >>
    BY <2>2
  <2> HIDE DEF S
  <2> QED BY <1>4, <2>1, <2>3, NumberFacts DEF Producer
<1>6. Consumer \in Seq(S)
  <2>1. PICK calls : calls = Call("wait", buffer) \o Call("wait", mutex) \o Call("post", mutex)
    OBVIOUS
  <2>2. calls = << <<"wait", 1>>, <<"wait", 0>>, <<"post", 0>> >>
    BY <2>1, ThreeInARow, Zenon DEF Call, mutex, buffer
  <2>3. calls \in Seq(S) /\ calls # << >>
    BY <2>2
  <2>4. PICK n \in Nat : n = Rounds \div 2
    BY NumberFacts
  <2> HIDE DEF S
  <2> QED BY <1>4, <2>1, <2>3, <2>4 DEF Consumer
<1>7. \A p \in Proc : Tests[test].program[p] \in Seq(S)
  <2> HIDE DEF S
  <2>1. << >> \in Seq(S)
    OBVIOUS
  <2> QED BY <1>1, <1>5, <1>6, <2>1
<1>8. \A s : KeptBy(Tests[test].program, s)
  <2> SUFFICES ASSUME NEW s, NEW p \in Proc, NEW i \in 1 .. Len(Tests[test].program[p])
               PROVE  Tests[test].program[p][i] # <<"destroy", s>>
    BY DEF KeptBy
  <2>1. Tests[test].program[p][i] \in S
    <3> HIDE DEF S
    <3> QED BY <1>7
  <2>2. PICK call \in {"wait", "post"}, r \in {0, 1} : Tests[test].program[p][i] = <<call, r>>
    BY <2>1
  <2> QED BY <2>2
<1> QED BY <1>2, <1>3, <1>8

\* However many producers and consumers there are, nobody is inside the mutex
\* with another, and no more is taken out of the buffer than was put in.
THEOREM AlwaysBufferSafe == Spec => []BufferSafe
<1>1. SInv => BufferSafe
  <2> SUFFICES ASSUME SInv, test = "producers"
               PROVE  /\ Cardinality(Passed(<<"wait", mutex>>)) <= Cardinality(Passed(<<"post", mutex>>)) + 1
                      /\ Cardinality(Passed(<<"wait", buffer>>)) <= Cardinality(Passed(<<"post", buffer>>))
    BY DEF BufferSafe
  <2>1. test \in DOMAIN Tests
    BY DEF SInv, LInv, Placement
  <2>2. /\ mutex \in Sems /\ buffer \in Sems
        /\ KeptBy(Tests[test].program, mutex) /\ KeptBy(Tests[test].program, buffer)
        /\ CreatedWith(Tests[test].initial, mutex) = 1
        /\ CreatedWith(Tests[test].initial, buffer) = 0
    BY <2>1, BufferCalls
  <2>3. Cardinality(Passed(<<"wait", mutex>>)) <= Cardinality(Passed(<<"post", mutex>>)) + 1
    BY <2>2, AtMost
  <2>4. /\ Cardinality(Passed(<<"post", buffer>>)) \in Nat
        /\ Cardinality(Passed(<<"wait", buffer>>)) <= Cardinality(Passed(<<"post", buffer>>)) + 0
    BY <2>2, AtMost
  <2> QED BY <2>3, <2>4
<1> QED BY <1>1, AlwaysCounted, PTL

LEMMA RightIs ==
  ASSUME NEW i \in 0 .. N - 1
  PROVE  /\ Right(i) = IF i = N - 1 THEN 0 ELSE i + 1
         /\ Right(i) \in 0 .. N - 1 /\ Right(i) # i
<1>1. N \in Nat /\ N >= 2
  BY NumberFacts
<1>2. CASE i = N - 1
  BY <1>1, <1>2 DEF Right
<1>3. CASE i # N - 1
  BY <1>1, <1>3 DEF Right
<1> QED BY <1>2, <1>3

LEMMA PhilosopherIs ==
  ASSUME NEW i
  PROVE  Philosopher(i) = << <<"wait", N>>, <<"wait", i>>, <<"wait", Right(i)>>,
                             <<"post", Right(i)>>, <<"post", i>>, <<"post", N>> >>
<1>1. PICK a, b, c, d, e, f : /\ a = <<"wait", N>> /\ b = <<"wait", i>> /\ c = <<"wait", Right(i)>>
                              /\ d = <<"post", Right(i)>> /\ e = <<"post", i>> /\ f = <<"post", N>>
  OBVIOUS
<1>2. Philosopher(i) = <<a>> \o <<b>> \o <<c>> \o <<d>> \o <<e>> \o <<f>>
  BY <1>1, Zenon DEF Philosopher, Call
<1>3. <<a>> \o <<b>> \o <<c>> \o <<d>> \o <<e>> \o <<f>> = <<a, b, c, d, e, f>>
  <2> PICK S : S = {a, b, c, d, e, f}
    OBVIOUS
  <2>1. Longer(S, <<a>>, b, <<a, b>>)
    BY DEF Longer
  <2>2. Longer(S, <<a, b>>, c, <<a, b, c>>)
    BY DEF Longer
  <2>3. Longer(S, <<a, b, c>>, d, <<a, b, c, d>>)
    BY DEF Longer
  <2>4. Longer(S, <<a, b, c, d>>, e, <<a, b, c, d, e>>)
    BY DEF Longer
  <2>5. Longer(S, <<a, b, c, d, e>>, f, <<a, b, c, d, e, f>>)
    BY DEF Longer
  <2>6. <<a>> \o <<b>> = <<a, b>>
    BY <2>1, LongerIs, Zenon
  <2>7. <<a, b>> \o <<c>> = <<a, b, c>>
    BY <2>2, LongerIs, Zenon
  <2>8. <<a, b, c>> \o <<d>> = <<a, b, c, d>>
    BY <2>3, LongerIs, Zenon
  <2>9. <<a, b, c, d>> \o <<e>> = <<a, b, c, d, e>>
    BY <2>4, LongerIs, Zenon
  <2>10. <<a, b, c, d, e>> \o <<f>> = <<a, b, c, d, e, f>>
    BY <2>5, LongerIs, Zenon
  <2> QED BY <2>6, <2>7, <2>8, <2>9, <2>10, Zenon
<1> QED BY <1>1, <1>2, <1>3

LEMMA ForkCalls ==
  ASSUME test = "philosophers", test \in DOMAIN Tests, NEW f \in 0 .. N - 1
  PROVE  /\ f \in Sems /\ KeptBy(Tests[test].program, f)
         /\ CreatedWith(Tests[test].initial, f) = 1
         /\ \A p \in Proc : Tests[test].program[p] = IF p < N THEN Philosopher(p) ELSE << >>
<1>1. /\ Tests[test].initial = [i \in 1 .. N + 1 |-> IF i = N + 1 THEN Room ELSE Forks]
      /\ Tests[test].program = [i \in Proc |-> IF i < N THEN Philosopher(i) ELSE << >>]
  BY DEF Tests, Philosophers
<1>2. N \in Nat /\ MAX_SEMAPHORE \in Nat
  BY NumberFacts
<1>3. Len(Tests[test].initial) = N + 1
  BY <1>1, <1>2
<1>4. f \in Sems
  <2>1. Len(Tests[test].initial) <= MAX_SEMAPHORE
    BY TestIs
  <2> QED BY <1>2, <1>3, <2>1 DEF Sems
<1>5. CreatedWith(Tests[test].initial, f) = 1
  <2>1. f + 1 \in 1 .. N + 1 /\ f + 1 # N + 1 /\ f < N + 1
    BY <1>2
  <2> QED BY <1>1, <1>3, <2>1 DEF CreatedWith, Forks
<1>6. \A p \in Proc : Tests[test].program[p] = IF p < N THEN Philosopher(p) ELSE << >>
  BY <1>1
<1>7. KeptBy(Tests[test].program, f)
  <2> SUFFICES ASSUME NEW p \in Proc, NEW i \in 1 .. Len(Tests[test].program[p])
               PROVE  Tests[test].program[p][i] # <<"destroy", f>>
    BY DEF KeptBy
  <2>1. CASE p < N
    <3>1. Tests[test].program[p] = Philosopher(p)
      BY <1>6, <2>1
    <3>2. \A k \in 1 .. Len(Philosopher(p)) : Philosopher(p)[k][1] # "destroy"
      BY PhilosopherIs
    <3> QED BY <3>1, <3>2
  <2>2. CASE ~(p < N)
    <3>1. Len(Tests[test].program[p]) = 0
      BY <1>6, <2>2
    <3> QED BY <3>1
  <2> QED BY <2>1, <2>2
<1> QED BY <1>4, <1>5, <1>6, <1>7

\* However many philosophers there are, two neighbours never eat at once.
THEOREM AlwaysApart == Spec => []NeighboursApart
<1>1. SInv => NeighboursApart
  <2> SUFFICES ASSUME SInv, test = "philosophers", NEW i \in 0 .. N - 1, Eats(i), Eats(Right(i))
               PROVE  FALSE
    BY DEF NeighboursApart
  <2>1. test \in DOMAIN Tests /\ \A p \in Proc : pc[p] \in Nat /\ pc[p] <= Len(Tests[test].program[p])
    BY DEF SInv, LInv, Placement
  <2>2. PICK r \in 0 .. N - 1 : r = Right(i) /\ r # i
    BY RightIs
  <2>3. Right(r) # r /\ N \in Nat /\ \A q \in 0 .. N - 1 : Right(q) = r => q = i
    <3>1. \A q \in 0 .. N - 1 : Right(q) = IF q = N - 1 THEN 0 ELSE q + 1
      BY RightIs
    <3>2. N \in Nat /\ N >= 2
      BY NumberFacts
    <3>3. ASSUME NEW q \in 0 .. N - 1, Right(q) = r PROVE q = i
      BY <2>2, <3>1, <3>2, <3>3
    <3> QED BY <3>2, <3>3, RightIs
  <2>4. PICK prog : prog = Tests[test].program
    OBVIOUS
  <2>5. /\ r \in Sems /\ KeptBy(prog, r) /\ CreatedWith(Tests[test].initial, r) = 1
        /\ \A p \in Proc : prog[p] = IF p < N THEN Philosopher(p) ELSE << >>
    BY <2>1, <2>4, ForkCalls
  <2>6. \A q \in Proc : q < N => q \in 0 .. N - 1
    BY <2>3 DEF Proc
  <2>7. \A q, k, call : <<q, k>> \in Passed(call) <=>
          q \in Proc /\ k \in 1 .. pc[q] /\ prog[q][k] = call /\ ~(q \in asleep /\ k = pc[q])
    <3>1. \A call : Passed(call) = Behind(prog, pc, asleep, call)
      BY <2>4 DEF Passed, Behind, Made, Returned
    <3> QED BY <3>1, BehindIs
  <2>8. \A q \in Proc : \A k \in 1 .. pc[q] :
          /\ q \in 0 .. N - 1
          /\ k \in 1 .. 6
          /\ prog[q][k] = << <<"wait", N>>, <<"wait", q>>, <<"wait", Right(q)>>,
                            <<"post", Right(q)>>, <<"post", q>>, <<"post", N>> >>[k]
    <3> SUFFICES ASSUME NEW q \in Proc, NEW k \in 1 .. pc[q]
                 PROVE  /\ q \in 0 .. N - 1
                        /\ k \in 1 .. 6
                        /\ prog[q][k] = << <<"wait", N>>, <<"wait", q>>, <<"wait", Right(q)>>,
                                          <<"post", Right(q)>>, <<"post", q>>, <<"post", N>> >>[k]
      OBVIOUS
    <3>1. Len(prog[q]) >= 1
      <4>1. pc[q] \in Nat /\ pc[q] <= Len(prog[q]) /\ pc[q] >= 1
        BY <2>1, <2>4
      <4>2. Len(prog[q]) \in Nat
        BY <2>1, <2>4, TestIs
      <4> QED BY <4>1, <4>2
    <3>2. q < N
      <4>1. CASE ~(q < N)
        <5>1. Len(prog[q]) = 0
          BY <2>5, <4>1
        <5> QED BY <3>1, <5>1
      <4> QED BY <4>1
    <3>3. prog[q] = << <<"wait", N>>, <<"wait", q>>, <<"wait", Right(q)>>,
                       <<"post", Right(q)>>, <<"post", q>>, <<"post", N>> >>
      BY <2>5, <3>2, PhilosopherIs
    <3>4. Len(prog[q]) = 6
      BY <3>3
    <3>5. k \in 1 .. 6
      <4>1. pc[q] \in Nat /\ pc[q] <= 6
        BY <2>1, <2>4, <3>4
      <4> QED BY <4>1
    <3> QED BY <2>6, <3>2, <3>3, <3>5
  <2>9. \A q \in Proc : \A k \in 1 .. pc[q] : prog[q][k] = <<"wait", Right(q)>> => k = 3
    <3> SUFFICES ASSUME NEW q \in Proc, NEW k \in 1 .. pc[q], prog[q][k] = <<"wait", Right(q)>>
                 PROVE  k = 3
      OBVIOUS
    <3>1. q \in 0 .. N - 1 /\ Right(q) \in 0 .. N - 1 /\ Right(q) # q /\ Right(q) # N
      <4>1. q \in 0 .. N - 1
        BY <2>8
      <4>2. Right(q) \in 0 .. N - 1 /\ Right(q) # q
        BY <4>1, RightIs
      <4>3. \A x \in 0 .. N - 1 : x # N
        BY <2>3
      <4> QED BY <4>1, <4>2, <4>3
    <3>2. k \in 1 .. 6 /\ prog[q][k] = << <<"wait", N>>, <<"wait", q>>, <<"wait", Right(q)>>,
                                          <<"post", Right(q)>>, <<"post", q>>, <<"post", N>> >>[k]
      BY <2>8
    <3>3. k = 1 \/ k = 2 \/ k = 3 \/ k = 4 \/ k = 5 \/ k = 6
      BY <3>2
    <3> QED BY <3>1, <3>2, <3>3
  <2>10. /\ <<i, pc[i]>> \in Passed(<<"wait", r>>) /\ i \in Proc /\ pc[i] = 3
    <3>1. <<i, pc[i]>> \in Passed(<<"wait", r>>)
      BY <2>2 DEF Eats
    <3> QED BY <2>2, <2>7, <2>9, <3>1
  <2>11. r \in Proc /\ pc[r] = 3
    <3>1. <<r, pc[r]>> \in Passed(<<"wait", Right(r)>>)
      BY <2>2 DEF Eats
    <3> QED BY <2>7, <2>9, <3>1
  <2>12. <<r, 2>> \in Passed(<<"wait", r>>)
    <3>1. 2 \in 1 .. pc[r] /\ 2 # pc[r]
      BY <2>11
    <3>2. prog[r][2] = <<"wait", r>>
      BY <2>8, <2>11, <3>1
    <3> QED BY <2>7, <2>11, <3>1, <3>2
  <2>13. Passed(<<"post", r>>) = {}
    <3>1. PICK B : B = Passed(<<"post", r>>)
      OBVIOUS
    <3>2. \A x \in B : x = <<x[1], x[2]>>
      <4>1. B = Behind(prog, pc, asleep, <<"post", r>>)
        BY <2>4, <3>1 DEF Passed, Behind, Made, Returned
      <4> QED BY <4>1, BehindIs
    <3>3. ASSUME NEW q, NEW k, <<q, k>> \in B PROVE FALSE
      <4>1. q \in Proc /\ k \in 1 .. pc[q] /\ prog[q][k] = <<"post", r>>
        BY <2>7, <3>1, <3>3
      <4>2. /\ q \in 0 .. N - 1 /\ k \in 1 .. 6
            /\ prog[q][k] = << <<"wait", N>>, <<"wait", q>>, <<"wait", Right(q)>>,
                              <<"post", Right(q)>>, <<"post", q>>, <<"post", N>> >>[k]
        BY <2>8, <4>1
      <4>3. k = 1 \/ k = 2 \/ k = 3 \/ k = 4 \/ k = 5 \/ k = 6
        BY <4>2
      <4>4. (k = 4 /\ Right(q) = r) \/ (k = 5 /\ q = r)
        <5>1. r # N
          BY <2>3
        <5> QED BY <4>1, <4>2, <4>3, <5>1
      <4>5. q = i \/ q = r
        BY <2>3, <4>2, <4>4
      <4>6. k \in 1 .. 3
        BY <2>10, <2>11, <4>1, <4>5
      <4> QED BY <4>4, <4>6
    <3> QED BY <3>1, <3>2, <3>3
  <2>14. PICK in : in = Passed(<<"wait", r>>)
    OBVIOUS
  <2>15. IsFiniteSet(in) /\ Cardinality(in) \in Nat /\ Cardinality(in) <= 1
    <3>1. /\ IsFiniteSet(Passed(<<"wait", r>>)) /\ Cardinality(Passed(<<"wait", r>>)) \in Nat
          /\ Cardinality(Passed(<<"wait", r>>)) <= Cardinality(Passed(<<"post", r>>)) + 1
      BY <2>4, <2>5, AtMost
    <3>2. Cardinality({}) = 0
      BY FS_EmptySet
    <3> QED BY <2>13, <2>14, <3>1, <3>2
  <2>16. PICK x, y : x = <<i, 3>> /\ y = <<r, 2>>
    OBVIOUS
  <2>17. x \in in /\ y \in in /\ x # y
    BY <2>2, <2>10, <2>12, <2>14, <2>16
  <2>18. Cardinality({x, y}) = 2 /\ Cardinality({x, y}) <= Cardinality(in)
    <3>1. IsFiniteSet({x}) /\ Cardinality({x}) = 1
      BY FS_Singleton
    <3>2. Cardinality({x} \cup {y}) = Cardinality({x}) + 1
      BY <2>17, <3>1, FS_AddElement
    <3>3. {x} \cup {y} = {x, y}
      OBVIOUS
    <3>4. Cardinality({x, y}) <= Cardinality(in)
      BY <2>15, <2>17, FS_Subset
    <3> QED BY <3>1, <3>2, <3>3, <3>4
  <2> QED BY <2>15, <2>18
<1> QED BY <1>1, AlwaysCounted, PTL

=============================================================================
