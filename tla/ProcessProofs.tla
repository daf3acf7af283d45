---------------------------- MODULE ProcessProofs ----------------------------
(***************************************************************************)
(* Proofs about Process, for any number of slots, any slice and any sleep  *)
(* times: its type, the validity of the pools, the place of the running    *)
(* process, that schedule never runs dry, and that a parent that waits is  *)
(* woken.  The inductive invariant is IInv of module Process.  The         *)
(* theorems assume programs that only start threads of their own (no       *)
(* "startAny"), and, as Process does, with interrupts off (Quiet): forked  *)
(* ones.  The last one assumes programs without threads.  First, what the  *)
(* list operations of Pool do to the lists they are called on, for pools   *)
(* in which every node is in one list at most, as pool.h:69 asks.          *)
(***************************************************************************)
EXTENDS Process, SequenceTheorems, TLAPS

\* A list holds no node twice.
NoDup(S, s) == s \in Seq(S) /\ IsInjective(s)

\* The lists hold no node twice, and the sizes count them.
Valid(S, P) ==
    /\ P \in Pools(S)
    /\ \A l \in PoolNames : NoDup(S, P.list[l]) /\ P.size[l] = Len(P.list[l])

\* What a list operation makes of the pools P: Q has p added to list l; the
\* head of l removed; p removed; p moved to list k; the same nodes in its lists.
\* The head of a list stays, unless it is p that leaves.
HeadsKept(P, Q, p) ==
    \A m \in PoolNames :
       P.list[m] # << >> /\ P.list[m][1] # p => Q.list[m] # << >> /\ Q.list[m][1] = P.list[m][1]

Added(S, P, Q, l, p) ==
    /\ Valid(S, Q)
    /\ \A m \in PoolNames :
          Range(Q.list[m]) = IF m = l THEN Range(P.list[m]) \cup {p} ELSE Range(P.list[m])
    /\ \A q : HeadsKept(P, Q, q)

Picked(S, P, Q, l) ==
    /\ HeadOf(P, l) \in S
    /\ HeadOf(P, l) \in Range(P.list[l])
    /\ Valid(S, Q)
    /\ \A m \in PoolNames :
          Range(Q.list[m]) = IF m = l THEN Range(P.list[m]) \ {HeadOf(P, l)} ELSE Range(P.list[m])
    /\ \A m \in PoolNames : m # l => Q.list[m] = P.list[m]

Freed(S, P, Q, p) ==
    /\ Valid(S, Q)
    /\ \A m \in PoolNames : Range(Q.list[m]) = Range(P.list[m]) \ {p}
    /\ HeadsKept(P, Q, p)

Moved(S, P, Q, k, p) ==
    /\ Valid(S, Q)
    /\ \A m \in PoolNames :
          Range(Q.list[m]) = IF m = k THEN Range(P.list[m]) \cup {p} ELSE Range(P.list[m]) \ {p}
    /\ HeadsKept(P, Q, p)

Rotated(S, P, Q) ==
    /\ Valid(S, Q)
    /\ \A m \in PoolNames : Range(Q.list[m]) = Range(P.list[m])
-----------------------------------------------------------------------------
\* RemoveFirst removes the one occurrence of an element.
LEMMA RemoveFirstIsRemoveAt ==
  ASSUME NEW S, NEW s \in Seq(S), IsInjective(s), NEW k \in 1 .. Len(s)
  PROVE  RemoveFirst(s, s[k]) = RemoveAt(s, k)
<1> DEFINE I == {i \in 1 .. Len(s) : s[i] = s[k]}
<1>1. I = {k}  BY DEF IsInjective
<1>2. Min(I) = k  BY <1>1 DEF Min
<1> QED BY <1>1, <1>2 DEF RemoveFirst, SelectInSeq

\* Length and elements of a sequence without its k-th element.
LEMMA RemoveAtElements ==
  ASSUME NEW S, NEW s \in Seq(S), NEW k \in 1 .. Len(s)
  PROVE  /\ RemoveAt(s, k) \in Seq(S)
         /\ Len(RemoveAt(s, k)) = Len(s) - 1
         /\ \A i \in 1 .. Len(s) - 1 : RemoveAt(s, k)[i] = IF i < k THEN s[i] ELSE s[i + 1]
<1> DEFINE a == SubSeq(s, 1, k - 1)
           b == SubSeq(s, k + 1, Len(s))
<1>1. /\ a \in Seq(S) /\ Len(a) = k - 1
      /\ \A i \in 1 .. k - 1 : a[i] = s[i]
  BY SubSeqProperties, \A i \in 1 .. k - 1 : s[i] \in S
<1>2. /\ b \in Seq(S) /\ Len(b) = Len(s) - k
      /\ \A i \in 1 .. Len(s) - k : b[i] = s[i + k]
  <2>1. \A i \in k + 1 .. Len(s) : s[i] \in S  OBVIOUS
  <2>2. /\ b \in Seq(S)
        /\ Len(b) = IF k + 1 <= Len(s) THEN Len(s) - (k + 1) + 1 ELSE 0
        /\ \A i \in 1 .. Len(s) - (k + 1) + 1 : b[i] = s[(k + 1) + i - 1]
    BY <2>1, SubSeqProperties, k + 1 \in Int, Len(s) \in Int
  <2> QED BY <2>2
<1>3. RemoveAt(s, k) = a \o b  BY DEF RemoveAt
<1>4. /\ a \o b \in Seq(S) /\ Len(a \o b) = Len(a) + Len(b)
      /\ \A i \in 1 .. Len(a) + Len(b) : (a \o b)[i] = IF i <= Len(a) THEN a[i] ELSE b[i - Len(a)]
  BY <1>1, <1>2, ConcatProperties
<1> DEFINE c == a \o b
<1> HIDE DEF a, b, c
<1>5. \A i \in 1 .. Len(s) - 1 : c[i] = IF i < k THEN s[i] ELSE s[i + 1]
  <2> TAKE i \in 1 .. Len(s) - 1
  <2>1. c[i] = IF i <= k - 1 THEN a[i] ELSE b[i - (k - 1)]  BY <1>1, <1>2, <1>4 DEF c
  <2>2. CASE i < k  BY <2>1, <2>2, <1>1
  <2>3. CASE i >= k  BY <2>1, <2>3, <1>2, i - (k - 1) \in 1 .. Len(s) - k, i - (k - 1) + k = i + 1
  <2> QED BY <2>2, <2>3
<1> USE DEF c
<1> QED BY <1>1, <1>2, <1>3, <1>4, <1>5

\* Taking an element out of a list without duplicates takes out just that, and
\* keeps the head if that is another one.
LEMMA RemoveFirstNoDup ==
  ASSUME NEW S, NEW s, NoDup(S, s), NEW e \in Range(s)
  PROVE  /\ NoDup(S, RemoveFirst(s, e))
         /\ Len(RemoveFirst(s, e)) = Len(s) - 1
         /\ Range(RemoveFirst(s, e)) = Range(s) \ {e}
         /\ s[1] # e => RemoveFirst(s, e)[1] = s[1]
<1>0. s \in Seq(S) /\ IsInjective(s)  BY DEF NoDup
<1>1. PICK k \in 1 .. Len(s) : s[k] = e  BY <1>0 DEF Range
<1> DEFINE r == RemoveAt(s, k)
<1>2. RemoveFirst(s, e) = r  BY <1>0, <1>1, RemoveFirstIsRemoveAt
<1>3. /\ r \in Seq(S) /\ Len(r) = Len(s) - 1
      /\ \A i \in 1 .. Len(s) - 1 : r[i] = IF i < k THEN s[i] ELSE s[i + 1]
  BY <1>0, RemoveAtElements
<1> HIDE DEF r
<1>4. DOMAIN r = 1 .. Len(s) - 1  BY <1>3
<1>5. \A i, j \in 1 .. Len(s) : s[i] = s[j] => i = j  BY <1>0 DEF IsInjective
<1>6. IsInjective(r)  BY <1>0, <1>3, <1>4, <1>5 DEF IsInjective
<1>7. Range(r) = Range(s) \ {e}
  <2>1. ASSUME NEW i \in 1 .. Len(s) - 1 PROVE r[i] \in Range(s) \ {e}
    BY <2>1, <1>0, <1>1, <1>3, <1>5 DEF Range
  <2>2. ASSUME NEW j \in 1 .. Len(s), s[j] # e PROVE \E i \in 1 .. Len(s) - 1 : r[i] = s[j]
    <3>1. CASE j < k  BY <3>1, <1>0, <1>3, j \in 1 .. Len(s) - 1
    <3>2. CASE j > k
      <4>1. j - 1 \in 1 .. Len(s) - 1 /\ ~(j - 1 < k) /\ (j - 1) + 1 = j  BY <3>2, <1>0
      <4>2. r[j - 1] = s[j]  BY <4>1, <1>3
      <4> QED BY <4>1, <4>2
    <3> QED BY <3>1, <3>2, <2>2, <1>1
  <2>3. \A x \in Range(r) : x \in Range(s) \ {e}  BY <2>1, <1>4 DEF Range
  <2>4. ASSUME NEW x \in Range(s) \ {e} PROVE x \in Range(r)
    <3>1. PICK j \in 1 .. Len(s) : s[j] = x  BY <1>0 DEF Range
    <3>2. PICK i \in 1 .. Len(s) - 1 : r[i] = x  BY <2>2, <3>1
    <3> QED BY <1>4, <3>2 DEF Range
  <2> QED BY <2>3, <2>4
<1>8. s[1] # e => r[1] = s[1]
  BY <1>0, <1>1, <1>3, k # 1 => 1 \in 1 .. Len(s) - 1
<1> QED BY <1>2, <1>3, <1>6, <1>7, <1>8 DEF NoDup

\* A list that does not hold the element stays as it is.
LEMMA RemoveFirstAbsent ==
  ASSUME NEW S, NEW s \in Seq(S), NEW e, e \notin Range(s)
  PROVE  RemoveFirst(s, e) = s
BY DEF RemoveFirst, Range

\* Appending a new element.
LEMMA AppendNoDup ==
  ASSUME NEW S, NEW s, NoDup(S, s), NEW e \in S, e \notin Range(s)
  PROVE  /\ NoDup(S, Append(s, e))
         /\ Len(Append(s, e)) = Len(s) + 1
         /\ Range(Append(s, e)) = Range(s) \cup {e}
         /\ s # << >> => Append(s, e)[1] = s[1]
<1> DEFINE t == Append(s, e)
<1>1. s \in Seq(S) /\ IsInjective(s)  BY DEF NoDup
<1>2. /\ t \in Seq(S) /\ Len(t) = Len(s) + 1
      /\ \A i \in 1 .. Len(s) : t[i] = s[i]
      /\ t[Len(s) + 1] = e
  BY <1>1, AppendProperties
<1> HIDE DEF t
<1>3. DOMAIN t = 1 .. Len(s) + 1  BY <1>2
<1>4. \A i \in 1 .. Len(s) : s[i] # e  BY <1>1 DEF Range
<1>5. IsInjective(t)  BY <1>1, <1>2, <1>3, <1>4 DEF IsInjective
<1>6. Range(t) = Range(s) \cup {e}
  <2>1. \A i \in 1 .. Len(s) + 1 : t[i] \in Range(s) \cup {e}  BY <1>1, <1>2 DEF Range
  <2>2. \A i \in 1 .. Len(s) : s[i] \in Range(t)  BY <1>1, <1>2, <1>3 DEF Range
  <2>3. e \in Range(t)  BY <1>1, <1>2, <1>3, Len(s) + 1 \in 1 .. Len(s) + 1 DEF Range
  <2> QED BY <2>1, <2>2, <2>3, <1>1, <1>3 DEF Range
<1>7. s # << >> => t[1] = s[1]  BY <1>1, <1>2
<1> QED BY <1>2, <1>5, <1>6, <1>7 DEF NoDup, t

\* Taking the head off.
LEMMA TailNoDup ==
  ASSUME NEW S, NEW s, NoDup(S, s), s # << >>
  PROVE  /\ s[1] \in S /\ s[1] \in Range(s)
         /\ NoDup(S, Tail(s))
         /\ Len(Tail(s)) = Len(s) - 1
         /\ Range(Tail(s)) = Range(s) \ {s[1]}
<1> DEFINE t == Tail(s)
<1>1. s \in Seq(S) /\ IsInjective(s) /\ 1 \in 1 .. Len(s)  BY DEF NoDup
<1>2. /\ t \in Seq(S) /\ Len(t) = Len(s) - 1
      /\ \A i \in 1 .. Len(t) : t[i] = s[i + 1]
  BY <1>1, HeadTailProperties
<1> HIDE DEF t
<1>3. DOMAIN t = 1 .. Len(s) - 1  BY <1>2
<1>4. \A i, j \in 1 .. Len(s) : s[i] = s[j] => i = j  BY <1>1 DEF IsInjective
<1>5. IsInjective(t)  BY <1>1, <1>2, <1>3, <1>4 DEF IsInjective
<1>6. Range(t) = Range(s) \ {s[1]}
  <2>1. \A i \in 1 .. Len(s) - 1 : t[i] \in Range(s) \ {s[1]}  BY <1>1, <1>2, <1>4 DEF Range
  <2>2. ASSUME NEW j \in 1 .. Len(s), s[j] # s[1] PROVE s[j] \in Range(t)
    BY <2>2, <1>1, <1>2, <1>3, j - 1 \in 1 .. Len(s) - 1, (j - 1) + 1 = j DEF Range
  <2> QED BY <2>1, <2>2, <1>1, <1>3 DEF Range
<1> QED BY <1>1, <1>2, <1>5, <1>6 DEF NoDup, t, Range
-----------------------------------------------------------------------------
\* insert_tail of a node that is in no list of the pool.
LEMMA InsertTailValid ==
  ASSUME NEW S, NEW P, Valid(S, P), NEW l \in PoolNames, NEW p \in S,
         p \notin Range(P.list[l])
  PROVE  Added(S, P, InsertTail(P, l, p), l, p)
<1> DEFINE Q == InsertTail(P, l, p)
<1>1. /\ P.list \in [PoolNames -> Seq(S)] /\ P.size \in [PoolNames -> Int]
      /\ \A m \in PoolNames : NoDup(S, P.list[m]) /\ P.size[m] = Len(P.list[m])
  BY DEF Valid, Pools
<1> DEFINE t == Append(P.list[l], p)
<1>2. /\ NoDup(S, t) /\ Len(t) = Len(P.list[l]) + 1
      /\ Range(t) = Range(P.list[l]) \cup {p}
      /\ P.list[l] # << >> => t[1] = P.list[l][1]
      /\ t \in Seq(S) /\ t # << >>
  BY <1>1, AppendNoDup, AppendProperties
<1> HIDE DEF t
<1>3. /\ Q.list = [P.list EXCEPT ![l] = t]
      /\ Q.size = [P.size EXCEPT ![l] = P.size[l] + 1]
      /\ Q = [list |-> Q.list, size |-> Q.size]
  BY DEF InsertTail, t
<1> HIDE DEF Q
<1>4. Q \in Pools(S)
  <2>1. Q.list \in [PoolNames -> Seq(S)]  BY <1>1, <1>2, <1>3
  <2>2. Q.size \in [PoolNames -> Int]  BY <1>1, <1>3
  <2> QED BY <2>1, <2>2, <1>3 DEF Pools
<1>5. \A m \in PoolNames : Q.list[m] = IF m = l THEN t ELSE P.list[m]  BY <1>1, <1>3
<1>6. \A m \in PoolNames : Q.size[m] = IF m = l THEN P.size[l] + 1 ELSE P.size[m]  BY <1>1, <1>3
<1>7. Valid(S, Q)  BY <1>1, <1>2, <1>4, <1>5, <1>6 DEF Valid
<1> QED BY <1>2, <1>5, <1>7 DEF Q, Added, HeadsKept

\* pick_head of a list that is not empty.
LEMMA PickHeadValid ==
  ASSUME NEW S, NEW P, Valid(S, P), NEW l \in PoolNames, ~IsEmptyPool(P, l)
  PROVE  Picked(S, P, PickHead(P, l), l)
<1> DEFINE Q == PickHead(P, l)
<1>1. /\ P.list \in [PoolNames -> Seq(S)] /\ P.size \in [PoolNames -> Int]
      /\ \A m \in PoolNames : NoDup(S, P.list[m]) /\ P.size[m] = Len(P.list[m])
  BY DEF Valid, Pools
<1> DEFINE s == P.list[l]
           t == Tail(s)
<1>2. s # << >>  BY <1>1 DEF IsEmptyPool
<1>3. /\ s[1] \in S /\ s[1] \in Range(s)
      /\ NoDup(S, t) /\ Len(t) = Len(s) - 1
      /\ Range(t) = Range(s) \ {s[1]} /\ t \in Seq(S)
  BY <1>1, <1>2, TailNoDup DEF NoDup
<1>4. HeadOf(P, l) = s[1]  BY DEF HeadOf
<1> HIDE DEF t
<1>5. /\ Q.list = [P.list EXCEPT ![l] = t]
      /\ Q.size = [P.size EXCEPT ![l] = P.size[l] - 1]
      /\ Q = [list |-> Q.list, size |-> Q.size]
  BY DEF PickHead, t
<1> HIDE DEF Q
<1>6. Q \in Pools(S)
  <2>1. Q.list \in [PoolNames -> Seq(S)]  BY <1>1, <1>3, <1>5
  <2>2. Q.size \in [PoolNames -> Int]  BY <1>1, <1>5
  <2> QED BY <2>1, <2>2, <1>5 DEF Pools
<1>7. \A m \in PoolNames : Q.list[m] = IF m = l THEN t ELSE P.list[m]  BY <1>1, <1>5
<1>8. \A m \in PoolNames : Q.size[m] = IF m = l THEN P.size[l] - 1 ELSE P.size[m]  BY <1>1, <1>5
<1>9. Valid(S, Q)  BY <1>1, <1>3, <1>6, <1>7, <1>8 DEF Valid
<1> QED BY <1>3, <1>4, <1>7, <1>9 DEF Q, Picked

\* free_proc of a node that is in the list it is said to be in, and in no other.
LEMMA FreeProcValid ==
  ASSUME NEW S, NEW P, Valid(S, P), NEW l \in PoolNames, NEW p \in Range(P.list[l]),
         \A m \in PoolNames : m # l => p \notin Range(P.list[m])
  PROVE  Freed(S, P, FreeProc(P, l, p), p)
<1> DEFINE Q == FreeProc(P, l, p)
<1>1. /\ P.list \in [PoolNames -> Seq(S)] /\ P.size \in [PoolNames -> Int]
      /\ \A m \in PoolNames : NoDup(S, P.list[m]) /\ P.size[m] = Len(P.list[m])
  BY DEF Valid, Pools
<1> DEFINE s == P.list[l]
           t == RemoveFirst(s, p)
<1>2. /\ NoDup(S, t) /\ Len(t) = Len(s) - 1
      /\ Range(t) = Range(s) \ {p} /\ (s[1] # p => t[1] = s[1]) /\ t \in Seq(S)
  BY <1>1, RemoveFirstNoDup DEF NoDup
<1>3. \A m \in PoolNames : m # l => RemoveFirst(P.list[m], p) = P.list[m]
  BY <1>1, RemoveFirstAbsent
<1>4. /\ \A m \in PoolNames : Q.list[m] = IF m = l THEN t ELSE P.list[m]
      /\ Q.list = [m \in PoolNames |-> IF m = l THEN t ELSE P.list[m]]
      /\ Q.size = [P.size EXCEPT ![l] = P.size[l] - 1]
      /\ Q = [list |-> Q.list, size |-> Q.size]
  BY <1>3 DEF FreeProc
<1>5. s[1] # p /\ s # << >> => t # << >>
  <2>1. SUFFICES ASSUME s # << >>, s[1] # p, t = << >> PROVE FALSE  OBVIOUS
  <2>2. s[1] \in Range(s) \ {p}  BY <1>1, <2>1, 1 \in 1 .. Len(s) DEF Range
  <2> QED BY <2>1, <2>2, <1>2 DEF Range
<1> HIDE DEF Q, t
<1>6. Q \in Pools(S)
  <2>1. Q.list \in [PoolNames -> Seq(S)]  BY <1>1, <1>2, <1>4
  <2>2. Q.size \in [PoolNames -> Int]  BY <1>1, <1>4
  <2> QED BY <2>1, <2>2, <1>4 DEF Pools
<1>7. \A m \in PoolNames : Q.size[m] = IF m = l THEN P.size[l] - 1 ELSE P.size[m]  BY <1>1, <1>4
<1>8. Valid(S, Q)  BY <1>1, <1>2, <1>4, <1>6, <1>7 DEF Valid
<1> QED BY <1>2, <1>4, <1>5, <1>8 DEF Q, Freed, HeadsKept

\* A node goes from the list it is in to another one.
LEMMA MoveValid ==
  ASSUME NEW S, NEW P, Valid(S, P), NEW l \in PoolNames, NEW k \in PoolNames, NEW p \in S,
         p \in Range(P.list[l]), \A m \in PoolNames : m # l => p \notin Range(P.list[m])
  PROVE  Moved(S, P, Move(P, l, k, p), k, p)
<1> DEFINE R == FreeProc(P, l, p)
           Q == InsertTail(R, k, p)
<1>1. Freed(S, P, R, p)  BY FreeProcValid
<1> HIDE DEF R
<1>2. Valid(S, R) /\ p \notin Range(R.list[k])  BY <1>1 DEF Freed
<1>3. Added(S, R, Q, k, p)  BY <1>2, InsertTailValid
<1>4. Q = Move(P, l, k, p)  BY DEF Move, R
<1> HIDE DEF Q
<1> QED BY <1>1, <1>3, <1>4 DEF Freed, Added, Moved, HeadsKept

\* The head goes to the tail of its list.
LEMMA RotateValid ==
  ASSUME NEW S, NEW P, Valid(S, P), NEW l \in PoolNames, ~IsEmptyPool(P, l)
  PROVE  Rotated(S, P, Rotate(P, l))
<1> DEFINE R == PickHead(P, l)
           h == HeadOf(P, l)
           Q == InsertTail(R, l, h)
<1>1. Picked(S, P, R, l)  BY PickHeadValid
<1>2. Q = Rotate(P, l)  BY DEF Rotate
<1> HIDE DEF R
<1>3. Valid(S, R) /\ h \in S /\ h \notin Range(R.list[l])  BY <1>1 DEF Picked
<1> HIDE DEF h
<1>4. Added(S, R, Q, l, h)  BY <1>3, InsertTailValid
<1> HIDE DEF Q
<1> QED BY <1>1, <1>2, <1>4 DEF Picked, Added, Rotated, h
-----------------------------------------------------------------------------
\* The pools hold every node p of S exactly in the list H[p].
Located(S, P, H) ==
    /\ Valid(S, P)
    /\ \A l \in PoolNames, p \in S : p \in Range(P.list[l]) <=> H[p] = l

LocatedHead(S, P, H, l) == HeadOf(P, l) \in S /\ H[HeadOf(P, l)] = l

OthersKept(P, Q, l) == \A m \in PoolNames : m # l => Q.list[m] = P.list[m]

\* Move changes the place of one node.
LEMMA MoveLocated ==
  ASSUME NEW S, NEW T, NEW P, NEW H \in [S -> T], Located(S, P, H),
         NEW k \in S, NEW from \in PoolNames, NEW to \in PoolNames, H[k] = from
  PROVE  /\ Located(S, Move(P, from, to, k), [H EXCEPT ![k] = to])
         /\ HeadsKept(P, Move(P, from, to, k), k)
<1> DEFINE Q == Move(P, from, to, k)
<1>1. /\ Valid(S, P)
      /\ k \in Range(P.list[from])
      /\ \A m \in PoolNames : m # from => k \notin Range(P.list[m])
  BY DEF Located
<1>2. Moved(S, P, Q, to, k)  BY <1>1, MoveValid
<1> HIDE DEF Q
<1>3. \A l \in PoolNames, p \in S : p \in Range(Q.list[l]) <=> [H EXCEPT ![k] = to][p] = l
  <2> TAKE l \in PoolNames, p \in S
  <2>1. p \in Range(P.list[l]) <=> H[p] = l  BY DEF Located
  <2>2. Range(Q.list[l]) = IF l = to THEN Range(P.list[l]) \cup {k} ELSE Range(P.list[l]) \ {k}
    BY <1>2 DEF Moved
  <2>3. [H EXCEPT ![k] = to][p] = IF p = k THEN to ELSE H[p]  OBVIOUS
  <2> QED BY <2>1, <2>2, <2>3
<1>4. Valid(S, Q) /\ HeadsKept(P, Q, k)  BY <1>2 DEF Moved
<1>5. Located(S, Q, [H EXCEPT ![k] = to])  BY <1>3, <1>4 DEF Located
<1> QED BY <1>4, <1>5 DEF Q

\* insert_tail gives a place to a node that had none.
LEMMA InsertLocated ==
  ASSUME NEW S, NEW T, NEW P, NEW H \in [S -> T], Located(S, P, H),
         NEW k \in S, NEW to \in PoolNames, H[k] \notin PoolNames
  PROVE  /\ Located(S, InsertTail(P, to, k), [H EXCEPT ![k] = to])
         /\ \A q : HeadsKept(P, InsertTail(P, to, k), q)
<1> DEFINE Q == InsertTail(P, to, k)
<1>1. Valid(S, P) /\ k \notin Range(P.list[to])  BY DEF Located
<1>2. Added(S, P, Q, to, k)  BY <1>1, InsertTailValid
<1> HIDE DEF Q
<1>3. \A l \in PoolNames, p \in S : p \in Range(Q.list[l]) <=> [H EXCEPT ![k] = to][p] = l
  <2> TAKE l \in PoolNames, p \in S
  <2>1. p \in Range(P.list[l]) <=> H[p] = l  BY DEF Located
  <2>2. Range(Q.list[l]) = IF l = to THEN Range(P.list[l]) \cup {k} ELSE Range(P.list[l])
    BY <1>2 DEF Added
  <2>3. [H EXCEPT ![k] = to][p] = IF p = k THEN to ELSE H[p]  OBVIOUS
  <2> QED BY <2>1, <2>2, <2>3
<1>4. Valid(S, Q) /\ \A q : HeadsKept(P, Q, q)  BY <1>2 DEF Added
<1>5. Located(S, Q, [H EXCEPT ![k] = to])  BY <1>3, <1>4 DEF Located
<1> QED BY <1>4, <1>5 DEF Q

\* pick_head takes a node that was in the list out of it.
LEMMA PickLocated ==
  ASSUME NEW S, NEW T, NEW P, NEW H \in [S -> T], Located(S, P, H),
         NEW l \in PoolNames, ~IsEmptyPool(P, l)
  PROVE  /\ LocatedHead(S, P, H, l)
         /\ Located(S, PickHead(P, l), [H EXCEPT ![HeadOf(P, l)] = "nowhere"])
         /\ OthersKept(P, PickHead(P, l), l)
<1> DEFINE Q == PickHead(P, l)
           h == HeadOf(P, l)
<1>1. Valid(S, P)  BY DEF Located
<1>2. Picked(S, P, Q, l)  BY <1>1, PickHeadValid
<1> HIDE DEF Q
<1>3. h \in S /\ h \in Range(P.list[l])  BY <1>2 DEF Picked
<1>4. H[h] = l  BY <1>3 DEF Located
<1>0. "nowhere" \notin PoolNames  BY DEF PoolNames
<1>5. \A m \in PoolNames, p \in S : p \in Range(Q.list[m]) <=> [H EXCEPT ![h] = "nowhere"][p] = m
  <2> TAKE m \in PoolNames, p \in S
  <2>1. p \in Range(P.list[m]) <=> H[p] = m  BY DEF Located
  <2>2. Range(Q.list[m]) = IF m = l THEN Range(P.list[m]) \ {h} ELSE Range(P.list[m])
    BY <1>2 DEF Picked
  <2>3. [H EXCEPT ![h] = "nowhere"][p] = IF p = h THEN "nowhere" ELSE H[p]  BY <1>3
  <2> QED BY <1>0, <1>4, <2>1, <2>2, <2>3
<1>6. Valid(S, Q) /\ \A m \in PoolNames : m # l => Q.list[m] = P.list[m]  BY <1>2 DEF Picked
<1>7. Located(S, Q, [H EXCEPT ![h] = "nowhere"])  BY <1>5, <1>6 DEF Located
<1> QED BY <1>3, <1>4, <1>6, <1>7 DEF Q, LocatedHead, OthersKept

\* Rotate changes no place.
LEMMA RotateLocated ==
  ASSUME NEW S, NEW P, NEW H, Located(S, P, H), NEW l \in PoolNames, ~IsEmptyPool(P, l)
  PROVE  Located(S, Rotate(P, l), H)
BY RotateValid DEF Located, Rotated

-----------------------------------------------------------------------------
OwnThreadsOnly == "startAny" \notin Calls

Homes == [p \in Pid |-> Home(p)]
Places == PoolNames \cup {"nowhere"}

LEMMA PidFacts == Pid \subseteq Int /\ Idle \in Pid /\ None \notin Pid /\ 1 \in Pid
BY SlotsAssumption DEF Pid, Idle, None

LEMMA HomesType == Homes \in [Pid -> Places]
BY DEF Homes, Home, Places, PoolNames

LEMMA PoolsLocated ==
  ASSUME TypeOK, PoolInv
  PROVE  Located(Pid, pools, Homes)
<1>1. pools \in Pools(Pid)  BY DEF TypeOK
<1>2. pools.list \in [PoolNames -> Seq(Pid)]  BY <1>1 DEF Pools
<1>3. \A l \in PoolNames : NoDup(Pid, pools.list[l])  BY <1>2 DEF NoDup, PoolInv
<1>4. Valid(Pid, pools)  BY <1>1, <1>3 DEF Valid, PoolInv
<1> QED BY <1>4 DEF Located, Homes, PoolInv

\* The idle process is in busy, so head(busy) is not NULL.
LEMMA BusyNotEmpty ==
  ASSUME IInv
  PROVE  pools.list["busy"] # << >> /\ ~IsEmptyPool(pools, "busy")
<1>1. Home(Idle) = "busy"  BY DEF IInv, IdleReady, Home
<1>2. Idle \in Range(pools.list["busy"])
  BY <1>1, PidFacts DEF IInv, PoolInv, PoolNames
<1>3. pools.list["busy"] \in Seq(Pid)  BY DEF IInv, TypeOK, Pools, PoolNames
<1>4. pools.list["busy"] # << >>  BY <1>2 DEF Range
<1>5. pools.size["busy"] = Len(pools.list["busy"])  BY DEF IInv, PoolInv, PoolNames
<1> QED BY <1>3, <1>4, <1>5 DEF IsEmptyPool
-----------------------------------------------------------------------------
\* PoolInv after a step that changes the place of one process.
LEMMA MoveStep ==
  ASSUME IInv, NEW k \in Pid, NEW from \in PoolNames, NEW to \in PoolNames,
         Home(k) = from, pools' = Move(pools, from, to, k),
         \A q \in Pid : Home(q)' = IF q = k THEN to ELSE Home(q)
  PROVE  PoolInv' /\ pools' \in Pools(Pid) /\ HeadsKept(pools, pools', k)
<1>1. Located(Pid, pools, Homes)  BY PoolsLocated DEF IInv
<1>2. Homes[k] = from  BY DEF Homes
<1>3. /\ Located(Pid, pools', [Homes EXCEPT ![k] = to])
      /\ HeadsKept(pools, pools', k)
  BY <1>1, <1>2, HomesType, MoveLocated
<1>4. \A q \in Pid : [Homes EXCEPT ![k] = to][q] = Home(q)'  BY HomesType DEF Homes
<1> QED BY <1>3, <1>4 DEF Located, Valid, NoDup, PoolInv

LEMMA InsertStep ==
  ASSUME IInv, NEW k \in Pid, NEW to \in PoolNames,
         Home(k) = "nowhere", pools' = InsertTail(pools, to, k),
         \A q \in Pid : Home(q)' = IF q = k THEN to ELSE Home(q)
  PROVE  PoolInv' /\ pools' \in Pools(Pid) /\ HeadsKept(pools, pools', k)
<1>1. Located(Pid, pools, Homes)  BY PoolsLocated DEF IInv
<1>2. Homes[k] \notin PoolNames  BY DEF Homes, PoolNames
<1>3. /\ Located(Pid, pools', [Homes EXCEPT ![k] = to])
      /\ HeadsKept(pools, pools', k)
  BY <1>1, <1>2, HomesType, InsertLocated
<1>4. \A q \in Pid : [Homes EXCEPT ![k] = to][q] = Home(q)'  BY HomesType DEF Homes
<1> QED BY <1>3, <1>4 DEF Located, Valid, NoDup, PoolInv

LEMMA PickStep ==
  ASSUME IInv, NEW l \in PoolNames, ~IsEmptyPool(pools, l),
         pools' = PickHead(pools, l),
         \A q \in Pid : Home(q)' = IF q = HeadOf(pools, l) THEN "nowhere" ELSE Home(q)
  PROVE  /\ PoolInv' /\ pools' \in Pools(Pid)
         /\ \A m \in PoolNames : m # l => pools'.list[m] = pools.list[m]
<1> DEFINE k == HeadOf(pools, l)
<1>1. Located(Pid, pools, Homes)  BY PoolsLocated DEF IInv
<1>3. /\ LocatedHead(Pid, pools, Homes, l)
      /\ Located(Pid, pools', [Homes EXCEPT ![k] = "nowhere"])
      /\ OthersKept(pools, pools', l)
  BY <1>1, HomesType, PickLocated
<1>4. \A q \in Pid : [Homes EXCEPT ![k] = "nowhere"][q] = Home(q)'  BY HomesType DEF Homes
<1> QED BY <1>3, <1>4 DEF Located, Valid, NoDup, PoolInv, LocatedHead, OthersKept

\* The head of avai can be picked.
LEMMA AvaiHead ==
  ASSUME IInv, ~IsEmptyPool(pools, "avai")
  PROVE  HeadOf(pools, "avai") \in Pid /\ Home(HeadOf(pools, "avai")) = "avai"
<1>1. Located(Pid, pools, Homes)  BY PoolsLocated DEF IInv
<1>2. "avai" \in PoolNames  BY DEF PoolNames
<1>3. LocatedHead(Pid, pools, Homes, "avai")
  BY <1>1, <1>2, HomesType, PickLocated
<1> QED BY <1>3 DEF Homes, LocatedHead

\* RunningIsHead after a step that makes nobody RUNNING and leaves the head of
\* busy where it is, unless it takes a process that is not RUNNING any more.
LEMMA HeadStep ==
  ASSUME IInv, NEW k, HeadsKept(pools, pools', k), current' = current,
         \A p \in Pid \ {Idle} : state'[p] = "RUNNING" => state[p] = "RUNNING" /\ p # k
  PROVE  RunningIsHead'
<1> SUFFICES ASSUME NEW p \in Pid \ {Idle}, state'[p] = "RUNNING"
             PROVE  p = current /\ HeadOf(pools', "busy") = p
  BY DEF RunningIsHead
<1>1. p = current /\ HeadOf(pools, "busy") = p /\ p # k  BY DEF IInv, RunningIsHead
<1>2. pools'.list["busy"][1] = pools.list["busy"][1]
  BY <1>1, BusyNotEmpty DEF HeadsKept, PoolNames, HeadOf
<1> QED BY <1>1, <1>2 DEF HeadOf
-----------------------------------------------------------------------------
LEMMA InitIInv == Init => IInv
<1> SUFFICES ASSUME Init PROVE IInv  OBVIOUS
<1> USE DEF Init
<1> DEFINE s == [i \in 1 .. MAX_PCB_NUM - 2 |-> i + 1]
<1>1. /\ pools.list["busy"] = <<1, 0>> /\ pools.list["avai"] = s
      /\ pools.list["slp"] = << >> /\ pools.list["zombie"] = << >>
      /\ pools.size["busy"] = 2 /\ pools.size["avai"] = MAX_PCB_NUM - 2
      /\ pools.size["slp"] = 0 /\ pools.size["zombie"] = 0
  BY DEF InitPools, PoolNames
<1>2. /\ s \in Seq(Pid) /\ Len(s) = MAX_PCB_NUM - 2
      /\ DOMAIN s = 1 .. MAX_PCB_NUM - 2
      /\ \A i \in 1 .. MAX_PCB_NUM - 2 : s[i] = i + 1
  <2>1. MAX_PCB_NUM - 2 \in Nat /\ \A i \in 1 .. MAX_PCB_NUM - 2 : i + 1 \in Pid
    BY SlotsAssumption DEF Pid
  <2>2. s \in [1 .. MAX_PCB_NUM - 2 -> Pid]  BY <2>1
  <2>3. s \in Seq(Pid)  BY <2>1, <2>2, SeqDef
  <2> QED BY <2>1, <2>2, <2>3
<1> HIDE DEF s
<1>3. pools \in Pools(Pid)
  <2>1. pools.list \in [PoolNames -> Seq(Pid)]
    <3>1. <<1, 0>> \in Seq(Pid) /\ << >> \in Seq(Pid)  BY PidFacts DEF Idle
    <3>2. \A l \in PoolNames : pools.list[l] \in Seq(Pid)  BY <1>1, <1>2, <3>1 DEF PoolNames
    <3>3. pools.list = [l \in PoolNames |-> pools.list[l]]  BY DEF InitPools
    <3> QED BY <3>2, <3>3
  <2>2. pools.size \in [PoolNames -> Int]
    BY <1>1, SlotsAssumption DEF InitPools, PoolNames
  <2>3. pools = [list |-> pools.list, size |-> pools.size]  BY DEF InitPools
  <2> QED BY <2>1, <2>2, <2>3 DEF Pools
<1>4. TypeOK
  <2>1. iter \in Nat  BY <1>1 DEF WalkStart, IsEmptyPool
  <2>2. /\ intr \in [Pid -> BOOLEAN] /\ uif \in [Pid -> BOOLEAN] /\ nested \in [Pid -> BOOLEAN]
        /\ halted \in BOOLEAN
    <3>1. \A p : (p \in {0, 1}) \in BOOLEAN  OBVIOUS
    <3>2. intr \in [Pid -> BOOLEAN]  BY <3>1
    <3>3. uif \in [Pid -> BOOLEAN]  BY <3>1
    <3>4. nested \in [Pid -> BOOLEAN] /\ halted \in BOOLEAN  OBVIOUS
    <3> QED BY <3>2, <3>3, <3>4
  <2>3. /\ state \in [Pid -> States]
        /\ timeCount \in [Pid -> 0 .. MAX_TIME_COUNT]
        /\ sleepTime \in [Pid -> Int]
    BY SliceAssumption DEF States
  <2>4. /\ current \in Pid
        /\ parent \in [Pid -> Pid \cup {None}]
        /\ pc \in [Pid -> Positions]
        /\ arg \in [Pid -> Pid \cup {None}]
        /\ orphan \subseteq Pid
    BY PidFacts DEF Positions
  <2> QED BY <1>3, <2>1, <2>2, <2>3, <2>4 DEF TypeOK
<1>5. PoolInv
  <2>1. \A p \in Pid : Home(p) = IF p \in {0, 1} THEN "busy" ELSE "avai"
    BY DEF Home, Returning, Reserved
  <2>2. /\ Range(<<1, 0>>) = {0, 1} /\ IsInjective(<<1, 0>>) /\ Len(<<1, 0>>) = 2
        /\ Range(<< >>) = {} /\ IsInjective(<< >>) /\ Len(<< >>) = 0
    BY DEF Range, IsInjective
  <2>3. \A p \in Pid : p \in Range(s) <=> p \notin {0, 1}
    <3>1. \A p \in Pid \ {0, 1} : p - 1 \in 1 .. MAX_PCB_NUM - 2 /\ s[p - 1] = p
      BY <1>2, SlotsAssumption DEF Pid
    <3>2. \A i \in 1 .. MAX_PCB_NUM - 2 : s[i] \notin {0, 1}  BY <1>2
    <3> QED BY <3>1, <3>2, <1>2 DEF Range
  <2>4. IsInjective(s)  BY <1>2 DEF IsInjective
  <2> QED BY <1>1, <1>2, <2>1, <2>2, <2>3, <2>4 DEF PoolInv, PoolNames
<1>6. NeverHalted /\ RunningIsHead /\ ExitIsFinal /\ IdleReady /\ PositionInv /\ HoldInv
  BY PidFacts, SlotsAssumption DEF NeverHalted, RunningIsHead, ExitIsFinal, IdleReady, PositionInv,
     HoldInv, Holding, Idle
<1> QED BY <1>4, <1>5, <1>6 DEF IInv
-----------------------------------------------------------------------------
LEMMA FlagsType ==
  ASSUME TypeOK, NEW p \in Pid
  PROVE  AfterOff(p) \in [Pid -> BOOLEAN] /\ AfterRet(p) \in [Pid -> BOOLEAN]
BY DEF TypeOK, AfterOff, AfterRet

LEMMA WalkStartPositive ==
  ASSUME TypeOK
  PROVE  WalkStart(pools) \in Nat /\ WalkStart(pools) # 0
<1>1. pools.list["slp"] \in Seq(Pid)  BY DEF TypeOK, Pools, PoolNames
<1> QED BY <1>1 DEF WalkStart

\* PoolInv after a step that changes no place.
LEMMA StayStep ==
  ASSUME IInv, pools' = pools, \A q \in Pid : Home(q)' = Home(q)
  PROVE  PoolInv'
BY DEF IInv, PoolInv

LEMMA TickIInv == IInv /\ Tick => IInv'
<1> SUFFICES ASSUME IInv, Tick PROVE IInv'  OBVIOUS
<1> USE DEF IInv, Tick, task, family, flags, ctl
<1>1. iter' \in Nat /\ iter' # 0  BY WalkStartPositive
<1>2. TypeOK'  BY <1>1 DEF TypeOK
<1>3. PoolInv'  BY StayStep DEF Home, Reserved, Returning
<1>4. NeverHalted' /\ RunningIsHead' /\ ExitIsFinal' /\ IdleReady' /\ PositionInv' /\ HoldInv'
  BY <1>1 DEF NeverHalted, RunningIsHead, ExitIsFinal, IdleReady, PositionInv, HoldInv
<1> QED BY <1>2, <1>3, <1>4

LEMMA Int20IInv == ASSUME NEW p \in Pid PROVE IInv /\ Int20(p) => IInv'
<1> SUFFICES ASSUME IInv, Int20(p) PROVE IInv'  OBVIOUS
<1> USE DEF IInv, Int20, Goto, task, family
<1>1. iter' \in Nat /\ iter' # 0  BY WalkStartPositive
<1>2. AfterYield(pc[p]) \in {"wait", "join", "gone", "user"}  BY DEF AfterYield, Yielding
<1>3. TypeOK'
  <2>1. intr' \in [Pid -> BOOLEAN]  BY FlagsType DEF TypeOK
  <2> QED BY <1>1, <1>2, <2>1 DEF TypeOK, Positions
<1>4. \A q \in Pid : pc'[q] \in Holding \cup {"start"} => pc'[q] = pc[q] /\ q # p
  BY <1>2 DEF TypeOK, Holding, Yielding
<1>5. \A q \in Pid : pc[q] \in Holding \cup {"start"} => pc'[q] = pc[q] /\ arg'[q] = arg[q] /\ q # p
  BY DEF TypeOK, Holding, Yielding
<1>6. PoolInv'
  <2>1. Reserved' = Reserved /\ Returning' = Returning
    BY <1>4, <1>5 DEF Reserved, Returning, Holding
  <2> QED BY <2>1, StayStep DEF Home
<1>7. NeverHalted' /\ RunningIsHead' /\ ExitIsFinal'
  BY <1>1 DEF NeverHalted, RunningIsHead, ExitIsFinal, Runs
<1>8. IdleReady'  BY DEF IdleReady, TypeOK, Yielding
<1>9. PositionInv'
  <2>1. \A q \in Pid : pc'[q] \in {"exit", "exited", "gone"} => pc[q] \in {"exit", "exited", "gone"}
    BY DEF TypeOK, AfterYield, Yielding
  <2> QED BY <1>1, <1>4, <2>1 DEF PositionInv
<1>10. HoldInv'
  <2>1. \A q \in Pid : pc'[q] \in {"join", "joinYield", "joinSleep"}
           => pc[q] \in {"join", "joinYield", "joinSleep"} /\ arg'[q] = arg[q]
    BY DEF TypeOK, AfterYield, Yielding
  <2> QED BY <1>4, <1>5, <2>1 DEF HoldInv, Holding
<1> QED BY <1>3, <1>6, <1>7, <1>8, <1>9, <1>10
-----------------------------------------------------------------------------
\* A process in slp is woken: it goes to the tail of busy.
LEMMA AwakeStep ==
  ASSUME IInv, NEW k \in Pid, Home(k) = "slp", Awake(k), current' = current,
         Reserved' = Reserved, Returning' = Returning
  PROVE  PoolInv' /\ pools' \in Pools(Pid) /\ RunningIsHead'
<1>1. state' = [state EXCEPT ![k] = "RUNNABLE"] /\ pools' = Move(pools, "slp", "busy", k)
  BY DEF Awake
<1>2. state \in [Pid -> States]  BY DEF IInv, TypeOK
<1>3. \A q \in Pid : Home(q)' = IF q = k THEN "busy" ELSE Home(q)
  BY <1>1, <1>2 DEF Home
<1>4. "slp" \in PoolNames /\ "busy" \in PoolNames  BY DEF PoolNames
<1>5. PoolInv' /\ pools' \in Pools(Pid) /\ HeadsKept(pools, pools', k)
  BY <1>1, <1>3, <1>4, MoveStep
<1>6. \A p \in Pid \ {Idle} : state'[p] = "RUNNING" => state[p] = "RUNNING" /\ p # k
  BY <1>1, <1>2
<1> QED BY <1>5, <1>6, HeadStep

LEMMA WalkStepIInv == IInv /\ WalkStep => IInv'
<1> SUFFICES ASSUME IInv, WalkStep PROVE IInv'  OBVIOUS
<1> DEFINE p == pools.list["slp"][iter]
<1>1. /\ p \in Pid /\ Home(p) = "slp" /\ iter \in Nat /\ iter # 0
  <2>1. pools.list["slp"] \in Seq(Pid) /\ "slp" \in PoolNames
    BY DEF IInv, TypeOK, Pools, PoolNames
  <2>2. p \in Pid /\ p \in Range(pools.list["slp"])  BY <2>1 DEF WalkStep, Range
  <2> QED BY <2>1, <2>2 DEF IInv, PoolInv, WalkStep
<1>2. state[p] \in {"BLOCKED", "BABY"}
  BY <1>1 DEF Home, IInv, TypeOK, States
<1> HIDE DEF p
<1>3. UNCHANGED <<current, halted, family, flags, ctl>>  BY DEF WalkStep
<1> USE DEF IInv, family, flags, ctl
<1>4. Reserved' = Reserved /\ Returning' = Returning  BY <1>3 DEF Reserved, Returning
<1>5. CASE LastTick(p) /\ Awake(p) /\ UNCHANGED <<timeCount, iter>>
  <2>1. PoolInv' /\ pools' \in Pools(Pid) /\ RunningIsHead'
    BY <1>1, <1>3, <1>4, <1>5, AwakeStep
  <2>2. /\ state' = [state EXCEPT ![p] = "RUNNABLE"]
        /\ sleepTime' = [sleepTime EXCEPT ![p] = 0]
    BY <1>5 DEF Awake
  <2>3. state[p] = "BLOCKED"  BY <1>1, <1>2, <1>5 DEF HoldInv, LastTick
  <2>4. TypeOK'  BY <1>1, <1>3, <1>5, <2>1, <2>2 DEF TypeOK, States
  <2>5. NeverHalted' /\ ExitIsFinal'  BY <1>1, <1>3, <1>5 DEF NeverHalted, ExitIsFinal
  <2>6. IdleReady' /\ PositionInv'
    BY <1>1, <1>3, <1>5, <2>2, <2>3 DEF IdleReady, PositionInv, TypeOK
  <2>7. HoldInv'  BY <1>1, <1>3, <2>2, <2>3 DEF HoldInv, TypeOK
  <2> QED BY <2>1, <2>4, <2>5, <2>6, <2>7
<1>6. CASE /\ sleepTime' = [sleepTime EXCEPT ![p] = IF @ > 0 THEN @ - 1 ELSE @]
           /\ iter' = iter + 1
           /\ UNCHANGED <<state, timeCount, pools>>
  <2>1. TypeOK'  BY <1>1, <1>3, <1>6 DEF TypeOK
  <2>2. PoolInv'  BY <1>4, <1>6, StayStep DEF Home
  <2>3. NeverHalted' /\ RunningIsHead' /\ ExitIsFinal' /\ IdleReady' /\ PositionInv'
    BY <1>1, <1>3, <1>6 DEF NeverHalted, RunningIsHead, ExitIsFinal, IdleReady, PositionInv
  <2>4. HoldInv'  BY <1>1, <1>3, <1>6 DEF HoldInv, TypeOK
  <2> QED BY <2>1, <2>2, <2>3, <2>4
<1> QED BY <1>5, <1>6 DEF WalkStep, p

\* The list and the states after the slice of the current process.
LEMMA SliceStep ==
  ASSUME IInv
  PROVE  /\ Located(Pid, SlicePools, Homes)
         /\ SliceState \in [Pid -> States]
         /\ SliceCount \in [Pid -> 0 .. MAX_TIME_COUNT]
         /\ \A p \in Pid : SliceState[p] # state[p] =>
               p = current /\ state[p] = "RUNNING" /\ SliceState[p] = "RUNNABLE"
<1> USE DEF IInv
<1>1. Located(Pid, pools, Homes) /\ "busy" \in PoolNames  BY PoolsLocated DEF PoolNames
<1>2. ~IsEmptyPool(pools, "busy")  BY BusyNotEmpty
<1>3. Located(Pid, Rotate(pools, "busy"), Homes)  BY <1>1, <1>2, RotateLocated
<1>4. Located(Pid, SlicePools, Homes)  BY <1>1, <1>3 DEF SlicePools
<1>5. /\ SliceState \in [Pid -> States]
      /\ \A p \in Pid : SliceState[p] # state[p] =>
            p = current /\ state[p] = "RUNNING" /\ SliceState[p] = "RUNNABLE"
  BY DEF SliceState, SliceOver, TypeOK, States
<1>6. SliceCount \in [Pid -> 0 .. MAX_TIME_COUNT]
  BY SliceAssumption DEF SliceCount, SliceOver, TypeOK
<1> QED BY <1>4, <1>5, <1>6

\* A pool of located processes with idle in busy is not empty there.
LEMMA LocatedBusy ==
  ASSUME IInv, NEW P, Located(Pid, P, Homes)
  PROVE  /\ ~IsEmptyPool(P, "busy")
         /\ HeadOf(P, "busy") \in Pid /\ Home(HeadOf(P, "busy")) = "busy"
<1>1. Home(Idle) = "busy" /\ "busy" \in PoolNames  BY DEF IInv, IdleReady, Home, PoolNames
<1>2. Idle \in Range(P.list["busy"])  BY <1>1, PidFacts DEF Located, Homes
<1>3. P.list["busy"] \in Seq(Pid) /\ P.size["busy"] = Len(P.list["busy"])
  BY <1>1 DEF Located, Valid, NoDup
<1>4. P.list["busy"] # << >>  BY <1>2 DEF Range
<1>5. ~IsEmptyPool(P, "busy")  BY <1>3, <1>4 DEF IsEmptyPool
<1>6. LocatedHead(Pid, P, Homes, "busy")  BY <1>1, <1>5, HomesType, PickLocated
<1> QED BY <1>5, <1>6 DEF LocatedHead, Homes

LEMMA TickEndIInv == IInv /\ TickEnd => IInv'
<1> SUFFICES ASSUME IInv, TickEnd PROVE IInv'  OBVIOUS
<1> DEFINE P == SlicePools
           Q == SkipIdle(P)
           h == HeadOf(Q, "busy")
<1>1. Located(Pid, P, Homes) /\ ~IsEmptyPool(P, "busy")  BY SliceStep, LocatedBusy
<1>2. Located(Pid, Q, Homes)
  BY <1>1, RotateLocated, "busy" \in PoolNames DEF SkipIdle, PoolNames
<1>3. h \in Pid /\ Home(h) = "busy"  BY <1>2, LocatedBusy
<1>4. state[h] \in {"RUNNABLE", "RUNNING"}  BY <1>3 DEF Home, IInv, TypeOK, States
<1>5. /\ pools' = Q /\ current' = h
      /\ state' = [SliceState EXCEPT ![h] = "RUNNING"]
      /\ halted' = halted /\ iter' = 0 /\ timeCount' = SliceCount
      /\ UNCHANGED <<sleepTime, family, flags, ctl>>
  BY <1>1 DEF TickEnd, Schedule
<1> USE DEF family, flags, ctl
<1>6. /\ SliceState \in [Pid -> States] /\ SliceCount \in [Pid -> 0 .. MAX_TIME_COUNT]
      /\ \A p \in Pid : SliceState[p] # state[p] =>
            p = current /\ state[p] = "RUNNING" /\ SliceState[p] = "RUNNABLE"
  BY SliceStep
<1>7. \A p \in Pid : state'[p] = state[p] \/
        (state[p] \in {"RUNNABLE", "RUNNING"} /\ state'[p] \in {"RUNNABLE", "RUNNING"})
  BY <1>3, <1>4, <1>5, <1>6
<1>8. TypeOK'
  <2>1. Q \in Pools(Pid)  BY <1>2 DEF Located, Valid
  <2>2. state' \in [Pid -> States]  BY <1>5, <1>6 DEF States
  <2> HIDE DEF P, Q, h
  <2> QED BY <1>3, <1>5, <1>6, <2>1, <2>2 DEF IInv, TypeOK
<1>9. PoolInv'
  <2>1. Reserved' = Reserved /\ Returning' = Returning  BY <1>5 DEF Reserved, Returning
  <2>2. \A p \in Pid : Home(p)' = Home(p)  BY <1>7, <2>1 DEF Home
  <2>3. \A p \in Pid : Homes[p] = Home(p)'  BY <2>2 DEF Homes
  <2> HIDE DEF P, Q, h
  <2> QED BY <1>2, <1>5, <2>3 DEF Located, Valid, NoDup, PoolInv
<1>10. RunningIsHead'
  <2> SUFFICES ASSUME NEW p \in Pid \ {Idle}, state'[p] = "RUNNING"
               PROVE  p = h
    BY <1>5 DEF RunningIsHead
  <2> SUFFICES ASSUME p # h PROVE FALSE  OBVIOUS
  <2>1. SliceState[p] = "RUNNING"  BY <1>5, <1>6
  <2>2. state[p] = "RUNNING"  BY <1>6, <2>1
  <2>3. p = current /\ HeadOf(pools, "busy") = p  BY <2>2 DEF IInv, RunningIsHead
  <2>4. ~SliceOver  BY <2>1, <2>3 DEF SliceState, IInv, TypeOK
  <2>5. P = pools  BY <2>4 DEF SlicePools
  <2>6. Q = pools  BY <2>3, <2>5 DEF SkipIdle
  <2> QED BY <2>3, <2>6
<1>11. state'[h] = "RUNNING"  BY <1>3, <1>5, <1>6
<1> HIDE DEF P, Q, h
<1>12. NeverHalted'  BY <1>5 DEF IInv, NeverHalted
<1>13. ExitIsFinal'  BY <1>3, <1>4, <1>5 DEF ExitIsFinal, IInv, PositionInv
<1>14. IdleReady'  BY <1>5, <1>7, PidFacts DEF IInv, IdleReady
<1>15. PositionInv'  BY <1>3, <1>4, <1>5, <1>7, <1>11 DEF IInv, PositionInv
<1>16. HoldInv'
  <2>1. \A p \in Pid : state[p] \in {"DEAD", "BABY"} <=> state'[p] \in {"DEAD", "BABY"}  BY <1>7
  <2>2. \A p \in Pid : state'[p] \in {"DEAD", "BABY"} => state'[p] = state[p]  BY <1>7
  <2> QED BY <1>5, <2>1, <2>2 DEF IInv, HoldInv
<1> QED BY <1>8, <1>9, <1>10, <1>12, <1>13, <1>14, <1>15, <1>16 DEF IInv
-----------------------------------------------------------------------------
\* The current process, RUNNING, goes to sleep.
LEMMA SleepStep ==
  ASSUME IInv, NEW p \in Pid, state[p] = "RUNNING", NEW t \in Int, SetSleep(p, t),
         current' = current, Reserved' = Reserved, Returning' = Returning
  PROVE  PoolInv' /\ pools' \in Pools(Pid) /\ RunningIsHead'
<1>1. state' = [state EXCEPT ![p] = "BLOCKED"] /\ pools' = Move(pools, "busy", "slp", p)
  BY DEF SetSleep
<1>2. state \in [Pid -> States]  BY DEF IInv, TypeOK
<1>3. \A q \in Pid : Home(q)' = IF q = p THEN "slp" ELSE Home(q)
  BY <1>1, <1>2 DEF Home
<1>4. "slp" \in PoolNames /\ "busy" \in PoolNames /\ Home(p) = "busy"  BY DEF PoolNames, Home
<1>5. PoolInv' /\ pools' \in Pools(Pid) /\ HeadsKept(pools, pools', p)
  BY <1>1, <1>3, <1>4, MoveStep
<1>6. \A q \in Pid \ {Idle} : state'[q] = "RUNNING" => state[q] = "RUNNING" /\ q # p
  BY <1>1, <1>2
<1> QED BY <1>5, <1>6, HeadStep

\* A call that puts the current process to sleep and goes on at l.
LEMMA SleepIInv ==
  ASSUME IInv, NEW p \in Pid \ {Idle}, Runs(p), state[p] = "RUNNING",
         pc[p] \in {"user", "wait", "joinSleep"},
         NEW t \in Int, SetSleep(p, t),
         NEW l \in {"yield", "waitYield", "joinYield"}, Goto(p, l),
         l = "joinYield" => arg[p] \in Pid,
         intr' \in [Pid -> BOOLEAN], UNCHANGED <<sched, family, uif, nested, arg>>
  PROVE  IInv'
<1> USE DEF IInv, sched, family
<1>1. /\ pc' = [pc EXCEPT ![p] = l]
      /\ state' = [state EXCEPT ![p] = "BLOCKED"]
      /\ sleepTime' = [sleepTime EXCEPT ![p] = t]
      /\ timeCount' = timeCount
  BY DEF Goto, SetSleep
<1>2. pc \in [Pid -> Positions] /\ state \in [Pid -> States]  BY DEF TypeOK
<1>3. \A q \in Pid : (pc'[q] \in Holding \cup {"start"} \/ pc[q] \in Holding \cup {"start"})
                       => q # p /\ pc'[q] = pc[q]
  BY <1>1, <1>2 DEF Holding
<1>4. Reserved' = Reserved /\ Returning' = Returning
  BY <1>3 DEF Reserved, Returning, Holding
<1>5. PoolInv' /\ pools' \in Pools(Pid) /\ RunningIsHead'  BY <1>4, SleepStep
<1>6. TypeOK'  BY <1>1, <1>5 DEF TypeOK, Positions, Yielding, States
<1>7. NeverHalted' /\ ExitIsFinal' /\ IdleReady'
  BY <1>1, <1>2, PidFacts DEF NeverHalted, ExitIsFinal, IdleReady, Runs
<1>8. PositionInv'  BY <1>1, <1>2, <1>3 DEF PositionInv, Runs, Holding
<1>9. HoldInv'  BY <1>1, <1>2, <1>3 DEF HoldInv, TypeOK
<1> QED BY <1>5, <1>6, <1>7, <1>8, <1>9

LEMMA SysSleepIInv == ASSUME NEW p \in Pid PROVE IInv /\ SysSleep(p) => IInv'
<1> SUFFICES ASSUME IInv, SysSleep(p) PROVE IInv'  OBVIOUS
<1>1. PICK t \in SleepTimes : SetSleep(p, t)  BY DEF SysSleep
<1>2. /\ Runs(p) /\ p # Idle /\ pc[p] = "user" /\ Goto(p, "yield")
      /\ intr' = AfterOff(p) /\ UNCHANGED <<sched, family, uif, nested, arg>>
  BY DEF SysSleep, Enters
<1>3. state[p] = "RUNNING"  BY <1>2 DEF IInv, PositionInv, Runs
<1>4. t \in Int  BY SleepAssumption
<1>5. intr' \in [Pid -> BOOLEAN]  BY <1>2, FlagsType DEF IInv
<1> QED BY <1>1, <1>2, <1>3, <1>4, <1>5, SleepIInv

LEMMA JoinSleepIInv == ASSUME NEW p \in Pid PROVE IInv /\ JoinSleep(p) => IInv'
<1> SUFFICES ASSUME IInv, JoinSleep(p) PROVE IInv'  OBVIOUS
<1>1. /\ Runs(p) /\ pc[p] = "joinSleep" /\ SetSleep(p, -1) /\ Goto(p, "joinYield")
      /\ intr' = AfterOff(p) /\ UNCHANGED <<sched, family, uif, nested, arg>>
  BY DEF JoinSleep, At
<1>2. state[p] = "RUNNING" /\ p # Idle /\ arg[p] \in Pid
  BY <1>1 DEF IInv, PositionInv, HoldInv, IdleReady, Runs
<1>3. intr' \in [Pid -> BOOLEAN]  BY <1>1, FlagsType DEF IInv
<1> QED BY <1>1, <1>2, <1>3, SleepIInv

\* A step that changes nothing but where p goes on, to its program or to a
\* position that says nothing of p but that it is RUNNING.
LEMMA GotoIInv ==
  ASSUME IInv, NEW p \in Pid \ {Idle}, Runs(p), state[p] = "RUNNING",
         pc[p] \notin Holding \cup {"start"},
         NEW l \in {"user", "joinSleep", "yield"}, Goto(p, l),
         arg' \in [Pid -> Pid \cup {None}], \A q \in Pid \ {p} : arg'[q] = arg[q],
         l = "joinSleep" => arg'[p] \in Pid,
         intr' \in [Pid -> BOOLEAN], UNCHANGED <<sched, task, family, uif, nested>>
  PROVE  IInv'
<1> USE DEF IInv, sched, task, family
<1>1. pc' = [pc EXCEPT ![p] = l]  BY DEF Goto
<1>2. pc \in [Pid -> Positions]  BY DEF TypeOK
<1>3. \A q \in Pid : (pc'[q] \in Holding \cup {"start"} \/ pc[q] \in Holding \cup {"start"})
                       => q # p /\ pc'[q] = pc[q] /\ arg'[q] = arg[q]
  BY <1>1, <1>2 DEF Holding
<1>4. Reserved' = Reserved /\ Returning' = Returning
  BY <1>3 DEF Reserved, Returning, Holding
<1>5. PoolInv'  BY <1>4, StayStep DEF Home
<1>6. TypeOK'  BY <1>1 DEF TypeOK, Positions, Yielding
<1>7. NeverHalted' /\ RunningIsHead' /\ ExitIsFinal' /\ IdleReady'
  BY <1>1, <1>2, PidFacts DEF NeverHalted, RunningIsHead, ExitIsFinal, IdleReady, Runs
<1>8. PositionInv'  BY <1>1, <1>2, <1>3 DEF PositionInv, Runs
<1>9. HoldInv'  BY <1>1, <1>2, <1>3 DEF HoldInv
<1> QED BY <1>5, <1>6, <1>7, <1>8, <1>9
-----------------------------------------------------------------------------
LEMMA SysForkIInv ==
  ASSUME NEW p \in Pid, NEW kind \in {"fork", "thread"}
  PROVE  IInv /\ SysFork(p, kind) => IInv'
<1> SUFFICES ASSUME IInv, SysFork(p, kind) PROVE IInv'  OBVIOUS
<1> USE DEF IInv, sched, family
<1>1. /\ Runs(p) /\ p # Idle /\ pc[p] = "user"
      /\ UNCHANGED <<sched, state, timeCount, sleepTime, family, uif, nested>>
  BY DEF SysFork, Enters
<1>2. CASE IsEmptyPool(pools, "avai")
  <2>1. UNCHANGED <<pools, pc, arg, intr>>  BY <1>2 DEF SysFork
  <2>2. TypeOK'  BY <1>1, <2>1 DEF TypeOK
  <2>3. PoolInv'  BY <1>1, <2>1, StayStep DEF Home, Reserved, Returning
  <2>4. NeverHalted' /\ RunningIsHead' /\ ExitIsFinal' /\ IdleReady' /\ PositionInv' /\ HoldInv'
    BY <1>1, <2>1 DEF NeverHalted, RunningIsHead, ExitIsFinal, IdleReady, PositionInv, HoldInv
  <2> QED BY <2>2, <2>3, <2>4
<1>3. CASE ~IsEmptyPool(pools, "avai")
  <2> DEFINE a == HeadOf(pools, "avai")
  <2>1. /\ arg' = [arg EXCEPT ![p] = a] /\ pools' = PickHead(pools, "avai")
        /\ pc' = [pc EXCEPT ![p] = kind] /\ intr' = AfterOff(p)
    BY <1>3 DEF SysFork, Goto
  <2>2. a \in Pid /\ Home(a) = "avai"  BY <1>3, AvaiHead
  <2> HIDE DEF a
  <2>3. pc \in [Pid -> Positions] /\ arg \in [Pid -> Pid \cup {None}] /\ state \in [Pid -> States]
    BY DEF TypeOK
  <2>4. state[a] = "DEAD" /\ a \notin Reserved /\ a \notin Returning
    BY <2>2, <2>3 DEF Home, States
  <2>5. state[p] = "RUNNING"  BY <1>1 DEF PositionInv, Runs
  <2>6. Returning' = Returning  BY <1>1, <2>1, <2>3 DEF Returning
  <2>7. \A q \in Pid : q \in Reserved' <=> q \in Reserved \/ q = a
    BY <1>1, <2>1, <2>3 DEF Reserved
  <2>8. \A q \in Pid : Home(q)' = IF q = a THEN "nowhere" ELSE Home(q)
    BY <1>1, <2>4, <2>6, <2>7 DEF Home
  <2>9. /\ PoolInv' /\ pools' \in Pools(Pid)
        /\ \A m \in PoolNames : m # "avai" => pools'.list[m] = pools.list[m]
    BY <1>3, <2>1, <2>8, PickStep DEF a, PoolNames
  <2>10. TypeOK'
    <3>1. intr' \in [Pid -> BOOLEAN]  BY <2>1, FlagsType
    <3> QED BY <1>1, <2>1, <2>2, <2>9, <3>1 DEF TypeOK, Positions
  <2>11. RunningIsHead'  BY <1>1, <2>9 DEF RunningIsHead, HeadOf, PoolNames
  <2>12. NeverHalted' /\ ExitIsFinal' /\ IdleReady'
    BY <1>1, <2>1, <2>3, PidFacts DEF NeverHalted, ExitIsFinal, IdleReady, Runs
  <2>13. PositionInv'  BY <1>1, <2>1, <2>3, <2>5 DEF PositionInv, Runs, Holding
  <2>14. \A q \in Pid : pc[q] \in Holding => arg[q] # a  BY <2>4 DEF Reserved, Returning, Holding
  <2>15. \A q \in Pid \ {p} : pc'[q] = pc[q] /\ arg'[q] = arg[q]  BY <2>1, <2>3
  <2>16. pc'[p] = kind /\ arg'[p] = a  BY <2>1, <2>3
  <2>17. HoldInv'  BY <1>1, <2>2, <2>4, <2>14, <2>15, <2>16 DEF HoldInv, Holding
  <2> QED BY <2>9, <2>10, <2>11, <2>12, <2>13, <2>17
<1> QED BY <1>2, <1>3

\* What holds of the slot a call has taken out of avai.
LEMMA ReservedSlot ==
  ASSUME IInv, NEW p \in Pid, Runs(p), pc[p] \in {"fork", "thread"}
  PROVE  /\ arg[p] \in Pid /\ arg[p] # p /\ arg[p] # Idle /\ p # Idle
         /\ state[arg[p]] = "DEAD" /\ state[p] = "RUNNING"
         /\ arg[p] \in Reserved /\ arg[p] \notin Returning /\ Home(arg[p]) = "nowhere"
<1> USE DEF IInv
<1>1. state[p] = "RUNNING" /\ arg[p] \in Pid /\ state[arg[p]] = "DEAD" /\ p # Idle
  BY DEF PositionInv, HoldInv, Holding, IdleReady, Runs
<1>2. arg[p] # Idle  BY <1>1 DEF IdleReady
<1>3. arg[p] \in Reserved  BY DEF Reserved
<1>4. arg[p] \notin Returning  BY DEF Returning, HoldInv, Holding
<1> QED BY <1>1, <1>2, <1>3, <1>4 DEF Home

LEMMA ForkActivateIInv == ASSUME NEW p \in Pid PROVE IInv /\ ForkActivate(p) => IInv'
<1> SUFFICES ASSUME IInv, ForkActivate(p) PROVE IInv'  OBVIOUS
<1> DEFINE a == arg[p]
<1> USE DEF IInv, sched
<1>1. /\ Runs(p) /\ pc[p] = "fork"
      /\ state' = [state EXCEPT ![a] = "RUNNABLE"]
      /\ timeCount' = [timeCount EXCEPT ![a] = MAX_TIME_COUNT]
      /\ sleepTime' = [sleepTime EXCEPT ![a] = 0]
      /\ pools' = InsertTail(pools, "busy", a)
      /\ parent' = [parent EXCEPT ![a] = p]
      /\ orphan' = orphan \ {a}
      /\ uif' = [uif EXCEPT ![a] = uif[p]]
      /\ nested' = [nested EXCEPT ![a] = TRUE]
      /\ intr' = [AfterOff(p) EXCEPT ![a] = uif[p]]
      /\ pc' = [pc EXCEPT ![a] = "user", ![p] = "yield"]
      /\ arg' = [arg EXCEPT ![a] = None, ![p] = None]
      /\ UNCHANGED sched
  BY DEF ForkActivate, At
<1>2. /\ a \in Pid /\ a # p /\ a # Idle /\ p # Idle
      /\ state[a] = "DEAD" /\ state[p] = "RUNNING"
      /\ a \in Reserved /\ a \notin Returning /\ Home(a) = "nowhere"
  BY <1>1, ReservedSlot
<1> HIDE DEF a
<1>3. /\ pc \in [Pid -> Positions] /\ arg \in [Pid -> Pid \cup {None}] /\ state \in [Pid -> States]
      /\ parent \in [Pid -> Pid \cup {None}] /\ sleepTime \in [Pid -> Int]
  BY DEF TypeOK
<1>4. /\ \A q \in Pid \ {a, p} : pc'[q] = pc[q] /\ arg'[q] = arg[q]
      /\ pc'[a] = "user" /\ pc'[p] = "yield"
  BY <1>1, <1>2, <1>3
<1>5. pc[a] \notin Holding \cup {"start"}  BY <1>2 DEF PositionInv
<1>6. \A q \in Pid \ {p} : pc[q] \in Holding => arg[q] # a  BY <1>1 DEF HoldInv, Holding, a
<1>7. Returning' = Returning
  <2>1. \A q \in Pid : pc'[q] = "joinFree" \/ pc[q] = "joinFree"
                         => pc'[q] = pc[q] /\ arg'[q] = arg[q]
    BY <1>1, <1>4, <1>5 DEF Holding
  <2> QED BY <2>1 DEF Returning
<1>8. \A q \in Pid : q # a => (q \in Reserved' <=> q \in Reserved)
  BY <1>1, <1>4, <1>5 DEF Reserved, Holding, a
<1>9. \A q \in Pid : Home(q)' = IF q = a THEN "busy" ELSE Home(q)
  BY <1>1, <1>2, <1>3, <1>7, <1>8 DEF Home
<1>10. PoolInv' /\ pools' \in Pools(Pid) /\ HeadsKept(pools, pools', a)
  BY <1>1, <1>2, <1>9, InsertStep DEF PoolNames
<1>11. RunningIsHead'
  <2>1. \A q \in Pid \ {Idle} : state'[q] = "RUNNING" => state[q] = "RUNNING" /\ q # a
    BY <1>1, <1>2, <1>3
  <2> QED BY <1>1, <1>10, <2>1, HeadStep
<1>12. TypeOK'
  <2>1. AfterOff(p) \in [Pid -> BOOLEAN] /\ uif[p] \in BOOLEAN  BY FlagsType DEF TypeOK
  <2>2. intr' \in [Pid -> BOOLEAN] /\ uif' \in [Pid -> BOOLEAN]
    BY <1>1, <2>1 DEF TypeOK
  <2>3. nested' \in [Pid -> BOOLEAN]  BY <1>1 DEF TypeOK
  <2>4. timeCount' \in [Pid -> 0 .. MAX_TIME_COUNT]
    BY <1>1, SliceAssumption, MAX_TIME_COUNT \in 0 .. MAX_TIME_COUNT DEF TypeOK
  <2> QED BY <1>1, <1>2, <1>10, <2>2, <2>3, <2>4 DEF TypeOK, Positions, Yielding, States
<1>13. NeverHalted' /\ ExitIsFinal' /\ IdleReady'
  BY <1>1, <1>2, <1>3, <1>4, PidFacts DEF NeverHalted, ExitIsFinal, IdleReady, Runs
<1>14. PositionInv'
  BY <1>1, <1>2, <1>3, <1>4 DEF PositionInv, Runs, Holding
<1>15. HoldInv'
  <2>1. \A q \in Pid \ {a} : state'[q] = state[q] /\ parent'[q] = parent[q] /\ sleepTime'[q] = sleepTime[q]
    BY <1>1, <1>3
  <2>2. state'[a] = "RUNNABLE"  BY <1>1, <1>2, <1>3
  <2>3. \A q \in Pid : pc[q] = "start" => arg[q] # a  BY <1>2 DEF HoldInv
  <2> QED BY <1>2, <1>4, <1>6, <2>1, <2>2, <2>3 DEF HoldInv, Holding
<1> QED BY <1>10, <1>11, <1>12, <1>13, <1>14, <1>15

LEMMA BabyStep ==
  ASSUME IInv, NEW a \in Pid, Home(a) = "nowhere", pools' = BabyPools(a),
         \A q \in Pid : Home(q)' = IF q = a THEN "slp" ELSE Home(q)
  PROVE  PoolInv' /\ pools' \in Pools(Pid) /\ HeadsKept(pools, pools', a)
<1> DEFINE R == InsertTail(pools, "busy", a)
           H == [Homes EXCEPT ![a] = "busy"]
<1>1. Located(Pid, pools, Homes) /\ Homes[a] \notin PoolNames /\ "busy" \in PoolNames /\ "slp" \in PoolNames
  BY PoolsLocated DEF IInv, Homes, PoolNames
<1>2. Located(Pid, R, H) /\ HeadsKept(pools, R, a)  BY <1>1, HomesType, InsertLocated
<1>3. H \in [Pid -> Places] /\ H[a] = "busy"  BY HomesType DEF Places, PoolNames
<1>4. pools' = Move(R, "busy", "slp", a)  BY DEF BabyPools
<1>5. \A q \in Pid : [H EXCEPT ![a] = "slp"][q] = Home(q)'  BY HomesType DEF Homes
<1> HIDE DEF R, H
<1>6. Located(Pid, pools', [H EXCEPT ![a] = "slp"]) /\ HeadsKept(R, pools', a)
  <2>1. Located(Pid, R, H)  BY <1>2
  <2>2. /\ Located(Pid, Move(R, "busy", "slp", a), [H EXCEPT ![a] = "slp"])
        /\ HeadsKept(R, Move(R, "busy", "slp", a), a)
    BY <1>1, <1>3, <2>1, MoveLocated
  <2> QED BY <1>4, <2>2
<1>7. HeadsKept(pools, pools', a)  BY <1>2, <1>6 DEF HeadsKept
<1> QED BY <1>5, <1>6, <1>7 DEF Located, Valid, NoDup, PoolInv

LEMMA ThreadActivateIInv == ASSUME NEW p \in Pid PROVE IInv /\ ThreadActivate(p) => IInv'
<1> SUFFICES ASSUME IInv, ThreadActivate(p) PROVE IInv'  OBVIOUS
<1> DEFINE a == arg[p]
<1> USE DEF IInv, sched
<1>1. /\ Runs(p) /\ pc[p] = "thread"
      /\ state' = [state EXCEPT ![a] = "BABY"]
      /\ timeCount' = [timeCount EXCEPT ![a] = MAX_TIME_COUNT]
      /\ sleepTime' = [sleepTime EXCEPT ![a] = -1]
      /\ pools' = BabyPools(a)
      /\ parent' = [parent EXCEPT ![a] = p]
      /\ orphan' = orphan \ {a}
      /\ intr' = [AfterOff(p) EXCEPT ![a] = uif[a]]
      /\ pc' = [pc EXCEPT ![a] = "user", ![p] = "yield"]
      /\ arg' = [arg EXCEPT ![a] = None, ![p] = None]
      /\ UNCHANGED <<sched, uif, nested>>
  BY DEF ThreadActivate, At
<1>2. /\ a \in Pid /\ a # p /\ a # Idle /\ p # Idle
      /\ state[a] = "DEAD" /\ state[p] = "RUNNING"
      /\ a \in Reserved /\ a \notin Returning /\ Home(a) = "nowhere"
  BY <1>1, ReservedSlot
<1> HIDE DEF a
<1>3. /\ pc \in [Pid -> Positions] /\ arg \in [Pid -> Pid \cup {None}] /\ state \in [Pid -> States]
      /\ parent \in [Pid -> Pid \cup {None}] /\ sleepTime \in [Pid -> Int]
  BY DEF TypeOK
<1>4. /\ \A q \in Pid \ {a, p} : pc'[q] = pc[q] /\ arg'[q] = arg[q]
      /\ pc'[a] = "user" /\ pc'[p] = "yield"
  BY <1>1, <1>2, <1>3
<1>5. pc[a] \notin Holding \cup {"start"}  BY <1>2 DEF PositionInv
<1>6. \A q \in Pid \ {p} : pc[q] \in Holding => arg[q] # a  BY <1>1 DEF HoldInv, Holding, a
<1>7. Returning' = Returning
  <2>1. \A q \in Pid : pc'[q] = "joinFree" \/ pc[q] = "joinFree"
                         => pc'[q] = pc[q] /\ arg'[q] = arg[q]
    BY <1>1, <1>4, <1>5 DEF Holding
  <2> QED BY <2>1 DEF Returning
<1>8. \A q \in Pid : q # a => (q \in Reserved' <=> q \in Reserved)
  BY <1>1, <1>4, <1>5 DEF Reserved, Holding, a
<1>9. \A q \in Pid : Home(q)' = IF q = a THEN "slp" ELSE Home(q)
  BY <1>1, <1>2, <1>3, <1>7, <1>8 DEF Home
<1>10. PoolInv' /\ pools' \in Pools(Pid) /\ HeadsKept(pools, pools', a)
  BY <1>1, <1>2, <1>9, BabyStep
<1>11. RunningIsHead'
  <2>1. \A q \in Pid \ {Idle} : state'[q] = "RUNNING" => state[q] = "RUNNING" /\ q # a
    BY <1>1, <1>2, <1>3
  <2> QED BY <1>1, <1>10, <2>1, HeadStep
<1>12. TypeOK'
  <2>1. AfterOff(p) \in [Pid -> BOOLEAN] /\ uif[a] \in BOOLEAN  BY <1>2, FlagsType DEF TypeOK
  <2>2. intr' \in [Pid -> BOOLEAN]  BY <1>1, <2>1
  <2>3. timeCount' \in [Pid -> 0 .. MAX_TIME_COUNT]
    BY <1>1, SliceAssumption, MAX_TIME_COUNT \in 0 .. MAX_TIME_COUNT DEF TypeOK
  <2> QED BY <1>1, <1>2, <1>10, <2>2, <2>3 DEF TypeOK, Positions, Yielding, States
<1>13. NeverHalted' /\ ExitIsFinal' /\ IdleReady'
  BY <1>1, <1>2, <1>3, <1>4, PidFacts DEF NeverHalted, ExitIsFinal, IdleReady, Runs
<1>14. PositionInv'
  BY <1>1, <1>2, <1>3, <1>4 DEF PositionInv, Runs, Holding
<1>15. HoldInv'
  <2>1. \A q \in Pid \ {a} : state'[q] = state[q] /\ parent'[q] = parent[q] /\ sleepTime'[q] = sleepTime[q]
    BY <1>1, <1>3
  <2>2. state'[a] = "BABY" /\ sleepTime'[a] = -1  BY <1>1, <1>2, <1>3
  <2>3. \A q \in Pid : pc[q] = "start" => arg[q] # a  BY <1>2 DEF HoldInv
  <2> QED BY <1>2, <1>4, <1>6, <2>1, <2>2, <2>3 DEF HoldInv, Holding
<1> QED BY <1>10, <1>11, <1>12, <1>13, <1>14, <1>15

\* A step that changes nothing of the model.
LEMMA SameIInv == IInv /\ UNCHANGED vars => IInv'
<1> SUFFICES ASSUME IInv, UNCHANGED vars PROVE IInv'  OBVIOUS
<1> USE DEF vars, sched, task, family, flags, ctl, IInv
<1>1. TypeOK' /\ NeverHalted' /\ RunningIsHead' /\ ExitIsFinal' /\ IdleReady'
  BY DEF TypeOK, NeverHalted, RunningIsHead, ExitIsFinal, IdleReady
<1>2. PositionInv' /\ HoldInv'  BY DEF PositionInv, HoldInv
<1>3. PoolInv'  BY StayStep DEF Home, Reserved, Returning
<1> QED BY <1>1, <1>2, <1>3

LEMMA ThStartCheckIInv ==
  ASSUME OwnThreadsOnly, NEW p \in Pid
  PROVE  IInv /\ ThStartCheck(p) => IInv'
<1> SUFFICES ASSUME IInv, ThStartCheck(p) PROVE IInv'  OBVIOUS
<1> USE DEF IInv, sched, task, family
<1>1. PICK k \in Pid :
         /\ Enters(p, "start") /\ parent[k] = p /\ state[k] \in {"BABY", "RUNNABLE"}
         /\ IF state[k] = "RUNNABLE"
            THEN UNCHANGED <<pc, arg, intr>>
            ELSE Goto(p, "start") /\ arg' = [arg EXCEPT ![p] = k] /\ intr' = AfterOff(p)
         /\ UNCHANGED <<sched, task, family, uif, nested>>
  BY DEF ThStartCheck, OwnThreadsOnly, Enters, MayName
<1>2. CASE state[k] = "RUNNABLE"
  <2>1. UNCHANGED vars  BY <1>1, <1>2 DEF vars, flags, ctl
  <2> QED BY <2>1, SameIInv
<1>3. CASE state[k] = "BABY"
  <2>1. /\ pc' = [pc EXCEPT ![p] = "start"] /\ arg' = [arg EXCEPT ![p] = k] /\ intr' = AfterOff(p)
        /\ Runs(p) /\ p # Idle /\ pc[p] = "user"
    BY <1>1, <1>3 DEF Goto, Enters
  <2>2. state[p] = "RUNNING"  BY <2>1 DEF PositionInv, Runs
  <2>3. pc \in [Pid -> Positions] /\ arg \in [Pid -> Pid \cup {None}]  BY DEF TypeOK
  <2>4. \A q \in Pid \ {p} : pc'[q] = pc[q] /\ arg'[q] = arg[q]  BY <2>1, <2>3
  <2>5. pc'[p] = "start" /\ arg'[p] = k  BY <2>1, <2>3
  <2>6. Reserved' = Reserved /\ Returning' = Returning
    <3>1. \A q \in Pid : pc'[q] \in Holding \/ pc[q] \in Holding => pc'[q] = pc[q] /\ arg'[q] = arg[q]
      BY <2>1, <2>4, <2>5 DEF Holding
    <3> QED BY <3>1 DEF Reserved, Returning, Holding
  <2>7. PoolInv'  BY <1>1, <2>6, StayStep DEF Home
  <2>8. TypeOK'
    <3>1. intr' \in [Pid -> BOOLEAN]  BY <2>1, FlagsType
    <3> QED BY <1>1, <2>1, <3>1 DEF TypeOK, Positions
  <2>9. NeverHalted' /\ RunningIsHead' /\ ExitIsFinal' /\ IdleReady'
    BY <1>1, <2>1, <2>4, <2>5, PidFacts
    DEF NeverHalted, RunningIsHead, ExitIsFinal, IdleReady, Runs
  <2>10. PositionInv'  BY <1>1, <2>1, <2>2, <2>4, <2>5 DEF PositionInv, Runs, Holding
  <2>11. HoldInv'  BY <1>1, <1>3, <2>4, <2>5 DEF HoldInv, Holding
  <2> QED BY <2>7, <2>8, <2>9, <2>10, <2>11
<1> QED BY <1>1, <1>2, <1>3

LEMMA ThStartIInv == ASSUME NEW p \in Pid PROVE IInv /\ ThStart(p) => IInv'
<1> SUFFICES ASSUME IInv, ThStart(p) PROVE IInv'  OBVIOUS
<1> DEFINE k == arg[p]
<1> USE DEF IInv, sched, family
<1>1. /\ Runs(p) /\ pc[p] = "start" /\ Awake(k)
      /\ pc' = [pc EXCEPT ![p] = "user"] /\ arg' = [arg EXCEPT ![p] = None]
      /\ intr' = AfterRet(p) /\ UNCHANGED <<sched, timeCount, family, uif, nested>>
  BY DEF ThStart, At, Goto
<1>2. k \in Pid /\ state[k] = "BABY" /\ state[p] = "RUNNING" /\ p # Idle
  BY <1>1 DEF HoldInv, PositionInv, IdleReady, Runs
<1> HIDE DEF k
<1>3. /\ pc \in [Pid -> Positions] /\ arg \in [Pid -> Pid \cup {None}] /\ state \in [Pid -> States]
      /\ sleepTime \in [Pid -> Int]
  BY DEF TypeOK
<1>4. /\ state' = [state EXCEPT ![k] = "RUNNABLE"]
      /\ sleepTime' = [sleepTime EXCEPT ![k] = 0]
  BY <1>1 DEF Awake
<1>5. \A q \in Pid : (pc'[q] \in Holding \/ pc[q] \in Holding)
                       => q # p /\ pc'[q] = pc[q] /\ arg'[q] = arg[q]
  BY <1>1, <1>3 DEF Holding
<1>6. Reserved' = Reserved /\ Returning' = Returning
  BY <1>5 DEF Reserved, Returning, Holding
<1>7. Home(k) = "slp"  BY <1>2 DEF Home
<1>8. PoolInv' /\ pools' \in Pools(Pid) /\ RunningIsHead'
  BY <1>1, <1>2, <1>6, <1>7, AwakeStep
<1>9. TypeOK'
  <2>1. intr' \in [Pid -> BOOLEAN]  BY <1>1, FlagsType
  <2>2. arg' \in [Pid -> Pid \cup {None}] /\ pc' \in [Pid -> Positions]  BY <1>1, <1>3 DEF Positions
  <2>3. state' \in [Pid -> States]  BY <1>3, <1>4, "RUNNABLE" \in States DEF States
  <2>4. sleepTime' \in [Pid -> Int]  BY <1>3, <1>4, 0 \in Int, Zenon
  <2> QED BY <1>1, <1>8, <2>1, <2>2, <2>3, <2>4 DEF TypeOK
<1>10. NeverHalted' /\ ExitIsFinal' /\ IdleReady'
  BY <1>1, <1>2, <1>3, <1>4, PidFacts DEF NeverHalted, ExitIsFinal, IdleReady, Runs
<1>11. PositionInv'  BY <1>1, <1>2, <1>3, <1>4 DEF PositionInv, Runs
<1>12. HoldInv'
  <2>1. \A q \in Pid \ {p} : pc[q] = "start" => arg[q] # k
    BY <1>1, <1>2 DEF HoldInv, k
  <2> QED BY <1>1, <1>2, <1>3, <1>4, <2>1 DEF HoldInv, Holding
<1> QED BY <1>8, <1>9, <1>10, <1>11, <1>12
-----------------------------------------------------------------------------
LEMMA ExitKillIInv == ASSUME NEW p \in Pid PROVE IInv /\ ExitKill(p) => IInv'
<1> SUFFICES ASSUME IInv, ExitKill(p) PROVE IInv'  OBVIOUS
<1> USE DEF IInv, sched, family
<1>1. /\ Runs(p) /\ pc[p] = "user" /\ p # Idle
      /\ state' = [state EXCEPT ![p] = "ZOMBIE"]
      /\ pools' = Move(pools, "busy", "zombie", p)
      /\ pc' = [pc EXCEPT ![p] = "exit"]
      /\ intr' = AfterOff(p) /\ UNCHANGED <<sched, timeCount, sleepTime, family, uif, nested, arg>>
  BY DEF ExitKill, Enters, Goto
<1>2. pc \in [Pid -> Positions] /\ state \in [Pid -> States]  BY DEF TypeOK
<1>3. state[p] = "RUNNING"  BY <1>1 DEF PositionInv, Runs
<1>4. \A q \in Pid : (pc'[q] \in Holding \cup {"start"} \/ pc[q] \in Holding \cup {"start"})
                       => q # p /\ pc'[q] = pc[q]
  BY <1>1, <1>2 DEF Holding
<1>5. Reserved' = Reserved /\ Returning' = Returning
  BY <1>1, <1>4 DEF Reserved, Returning, Holding
<1>6. /\ Home(p) = "busy"
      /\ \A q \in Pid : Home(q)' = IF q = p THEN "zombie" ELSE Home(q)
  BY <1>1, <1>2, <1>3, <1>5 DEF Home
<1>7. PoolInv' /\ pools' \in Pools(Pid) /\ HeadsKept(pools, pools', p)
  BY <1>1, <1>6, MoveStep DEF PoolNames
<1>8. RunningIsHead'
  <2>1. \A q \in Pid \ {Idle} : state'[q] = "RUNNING" => state[q] = "RUNNING" /\ q # p
    BY <1>1, <1>2
  <2> QED BY <1>1, <1>7, <2>1, HeadStep
<1>9. TypeOK'
  <2>1. intr' \in [Pid -> BOOLEAN]  BY <1>1, FlagsType
  <2>2. state' \in [Pid -> States] /\ pc' \in [Pid -> Positions]
    BY <1>1, <1>2 DEF States, Positions
  <2> QED BY <1>1, <1>7, <2>1, <2>2 DEF TypeOK
<1>10. NeverHalted' /\ ExitIsFinal' /\ IdleReady'
  BY <1>1, <1>2, PidFacts DEF NeverHalted, ExitIsFinal, IdleReady, Runs
<1>11. PositionInv'  BY <1>1, <1>2, <1>4 DEF PositionInv, Runs, Holding
<1>12. HoldInv'  BY <1>1, <1>2, <1>3, <1>4 DEF HoldInv, TypeOK
<1> QED BY <1>7, <1>8, <1>9, <1>10, <1>11, <1>12

\* A zombie becomes DEAD and leaves for avai.
LEMMA FreeStep ==
  ASSUME IInv, NEW k \in Pid, state[k] = "ZOMBIE", state' = [state EXCEPT ![k] = "DEAD"],
         pools' = FreeSlot(k), current' = current,
         Reserved' = Reserved, Returning' = Returning
  PROVE  PoolInv' /\ pools' \in Pools(Pid) /\ RunningIsHead'
<1>1. state \in [Pid -> States]  BY DEF IInv, TypeOK
<1>2. k \notin Reserved /\ k \notin Returning
  BY DEF IInv, HoldInv, Holding, Reserved, Returning
<1>3. Home(k) = "zombie" /\ \A q \in Pid : Home(q)' = IF q = k THEN "avai" ELSE Home(q)
  BY <1>1, <1>2 DEF Home
<1>4. PoolInv' /\ pools' \in Pools(Pid) /\ HeadsKept(pools, pools', k)
  BY <1>3, MoveStep DEF PoolNames, FreeSlot
<1>5. \A q \in Pid \ {Idle} : state'[q] = "RUNNING" => state[q] = "RUNNING" /\ q # k
  BY <1>1
<1> QED BY <1>4, <1>5, HeadStep

LEMMA ExitNotifyIInv == ASSUME NEW p \in Pid PROVE IInv /\ ExitNotify(p) => IInv'
<1> SUFFICES ASSUME IInv, ExitNotify(p) PROVE IInv'  OBVIOUS
<1> USE DEF IInv, sched
<1>1. /\ Runs(p) /\ pc[p] = "exit" /\ pc' = [pc EXCEPT ![p] = "exited"]
      /\ intr' = AfterOff(p) /\ UNCHANGED <<sched, timeCount, parent, uif, nested, arg>>
  BY DEF ExitNotify, At, Goto
<1>2. /\ pc \in [Pid -> Positions] /\ state \in [Pid -> States]
      /\ parent \in [Pid -> Pid \cup {None}] /\ sleepTime \in [Pid -> Int]
  BY DEF TypeOK
<1>3. state[p] = "ZOMBIE" /\ p # Idle  BY <1>1 DEF PositionInv, IdleReady, Runs
<1>4. \A q \in Pid : (pc'[q] \in Holding \cup {"start"} \/ pc[q] \in Holding \cup {"start"})
                       => q # p /\ pc'[q] = pc[q]
  BY <1>1, <1>2 DEF Holding
<1>5. Reserved' = Reserved /\ Returning' = Returning
  BY <1>1, <1>4 DEF Reserved, Returning, Holding
<1>6. intr' \in [Pid -> BOOLEAN] /\ pc' \in [Pid -> Positions]
  BY <1>1, <1>2, FlagsType DEF Positions, Yielding
<1>7. CASE parent[p] = None
  <2>1. /\ state' = [state EXCEPT ![p] = "DEAD"] /\ pools' = FreeSlot(p)
        /\ sleepTime' = sleepTime /\ orphan' \subseteq Pid
    BY <1>7 DEF ExitNotify, Abandon, TypeOK
  <2>2. PoolInv' /\ pools' \in Pools(Pid) /\ RunningIsHead'  BY <1>1, <1>3, <1>5, <2>1, FreeStep
  <2>3. TypeOK'  BY <1>1, <1>2, <1>6, <2>1, <2>2 DEF TypeOK, States
  <2>4. NeverHalted' /\ ExitIsFinal' /\ IdleReady'
    BY <1>1, <1>2, <1>3, <2>1, PidFacts DEF NeverHalted, ExitIsFinal, IdleReady, Runs
  <2>5. PositionInv'  BY <1>1, <1>2, <1>3, <1>4, <2>1 DEF PositionInv, Runs, Holding
  <2>6. HoldInv'  BY <1>1, <1>2, <1>3, <1>4, <2>1 DEF HoldInv, TypeOK
  <2> QED BY <2>2, <2>3, <2>4, <2>5, <2>6
<1>8. CASE parent[p] # None /\ ParentAsleep(p)
  <2> DEFINE k == parent[p]
  <2>1. k \in Pid /\ state[k] = "BLOCKED" /\ Awake(k) /\ orphan' = orphan
    BY <1>2, <1>8 DEF ExitNotify, ParentAsleep
  <2> HIDE DEF k
  <2>2. /\ state' = [state EXCEPT ![k] = "RUNNABLE"]
        /\ sleepTime' = [sleepTime EXCEPT ![k] = 0]
        /\ Home(k) = "slp" /\ k # p
    BY <1>3, <2>1 DEF Awake, Home
  <2>3. PoolInv' /\ pools' \in Pools(Pid) /\ RunningIsHead'
    BY <1>1, <1>5, <2>1, <2>2, AwakeStep
  <2>4. TypeOK'
    <3>1. sleepTime' \in [Pid -> Int]  BY <1>2, <2>2, 0 \in Int, Zenon
    <3>2. state' \in [Pid -> States]  BY <1>2, <2>2 DEF States
    <3> QED BY <1>1, <1>6, <2>1, <2>3, <3>1, <3>2 DEF TypeOK
  <2>5. NeverHalted' /\ ExitIsFinal' /\ IdleReady'
    BY <1>1, <1>2, <1>3, <2>1, <2>2, PidFacts DEF NeverHalted, ExitIsFinal, IdleReady, Runs
  <2>6. PositionInv'
    BY <1>1, <1>2, <1>3, <1>4, <2>1, <2>2 DEF PositionInv, Runs, Holding
  <2>7. HoldInv'  BY <1>1, <1>2, <1>4, <2>1, <2>2 DEF HoldInv
  <2> QED BY <2>3, <2>4, <2>5, <2>6, <2>7
<1>9. CASE parent[p] # None /\ ~ParentAsleep(p)
  <2>1. UNCHANGED <<state, sleepTime, pools, orphan>>  BY <1>9 DEF ExitNotify
  <2>2. PoolInv'  BY <1>5, <2>1, StayStep DEF Home
  <2>3. TypeOK'  BY <1>1, <1>6, <2>1 DEF TypeOK
  <2>4. NeverHalted' /\ RunningIsHead' /\ ExitIsFinal' /\ IdleReady'
    BY <1>1, <1>2, <1>3, <2>1, PidFacts
    DEF NeverHalted, RunningIsHead, ExitIsFinal, IdleReady, Runs
  <2>5. PositionInv'  BY <1>1, <1>2, <1>3, <1>4, <2>1 DEF PositionInv, Runs, Holding
  <2>6. HoldInv'  BY <1>1, <1>2, <1>4, <2>1 DEF HoldInv
  <2> QED BY <2>2, <2>3, <2>4, <2>5, <2>6
<1> QED BY <1>7, <1>8, <1>9
-----------------------------------------------------------------------------
LEMMA WaitReapIInv ==
  ASSUME NEW p \in Pid \ {Idle}, NEW i \in Zombies(p), IInv, Runs(p), pc[p] \in {"user", "wait"},
         WaitReap(p, i), UNCHANGED <<sched, uif, nested, arg>>
  PROVE  IInv'
<1> USE DEF IInv, sched
<1>1. /\ state' = [state EXCEPT ![i] = "DEAD"] /\ pools' = FreeSlot(i)
      /\ parent' = [parent EXCEPT ![i] = None] /\ orphan' \subseteq Pid
      /\ pc' = [pc EXCEPT ![p] = "user"] /\ intr' = AfterRet(p)
      /\ UNCHANGED <<sched, timeCount, sleepTime, uif, nested, arg>>
  BY DEF WaitReap, Goto, Abandon, TypeOK
<1>2. /\ pc \in [Pid -> Positions] /\ state \in [Pid -> States]
      /\ parent \in [Pid -> Pid \cup {None}]
  BY DEF TypeOK
<1>3. i \in Pid /\ state[i] = "ZOMBIE"  BY DEF Zombies, Kids
<1>4. state[p] = "RUNNING"  BY DEF PositionInv, Runs
<1>5. \A q \in Pid : (pc'[q] \in Holding \cup {"start"} \/ pc[q] \in Holding \cup {"start"})
                       => q # p /\ pc'[q] = pc[q]
  BY <1>1, <1>2 DEF Holding
<1>6. Reserved' = Reserved /\ Returning' = Returning
  BY <1>1, <1>5 DEF Reserved, Returning, Holding
<1>7. PoolInv' /\ pools' \in Pools(Pid) /\ RunningIsHead'  BY <1>1, <1>3, <1>6, FreeStep
<1>8. TypeOK'
  <2>1. intr' \in [Pid -> BOOLEAN]  BY <1>1, FlagsType
  <2>2. state' \in [Pid -> States] /\ pc' \in [Pid -> Positions]
    BY <1>1, <1>2 DEF States, Positions
  <2>3. parent' \in [Pid -> Pid \cup {None}]  BY <1>1, <1>2
  <2> QED BY <1>1, <1>7, <2>1, <2>2, <2>3 DEF TypeOK
<1>9. NeverHalted' /\ ExitIsFinal' /\ IdleReady'
  BY <1>1, <1>2, <1>3, PidFacts DEF NeverHalted, ExitIsFinal, IdleReady, Runs
<1>10. PositionInv'  BY <1>1, <1>2, <1>3, <1>4, <1>5 DEF PositionInv, Runs, Holding
<1>11. HoldInv'  BY <1>1, <1>2, <1>3, <1>5 DEF HoldInv, TypeOK
<1> QED BY <1>7, <1>8, <1>9, <1>10, <1>11

LEMMA WaitScanIInv == ASSUME NEW p \in Pid PROVE IInv /\ WaitScan(p) => IInv'
<1> SUFFICES ASSUME IInv, WaitScan(p) PROVE IInv'  OBVIOUS
<1>1. /\ Runs(p) /\ pc[p] \in {"user", "wait"} /\ p # Idle /\ state[p] = "RUNNING"
      /\ UNCHANGED <<sched, uif, nested, arg>>
  BY DEF WaitScan, Enters, At, IInv, IdleReady, PositionInv, Runs
<1>2. ASSUME NEW i \in Zombies(p), WaitReap(p, i) PROVE IInv'
  BY <1>1, <1>2, WaitReapIInv
<1>3. CASE Kids(p) = {} /\ Goto(p, "user") /\ intr' = AfterRet(p) /\ UNCHANGED <<task, family>>
  <2>1. intr' \in [Pid -> BOOLEAN]  BY <1>3, FlagsType DEF IInv
  <2>2. arg' \in [Pid -> Pid \cup {None}] /\ \A q \in Pid \ {p} : arg'[q] = arg[q]
    BY <1>1 DEF IInv, TypeOK
  <2>3. pc[p] \notin Holding \cup {"start"}  BY <1>1 DEF Holding
  <2>4. UNCHANGED <<sched, task, family, uif, nested>>  BY <1>1, <1>3
  <2> QED BY <1>1, <1>3, <2>1, <2>2, <2>3, <2>4, GotoIInv
<1>4. CASE SetSleep(p, -1) /\ Goto(p, "waitYield") /\ intr' = AfterOff(p) /\ UNCHANGED family
  <2>1. UNCHANGED <<sched, family, uif, nested, arg>>  BY <1>1, <1>4
  <2>2. intr' \in [Pid -> BOOLEAN]  BY <1>4, FlagsType DEF IInv
  <2> QED BY <1>1, <1>4, <2>1, <2>2, SleepIInv
<1> QED BY <1>2, <1>3, <1>4 DEF WaitScan

\* thread_join takes a zombie: it is DEAD, and still in zombie.
LEMMA JoinTakeIInv ==
  ASSUME NEW p \in Pid \ {Idle}, NEW k \in Pid, IInv, Runs(p), pc[p] \in {"user", "join"},
         state[k] = "ZOMBIE",
         parent' = [parent EXCEPT ![k] = None], state' = [state EXCEPT ![k] = "DEAD"], Abandon(k),
         Goto(p, "joinFree"), arg' = [arg EXCEPT ![p] = k], intr' = AfterOff(p),
         UNCHANGED <<sched, timeCount, sleepTime, pools, uif, nested>>
  PROVE  IInv'
<1> USE DEF IInv, sched
<1>1. pc' = [pc EXCEPT ![p] = "joinFree"] /\ orphan' \subseteq Pid
  BY DEF Goto, Abandon, TypeOK
<1>2. /\ pc \in [Pid -> Positions] /\ state \in [Pid -> States]
      /\ parent \in [Pid -> Pid \cup {None}] /\ arg \in [Pid -> Pid \cup {None}]
  BY DEF TypeOK
<1>3. state[p] = "RUNNING"  BY DEF PositionInv, Runs
<1>4. \A q \in Pid \ {p} : pc'[q] = pc[q] /\ arg'[q] = arg[q]  BY <1>1, <1>2
<1>5. pc'[p] = "joinFree" /\ arg'[p] = k  BY <1>1, <1>2
<1>6. \A q \in Pid : pc[q] \in Holding => arg[q] # k /\ q # p  BY DEF HoldInv, Holding
<1>7. k \notin Reserved /\ k \notin Returning  BY <1>6 DEF Reserved, Returning, Holding
<1>8. Reserved' = Reserved  BY <1>4, <1>5, <1>6 DEF Reserved, Holding
<1>9. \A q \in Pid : q \in Returning' <=> q \in Returning \/ q = k
  BY <1>4, <1>5, <1>6 DEF Returning, Holding
<1>10. PoolInv'
  <2>1. \A q \in Pid : Home(q)' = Home(q)  BY <1>2, <1>8, <1>9 DEF Home
  <2> QED BY <2>1, StayStep
<1>11. RunningIsHead'  BY <1>2 DEF RunningIsHead
<1>12. TypeOK'
  <2>1. intr' \in [Pid -> BOOLEAN]  BY FlagsType
  <2>2. state' \in [Pid -> States] /\ pc' \in [Pid -> Positions]
    BY <1>1, <1>2 DEF States, Positions
  <2>3. parent' \in [Pid -> Pid \cup {None}] /\ arg' \in [Pid -> Pid \cup {None}]  BY <1>2
  <2> QED BY <1>1, <2>1, <2>2, <2>3 DEF TypeOK
<1>13. NeverHalted' /\ ExitIsFinal' /\ IdleReady'
  BY <1>1, <1>2, PidFacts DEF NeverHalted, ExitIsFinal, IdleReady, Runs
<1>14. PositionInv'  BY <1>2, <1>3, <1>4, <1>5 DEF PositionInv, Runs, Holding
<1>15. HoldInv'  BY <1>2, <1>3, <1>4, <1>5, <1>6 DEF HoldInv, Holding
<1> QED BY <1>10, <1>11, <1>12, <1>13, <1>14, <1>15

LEMMA JoinTestIInv ==
  ASSUME NEW p \in Pid \ {Idle}, NEW k \in Pid, IInv, Runs(p), pc[p] \in {"user", "join"},
         JoinTest(p, k), UNCHANGED <<sched, timeCount, sleepTime, pools, uif, nested>>
  PROVE  IInv'
<1>1. state[p] = "RUNNING" /\ pc[p] \notin Holding \cup {"start"}
  BY DEF IInv, PositionInv, Runs, Holding
<1>2. arg \in [Pid -> Pid \cup {None}] /\ intr \in [Pid -> BOOLEAN]  BY DEF IInv, TypeOK
<1>3. CASE /\ Goto(p, "user") /\ arg' = [arg EXCEPT ![p] = None] /\ intr' = AfterRet(p)
           /\ UNCHANGED <<state, family>>
  <2>1. intr' \in [Pid -> BOOLEAN]  BY <1>3, FlagsType DEF IInv
  <2>2. arg' \in [Pid -> Pid \cup {None}] /\ \A q \in Pid \ {p} : arg'[q] = arg[q]
    BY <1>2, <1>3
  <2>3. UNCHANGED <<sched, task, family, uif, nested>>  BY <1>3 DEF task
  <2> QED BY <1>1, <1>3, <2>1, <2>2, <2>3, GotoIInv
<1>4. CASE /\ state[k] = "ZOMBIE"
           /\ parent' = [parent EXCEPT ![k] = None] /\ state' = [state EXCEPT ![k] = "DEAD"]
           /\ Abandon(k) /\ Goto(p, "joinFree") /\ arg' = [arg EXCEPT ![p] = k]
           /\ intr' = AfterOff(p)
  BY <1>4, JoinTakeIInv
<1>5. CASE /\ Goto(p, "joinSleep") /\ arg' = [arg EXCEPT ![p] = k]
           /\ UNCHANGED <<state, family, intr>>
  <2>1. /\ arg' \in [Pid -> Pid \cup {None}] /\ arg'[p] \in Pid
        /\ \A q \in Pid \ {p} : arg'[q] = arg[q]
    BY <1>2, <1>5
  <2>2. UNCHANGED <<sched, task, family, uif, nested>> /\ intr' \in [Pid -> BOOLEAN]
    BY <1>2, <1>5 DEF task
  <2> QED BY <1>1, <1>5, <2>1, <2>2, GotoIInv
<1> QED BY <1>3, <1>4, <1>5 DEF JoinTest

LEMMA JoinCheckIInv == ASSUME NEW p \in Pid PROVE IInv /\ JoinCheck(p) => IInv'
<1> SUFFICES ASSUME IInv, JoinCheck(p) PROVE IInv'  OBVIOUS
<1>1. /\ Runs(p) /\ pc[p] \in {"user", "join"} /\ p # Idle
      /\ UNCHANGED <<sched, timeCount, sleepTime, pools, uif, nested>>
  BY DEF JoinCheck, Enters, At, IInv, IdleReady
<1>2. PICK k \in Pid : JoinTest(p, k)
  <2>1. CASE \E k \in Pid : JoinTest(p, k)  BY <2>1
  <2>2. CASE At(p, "join") /\ JoinTest(p, arg[p])  BY <2>2 DEF At, IInv, HoldInv
  <2> QED BY <2>1, <2>2 DEF JoinCheck
<1> QED BY <1>1, <1>2, JoinTestIInv

LEMMA JoinFreeIInv == ASSUME NEW p \in Pid PROVE IInv /\ JoinFree(p) => IInv'
<1> SUFFICES ASSUME IInv, JoinFree(p) PROVE IInv'  OBVIOUS
<1> DEFINE k == arg[p]
<1> USE DEF IInv, sched, family
<1>1. /\ Runs(p) /\ pc[p] = "joinFree" /\ pools' = FreeSlot(k)
      /\ pc' = [pc EXCEPT ![p] = "user"] /\ arg' = [arg EXCEPT ![p] = None]
      /\ intr' = AfterRet(p)
      /\ UNCHANGED <<sched, state, timeCount, sleepTime, family, uif, nested>>
  BY DEF JoinFree, At, Goto
<1>2. pc \in [Pid -> Positions] /\ arg \in [Pid -> Pid \cup {None}] /\ state \in [Pid -> States]
  BY DEF TypeOK
<1>3. k \in Pid /\ state[k] = "DEAD" /\ state[p] = "RUNNING" /\ p # Idle
  BY <1>1 DEF HoldInv, PositionInv, IdleReady, Holding, Runs
<1>4. \A q \in Pid \ {p} : pc'[q] = pc[q] /\ arg'[q] = arg[q]  BY <1>1, <1>2
<1>5. pc'[p] = "user" /\ arg'[p] = None  BY <1>1, <1>2
<1>6. \A q \in Pid \ {p} : pc[q] \in Holding => arg[q] # k  BY <1>1 DEF HoldInv, Holding
<1>7. k \in Returning /\ k \notin Reserved  BY <1>1, <1>6 DEF Returning, Reserved, Holding
<1>8. Reserved' = Reserved  BY <1>1, <1>4, <1>5 DEF Reserved
<1>9. \A q \in Pid : q \in Returning' <=> q \in Returning /\ q # k
  BY <1>1, <1>4, <1>5, <1>6 DEF Returning, Holding, k
<1> HIDE DEF k
<1>10. /\ Home(k) = "zombie"
       /\ \A q \in Pid : Home(q)' = IF q = k THEN "avai" ELSE Home(q)
  BY <1>1, <1>3, <1>7, <1>8, <1>9 DEF Home
<1>11. PoolInv' /\ pools' \in Pools(Pid) /\ HeadsKept(pools, pools', k)
  BY <1>1, <1>3, <1>10, MoveStep DEF PoolNames, FreeSlot
<1>12. RunningIsHead'
  <2>1. \A q \in Pid \ {Idle} : state'[q] = "RUNNING" => state[q] = "RUNNING" /\ q # k
    BY <1>1, <1>3
  <2> QED BY <1>1, <1>11, <2>1, HeadStep
<1>13. TypeOK'
  <2>1. intr' \in [Pid -> BOOLEAN]  BY <1>1, FlagsType
  <2>2. arg' \in [Pid -> Pid \cup {None}] /\ pc' \in [Pid -> Positions]
    BY <1>1, <1>2 DEF Positions
  <2> QED BY <1>1, <1>11, <2>1, <2>2 DEF TypeOK
<1>14. NeverHalted' /\ ExitIsFinal' /\ IdleReady'
  BY <1>1, <1>2, <1>3, PidFacts DEF NeverHalted, ExitIsFinal, IdleReady, Runs
<1>15. PositionInv'  BY <1>1, <1>3, <1>4, <1>5 DEF PositionInv, Runs, Holding
<1>16. HoldInv'  BY <1>1, <1>3, <1>4, <1>5 DEF HoldInv, Holding
<1> QED BY <1>11, <1>12, <1>13, <1>14, <1>15, <1>16
-----------------------------------------------------------------------------
LEMMA NextIInv == ASSUME OwnThreadsOnly PROVE IInv /\ [Next]_vars => IInv'
<1> SUFFICES ASSUME IInv, [Next]_vars PROVE IInv'  OBVIOUS
<1>1. CASE Tick  BY <1>1, TickIInv
<1>2. CASE WalkStep  BY <1>2, WalkStepIInv
<1>3. CASE TickEnd  BY <1>3, TickEndIInv
<1>4. ASSUME NEW p \in Pid, Program(p) PROVE IInv'
  BY <1>4, SysSleepIInv, SysForkIInv, ThStartCheckIInv, ExitKillIInv, WaitScanIInv, JoinCheckIInv
  DEF Program
<1>5. ASSUME NEW p \in Pid, Kernel(p) PROVE IInv'
  BY <1>5, Int20IInv, ForkActivateIInv, ThreadActivateIInv, ThStartIInv, ExitNotifyIInv,
     JoinFreeIInv, JoinSleepIInv
  DEF Kernel
<1>6. CASE UNCHANGED vars  BY <1>6, SameIInv
<1> QED BY <1>1, <1>2, <1>3, <1>4, <1>5, <1>6 DEF Next, Handler

\* The inductive invariant of the process manager, for programs that start only
\* threads they made; thread_start is one that no clock interrupts (Quiet).
THEOREM Invariance == ASSUME OwnThreadsOnly PROVE Spec => []IInv
<1>1. Init => IInv  BY InitIInv
<1>2. IInv /\ [Next]_vars => IInv'  BY NextIInv
<1> QED BY <1>1, <1>2, PTL DEF Spec

\* Every field of every slot keeps its type: no slice counter below zero, no
\* slot number outside the table.
THEOREM TypeCorrect == ASSUME OwnThreadsOnly PROVE Spec => []TypeOK
<1>1. IInv => TypeOK  BY DEF IInv
<1> QED BY <1>1, Invariance, PTL

\* The calls of pool.h are made as pool.h:69 asks: every free_proc takes a slot
\* out of the pool it is in, and the sizes count the lists, whatever the
\* interleaving of the system calls and the clock, but for a clock inside the
\* list operations of thread_start, which the first program allows (Quiet).
THEOREM PoolsValid == ASSUME OwnThreadsOnly PROVE Spec => []PoolInv
<1>1. IInv => PoolInv  BY DEF IInv
<1> QED BY <1>1, Invariance, PTL

\* The process that is RUNNING is the head of busy, which timerHandle moves to
\* the tail at the end of a slice.
THEOREM RunningHead == ASSUME OwnThreadsOnly PROVE Spec => []RunningIsHead
<1>1. IInv => RunningIsHead  BY DEF IInv
<1> QED BY <1>1, Invariance, PTL

\* The Assert of schedule never fails.
THEOREM NoHalt == ASSUME OwnThreadsOnly PROVE Spec => []NeverHalted
<1>1. IInv => NeverHalted  BY DEF IInv
<1> QED BY <1>1, Invariance, PTL

\* The int $0x20 at the end of sys_exit does not return.
THEOREM ExitDoesNotReturn == ASSUME OwnThreadsOnly PROVE Spec => []ExitIsFinal
<1>1. IInv => ExitIsFinal  BY DEF IInv
<1> QED BY <1>1, Invariance, PTL
-----------------------------------------------------------------------------
\* The step SleepKept allows for p.
WokenDuly(p) ==
    state[p] = "BLOCKED" /\ state'[p] # "BLOCKED"
       => \/ iter > 0 /\ sleepTime[p] = 1
          \/ pc[current] = "exit" /\ parent[current] = p

LEMMA WalkStepWoken == ASSUME IInv, WalkStep, NEW q \in Pid PROVE WokenDuly(q)
<1> DEFINE p == pools.list["slp"][iter]
<1>1. iter > 0  BY DEF WalkStep
<1>2. (state' = [state EXCEPT ![p] = "RUNNABLE"] /\ LastTick(p)) \/ state' = state
  BY DEF WalkStep, Awake
<1>3. state \in [Pid -> States]  BY DEF IInv, TypeOK
<1> QED BY <1>1, <1>2, <1>3 DEF WokenDuly, LastTick

LEMMA TickEndWoken == ASSUME IInv, TickEnd, NEW q \in Pid PROVE WokenDuly(q)
<1> DEFINE P == SlicePools
           h == HeadOf(SkipIdle(P), "busy")
<1>1. Located(Pid, P, Homes) /\ ~IsEmptyPool(P, "busy")  BY SliceStep, LocatedBusy
<1>2. Located(Pid, SkipIdle(P), Homes)
  BY <1>1, RotateLocated, "busy" \in PoolNames DEF SkipIdle, PoolNames
<1>3. h \in Pid /\ Home(h) = "busy"  BY <1>2, LocatedBusy
<1>4. state' = [SliceState EXCEPT ![h] = "RUNNING"]  BY <1>1 DEF TickEnd, Schedule
<1> HIDE DEF P, h
<1>5. state[q] = "BLOCKED" => q # h  BY <1>3 DEF Home
<1> QED BY <1>4, <1>5, SliceStep DEF WokenDuly

LEMMA CallWoken ==
  ASSUME OwnThreadsOnly, IInv, NEW p \in Pid, Program(p) \/ Kernel(p), NEW q \in Pid
  PROVE  WokenDuly(q)
<1> USE DEF WokenDuly, task, family
<1>1. state \in [Pid -> States]  BY DEF IInv, TypeOK
<1>2. CASE SysSleep(p) \/ JoinSleep(p)  BY <1>1, <1>2 DEF SysSleep, JoinSleep, SetSleep
<1>3. CASE SysFork(p, "fork") \/ SysFork(p, "thread") \/ ThStartCheck(p) \/ Int20(p) \/ JoinFree(p)
  BY <1>3 DEF SysFork, ThStartCheck, Int20, JoinFree
<1>4. CASE ExitKill(p)
  <2>1. state[p] = "RUNNING"  BY <1>4 DEF ExitKill, Enters, IInv, PositionInv, Runs
  <2> QED BY <1>1, <1>4, <2>1 DEF ExitKill
<1>5. CASE ForkActivate(p) \/ ThreadActivate(p)
  <2>1. Runs(p) /\ pc[p] \in {"fork", "thread"}
    BY <1>5 DEF ForkActivate, ThreadActivate, At
  <2>2. state[arg[p]] = "DEAD"  BY <2>1, ReservedSlot
  <2>3. \A x \in Pid \ {arg[p]} : state'[x] = state[x]
    BY <1>1, <1>5 DEF ForkActivate, ThreadActivate
  <2> QED BY <2>2, <2>3
<1>6. CASE ThStart(p)
  <2>1. state[arg[p]] = "BABY"  BY <1>6 DEF ThStart, At, IInv, HoldInv
  <2> QED BY <1>1, <1>6, <2>1 DEF ThStart, Awake
<1>7. CASE ExitNotify(p)
  <2>1. current = p /\ pc[p] = "exit" /\ state[p] = "ZOMBIE"
    BY <1>7 DEF ExitNotify, At, Runs, IInv, PositionInv
  <2>2. \/ state' = [state EXCEPT ![p] = "DEAD"]
        \/ state' = [state EXCEPT ![parent[p]] = "RUNNABLE"]
        \/ state' = state
    BY <1>7 DEF ExitNotify, Awake
  <2> QED BY <1>1, <2>1, <2>2
<1>8. CASE WaitScan(p)
  <2>1. ASSUME NEW i \in Zombies(p), WaitReap(p, i) PROVE WokenDuly(q)
    BY <1>1, <2>1 DEF WaitReap, Zombies
  <2> QED BY <1>1, <1>8, <2>1 DEF WaitScan, SetSleep
<1>9. CASE JoinCheck(p)
  <2>1. ASSUME NEW k, JoinTest(p, k) PROVE WokenDuly(q)  BY <1>1, <2>1 DEF JoinTest
  <2> QED BY <1>9, <2>1 DEF JoinCheck
<1> QED BY <1>2, <1>3, <1>4, <1>5, <1>6, <1>7, <1>8, <1>9 DEF Program, Kernel

LEMMA NextWoken == ASSUME OwnThreadsOnly, IInv, Next, NEW q \in Pid PROVE WokenDuly(q)
<1>1. CASE Tick  BY <1>1 DEF Tick, task, WokenDuly
<1>2. CASE Handler  BY <1>2, WalkStepWoken, TickEndWoken DEF Handler
<1>3. ASSUME NEW p \in Pid, Program(p) \/ Kernel(p) PROVE WokenDuly(q)  BY <1>3, CallWoken
<1> QED BY <1>1, <1>2, <1>3 DEF Next

\* No sleep is cut short but by the clock or a child that exits: nothing else
\* that moves processes about, and no reuse of a slot, touches a sleeper.
THEOREM SleepersKept == ASSUME OwnThreadsOnly PROVE Spec => SleepKept
<1>1. IInv /\ [Next]_vars => [\A p \in Pid : WokenDuly(p)]_vars  BY NextWoken
<1> QED BY <1>1, Invariance, PTL DEF Spec, SleepKept, WokenDuly
-----------------------------------------------------------------------------
\* Programs that make no threads.  A thread has the ncli that the last occupant
\* of its slot left: with interrupts on in sys_exit it may lose the processor
\* before it has woken its parent, for ever.
NoThreads == "thread" \notin Calls

\* A forked process makes its calls with interrupts off from the first popoff
\* on, so that nothing comes between the two parts of its sys_exit.
Leaving(p) == pc[p] = "exit" /\ parent[p] # None
ExitInv == \A p \in Pid :
    /\ pc[p] # "thread"
    /\ parent[p] # None => nested[p]
    /\ Leaving(p) => current = p /\ iter = 0 /\ ~intr[p]

InWait(p) == pc[p] \in {"wait", "waitYield"} /\ state[p] = "BLOCKED"
WokenFromWait(p) == InWait(p) => \A k \in Zombies(p) : Leaving(k)

WInv == ExitInv /\ \A p \in Pid : WokenFromWait(p)

\* What a step other than those of fork, exit and wait does not do.
Unconcerned ==
    /\ current' = current
    /\ iter' = iter \/ \A p \in Pid : ~Leaving(p)
    /\ \A p \in Pid : /\ parent'[p] = parent[p] \/ parent'[p] = None
                      /\ nested'[p] = nested[p]
                      /\ state'[p] = "ZOMBIE" => state[p] = "ZOMBIE"
                      /\ pc'[p] = "exit" <=> pc[p] = "exit"
                      /\ pc'[p] = "thread" => pc[p] = "thread"
                      /\ Leaving(p) => intr'[p] = intr[p]
                      /\ InWait(p)' => InWait(p)

LEMMA QuietKeeps == ASSUME TypeOK, WInv, Unconcerned PROVE WInv'
<1>1. \A p \in Pid : parent'[p] # None => parent'[p] = parent[p]  BY DEF Unconcerned
<1>2. \A p \in Pid : Leaving(p)' => Leaving(p)  BY <1>1 DEF Unconcerned, Leaving
<1>3. ExitInv'  BY <1>1, <1>2 DEF WInv, ExitInv, Unconcerned
<1>4. ASSUME NEW p \in Pid PROVE WokenFromWait(p)'
  <2>1. ASSUME InWait(p)', NEW k \in Pid, parent'[k] = p, state'[k] = "ZOMBIE"
        PROVE  Leaving(k)'
    <3>1. parent[k] = p /\ state[k] = "ZOMBIE" /\ parent'[k] # None  BY <1>1, <2>1, PidFacts DEF Unconcerned
    <3>2. Leaving(k)  BY <2>1, <3>1 DEF Unconcerned, WInv, WokenFromWait, Zombies, Kids
    <3> QED BY <3>1, <3>2 DEF Unconcerned, Leaving
  <2> QED BY <2>1 DEF WokenFromWait, Zombies, Kids
<1> QED BY <1>3, <1>4 DEF WInv

LEMMA InitWInv == Init => WInv
BY PidFacts DEF Init, WInv, ExitInv, WokenFromWait, Leaving, InWait

\* The clock: no process is between the two parts of its sys_exit.
LEMMA ClockWInv == ASSUME IInv, WInv, Tick \/ Handler PROVE WInv'
<1> USE DEF IInv, sched, task, family, flags, ctl
<1>1. \A p \in Pid : ~Leaving(p)
  BY DEF WInv, ExitInv, Tick, Runs, Handler, WalkStep, TickEnd
<1>2. /\ UNCHANGED <<parent, nested, pc, intr>>
      /\ \A p \in Pid : state'[p] \in {"ZOMBIE", "BLOCKED"} => state'[p] = state[p]
  BY DEF Tick, Handler, WalkStep, Awake, TickEnd, Schedule, SliceState, TypeOK
<1>3. \A p \in Pid : ~Leaving(p)' /\ (InWait(p)' => InWait(p))  BY <1>1, <1>2 DEF Leaving, InWait
<1>4. \A p \in Pid : Zombies(p)' \subseteq Zombies(p)  BY <1>2 DEF Zombies, Kids
<1> QED BY <1>1, <1>2, <1>3, <1>4 DEF WInv, ExitInv, WokenFromWait, Zombies, Kids

LEMMA CallQuiet ==
  ASSUME IInv, WInv, NEW p \in Pid,
         \/ SysSleep(p) \/ SysFork(p, "fork") \/ ThStartCheck(p) \/ JoinCheck(p)
         \/ Int20(p) \/ ThStart(p) \/ JoinFree(p) \/ JoinSleep(p)
  PROVE  Unconcerned
<1> USE DEF IInv, TypeOK, sched, task, family, flags, ctl, Unconcerned, Leaving, InWait, Goto,
            At, Enters, Runs, AfterOff, AfterRet
<1>1. Runs(p) /\ pc[p] # "exit"
  BY DEF SysSleep, SysFork, ThStartCheck, JoinCheck, Int20, ThStart, JoinFree, JoinSleep, Yielding
<1>2. \A q \in Pid : ~Leaving(q)  BY <1>1 DEF WInv, ExitInv
<1>3. CASE SysSleep(p)  BY <1>1, <1>2, <1>3 DEF SysSleep, SetSleep
<1>4. CASE SysFork(p, "fork")  BY <1>1, <1>2, <1>4 DEF SysFork
<1>5. CASE ThStartCheck(p)  BY <1>1, <1>2, <1>5 DEF ThStartCheck
<1>6. CASE JoinCheck(p)
  <2>1. ASSUME NEW k, JoinTest(p, k) PROVE Unconcerned
    BY <1>1, <1>2, <1>6, <2>1 DEF JoinTest, JoinCheck
  <2> QED BY <1>6, <2>1 DEF JoinCheck
<1>7. CASE Int20(p)  BY <1>1, <1>2, <1>7 DEF Int20, AfterYield, Yielding
<1>8. CASE ThStart(p)  BY <1>1, <1>2, <1>8 DEF ThStart, Awake
<1>9. CASE JoinFree(p)  BY <1>1, <1>2, <1>9 DEF JoinFree
<1>10. CASE JoinSleep(p)  BY <1>1, <1>2, <1>10 DEF JoinSleep, SetSleep
<1> QED BY <1>3, <1>4, <1>5, <1>6, <1>7, <1>8, <1>9, <1>10

\* The child has the nesting of the fork that made it.
LEMMA ForkWInv == ASSUME IInv, WInv, NEW p \in Pid, ForkActivate(p) PROVE WInv'
<1> USE DEF IInv, TypeOK, At, Runs, sched
<1> DEFINE a == arg[p]
<1>1. a \in Pid /\ a # p /\ state[a] = "DEAD" /\ state[p] = "RUNNING"
  BY ReservedSlot DEF ForkActivate, PositionInv
<1>2. \A q \in Pid : ~Leaving(q)  BY DEF ForkActivate, Leaving, WInv, ExitInv
<1>3. /\ \A q \in Pid : parent'[q] = (IF q = a THEN p ELSE parent[q])
      /\ \A q \in Pid : nested'[q] = (IF q = a THEN TRUE ELSE nested[q])
      /\ \A q \in Pid : state'[q] = (IF q = a THEN "RUNNABLE" ELSE state[q])
      /\ \A q \in Pid : pc'[q] = (IF q = p THEN "yield" ELSE IF q = a THEN "user" ELSE pc[q])
  BY <1>1 DEF ForkActivate
<1> HIDE DEF a
<1>4. \A q \in Pid : ~Leaving(q)'  BY <1>2, <1>3 DEF Leaving
<1>5. \A q \in Pid : InWait(q)' => InWait(q)  BY <1>1, <1>3 DEF InWait
<1>6. \A q \in Pid : Zombies(q)' \subseteq Zombies(q)  BY <1>1, <1>3 DEF Zombies, Kids
<1>7. ExitInv'  BY <1>3, <1>4 DEF WInv, ExitInv
<1>8. \A q \in Pid : WokenFromWait(q)'
  BY <1>2, <1>5, <1>6 DEF WInv, WokenFromWait, Zombies, Kids
<1> QED BY <1>7, <1>8 DEF WInv

LEMMA ExitKillWInv == ASSUME IInv, WInv, NEW p \in Pid, ExitKill(p) PROVE WInv'
<1> USE DEF IInv, TypeOK, Enters, Runs, sched, family
<1>1. \A q \in Pid : ~Leaving(q)  BY DEF ExitKill, Leaving, WInv, ExitInv
<1>2. /\ \A q \in Pid : state'[q] = (IF q = p THEN "ZOMBIE" ELSE state[q])
      /\ \A q \in Pid : pc'[q] = (IF q = p THEN "exit" ELSE pc[q])
      /\ intr'[p] = (intr[p] /\ ~nested[p])
      /\ UNCHANGED <<current, iter, parent, nested>> /\ current = p /\ iter = 0
  BY DEF ExitKill, Goto, AfterOff
<1>3. ExitInv'
  <2>1. \A q \in Pid : Leaving(q)' => q = p  BY <1>1, <1>2 DEF Leaving
  <2>2. Leaving(p)' => ~intr'[p]  BY <1>2 DEF Leaving, WInv, ExitInv
  <2> QED BY <1>2, <2>1, <2>2 DEF WInv, ExitInv
<1>4. \A q \in Pid : InWait(q)' => InWait(q)  BY <1>2 DEF InWait
<1>5. ASSUME NEW q \in Pid PROVE WokenFromWait(q)'
  <2>1. ASSUME InWait(q)', NEW k \in Pid, parent'[k] = q, state'[k] = "ZOMBIE" PROVE k = p
    BY <1>1, <1>2, <1>4, <2>1 DEF WInv, WokenFromWait, Zombies, Kids
  <2>2. parent'[p] = q => Leaving(p)'  BY <1>2, PidFacts DEF Leaving
  <2> QED BY <2>1, <2>2 DEF WokenFromWait, Zombies, Kids
<1> QED BY <1>3, <1>5 DEF WInv

\* The parent is not asleep afterwards.
LEMMA ExitNotifyWInv == ASSUME IInv, WInv, NEW p \in Pid, ExitNotify(p) PROVE WInv'
<1> USE DEF IInv, TypeOK, At, Runs, sched
<1>1. /\ current = p /\ iter = 0 /\ pc[p] = "exit" /\ state[p] = "ZOMBIE"
      /\ UNCHANGED <<current, iter, parent, nested>>
      /\ \A q \in Pid : pc'[q] = (IF q = p THEN "exited" ELSE pc[q])
  BY DEF ExitNotify, PositionInv, Goto
<1>2. /\ \A q \in Pid : state'[q] = state[q] \/ state'[q] \in {"DEAD", "RUNNABLE"}
      /\ parent[p] # None => state'[parent[p]] # "BLOCKED"
  BY DEF ExitNotify, Awake, ParentAsleep
<1>3. \A q \in Pid : ~Leaving(q)'  BY <1>1 DEF Leaving, WInv, ExitInv
<1>4. ExitInv'  BY <1>1, <1>3 DEF WInv, ExitInv
<1>5. ASSUME NEW q \in Pid PROVE WokenFromWait(q)'
  <2>1. ASSUME InWait(q)', NEW k \in Pid, parent'[k] = q, state'[k] = "ZOMBIE" PROVE FALSE
    <3>1. InWait(q) /\ parent[k] = q /\ state[k] = "ZOMBIE"  BY <1>1, <1>2, <2>1 DEF InWait
    <3>2. Leaving(k)  BY <3>1 DEF WInv, WokenFromWait, Zombies, Kids
    <3>3. k = p  BY <1>1, <3>2 DEF WInv, ExitInv
    <3> QED BY <1>2, <2>1, <3>1, <3>3, PidFacts DEF InWait
  <2> QED BY <2>1 DEF WokenFromWait, Zombies, Kids
<1> QED BY <1>4, <1>5 DEF WInv

LEMMA WaitScanWInv == ASSUME IInv, WInv, NEW p \in Pid, WaitScan(p) PROVE WInv'
<1> USE DEF IInv, TypeOK, At, Enters, Runs, sched, task, family, Goto
<1>1. current = p /\ iter = 0 /\ UNCHANGED <<current, iter, nested>> /\ pc[p] \in {"user", "wait"}
  BY DEF WaitScan
<1>2. \A q \in Pid : ~Leaving(q)  BY <1>1 DEF Leaving, WInv, ExitInv
<1>3. ASSUME NEW i \in Zombies(p), WaitReap(p, i), UNCHANGED <<sched, nested>> PROVE Unconcerned
  <2>1. i \in Pid  BY DEF Zombies, Kids
  <2>2. /\ \A q \in Pid : parent'[q] = IF q = i THEN None ELSE parent[q]
        /\ \A q \in Pid : state'[q] = IF q = i THEN "DEAD" ELSE state[q]
        /\ \A q \in Pid : pc'[q] = IF q = p THEN "user" ELSE pc[q]
    BY <1>3, <2>1 DEF WaitReap
  <2> QED BY <1>1, <1>2, <1>3, <2>2 DEF Unconcerned, InWait
<1>4. CASE Kids(p) = {} /\ pc' = [pc EXCEPT ![p] = "user"] /\ UNCHANGED <<task, family>>
  <2>1. \A q \in Pid : pc'[q] = IF q = p THEN "user" ELSE pc[q]  BY <1>4
  <2>2. Unconcerned  BY <1>1, <1>2, <1>4, <2>1 DEF Unconcerned, InWait
  <2> QED BY <2>2, QuietKeeps
<1>5. CASE Zombies(p) = {} /\ SetSleep(p, -1) /\ pc' = [pc EXCEPT ![p] = "waitYield"] /\ UNCHANGED family
  <2>1. /\ \A q \in Pid : state'[q] = IF q = p THEN "BLOCKED" ELSE state[q]
        /\ \A q \in Pid : pc'[q] = IF q = p THEN "waitYield" ELSE pc[q]
        /\ UNCHANGED parent
    BY <1>5 DEF SetSleep
  <2>2. \A q \in Pid : ~Leaving(q)'  BY <1>2, <2>1 DEF Leaving
  <2>3. ExitInv'  BY <1>1, <2>1, <2>2 DEF WInv, ExitInv
  <2>4. \A q \in Pid : Zombies(q)' \subseteq Zombies(q)  BY <2>1 DEF Zombies, Kids
  <2>5. ASSUME NEW q \in Pid PROVE WokenFromWait(q)'
    <3>1. CASE q = p  BY <1>5, <2>4, <3>1 DEF WokenFromWait
    <3>2. CASE q # p
      <4>1. InWait(q)' => InWait(q)  BY <2>1, <3>2 DEF InWait
      <4>2. InWait(q) => Zombies(q) = {}  BY <1>2 DEF WInv, WokenFromWait, Zombies, Kids
      <4> QED BY <2>4, <4>1, <4>2 DEF WokenFromWait
    <3> QED BY <3>1, <3>2
  <2> QED BY <2>3, <2>5 DEF WInv
<1>6. WaitScan(p) => \/ \E i \in Zombies(p) : WaitReap(p, i) /\ UNCHANGED <<sched, nested>>
                     \/ Kids(p) = {} /\ pc' = [pc EXCEPT ![p] = "user"] /\ UNCHANGED <<task, family>>
                     \/ /\ Zombies(p) = {} /\ SetSleep(p, -1)
                        /\ pc' = [pc EXCEPT ![p] = "waitYield"] /\ UNCHANGED family
  BY DEF WaitScan
<1> QED BY <1>3, <1>4, <1>5, <1>6, QuietKeeps

LEMMA NextWInv == ASSUME OwnThreadsOnly, NoThreads PROVE IInv /\ WInv /\ [Next]_vars => WInv'
<1> SUFFICES ASSUME IInv, WInv, [Next]_vars PROVE WInv'  OBVIOUS
<1>1. CASE Tick \/ Handler  BY <1>1, ClockWInv
<1>2. ASSUME NEW p \in Pid, Program(p) \/ Kernel(p) PROVE WInv'
  <2>1. ~SysFork(p, "thread") /\ ~ThreadActivate(p)
    BY DEF NoThreads, SysFork, Enters, ThreadActivate, At, WInv, ExitInv
  <2> QED BY <1>2, <2>1, CallQuiet, QuietKeeps, ForkWInv, ExitKillWInv, ExitNotifyWInv,
             WaitScanWInv DEF Program, Kernel, IInv
<1>3. CASE UNCHANGED vars
  <2>1. Unconcerned  BY <1>3 DEF vars, sched, task, family, flags, ctl, Unconcerned, Leaving, InWait
  <2> QED BY <2>1, QuietKeeps DEF IInv
<1> QED BY <1>1, <1>2, <1>3 DEF Next

\* A parent is woken by the exit of every child it waits for, whatever the
\* clock and the other processes do meanwhile, for any number of slots.
THEOREM WaitersWoken == ASSUME OwnThreadsOnly, NoThreads PROVE Spec => []WaitIsWoken
<1>1. Init => WInv  BY InitWInv
<1>2. IInv /\ WInv /\ [Next]_vars => WInv'  BY NextWInv
<1>3. WInv => WaitIsWoken
  <2> SUFFICES ASSUME WInv PROVE WaitIsWoken  OBVIOUS
  <2>1. ASSUME NEW p \in Pid, InWait(p), NEW k \in Zombies(p) PROVE k = current /\ pc[k] = "exit"
    BY <2>1 DEF WInv, ExitInv, WokenFromWait, Leaving, Zombies, Kids
  <2> QED BY <2>1 DEF WaitIsWoken, InWait
<1> QED BY <1>1, <1>2, <1>3, Invariance, PTL DEF Spec
=============================================================================
