------------------------------ MODULE VmProofs ------------------------------
(***************************************************************************)
(* Proofs about Vm: for any number of processes, page frames and pages,    *)
(* every frame in use is in one place of one address space, but for those  *)
(* an exec of a shorter program has put out of reach, as long as the       *)
(* programs keep to the protocol of Vm and the first of them fits.         *)
(***************************************************************************)
EXTENDS Vm, FiniteSetTheorems, TLAPS

\* The programs keep to the protocol of module Vm, and the first one fits.
Orderly == Careless = {}
Fits == \A n \in Images : n + StackPages <= MaxPage + 1 /\ n + StackPages + 2 <= Frames

States == {"LIVE", "ZOMBIE", "DEAD"}
VType ==
    /\ state \in [Pid -> States] /\ parent \in [Pid -> Pid \cup {None}]
    /\ pde \in [Pid -> Frame \cup {None}] /\ sz \in [Pid -> Nat] /\ ustacktop \in [Pid -> Nat]
    /\ pagemap \subseteq Frame
    /\ dir \in [Frame -> Frame \cup {None}] /\ pte \in [Frame -> [Page -> Frame \cup {None}]]
    /\ exec \in [Pid -> [image : Nat, va : Nat, frame : Frame \cup {None}]]
    /\ stopped \in BOOLEAN /\ made \in Nat

Busy(p) == exec[p] # NoExec

\* The end of the pages that p accounts for.
Reach(p) == IF Busy(p) THEN exec[p].va ELSE ustacktop[p]

Together(p, q) == pde[p] = pde[q]

\* Those who share a space are a process and a chain of threads: each but the
\* lowest was made by the next one below, who is still there; the stacks are
\* one above the other; and a zombie has no threads.
ChainInv ==
    /\ \A p \in Alive : /\ pde[p] \in Frame /\ dir[pde[p]] \in Frame
                        /\ ustacktop[p] \in StackPages + 1 .. MaxPage + 1
    /\ \A p, q \in Alive : Together(p, q) /\ p # q /\ ustacktop[p] <= ustacktop[q]
          => /\ ustacktop[p] + StackPages <= ustacktop[q]
             /\ parent[q] \in Alive /\ Together(parent[q], q)
             /\ ustacktop[parent[q]] + StackPages = ustacktop[q]
    /\ \A p \in Pid : state[p] = "ZOMBIE" => Threads(p) = {}

\* The frames of a space are its directory d, its table dir[d] and its pages.
\* Those of pages that nobody accounts for any more are lost.
Entry(d, v) == pte[dir[d]][v]
Mapped(d, v) == Entry(d, v) # None /\ Entry(d, v) \notin lost

\* The pages accounted for are those below the highest stack of the space.
PagesInv ==
    \A p \in Alive : \A v \in Page :
       Mapped(pde[p], v) <=> \E q \in Alive : Together(p, q) /\ v < Reach(q)

\* A process in an exec that takes frames is alone in its space, and the only
\* one; nothing is above the pages it has; the frame it has found is still free.
ExecInv ==
    \A p \in Pid : Busy(p) =>
       LET e == exec[p]
       IN  /\ state[p] = "LIVE"
           /\ \A q \in Alive : Together(p, q) => q = p
           /\ \A q \in Pid : Busy(q) => q = p
           /\ e.image # 0 /\ e.image + StackPages <= MaxPage + 1
           /\ ustacktop[p] <= e.va /\ e.va < e.image + StackPages
           /\ e.frame # None => e.frame \notin pagemap
           /\ \A v \in Page : v >= e.va => Entry(pde[p], v) = None

\* Every frame in use that is not lost is in one place of one space.
FramesInv ==
    /\ lost \subseteq pagemap
    /\ \A d \in Spaces : d \in pagemap \ lost /\ dir[d] \in pagemap \ lost
    /\ \A d, e \in Spaces : dir[d] # e /\ (dir[d] = dir[e] => d = e)
    /\ \A d \in Spaces : \A v \in Page : Entry(d, v) # None =>
          Entry(d, v) \in pagemap /\ \A e \in Spaces : Entry(d, v) # e /\ Entry(d, v) # dir[e]
    /\ \A d, e \in Spaces : \A v, w \in Page :
          Entry(d, v) # None /\ Entry(d, v) = Entry(e, w) => d = e /\ v = w
    /\ \A f \in pagemap \ lost : \E d \in Spaces :
          f = d \/ f = dir[d] \/ \E v \in Page : f = Entry(d, v)

VInv == VType /\ ChainInv /\ PagesInv /\ ExecInv /\ FramesInv

\* What a step may not do by PagesStay.
PagesKept ==
    \A p \in Pid : \A v \in 0 .. ustacktop[p] - 1 :
       state[p] = "LIVE" /\ state'[p] = "LIVE"
          => pte'[dir'[pde'[p]]][v] = pte[dir[pde[p]]][v]
-----------------------------------------------------------------------------
LEMMA NumberFacts ==
  /\ None = -1 /\ None \notin Frame /\ None \notin Pid
  /\ StackPages \in Nat \ {0} /\ MaxPage \in Nat /\ Frames \in Nat
  /\ Frame \subseteq Nat /\ Pid \subseteq Nat \ {0} /\ Page \subseteq Nat
BY VmAssumption, SMT DEF None, Frame, Pid, Page

LEMMA FrameFinite == IsFiniteSet(Frame)
BY FS_Interval, VmAssumption DEF Frame

\* What kalloc returns in a row are free frames, each once, and all of them.
LEMMA FreeFramesRight ==
  ASSUME pagemap \subseteq Frame
  PROVE  /\ Len(FreeFrames) \in Nat
         /\ DOMAIN FreeFrames = 1 .. Len(FreeFrames)
         /\ FreeFrames \in Seq(Frame)
         /\ \A i \in 1 .. Len(FreeFrames) : FreeFrames[i] \in Frame /\ FreeFrames[i] \notin pagemap
         /\ \A i, j \in 1 .. Len(FreeFrames) : FreeFrames[i] = FreeFrames[j] => i = j
<1> DEFINE F == Frame \ pagemap
           Below(f) == {g \in F : g < f}
           n == Cardinality(F)
           r == [f \in F |-> Cardinality(Below(f))]
           E(i) == CHOOSE f \in F : Cardinality(Below(f)) = i - 1
<1>1. IsFiniteSet(F) /\ F \subseteq Nat
  BY FrameFinite, FS_Subset, NumberFacts
<1>2. n \in Nat
  BY <1>1, FS_CardinalityType
<1>3. ASSUME NEW f \in F, NEW T \in SUBSET F, Below(f) \subseteq T, f \in T
      PROVE  Cardinality(Below(f)) < Cardinality(T)
  <2>1. IsFiniteSet(T) /\ Cardinality(T) \in Nat
    BY <1>1, FS_Subset, FS_CardinalityType
  <2>2. Below(f) \in SUBSET T
    BY <1>3
  <2>3. f \notin Below(f)
    BY <1>1
  <2>4. /\ IsFiniteSet(Below(f))
        /\ Cardinality(Below(f)) <= Cardinality(T)
        /\ Cardinality(T) = Cardinality(Below(f)) => T = Below(f)
    <3> HIDE DEF Below
    <3> QED BY <2>1, <2>2, FS_Subset
  <2>5. Cardinality(Below(f)) \in Nat
    BY <2>4, FS_CardinalityType
  <2>6. Cardinality(T) # Cardinality(Below(f))
    BY <2>3, <2>4, <1>3
  <2> HIDE DEF Below
  <2> QED BY <2>1, <2>4, <2>5, <2>6
<1>4. \A f \in F : Cardinality(Below(f)) \in Nat /\ Cardinality(Below(f)) < n
  <2> TAKE f \in F
  <2>1. Below(f) \in SUBSET F
    OBVIOUS
  <2>2. Cardinality(Below(f)) \in Nat
    <3> HIDE DEF Below, F
    <3> QED BY <2>1, <1>1, FS_Subset, FS_CardinalityType
  <2>3. Cardinality(Below(f)) < n
    BY <1>3
  <2> QED BY <2>2, <2>3
<1>5. \A f, g \in F : f # g => Cardinality(Below(f)) # Cardinality(Below(g))
  <2>1. ASSUME NEW f \in F, NEW g \in F, f < g
        PROVE  Cardinality(Below(f)) < Cardinality(Below(g))
    <3>1. Below(f) \subseteq Below(g) /\ f \in Below(g) /\ Below(g) \in SUBSET F
      BY <2>1, <1>1
    <3> HIDE DEF Below, F
    <3> QED BY <3>1, <1>3
  <2> SUFFICES ASSUME NEW f \in F, NEW g \in F, f # g
               PROVE  Cardinality(Below(f)) # Cardinality(Below(g))
    OBVIOUS
  <2>2. f < g \/ g < f
    BY <1>1
  <2>3. Cardinality(Below(f)) \in Nat /\ Cardinality(Below(g)) \in Nat
    BY <1>4
  <2>4. Cardinality(Below(f)) < Cardinality(Below(g)) \/ Cardinality(Below(g)) < Cardinality(Below(f))
    BY <2>1, <2>2
  <2> HIDE DEF Below
  <2> QED BY <2>3, <2>4
<1>6. r \in Injection(F, 0 .. n - 1)
  <2>1. r \in [F -> 0 .. n - 1]
    <3>1. \A f \in F : Cardinality(Below(f)) \in 0 .. n - 1
      <4> HIDE DEF Below, n, F
      <4> QED BY <1>4, <1>2
    <3> HIDE DEF Below, n, F
    <3> QED BY <3>1
  <2>2. \A f, g \in F : r[f] = r[g] => f = g
    <3> HIDE DEF Below, n, F
    <3> QED BY <1>5
  <2> HIDE DEF r, n, F
  <2> QED BY <2>1, <2>2, Zenon DEF Injection, IsInjective
<1>7. IsFiniteSet(0 .. n - 1) /\ Cardinality(0 .. n - 1) = n
  <2> HIDE DEF n
  <2> QED BY <1>2, FS_Interval
<1>8. r \in Surjection(F, 0 .. n - 1)
  <2> HIDE DEF r, F
  <2> QED BY <1>6, <1>7, FS_Injection
<1>9. \A k \in 0 .. n - 1 : \E f \in F : Cardinality(Below(f)) = k
  <2>1. \A k \in 0 .. n - 1 : \E f \in F : r[f] = k
    <3> HIDE DEF r, F, n
    <3> QED BY <1>8, Zenon DEF Surjection
  <2> HIDE DEF Below, n, F
  <2> QED BY <2>1
<1>10. FreeFrames = [i \in 1 .. n |-> CHOOSE f \in F : Cardinality(Below(f)) = i - 1]
  BY Zenon DEF FreeFrames
<1>11. \A i \in 1 .. n : FreeFrames[i] \in F /\ Cardinality(Below(FreeFrames[i])) = i - 1
  <2> TAKE i \in 1 .. n
  <2>1. i - 1 \in 0 .. n - 1
    <3> HIDE DEF n
    <3> QED BY <1>2
  <2>2. FreeFrames[i] = CHOOSE f \in F : Cardinality(Below(f)) = i - 1
    <3> HIDE DEF n, F, Below
    <3> QED BY <1>10, Zenon
  <2>3. \E f \in F : Cardinality(Below(f)) = i - 1
    <3> HIDE DEF n, F, Below
    <3> QED BY <1>9, <2>1
  <2> HIDE DEF n, F, Below
  <2> QED BY <2>2, <2>3, Zenon
<1>12. FreeFrames \in Seq(Frame) /\ Len(FreeFrames) = n /\ DOMAIN FreeFrames = 1 .. n
  <2>1. DOMAIN FreeFrames = 1 .. n
    <3> HIDE DEF n, F, Below
    <3> QED BY <1>10, Zenon
  <2>2. FreeFrames \in [1 .. n -> Frame]
    <3>1. \A i \in 1 .. n : FreeFrames[i] \in Frame
      BY <1>11
    <3>2. FreeFrames = [i \in 1 .. n |-> E(i)]
      BY <1>10, Zenon
    <3> HIDE DEF n, F, Below, E
    <3>3. \A i \in 1 .. n : E(i) \in Frame
      BY <3>1, <3>2, Zenon
    <3> QED BY <3>2, <3>3, Zenon
  <2>3. FreeFrames \in Seq(Frame)
    <3> HIDE DEF n, F, Below
    <3> QED BY <1>2, <2>2
  <2> HIDE DEF n, F, Below
  <2> QED BY <1>2, <2>1, <2>2, <2>3
<1>13. \A i, j \in 1 .. n : FreeFrames[i] = FreeFrames[j] => i = j
  <2> TAKE i, j \in 1 .. n
  <2>1. FreeFrames[i] = FreeFrames[j] => i - 1 = j - 1
    <3> HIDE DEF n, F, Below
    <3> QED BY <1>11
  <2> HIDE DEF n, F, Below
  <2> QED BY <2>1, <1>2
<1> QED
  <2>1. \A i \in 1 .. n : FreeFrames[i] \in Frame /\ FreeFrames[i] \notin pagemap
    BY <1>11
  <2> HIDE DEF n, F, Below
  <2> QED BY <1>2, <1>12, <1>13, <2>1
-----------------------------------------------------------------------------
\* Nobody in its space has a stack above that of a process without threads.
LEMMA Highest ==
  ASSUME VType, ChainInv, NEW i \in Alive, Threads(i) = {}
  PROVE  \A q \in Alive : Together(i, q) => ustacktop[q] <= ustacktop[i]
<1> DEFINE T == {q \in Alive : Together(i, q) /\ ustacktop[q] > ustacktop[i]}
           Tops == {ustacktop[q] : q \in T}
<1>1. \A q \in Alive : q \in Pid /\ ustacktop[q] \in Nat /\ parent[q] \in Pid \cup {None}
  BY DEF Alive, VType
<1>2. SUFFICES ASSUME T # {}
               PROVE  FALSE
  BY <1>1
<1>3. PICK m \in Tops : \A n \in Tops : ~(n < m)
  <2>1. Tops \subseteq Nat /\ Tops # {}
    BY <1>1, <1>2
  <2>2. \E m \in Tops : \A n \in Tops : <<n, m>> \notin OpToRel(<, Nat)
    <3> HIDE DEF Tops
    <3> QED BY <2>1, NatLessThanWellFounded, WFMin
  <2> HIDE DEF Tops
  <2> QED BY <2>1, <2>2 DEF OpToRel
<1>4. PICK q \in T : m = ustacktop[q]
  BY <1>3
<1>5. /\ q # i /\ ustacktop[i] + StackPages <= ustacktop[q]
      /\ parent[q] \in Alive /\ Together(parent[q], q)
      /\ ustacktop[parent[q]] + StackPages = ustacktop[q]
  BY <1>1, <1>4 DEF ChainInv
<1>6. Together(i, parent[q]) /\ ustacktop[parent[q]] < m
  BY <1>1, <1>4, <1>5, NumberFacts DEF Together
<1>7. ustacktop[parent[q]] = ustacktop[i]
  <2>1. parent[q] \notin T
    BY <1>3, <1>6
  <2> QED BY <2>1, <1>1, <1>5, <1>6, NumberFacts
<1>8. CASE parent[q] = i
  <2>1. q \in Threads(i)
    BY <1>1, <1>4, <1>8 DEF Threads, Kids, Together, Alive
  <2> QED BY <2>1
<1>9. CASE parent[q] # i
  <2>1. ustacktop[parent[q]] + StackPages <= ustacktop[i]
    BY <1>1, <1>5, <1>6, <1>7, <1>9 DEF ChainInv, Together
  <2> QED BY <2>1, <1>1, <1>5, <1>7, NumberFacts
<1> QED BY <1>8, <1>9

\* Who has no threads and shares its space is a thread of its parent.
LEMMA SharesAsThread ==
  ASSUME VType, ChainInv, NEW i \in Alive, Threads(i) = {},
         NEW q \in Alive, q # i, Together(i, q)
  PROVE  /\ parent[i] \in Alive /\ Together(parent[i], i)
         /\ ustacktop[parent[i]] + StackPages = ustacktop[i]
         /\ i \in Threads(parent[i]) /\ IsThread(i)
<1>1. ustacktop[q] <= ustacktop[i]
  BY Highest
<1>2. /\ parent[i] \in Alive /\ Together(parent[i], i)
      /\ ustacktop[parent[i]] + StackPages = ustacktop[i]
  BY <1>1 DEF ChainInv, Together
<1>3. i \in Pid /\ parent[i] \in Pid /\ state[i] # "DEAD" /\ pde[i] = pde[parent[i]]
  BY <1>2 DEF Alive, Together
<1>4. ustacktop[i] > ustacktop[parent[i]]
  <2>1. ustacktop[i] \in Nat /\ ustacktop[parent[i]] \in Nat
    BY <1>3 DEF VType
  <2> QED BY <1>2, <2>1, NumberFacts
<1> QED BY <1>2, <1>3, <1>4, NumberFacts DEF Threads, Kids, IsThread

\* The pages below what a process reaches are there.
LEMMA PagesThere ==
  ASSUME VInv, NEW p \in Alive, NEW v \in 0 .. ustacktop[p] - 1
  PROVE  /\ v \in Page /\ Entry(pde[p], v) # None /\ Present(p, v)
         /\ Entry(pde[p], v) \notin lost
<1>1. p \in Pid /\ ustacktop[p] \in StackPages + 1 .. MaxPage + 1
  BY DEF VInv, ChainInv, Alive
<1>2. v \in Page
  BY <1>1, NumberFacts DEF Page
<1>3. Reach(p) \in Nat /\ v < Reach(p)
  <2>1. exec[p].va \in Nat /\ (Busy(p) => ustacktop[p] <= exec[p].va)
    BY <1>1 DEF VInv, VType, ExecInv
  <2> QED BY <1>1, <2>1, NumberFacts DEF Reach
<1>4. Mapped(pde[p], v)
  BY <1>2, <1>3 DEF VInv, PagesInv, Together
<1>5. dir[pde[p]] # None
  BY NumberFacts DEF VInv, ChainInv
<1> QED BY <1>2, <1>4, <1>5 DEF Entry, Mapped, Present

\* and those above the stack of one with nothing above it are not.
LEMMA AboveEmpty ==
  ASSUME VInv, NEW p \in Alive, Bare(p), NEW v \in Page, v >= ustacktop[p]
  PROVE  Entry(pde[p], v) = None /\ ~Present(p, v)
<1>1. dir[pde[p]] # None
  BY NumberFacts DEF VInv, ChainInv
<1> QED BY <1>1 DEF Bare, Entry, Present
-----------------------------------------------------------------------------
\* kfree of frames in use gives them back, kalloc of free ones takes them.
LEMMA ToggledIs ==
  ASSUME NEW F
  PROVE  /\ F \subseteq pagemap => Toggled(F) = pagemap \ F
         /\ F \cap pagemap = {} => Toggled(F) = pagemap \cup F
BY DEF Toggled

\* What FramesInv says of the directory and the table of a process.
LEMMA SpaceFacts ==
  ASSUME VType, ChainInv
  PROVE  /\ Spaces \subseteq Frame
         /\ \A d \in Spaces : dir[d] \in Frame /\ dir[d] # None
         /\ \A d \in Spaces : \A v \in Page : Entry(d, v) \in Frame \cup {None}
<1>1. \A d \in Spaces : d \in Frame /\ dir[d] \in Frame
  BY DEF ChainInv, Spaces
<1>2. \A d \in Spaces : \A v \in Page : Entry(d, v) \in Frame \cup {None}
  BY <1>1 DEF VType, Entry
<1> QED BY <1>1, <1>2, NumberFacts

\* A space gets new pages.
Gets(c, V, G) ==
    /\ c \in Spaces /\ V \in SUBSET Page
    /\ \A v \in V : Entry(c, v) = None /\ G[v] \in Frame /\ G[v] \notin pagemap
    /\ \A v, w \in V : G[v] = G[w] => v = w
    /\ Spaces' = Spaces /\ dir' = dir /\ lost' = lost /\ pagemap' = Toggled({G[v] : v \in V})
    /\ \A d \in Spaces : \A v \in Page :
          pte'[dir[d]][v] = IF d = c /\ v \in V THEN G[v] ELSE Entry(d, v)

\* The frames stay in one place each when a space gets new pages,
LEMMA FramesGrow ==
  ASSUME VType, ChainInv, FramesInv, NEW c, NEW V, NEW G, Gets(c, V, G)
  PROVE  FramesInv'
<1>a. /\ c \in Spaces /\ V \in SUBSET Page
      /\ \A v \in V : Entry(c, v) = None /\ G[v] \in Frame /\ G[v] \notin pagemap
      /\ \A v, w \in V : G[v] = G[w] => v = w
      /\ Spaces' = Spaces /\ dir' = dir /\ lost' = lost /\ pagemap' = Toggled({G[v] : v \in V})
      /\ \A d \in Spaces : \A v \in Page :
            pte'[dir[d]][v] = IF d = c /\ v \in V THEN G[v] ELSE Entry(d, v)
  BY Zenon DEF Gets
<1> USE <1>a
<1> DEFINE New(d, v) == pte'[dir[d]][v]
<1>1. pagemap' = pagemap \cup {G[v] : v \in V}
  BY ToggledIs
<1>2. \A d \in Spaces : \A v \in Page : d # c \/ v \notin V => New(d, v) = Entry(d, v)
  OBVIOUS
<1>3. \A v \in V : v \in Page /\ New(c, v) = G[v] /\ G[v] # None
  BY NumberFacts
<1> HIDE DEF New
<1>4. lost \subseteq pagemap' /\ \A d \in Spaces : d \in pagemap' \ lost /\ dir[d] \in pagemap' \ lost
  BY <1>1 DEF FramesInv
<1>5. \A d, e \in Spaces : dir[d] # e /\ (dir[d] = dir[e] => d = e)
  BY DEF FramesInv
<1>6. \A d \in Spaces : \A v \in Page : New(d, v) # None =>
          New(d, v) \in pagemap' /\ \A e \in Spaces : New(d, v) # e /\ New(d, v) # dir[e]
  <2> TAKE d \in Spaces
  <2> TAKE v \in Page
  <2>1. CASE d = c /\ v \in V
    BY <2>1, <1>1, <1>3 DEF FramesInv
  <2>2. CASE d # c \/ v \notin V
    <3>1. New(d, v) = Entry(d, v)
      BY <2>2, <1>2
    <3>2. Entry(d, v) # None =>
             Entry(d, v) \in pagemap /\ \A e \in Spaces : Entry(d, v) # e /\ Entry(d, v) # dir[e]
      BY DEF FramesInv
    <3> QED BY <3>1, <3>2, <1>1
  <2> QED BY <2>1, <2>2
<1>7. \A d, e \in Spaces : \A v, w \in Page :
          New(d, v) # None /\ New(d, v) = New(e, w) => d = e /\ v = w
  <2> SUFFICES ASSUME NEW d \in Spaces, NEW e \in Spaces, NEW v \in Page, NEW w \in Page,
                      New(d, v) # None, New(d, v) = New(e, w)
               PROVE  d = e /\ v = w
    OBVIOUS
  <2>1. CASE (d = c /\ v \in V) /\ (e = c /\ w \in V)
    BY <2>1, <1>3
  <2>2. CASE (d = c /\ v \in V) /\ ~(e = c /\ w \in V)
    <3>1. New(d, v) = G[v] /\ G[v] \notin pagemap /\ New(e, w) = Entry(e, w)
      BY <2>2, <1>2, <1>3
    <3>2. Entry(e, w) # None => Entry(e, w) \in pagemap
      BY DEF FramesInv
    <3> QED BY <3>1, <3>2
  <2>3. CASE ~(d = c /\ v \in V) /\ (e = c /\ w \in V)
    <3>1. New(e, w) = G[w] /\ G[w] \notin pagemap /\ New(d, v) = Entry(d, v)
      BY <2>3, <1>2, <1>3
    <3>2. Entry(d, v) # None => Entry(d, v) \in pagemap
      BY DEF FramesInv
    <3> QED BY <3>1, <3>2
  <2>4. CASE ~(d = c /\ v \in V) /\ ~(e = c /\ w \in V)
    BY <2>4, <1>2 DEF FramesInv
  <2> QED BY <2>1, <2>2, <2>3, <2>4
<1>8. \A f \in pagemap' \ lost : \E d \in Spaces :
          f = d \/ f = dir[d] \/ \E v \in Page : f = New(d, v)
  <2> TAKE f \in pagemap' \ lost
  <2>1. CASE f \in pagemap
    <3>1. PICK d \in Spaces : f = d \/ f = dir[d] \/ \E v \in Page : f = Entry(d, v)
      BY <2>1 DEF FramesInv
    <3>2. ASSUME NEW v \in Page, f = Entry(d, v)
          PROVE  f = New(d, v)
      <4>1. f # None
        BY <2>1, NumberFacts DEF VType
      <4> QED BY <3>2, <4>1, <1>2
    <3> QED BY <3>1, <3>2
  <2>2. CASE f \notin pagemap
    <3>1. PICK v \in V : f = G[v]
      BY <2>2, <1>1
    <3> QED BY <3>1, <1>3
  <2> QED BY <2>1, <2>2
<1>9. \A d \in Spaces : \A v \in Page : Entry(d, v)' = New(d, v)
  BY DEF New, Entry
<1>0. (lost \subseteq pagemap)'
  BY <1>4
<1>10. (\A d \in Spaces : d \in pagemap \ lost /\ dir[d] \in pagemap \ lost)'
  BY <1>4
<1>11. (\A d, e \in Spaces : dir[d] # e /\ (dir[d] = dir[e] => d = e))'
  BY <1>5
<1>12. (\A d \in Spaces : \A v \in Page : Entry(d, v) # None =>
          Entry(d, v) \in pagemap /\ \A e \in Spaces : Entry(d, v) # e /\ Entry(d, v) # dir[e])'
  BY <1>6, <1>9
<1>13. (\A d, e \in Spaces : \A v, w \in Page :
          Entry(d, v) # None /\ Entry(d, v) = Entry(e, w) => d = e /\ v = w)'
  BY <1>7, <1>9
<1>14. (\A f \in pagemap \ lost : \E d \in Spaces :
          f = d \/ f = dir[d] \/ \E v \in Page : f = Entry(d, v))'
  BY <1>8, <1>9
<1> QED BY <1>0, <1>10, <1>11, <1>12, <1>13, <1>14, Zenon DEF FramesInv

\* when it gives some back,
LEMMA FramesShrink ==
  ASSUME VType, ChainInv, FramesInv, NEW c \in Spaces, NEW V \in SUBSET Page,
         \A v \in V : Entry(c, v) # None /\ Entry(c, v) \notin lost,
         Spaces' = Spaces, dir' = dir, lost' = lost, pagemap' = Toggled({Entry(c, v) : v \in V}),
         \A d \in Spaces : \A v \in Page :
            pte'[dir[d]][v] = IF d = c /\ v \in V THEN None ELSE Entry(d, v)
  PROVE  FramesInv'
<1> DEFINE New(d, v) == pte'[dir[d]][v]
<1>1. pagemap' = pagemap \ {Entry(c, v) : v \in V}
  <2>1. {Entry(c, v) : v \in V} \subseteq pagemap
    BY DEF FramesInv
  <2> QED BY <2>1, ToggledIs
<1>2. \A d \in Spaces : \A v \in Page : New(d, v) # None => New(d, v) = Entry(d, v) /\ ~(d = c /\ v \in V)
  OBVIOUS
<1>3. \A d \in Spaces : \A v \in Page : ~(d = c /\ v \in V) => New(d, v) = Entry(d, v)
  OBVIOUS
<1> HIDE DEF New
<1>4. \A d \in Spaces : d \in pagemap' \ lost /\ dir[d] \in pagemap' \ lost
  <2> TAKE d \in Spaces
  <2>1. d \in pagemap \ lost /\ dir[d] \in pagemap \ lost
    BY Zenon DEF FramesInv
  <2>2. \A v \in V : Entry(c, v) # d /\ Entry(c, v) # dir[d]
    BY DEF FramesInv
  <2> QED BY <2>1, <2>2, <1>1
<1>5. \A d, e \in Spaces : dir[d] # e /\ (dir[d] = dir[e] => d = e)
  BY DEF FramesInv
<1>6. \A d \in Spaces : \A v \in Page : New(d, v) # None =>
          New(d, v) \in pagemap' /\ \A e \in Spaces : New(d, v) # e /\ New(d, v) # dir[e]
  <2> SUFFICES ASSUME NEW d \in Spaces, NEW v \in Page, New(d, v) # None
               PROVE  New(d, v) \in pagemap' /\ \A e \in Spaces : New(d, v) # e /\ New(d, v) # dir[e]
    OBVIOUS
  <2>1. New(d, v) = Entry(d, v) /\ ~(d = c /\ v \in V)
    BY <1>2
  <2>2. \A w \in V : Entry(c, w) # Entry(d, v)
    BY <2>1 DEF FramesInv
  <2>3. Entry(d, v) \in pagemap /\ \A e \in Spaces : Entry(d, v) # e /\ Entry(d, v) # dir[e]
    BY <2>1 DEF FramesInv
  <2> QED BY <2>1, <2>2, <2>3, <1>1
<1>7. \A d, e \in Spaces : \A v, w \in Page :
          New(d, v) # None /\ New(d, v) = New(e, w) => d = e /\ v = w
  BY <1>2 DEF FramesInv
<1>8. \A f \in pagemap' \ lost : \E d \in Spaces :
          f = d \/ f = dir[d] \/ \E v \in Page : f = New(d, v)
  <2> TAKE f \in pagemap' \ lost
  <2>1. PICK d \in Spaces : f = d \/ f = dir[d] \/ \E v \in Page : f = Entry(d, v)
    BY <1>1 DEF FramesInv
  <2> QED BY <2>1, <1>1, <1>3
<1>9. \A d \in Spaces : \A v \in Page : Entry(d, v)' = New(d, v)
  BY DEF New, Entry
<1>0. (lost \subseteq pagemap)'
  BY <1>1 DEF FramesInv
<1>10. (\A d \in Spaces : d \in pagemap \ lost /\ dir[d] \in pagemap \ lost)'
  BY <1>4
<1>11. (\A d, e \in Spaces : dir[d] # e /\ (dir[d] = dir[e] => d = e))'
  BY <1>5
<1>12. (\A d \in Spaces : \A v \in Page : Entry(d, v) # None =>
          Entry(d, v) \in pagemap /\ \A e \in Spaces : Entry(d, v) # e /\ Entry(d, v) # dir[e])'
  BY <1>6, <1>9
<1>13. (\A d, e \in Spaces : \A v, w \in Page :
          Entry(d, v) # None /\ Entry(d, v) = Entry(e, w) => d = e /\ v = w)'
  BY <1>7, <1>9
<1>14. (\A f \in pagemap \ lost : \E d \in Spaces :
          f = d \/ f = dir[d] \/ \E v \in Page : f = Entry(d, v))'
  BY <1>8, <1>9
<1> QED BY <1>0, <1>10, <1>11, <1>12, <1>13, <1>14, Zenon DEF FramesInv

\* when a space goes,
LEMMA FramesDrop ==
  ASSUME VType, ChainInv, FramesInv, NEW c \in Spaces,
         Spaces' = Spaces \ {c},
         \A d \in Spaces \ {c} : dir'[d] = dir[d],
         lost' = lost,
         pagemap' = Toggled((({Entry(c, v) : v \in Page} \ lost) \cup {c, dir[c]}) \ {None}),
         \A d \in Spaces \ {c} : \A v \in Page : pte'[dir[d]][v] = Entry(d, v)
  PROVE  FramesInv'
<1> DEFINE Gone == (({Entry(c, v) : v \in Page} \ lost) \cup {c, dir[c]}) \ {None}
<1>1. pagemap' = pagemap \ Gone
  <2>1. Gone \subseteq pagemap
    BY DEF FramesInv
  <2> QED BY <2>1, ToggledIs
<1>2. \A d \in Spaces \ {c} : \A v \in Page : pte'[dir'[d]][v] = Entry(d, v)
  OBVIOUS
<1>3. \A d \in Spaces \ {c} : d \in pagemap' \ lost /\ dir[d] \in pagemap' \ lost
  <2> TAKE d \in Spaces \ {c}
  <2>1. d \notin Gone
    BY DEF FramesInv
  <2>2. dir[d] \notin Gone
    BY DEF FramesInv
  <2> QED BY <2>1, <2>2, <1>1 DEF FramesInv
<1>4. \A d \in Spaces \ {c} : \A v \in Page : Entry(d, v) # None => Entry(d, v) \in pagemap'
  <2> SUFFICES ASSUME NEW d \in Spaces \ {c}, NEW v \in Page, Entry(d, v) # None
               PROVE  Entry(d, v) \in pagemap'
    OBVIOUS
  <2>1. Entry(d, v) \notin Gone
    BY DEF FramesInv
  <2> QED BY <2>1, <1>1 DEF FramesInv
<1>5. \A f \in pagemap' \ lost : \E d \in Spaces \ {c} :
          f = d \/ f = dir[d] \/ \E v \in Page : f = Entry(d, v)
  <2> TAKE f \in pagemap' \ lost
  <2>1. PICK d \in Spaces : f = d \/ f = dir[d] \/ \E v \in Page : f = Entry(d, v)
    BY <1>1 DEF FramesInv
  <2>2. f # None
    BY <1>1, NumberFacts DEF VType
  <2>3. d # c
    BY <2>1, <2>2, <1>1
  <2> QED BY <2>1, <2>3
<1>0. (lost \subseteq pagemap)'
  BY <1>1 DEF FramesInv
<1> HIDE DEF Gone
<1>6. (\A d, e \in Spaces : dir[d] # e /\ (dir[d] = dir[e] => d = e))'
  BY DEF FramesInv
<1>7. (\A d \in Spaces : d \in pagemap \ lost /\ dir[d] \in pagemap \ lost)'
  BY <1>3
<1>8. (\A d \in Spaces : \A v \in Page : Entry(d, v) # None =>
          Entry(d, v) \in pagemap /\ \A e \in Spaces : Entry(d, v) # e /\ Entry(d, v) # dir[e])'
  <2> SUFFICES ASSUME NEW d \in Spaces \ {c}, NEW v \in Page, Entry(d, v) # None
               PROVE  Entry(d, v) \in pagemap' /\ \A e \in Spaces \ {c} : Entry(d, v) # e /\ Entry(d, v) # dir[e]
    <3>1. \A d \in Spaces \ {c} : \A v \in Page : Entry(d, v)' = Entry(d, v)
      BY <1>2 DEF Entry
    <3> QED BY <3>1
  <2> QED BY <1>4 DEF FramesInv
<1>9. (\A d, e \in Spaces : \A v, w \in Page :
          Entry(d, v) # None /\ Entry(d, v) = Entry(e, w) => d = e /\ v = w)'
  <2> SUFFICES ASSUME NEW d \in Spaces \ {c}, NEW e \in Spaces \ {c}, NEW v \in Page, NEW w \in Page,
                      Entry(d, v) # None, Entry(d, v) = Entry(e, w)
               PROVE  d = e /\ v = w
    BY <1>2 DEF Entry
  <2> QED BY DEF FramesInv
<1>10. (\A f \in pagemap \ lost : \E d \in Spaces :
          f = d \/ f = dir[d] \/ \E v \in Page : f = Entry(d, v))'
  <2> SUFFICES ASSUME NEW f \in pagemap' \ lost
               PROVE  \E d \in Spaces \ {c} : f = d \/ f = dir[d] \/ \E v \in Page : f = pte'[dir'[d]][v]
    BY DEF Entry
  <2> QED BY <1>2, <1>5
<1> QED BY <1>0, <1>6, <1>7, <1>8, <1>9, <1>10, Zenon DEF FramesInv
\* when a new one is built.
LEMMA FramesBuilt ==
  ASSUME VType, ChainInv, FramesInv, NEW n \in 1 .. MaxPage + 1, NEW F,
         \A i \in 1 .. n + 2 : F[i] \in Frame /\ F[i] \notin pagemap,
         \A i, j \in 1 .. n + 2 : F[i] = F[j] => i = j,
         DOMAIN F = 1 .. n + 2,
         Spaces' = Spaces \cup {F[1]}, Built(F, n), lost' = lost
  PROVE  /\ FramesInv'
         /\ dir'[F[1]] = F[3] /\ \A v \in Page : Entry(F[1], v)' # None <=> v < n
         /\ \A v \in Page : Entry(F[1], v)' \notin lost
         /\ \A d \in Spaces : dir'[d] = dir[d] /\ \A v \in Page : Entry(d, v)' = Entry(d, v)
<1> DEFINE Of(v) == IF v = 0 THEN 2 ELSE v + 3
<1>1. /\ 1 \in 1 .. n + 2 /\ 3 \in 1 .. n + 2 /\ n \in Nat
      /\ \A v \in Page : v < n => Of(v) \in 1 .. n + 2 /\ Of(v) # 1 /\ Of(v) # 3
      /\ \A v, w \in Page : Of(v) = Of(w) => v = w
      /\ \A i \in 1 .. n + 2 : i = 1 \/ i = 3 \/ \E v \in Page : v < n /\ i = Of(v)
  <2>1. \A i \in 1 .. n + 2 : i = 1 \/ i = 3 \/ \E v \in Page : v < n /\ i = Of(v)
    <3> SUFFICES ASSUME NEW i \in 1 .. n + 2, i # 1, i # 3
                 PROVE  \E v \in Page : v < n /\ i = Of(v)
      OBVIOUS
    <3>1. CASE i = 2
      <4>1. 0 \in Page /\ 0 < n /\ i = Of(0)
        BY <3>1, NumberFacts DEF Page
      <4> QED BY <4>1
    <3>2. CASE i # 2
      <4>1. i - 3 \in Page /\ i - 3 < n /\ i = Of(i - 3)
        BY <3>2, NumberFacts DEF Page
      <4> QED BY <4>1
    <3> QED BY <3>1, <3>2
  <2> QED BY <2>1, NumberFacts
<1>2. F[1] \in Frame /\ F[3] \in Frame /\ F[1] # F[3] /\ F[1] \notin pagemap /\ F[3] \notin pagemap
  BY <1>1
<1> HIDE DEF Of
<1>3. \A d \in Spaces : d # F[1] /\ dir[d] # F[3] /\ d # F[3] /\ dir[d] # F[1] /\ dir'[d] = dir[d]
  <2> TAKE d \in Spaces
  <2>1. d \in pagemap /\ dir[d] \in pagemap /\ d \in Frame
    BY SpaceFacts DEF FramesInv
  <2>2. d # F[1] /\ dir[d] # F[3] /\ d # F[3] /\ dir[d] # F[1]
    BY <1>2, <2>1
  <2> QED BY <2>1, <2>2, <1>2 DEF Built, VType
<1>4. dir'[F[1]] = F[3]
  BY <1>2 DEF Built, VType
<1>5. \A d \in Spaces : \A v \in Page : Entry(d, v)' = Entry(d, v)
  <2> TAKE d \in Spaces
  <2> TAKE v \in Page
  <2>1. pte'[dir[d]] = pte[dir[d]]
    BY <1>2, <1>3, SpaceFacts DEF Built, VType
  <2> QED BY <2>1, <1>3 DEF Entry
<1>6. \A v \in Page : Entry(F[1], v)' = IF v < n THEN F[Of(v)] ELSE None
  <2>1. pte'[F[3]] = [v \in Page |-> IF v = 0 THEN F[2] ELSE IF v < n THEN F[v + 3] ELSE None]
    BY <1>2 DEF Built, VType
  <2> TAKE v \in Page
  <2>2. Entry(F[1], v)' = IF v = 0 THEN F[2] ELSE IF v < n THEN F[v + 3] ELSE None
    BY <2>1, <1>4 DEF Entry
  <2> QED BY <2>2, <1>1, NumberFacts DEF Of
<1>7. pagemap' = pagemap \cup {F[i] : i \in 1 .. n + 2}
  <2>1. Range(F) = {F[i] : i \in 1 .. n + 2}
    BY DEF Range
  <2>2. {F[i] : i \in 1 .. n + 2} \cap pagemap = {}
    OBVIOUS
  <2> QED BY <2>1, <2>2, ToggledIs DEF Built
<1>8. \A v \in Page : v < n => /\ F[Of(v)] \in Frame /\ F[Of(v)] \notin pagemap /\ F[Of(v)] \in pagemap'
                               /\ F[Of(v)] # F[1] /\ F[Of(v)] # F[3] /\ F[Of(v)] # None
  BY <1>1, <1>7, NumberFacts
<1>0. (lost \subseteq pagemap)'
  BY <1>7 DEF FramesInv
<1>9. (\A d \in Spaces : d \in pagemap \ lost /\ dir[d] \in pagemap \ lost)'
  BY <1>1, <1>3, <1>4, <1>7 DEF FramesInv
<1>10. (\A d, e \in Spaces : dir[d] # e /\ (dir[d] = dir[e] => d = e))'
  BY <1>2, <1>3, <1>4 DEF FramesInv
<1>11. (\A d \in Spaces : \A v \in Page : Entry(d, v) # None =>
          Entry(d, v) \in pagemap /\ \A e \in Spaces : Entry(d, v) # e /\ Entry(d, v) # dir[e])'
  <2>1. ASSUME NEW d \in Spaces, NEW v \in Page, Entry(d, v)' # None
        PROVE  /\ Entry(d, v)' \in pagemap'
               /\ \A e \in Spaces \cup {F[1]} : Entry(d, v)' # e /\ Entry(d, v)' # dir'[e]
    <3>1. Entry(d, v) \in pagemap /\ \A e \in Spaces : Entry(d, v) # e /\ Entry(d, v) # dir[e]
      BY <1>5, <2>1 DEF FramesInv
    <3> QED BY <3>1, <1>2, <1>3, <1>4, <1>5, <1>7
  <2>2. ASSUME NEW v \in Page, Entry(F[1], v)' # None
        PROVE  /\ Entry(F[1], v)' \in pagemap'
               /\ \A e \in Spaces \cup {F[1]} : Entry(F[1], v)' # e /\ Entry(F[1], v)' # dir'[e]
    <3>1. v < n /\ Entry(F[1], v)' = F[Of(v)]
      BY <2>2, <1>6
    <3> QED BY <3>1, <1>3, <1>4, <1>8 DEF FramesInv
  <2> QED BY <2>1, <2>2
<1>12. (\A d, e \in Spaces : \A v, w \in Page :
          Entry(d, v) # None /\ Entry(d, v) = Entry(e, w) => d = e /\ v = w)'
  <2>1. ASSUME NEW d \in Spaces, NEW e \in Spaces, NEW v \in Page, NEW w \in Page,
               Entry(d, v)' # None, Entry(d, v)' = Entry(e, w)'
        PROVE  d = e /\ v = w
    BY <2>1, <1>5 DEF FramesInv
  <2>2. ASSUME NEW d \in Spaces, NEW v \in Page, NEW w \in Page,
               Entry(d, v)' # None, Entry(d, v)' = Entry(F[1], w)'
        PROVE  FALSE
    <3>1. Entry(d, v) \in pagemap
      BY <2>2, <1>5 DEF FramesInv
    <3>2. w < n /\ Entry(F[1], w)' = F[Of(w)]
      BY <2>2, <1>6
    <3> QED BY <2>2, <3>1, <3>2, <1>5, <1>8
  <2>3. ASSUME NEW v \in Page, NEW w \in Page,
               Entry(F[1], v)' # None, Entry(F[1], v)' = Entry(F[1], w)'
        PROVE  v = w
    <3>1. v < n /\ w < n /\ F[Of(v)] = F[Of(w)]
      BY <2>3, <1>6
    <3> QED BY <3>1, <1>1
  <2>4. \A d, e \in Spaces \cup {F[1]} : \A v, w \in Page :
          Entry(d, v)' # None /\ Entry(d, v)' = Entry(e, w)' => d = e /\ v = w
    BY <2>1, <2>2, <2>3, SMTT(20)
  <2> QED BY <2>4
<1>13. (\A f \in pagemap \ lost : \E d \in Spaces :
          f = d \/ f = dir[d] \/ \E v \in Page : f = Entry(d, v))'
  <2> SUFFICES ASSUME NEW f \in pagemap' \ lost
               PROVE  \E d \in Spaces \cup {F[1]} :
                         f = d \/ f = dir'[d] \/ \E v \in Page : f = Entry(d, v)'
    OBVIOUS
  <2>1. CASE f \in pagemap
    <3>1. PICK d \in Spaces : f = d \/ f = dir[d] \/ \E v \in Page : f = Entry(d, v)
      BY <2>1 DEF FramesInv
    <3> QED BY <3>1, <1>3, <1>5
  <2>2. CASE f \notin pagemap
    <3>1. PICK i \in 1 .. n + 2 : f = F[i]
      BY <2>2, <1>7
    <3>2. CASE i = 1 \/ i = 3
      BY <3>1, <3>2, <1>4
    <3>3. CASE \E v \in Page : v < n /\ i = Of(v)
      BY <3>1, <3>3, <1>6
    <3> QED BY <3>2, <3>3, <1>1
  <2> QED BY <2>1, <2>2
<1>14. FramesInv'
  BY <1>0, <1>9, <1>10, <1>11, <1>12, <1>13, Zenon DEF FramesInv
<1>15. \A v \in Page : (Entry(F[1], v)' # None <=> v < n) /\ Entry(F[1], v)' \notin lost
  <2>1. None \notin lost
    BY NumberFacts DEF FramesInv, VType
  <2> QED BY <2>1, <1>6, <1>8 DEF FramesInv
<1> QED BY <1>3, <1>4, <1>5, <1>14, <1>15
-----------------------------------------------------------------------------
LEMMA NoneBusy ==
  ASSUME Orderly, NEW p \in Pid, Runs(p), MayTake(p)
  PROVE  \A q \in Pid : ~Busy(q)
BY DEF Orderly, Runs, MayTake, Busy

\* Steps that leave the memory and the processes alone.
LEMMA StopStep ==
  ASSUME VInv, UNCHANGED <<procs, memory, exec, lost>>, stopped' \in BOOLEAN, made' \in Nat
  PROVE  VInv' /\ PagesKept
<1>1. VType'
  BY DEF VInv, VType, procs, memory
<1>2. ChainInv'
  BY DEF VInv, ChainInv, Alive, Together, Threads, Kids, procs, memory
<1>3. PagesInv'
  BY DEF VInv, PagesInv, Mapped, Entry, Alive, Together, Reach, Busy, procs, memory
<1>4. ExecInv'
  BY DEF VInv, ExecInv, Entry, Alive, Together, Busy, procs, memory
<1>5. FramesInv'
  BY DEF VInv, FramesInv, Spaces, Alive, Entry, procs, memory
<1>6. PagesKept
  BY DEF PagesKept, procs, memory
<1> QED BY <1>1, <1>2, <1>3, <1>4, <1>5, <1>6 DEF VInv

LEMMA ForkStep ==
  ASSUME VInv, Orderly, NEW p \in Pid, NEW a \in Pid, Fork(p, a)
  PROVE  VInv' /\ PagesKept
<1>n. PICK n : n = ustacktop[p]
  OBVIOUS
<1>f. PICK F : F = SubSeq(FreeFrames, 1, n + 2)
  OBVIOUS
<1>a. VType /\ ChainInv /\ PagesInv /\ ExecInv /\ FramesInv
  BY DEF VInv
<1>1. CASE Stop
  BY <1>1, <1>a, StopStep DEF Stop, VType
<1>2. CASE /\ Len(FreeFrames) >= n + 2
           /\ Built(F, n)
           /\ state' = [state EXCEPT ![a] = "LIVE"]
           /\ parent' = [parent EXCEPT ![a] = p]
           /\ pde' = [pde EXCEPT ![a] = FreeFrames[1]]
           /\ sz' = [sz EXCEPT ![a] = sz[p]]
           /\ ustacktop' = [ustacktop EXCEPT ![a] = n]
           /\ made' = made + 1
           /\ UNCHANGED <<exec, stopped, lost>>
  <2>1. /\ p \in Alive /\ a \notin Alive /\ a # p /\ state[a] = "DEAD"
        /\ \A q \in Pid : ~Busy(q) /\ (Busy(q))' = Busy(q)
    BY <1>2, NoneBusy DEF Fork, Runs, Alive, Vacant, Busy
  <2>2. n \in Nat /\ n \in StackPages + 1 .. MaxPage + 1 /\ n \in 1 .. MaxPage + 1
    BY <1>a, <1>n, <2>1, NumberFacts DEF ChainInv, VType
  <2>3. /\ DOMAIN F = 1 .. n + 2 /\ \A i \in 1 .. n + 2 : F[i] = FreeFrames[i]
        /\ \A i \in 1 .. n + 2 : F[i] \in Frame /\ F[i] \notin pagemap
        /\ \A i, j \in 1 .. n + 2 : F[i] = F[j] => i = j
    <3>1. /\ Len(FreeFrames) \in Nat
          /\ DOMAIN FreeFrames = 1 .. Len(FreeFrames)
          /\ FreeFrames \in Seq(Frame)
          /\ \A i \in 1 .. Len(FreeFrames) : FreeFrames[i] \in Frame /\ FreeFrames[i] \notin pagemap
          /\ \A i, j \in 1 .. Len(FreeFrames) : FreeFrames[i] = FreeFrames[j] => i = j
      BY <1>a, FreeFramesRight DEF VType
    <3>2. 1 .. n + 2 \subseteq 1 .. Len(FreeFrames)
      BY <1>2, <1>n, <2>2, <3>1
    <3>3. F = [i \in 1 .. n + 2 |-> FreeFrames[i]]
      BY <1>f, <2>2, <3>1, <3>2, SMT
    <3>4. DOMAIN F = 1 .. n + 2 /\ \A i \in 1 .. n + 2 : F[i] = FreeFrames[i]
      BY <3>3
    <3> QED BY <3>1, <3>2, <3>4
  <2>4. F[1] = FreeFrames[1] /\ F[1] \in Frame /\ F[1] \notin pagemap /\ F[3] \in Frame
    BY <2>2, <2>3
  <2>5. /\ \A q \in Pid : /\ state'[q] = IF q = a THEN "LIVE" ELSE state[q]
                          /\ parent'[q] = IF q = a THEN p ELSE parent[q]
                          /\ pde'[q] = IF q = a THEN F[1] ELSE pde[q]
                          /\ ustacktop'[q] = IF q = a THEN n ELSE ustacktop[q]
        /\ Alive' = Alive \cup {a}
    <3>1. \A q \in Pid : state'[q] = IF q = a THEN "LIVE" ELSE state[q]
      BY <1>2, <1>a DEF VType
    <3>2. \A q \in Pid : parent'[q] = IF q = a THEN p ELSE parent[q]
      BY <1>2, <1>a DEF VType
    <3>3. \A q \in Pid : pde'[q] = IF q = a THEN F[1] ELSE pde[q]
      BY <1>2, <1>a, <2>4 DEF VType
    <3>4. \A q \in Pid : ustacktop'[q] = IF q = a THEN n ELSE ustacktop[q]
      BY <1>2, <1>a DEF VType
    <3>5. Alive' = Alive \cup {a}
      BY <3>1 DEF Alive
    <3> QED BY <3>1, <3>2, <3>3, <3>4, <3>5, Zenon
  <2>6. Spaces' = Spaces \cup {F[1]}
    BY <2>1, <2>5 DEF Spaces, Alive
  <2>7. /\ FramesInv'
        /\ dir'[F[1]] = F[3] /\ \A v \in Page : Entry(F[1], v)' # None <=> v < n
        /\ \A v \in Page : Entry(F[1], v)' \notin lost
        /\ \A d \in Spaces : dir'[d] = dir[d] /\ \A v \in Page : Entry(d, v)' = Entry(d, v)
    BY <1>a, <1>2, <2>2, <2>3, <2>6, FramesBuilt
  <2>8. VType'
    <3>1. pagemap' \subseteq Frame
      <4>1. Range(F) \subseteq Frame
        BY <2>3 DEF Range
      <4> QED BY <1>2, <1>a, <4>1 DEF Built, Toggled, VType
    <3>2. dir' \in [Frame -> Frame \cup {None}]
      BY <1>2, <1>a, <2>4 DEF Built, VType
    <3>3. pte' \in [Frame -> [Page -> Frame \cup {None}]]
      <4>1. \A v \in Page : (IF v = 0 THEN F[2] ELSE IF v < n THEN F[v + 3] ELSE None) \in Frame \cup {None}
        BY <2>2, <2>3, NumberFacts
      <4>2. [v \in Page |-> IF v = 0 THEN F[2] ELSE IF v < n THEN F[v + 3] ELSE None]
               \in [Page -> Frame \cup {None}]
        BY <4>1
      <4> QED BY <1>2, <1>a, <2>4, <4>2 DEF Built, VType
    <3>4. sz[p] \in Nat /\ FreeFrames[1] \in Frame
      BY <1>a, <2>4 DEF VType
    <3>5. /\ state' \in [Pid -> States] /\ parent' \in [Pid -> Pid \cup {None}]
          /\ pde' \in [Pid -> Frame \cup {None}] /\ sz' \in [Pid -> Nat] /\ ustacktop' \in [Pid -> Nat]
      BY <1>2, <1>a, <2>2, <3>4 DEF VType, States
    <3>6. made' \in Nat /\ exec' = exec /\ stopped' = stopped
      BY <1>2, <1>a DEF VType
    <3> QED BY <1>a, <3>1, <3>2, <3>3, <3>5, <3>6 DEF VType
  <2>9. \A q \in Alive : /\ q # a /\ q \in Pid /\ pde'[q] = pde[q] /\ ~(Together(a, q))' /\ ~(Together(q, a))'
                         /\ pde[q] \in Spaces
                         /\ \A r \in Alive : (Together(q, r))' <=> Together(q, r)
    BY <1>a, <2>1, <2>4, <2>5 DEF Alive, Spaces, FramesInv, Together
  <2>10. ChainInv'
    <3>1. (\A q \in Alive : /\ pde[q] \in Frame /\ dir[pde[q]] \in Frame
                            /\ ustacktop[q] \in StackPages + 1 .. MaxPage + 1)'
      BY <1>a, <2>2, <2>4, <2>5, <2>7, <2>9 DEF ChainInv
    <3>2. (\A q, r \in Alive : Together(q, r) /\ q # r /\ ustacktop[q] <= ustacktop[r]
             => /\ ustacktop[q] + StackPages <= ustacktop[r]
                /\ parent[r] \in Alive /\ Together(parent[r], r)
                /\ ustacktop[parent[r]] + StackPages = ustacktop[r])'
      <4>1. ASSUME NEW q \in Alive, NEW r \in Alive,
                   Together(q, r), q # r, ustacktop[q] <= ustacktop[r]
            PROVE  /\ ustacktop'[q] + StackPages <= ustacktop'[r]
                   /\ parent'[r] \in Alive /\ (Together(parent[r], r))'
                   /\ ustacktop'[parent'[r]] + StackPages = ustacktop'[r]
        <5>1. /\ ustacktop[q] + StackPages <= ustacktop[r]
              /\ parent[r] \in Alive /\ Together(parent[r], r)
              /\ ustacktop[parent[r]] + StackPages = ustacktop[r]
          BY <1>a, <4>1 DEF ChainInv
        <5>2. parent'[r] = parent[r]
          BY <2>5, <2>9
        <5> QED BY <5>1, <5>2, <2>5, <2>9 DEF Together
      <4> QED BY <4>1, <2>5, <2>9
    <3>3. (\A q \in Pid : state[q] = "ZOMBIE" => Threads(q) = {})'
      <4> SUFFICES ASSUME NEW q \in Pid, state'[q] = "ZOMBIE"
                   PROVE  \A k \in Pid : ~(/\ parent'[k] = q /\ state'[k] # "DEAD" /\ pde'[k] = pde'[q]
                                           /\ ustacktop'[k] > ustacktop'[q])
        BY DEF Threads, Kids
      <4>1. q # a /\ state[q] = "ZOMBIE" /\ q \in Alive
        BY <2>5 DEF Alive
      <4>2. \A k \in Pid : ~(/\ parent[k] = q /\ state[k] # "DEAD" /\ pde[k] = pde[q]
                             /\ ustacktop[k] > ustacktop[q])
        BY <1>a, <4>1 DEF ChainInv, Threads, Kids
      <4>3. pde'[a] # pde'[q]
        BY <2>9, <4>1 DEF Together
      <4> QED BY <2>5, <4>1, <4>2, <4>3
    <3> QED BY <3>1, <3>2, <3>3, Zenon DEF ChainInv
  <2>11. PagesInv'
    <3>1. \A q \in Pid : (Reach(q))' = ustacktop'[q] /\ Reach(q) = ustacktop[q]
      BY <2>1 DEF Reach
    <3>2. \A q \in Alive : \A v \in Page : Mapped(pde[q], v) <=> \E r \in Alive : Together(q, r) /\ v < Reach(r)
      BY <1>a DEF PagesInv
    <3>3. \A r \in Alive : (Reach(r))' = Reach(r)
      BY <2>5, <2>9, <3>1
    <3>4. ASSUME NEW q \in Alive, NEW v \in Page
          PROVE  (Mapped(pde[q], v) <=> \E r \in Alive : Together(q, r) /\ v < Reach(r))'
      <4>1. (Mapped(pde[q], v))' <=> Mapped(pde[q], v)
        BY <1>2, <2>7, <2>9 DEF Entry, Mapped
      <4>2. (\E r \in Alive : Together(q, r) /\ v < Reach(r))' <=> \E r \in Alive : Together(q, r) /\ v < Reach(r)
        BY <2>5, <2>9, <3>3
      <4> QED BY <3>2, <4>1, <4>2
    <3>5. ASSUME NEW v \in Page
          PROVE  (Mapped(pde[a], v) <=> \E r \in Alive : Together(a, r) /\ v < Reach(r))'
      <4>1. (Mapped(pde[a], v))' <=> v < n
        BY <1>2, <2>5, <2>7 DEF Entry, Mapped
      <4>2. (\E r \in Alive : Together(a, r) /\ v < Reach(r))' <=> v < n
        BY <2>5, <2>9, <3>1 DEF Together
      <4> QED BY <4>1, <4>2
    <3> QED BY <2>5, <3>4, <3>5 DEF PagesInv
  <2>12. ExecInv'
    BY <2>1 DEF ExecInv
  <2>13. PagesKept
    <3> SUFFICES ASSUME NEW q \in Pid, NEW v \in 0 .. ustacktop[q] - 1, state[q] = "LIVE"
                 PROVE  pte'[dir'[pde'[q]]][v] = pte[dir[pde[q]]][v]
      BY DEF PagesKept
    <3>1. q \in Alive /\ v \in Page
      BY PagesThere DEF Alive
    <3> QED BY <3>1, <2>7, <2>9 DEF Entry
  <2> QED BY <2>7, <2>8, <2>10, <2>11, <2>12, <2>13 DEF VInv
<1>3. Stop \/ Len(FreeFrames) >= n + 2
  <2>1. n \in Nat /\ Len(FreeFrames) \in Nat
    BY <1>a, <1>n, FreeFramesRight DEF VType
  <2> QED BY <1>n, <2>1 DEF Fork
<1> QED BY <1>1, <1>2, <1>3, <1>n, <1>f, Zenon DEF Fork

LEMMA ThreadStep ==
  ASSUME VInv, Orderly, NEW p \in Pid, NEW a \in Pid, ThreadCreate(p, a)
  PROVE  VInv' /\ PagesKept
<1>n. PICK lo : lo = ustacktop[p]
  OBVIOUS
<1>h. PICK hi : hi = lo + StackPages
  OBVIOUS
<1>c. PICK c : c = pde[p]
  OBVIOUS
<1>a. VType /\ ChainInv /\ PagesInv /\ ExecInv /\ FramesInv
  BY DEF VInv
<1>1. CASE Stop
  BY <1>1, <1>a, StopStep DEF Stop, VType
<1>2. CASE /\ Len(FreeFrames) >= StackPages
           /\ Grown(p, lo, hi)
           /\ state' = [state EXCEPT ![a] = "LIVE"]
           /\ parent' = [parent EXCEPT ![a] = p]
           /\ pde' = [pde EXCEPT ![a] = pde[p]]
           /\ ustacktop' = [ustacktop EXCEPT ![a] = hi]
           /\ made' = made + 1
           /\ UNCHANGED <<sz, exec, stopped, lost>>
  <2>1. /\ p \in Alive /\ a \notin Alive /\ a # p /\ state[a] = "DEAD" /\ state[p] = "LIVE"
        /\ \A q \in Pid : ~Busy(q) /\ (Busy(q))' = Busy(q)
        /\ Threads(p) = {} /\ Bare(p)
    BY <1>2, NoneBusy DEF ThreadCreate, Runs, Alive, Vacant, Busy, MayThread, Orderly
  <2>2. /\ lo \in Nat /\ hi \in Nat /\ lo \in StackPages + 1 .. MaxPage + 1 /\ hi <= MaxPage + 1
        /\ hi = lo + StackPages /\ lo .. hi - 1 \subseteq Page /\ c \in Spaces
        /\ hi \in StackPages + 1 .. MaxPage + 1
    <3>1. /\ lo \in Nat /\ hi \in Nat /\ lo \in StackPages + 1 .. MaxPage + 1 /\ hi <= MaxPage + 1
          /\ hi = lo + StackPages
      <4>1. lo \in StackPages + 1 .. MaxPage + 1
        BY <1>a, <1>n, <2>1 DEF ChainInv
      <4>2. hi <= MaxPage + 1
        BY <1>n, <1>h DEF ThreadCreate
      <4> QED BY <1>h, <4>1, <4>2, NumberFacts
    <3>2. c \in Spaces
      BY <1>c, <2>1 DEF Spaces
    <3> QED BY <3>1, <3>2, NumberFacts DEF Page
  <2>3. PICK V : V = lo .. hi - 1
    OBVIOUS
  <2>4. PICK G : G = [v \in V |-> FreeFrames[v - lo + 1]]
    OBVIOUS
  <2>5. /\ V \in SUBSET Page
        /\ \A v \in V : G[v] = FreeFrames[v - lo + 1] /\ G[v] \in Frame /\ G[v] \notin pagemap /\ G[v] # None
        /\ \A v, w \in V : G[v] = G[w] => v = w
        /\ {FreeFrames[v - lo + 1] : v \in lo .. hi - 1} = {G[v] : v \in V}
    <3>1. /\ Len(FreeFrames) \in Nat
          /\ \A i \in 1 .. Len(FreeFrames) : FreeFrames[i] \in Frame /\ FreeFrames[i] \notin pagemap
          /\ \A i, j \in 1 .. Len(FreeFrames) : FreeFrames[i] = FreeFrames[j] => i = j
      BY <1>a, FreeFramesRight DEF VType
    <3>2. \A v \in V : v \in Int /\ v - lo + 1 \in 1 .. Len(FreeFrames)
      <4>1. Len(FreeFrames) >= StackPages
        BY <1>2
      <4>2. \A v \in V : v \in Int /\ lo <= v /\ v < lo + StackPages
        BY <2>2, <2>3, NumberFacts
      <4> QED BY <4>1, <4>2, <2>2, <3>1, NumberFacts
    <3>3. \A v \in V : G[v] = FreeFrames[v - lo + 1]
      BY <2>4
    <3>4. \A v, w \in V : G[v] = G[w] => v = w
      <4> SUFFICES ASSUME NEW v \in V, NEW w \in V, G[v] = G[w]
                   PROVE  v = w
        OBVIOUS
      <4>1. v - lo + 1 = w - lo + 1
        BY <3>1, <3>2, <3>3, Zenon
      <4> QED BY <4>1, <3>2, <2>2
    <3>5. {FreeFrames[v - lo + 1] : v \in lo .. hi - 1} = {G[v] : v \in V}
      BY <2>3, <3>3
    <3>6. \A v \in V : G[v] \in Frame /\ G[v] \notin pagemap
      BY <3>1, <3>2, <3>3
    <3>7. \A v \in V : G[v] # None
      BY <3>6, NumberFacts
    <3>8. V \in SUBSET Page
      BY <2>2, <2>3
    <3> QED BY <3>3, <3>4, <3>5, <3>6, <3>7, <3>8
  <2>6. /\ \A q \in Pid : state'[q] = IF q = a THEN "LIVE" ELSE state[q]
        /\ \A q \in Pid : parent'[q] = IF q = a THEN p ELSE parent[q]
        /\ \A q \in Pid : pde'[q] = IF q = a THEN c ELSE pde[q]
        /\ \A q \in Pid : ustacktop'[q] = IF q = a THEN hi ELSE ustacktop[q]
        /\ Alive' = Alive \cup {a}
    <3>1. \A q \in Pid : state'[q] = IF q = a THEN "LIVE" ELSE state[q]
      BY <1>2, <1>a DEF VType
    <3>2. \A q \in Pid : parent'[q] = IF q = a THEN p ELSE parent[q]
      BY <1>2, <1>a DEF VType
    <3>3. \A q \in Pid : pde'[q] = IF q = a THEN c ELSE pde[q]
      BY <1>2, <1>a, <1>c DEF VType
    <3>4. \A q \in Pid : ustacktop'[q] = IF q = a THEN hi ELSE ustacktop[q]
      BY <1>2, <1>a DEF VType
    <3>5. Alive' = Alive \cup {a}
      BY <3>1 DEF Alive
    <3> QED BY <3>1, <3>2, <3>3, <3>4, <3>5, Zenon
  <2>7. Spaces' = Spaces
    BY <2>1, <2>2, <2>6 DEF Spaces, Alive
  <2>8. \A q \in Alive : /\ q # a /\ q \in Pid /\ pde'[q] = pde[q] /\ pde[q] \in Spaces
                         /\ (Together(a, q))' <=> Together(p, q)
                         /\ (Together(q, a))' <=> Together(p, q)
                         /\ \A r \in Alive : (Together(q, r))' <=> Together(q, r)
    BY <1>c, <2>1, <2>6 DEF Alive, Spaces, Together
  <2>9. \A q \in Alive : Together(p, q) => ustacktop[q] \in Nat /\ ustacktop[q] <= lo
    BY <1>a, <1>n, <2>1, <2>8, Highest DEF VType
  <2>10. \A q \in Pid : (Reach(q))' = ustacktop'[q] /\ Reach(q) = ustacktop[q]
    BY <2>1 DEF Reach
  <2>11. \A q \in Alive : \A v \in Page : Mapped(pde[q], v) <=> \E r \in Alive : Together(q, r) /\ v < Reach(r)
    BY <1>a DEF PagesInv
  <2>12. \A v \in V : Entry(c, v) = None
    <3>1. \A v \in V : v \in Page /\ v >= ustacktop[p]
      BY <1>n, <2>2, <2>3, <2>5
    <3> QED BY <3>1, <1>c, <2>1, AboveEmpty
  <2>13. /\ dir' = dir /\ pagemap' = Toggled({G[v] : v \in V})
         /\ \A d \in Spaces : \A v \in Page :
               (Entry(d, v))' = IF d = c /\ v \in V THEN G[v] ELSE Entry(d, v)
    <3>1. dir' = dir /\ pagemap' = Toggled({G[v] : v \in V})
      BY <1>2, <2>5 DEF Grown
    <3>2. pte' = [pte EXCEPT ![dir[c]] =
                 [v \in Page |-> IF v \in lo .. hi - 1 THEN FreeFrames[v - lo + 1] ELSE @[v]]]
      BY <1>2, <1>c DEF Grown
    <3>3. \A d \in Spaces : dir[d] \in Frame /\ (d # c => dir[d] # dir[c])
      BY <1>a, <2>2, SpaceFacts DEF FramesInv
    <3>4. \A d \in Spaces : d # c => pte'[dir[d]] = pte[dir[d]]
      BY <3>2, <3>3, <1>a DEF VType
    <3>5. pte'[dir[c]] = [v \in Page |-> IF v \in lo .. hi - 1 THEN FreeFrames[v - lo + 1] ELSE pte[dir[c]][v]]
      BY <2>2, <3>2, <3>3, <1>a DEF VType
    <3>6. \A v \in Page : pte'[dir[c]][v] = IF v \in V THEN G[v] ELSE pte[dir[c]][v]
      BY <2>3, <2>5, <3>5
    <3> QED BY <3>1, <3>4, <3>6 DEF Entry
  <2>14. FramesInv'
    <3>1. \A d \in Spaces : \A v \in Page :
            pte'[dir[d]][v] = IF d = c /\ v \in V THEN G[v] ELSE Entry(d, v)
      BY <2>13 DEF Entry
    <3>2. c \in Spaces /\ V \in SUBSET Page /\ dir' = dir /\ pagemap' = Toggled({G[v] : v \in V})
      BY <2>2, <2>5, <2>13
    <3>3. \A v \in V : Entry(c, v) = None /\ G[v] \in Frame /\ G[v] \notin pagemap
      BY <2>5, <2>12
    <3>4. \A v, w \in V : G[v] = G[w] => v = w
      BY <2>5
    <3>5. lost' = lost
      BY <1>2
    <3>6. Gets(c, V, G)
      BY <2>7, <3>1, <3>2, <3>3, <3>4, <3>5, Zenon DEF Gets
    <3> QED BY <1>a, <3>6, FramesGrow
  <2>15. VType'
    <3>1. pagemap' \subseteq Frame
      <4>1. {G[v] : v \in V} \subseteq Frame
        BY <2>5
      <4> QED BY <2>13, <1>a, <4>1 DEF Toggled, VType
    <3>2. pte' \in [Frame -> [Page -> Frame \cup {None}]]
      <4>1. c \in Frame /\ dir[c] \in Frame
        BY <1>a, <2>2, SpaceFacts
      <4>2. \A v \in Page : (IF v \in lo .. hi - 1 THEN FreeFrames[v - lo + 1] ELSE pte[dir[c]][v]) \in Frame \cup {None}
        <5>1. \A v \in Page : pte[dir[c]][v] \in Frame \cup {None}
          BY <4>1, <1>a DEF VType
        <5> QED BY <2>3, <2>5, <5>1
      <4>3. pte' = [pte EXCEPT ![dir[c]] =
                 [v \in Page |-> IF v \in lo .. hi - 1 THEN FreeFrames[v - lo + 1] ELSE pte[dir[c]][v]]]
        BY <1>2, <1>c, <4>1, <1>a DEF Grown, VType
      <4> DEFINE t == [v \in Page |-> IF v \in lo .. hi - 1 THEN FreeFrames[v - lo + 1] ELSE pte[dir[c]][v]]
      <4>4. t \in [Page -> Frame \cup {None}]
        BY <4>2
      <4>5. pte' = [pte EXCEPT ![dir[c]] = t]
        BY <4>3
      <4> HIDE DEF t
      <4> QED BY <4>1, <4>4, <4>5, <1>a DEF VType
    <3>3. /\ state' \in [Pid -> States] /\ parent' \in [Pid -> Pid \cup {None}]
          /\ pde' \in [Pid -> Frame \cup {None}] /\ ustacktop' \in [Pid -> Nat]
      BY <1>2, <1>a, <2>2 DEF VType, States
    <3>4. made' \in Nat /\ sz' = sz /\ exec' = exec /\ stopped' = stopped
      BY <1>2, <1>a DEF VType
    <3> QED BY <1>a, <2>13, <3>1, <3>2, <3>3, <3>4 DEF VType
  <2>16. ChainInv'
    <3>1. (\A q \in Alive : /\ pde[q] \in Frame /\ dir[pde[q]] \in Frame
                            /\ ustacktop[q] \in StackPages + 1 .. MaxPage + 1)'
      BY <1>a, <1>c, <2>1, <2>2, <2>6, <2>8, <2>13 DEF ChainInv
    <3>2. (\A q, r \in Alive : Together(q, r) /\ q # r /\ ustacktop[q] <= ustacktop[r]
             => /\ ustacktop[q] + StackPages <= ustacktop[r]
                /\ parent[r] \in Alive /\ Together(parent[r], r)
                /\ ustacktop[parent[r]] + StackPages = ustacktop[r])'
      <4>1. ASSUME NEW q \in Alive, NEW r \in Alive,
                   Together(q, r), q # r, ustacktop[q] <= ustacktop[r]
            PROVE  /\ ustacktop'[q] + StackPages <= ustacktop'[r]
                   /\ parent'[r] \in Alive /\ (Together(parent[r], r))'
                   /\ ustacktop'[parent'[r]] + StackPages = ustacktop'[r]
        <5>1. /\ ustacktop[q] + StackPages <= ustacktop[r]
              /\ parent[r] \in Alive /\ Together(parent[r], r)
              /\ ustacktop[parent[r]] + StackPages = ustacktop[r]
          BY <1>a, <4>1 DEF ChainInv
        <5>2. parent'[r] = parent[r]
          BY <2>6, <2>8
        <5> QED BY <5>1, <5>2, <2>6, <2>8 DEF Together
      <4>2. ASSUME NEW q \in Alive, (Together(q, a))'
            PROVE  /\ ustacktop'[q] + StackPages <= ustacktop'[a] /\ ~(ustacktop'[a] <= ustacktop'[q])
                   /\ parent'[a] \in Alive /\ (Together(parent[a], a))'
                   /\ ustacktop'[parent'[a]] + StackPages = ustacktop'[a]
        <5>1. ustacktop'[q] \in Nat /\ ustacktop'[q] <= lo /\ ustacktop'[a] = hi
          BY <2>6, <2>8, <2>9, <4>2
        <5>2. parent'[a] = p /\ ustacktop'[p] = lo /\ pde'[p] = c /\ pde'[a] = c
          BY <2>1, <2>6, <1>n, <1>c
        <5> QED BY <5>1, <5>2, <2>1, <2>2, NumberFacts DEF Together
      <4>3. \A q \in Alive : (Together(q, a))' <=> (Together(a, q))'
        BY DEF Together
      <4> QED BY <4>1, <4>2, <4>3, <2>6, <2>8
    <3>3. (\A q \in Pid : state[q] = "ZOMBIE" => Threads(q) = {})'
      <4> SUFFICES ASSUME NEW q \in Pid, state'[q] = "ZOMBIE"
                   PROVE  \A k \in Pid : ~(/\ parent'[k] = q /\ state'[k] # "DEAD" /\ pde'[k] = pde'[q]
                                           /\ ustacktop'[k] > ustacktop'[q])
        BY DEF Threads, Kids
      <4>1. q # a /\ q # p /\ state[q] = "ZOMBIE"
        BY <2>1, <2>6
      <4>2. \A k \in Pid : ~(/\ parent[k] = q /\ state[k] # "DEAD" /\ pde[k] = pde[q]
                             /\ ustacktop[k] > ustacktop[q])
        BY <1>a, <4>1 DEF ChainInv, Threads, Kids
      <4> QED BY <2>6, <4>1, <4>2
    <3> QED BY <3>1, <3>2, <3>3, Zenon DEF ChainInv
  <2>17. PagesInv'
    <3>1. \A r \in Alive : (Reach(r))' = Reach(r)
      BY <2>6, <2>8, <2>10
    <3>2. (Reach(a))' = hi
      BY <2>6, <2>10
    <3>3. ASSUME NEW q \in Alive, NEW v \in Page
          PROVE  /\ (Mapped(pde[q], v))' <=> Mapped(pde[q], v) \/ (Together(p, q) /\ v < hi)
                 /\ (\E r \in Alive : Together(q, r) /\ v < Reach(r))'
                       <=> Mapped(pde[q], v) \/ (Together(p, q) /\ v < hi)
      <4>1. (Entry(pde[q], v))' = IF pde[q] = c /\ v \in V THEN G[v] ELSE Entry(pde[q], v)
        BY <2>8, <2>13 DEF Entry
      <4>2. Together(p, q) <=> pde[q] = c
        BY <1>c DEF Together
      <4>3. pde[q] = c /\ v < hi /\ v \notin V => Mapped(pde[q], v)
        <5>1. pde[q] = c /\ v < hi /\ v \notin V => v < lo
          BY <2>2, <2>3, NumberFacts
        <5>2. v < lo /\ pde[q] = c => Together(q, p) /\ v < Reach(p)
          BY <1>n, <1>c, <2>1, <2>10, <2>8 DEF Together
        <5> QED BY <5>1, <5>2, <2>1, <2>11
      <4>4. v \in V => v < hi
        BY <2>2, <2>3
      <4>5. (Mapped(pde[q], v))' <=> Mapped(pde[q], v) \/ (Together(p, q) /\ v < hi)
        <5>1. \A u \in V : G[u] \notin lost /\ G[u] # None
          BY <1>a, <2>5 DEF FramesInv
        <5>2. CASE pde[q] = c /\ v \in V
          BY <5>1, <5>2, <1>2, <4>1, <4>2, <4>4 DEF Mapped
        <5>3. CASE ~(pde[q] = c /\ v \in V)
          <6>1. (Mapped(pde[q], v))' <=> Mapped(pde[q], v)
            BY <5>3, <1>2, <4>1 DEF Mapped
          <6> QED BY <5>3, <6>1, <4>2, <4>3
        <5> QED BY <5>2, <5>3
      <4>6. (\E r \in Alive : Together(q, r) /\ v < Reach(r))'
                <=> (\E r \in Alive : Together(q, r) /\ v < Reach(r)) \/ (Together(p, q) /\ v < hi)
        BY <2>6, <2>8, <3>1, <3>2
      <4> QED BY <4>5, <4>6, <2>11
    <3>4. ASSUME NEW v \in Page
          PROVE  (Mapped(pde[a], v) <=> \E r \in Alive : Together(a, r) /\ v < Reach(r))'
      <4>1. pde'[a] = pde'[p] /\ ((Mapped(pde[a], v))' <=> (Mapped(pde[p], v))')
        BY <1>c, <2>1, <2>6 DEF Entry, Mapped
      <4>2. (\E r \in Alive : Together(a, r) /\ v < Reach(r))' <=> (\E r \in Alive : Together(p, r) /\ v < Reach(r))'
        BY <4>1 DEF Together
      <4> QED BY <4>1, <4>2, <3>3, <2>1
    <3> QED BY <2>6, <3>3, <3>4 DEF PagesInv
  <2>18. ExecInv'
    BY <2>1 DEF ExecInv
  <2>19. PagesKept
    <3> SUFFICES ASSUME NEW q \in Pid, NEW v \in 0 .. ustacktop[q] - 1, state[q] = "LIVE"
                 PROVE  pte'[dir'[pde'[q]]][v] = pte[dir[pde[q]]][v]
      BY DEF PagesKept
    <3>1. q \in Alive /\ v \in Page /\ Entry(pde[q], v) # None
      BY PagesThere DEF Alive
    <3>2. ~(pde[q] = c /\ v \in V)
      BY <3>1, <2>12
    <3> QED BY <3>1, <3>2, <2>8, <2>13 DEF Entry
  <2> QED BY <2>14, <2>15, <2>16, <2>17, <2>18, <2>19 DEF VInv
<1>3. Stop \/ Len(FreeFrames) >= StackPages
  <2>1. Len(FreeFrames) \in Nat
    BY <1>a, FreeFramesRight DEF VType
  <2> QED BY <2>1, NumberFacts DEF ThreadCreate
<1> QED BY <1>1, <1>2, <1>3, <1>n, <1>h, Zenon DEF ThreadCreate

\* What Vacate leaves.
LEMMA VacateIs ==
  ASSUME VType, NEW i \in Pid, Vacate(i)
  PROVE  /\ \A q \in Pid : state'[q] = IF q = i THEN "DEAD" ELSE state[q]
         /\ \A q \in Pid \ {i} : parent'[q] = parent[q] /\ pde'[q] = pde[q] /\ ustacktop'[q] = ustacktop[q]
         /\ Alive' = Alive \ {i}
         /\ state' \in [Pid -> States] /\ parent' \in [Pid -> Pid \cup {None}]
         /\ pde' \in [Pid -> Frame \cup {None}] /\ sz' \in [Pid -> Nat] /\ ustacktop' \in [Pid -> Nat]
<1>1. \A q \in Pid : state'[q] = IF q = i THEN "DEAD" ELSE state[q]
  BY DEF Vacate, VType
<1>2. \A q \in Pid \ {i} : parent'[q] = parent[q] /\ pde'[q] = pde[q] /\ ustacktop'[q] = ustacktop[q]
  BY DEF Vacate, VType
<1>3. Alive' = Alive \ {i}
  BY <1>1 DEF Alive
<1>4. /\ state' \in [Pid -> States] /\ parent' \in [Pid -> Pid \cup {None}]
      /\ pde' \in [Pid -> Frame \cup {None}] /\ sz' \in [Pid -> Nat] /\ ustacktop' \in [Pid -> Nat]
  BY DEF Vacate, VType, States
<1> QED BY <1>1, <1>2, <1>3, <1>4

\* A process goes that is alone in its space.
LEMMA FreedStep ==
  ASSUME VInv, NEW i \in Alive, ~Busy(i), \A q \in Alive : Together(i, q) => q = i,
         Freed(i), Vacate(i), UNCHANGED <<exec, stopped, lost, made>>
  PROVE  VInv' /\ PagesKept
<1>c. PICK c : c = pde[i]
  OBVIOUS
<1>a. VType /\ ChainInv /\ PagesInv /\ ExecInv /\ FramesInv
  BY DEF VInv
<1>1. i \in Pid /\ c \in Spaces /\ c \in Frame /\ dir[c] \in Frame
  BY <1>a, <1>c, SpaceFacts DEF Alive, Spaces
<1>2. /\ \A q \in Pid : state'[q] = IF q = i THEN "DEAD" ELSE state[q]
      /\ \A q \in Pid \ {i} : parent'[q] = parent[q] /\ pde'[q] = pde[q] /\ ustacktop'[q] = ustacktop[q]
      /\ Alive' = Alive \ {i}
      /\ state' \in [Pid -> States] /\ parent' \in [Pid -> Pid \cup {None}]
      /\ pde' \in [Pid -> Frame \cup {None}] /\ sz' \in [Pid -> Nat] /\ ustacktop' \in [Pid -> Nat]
  BY <1>a, <1>1, VacateIs
<1>3. \A q \in Alive \ {i} : /\ q \in Pid /\ pde'[q] = pde[q] /\ pde[q] \in Spaces \ {c}
                             /\ ~Together(q, i) /\ ~Together(i, q)
                             /\ \A r \in Alive \ {i} : (Together(q, r))' <=> Together(q, r)
  BY <1>c, <1>2 DEF Alive, Spaces, Together
<1>4. Spaces' = Spaces \ {c}
  BY <1>c, <1>2, <1>3 DEF Spaces
<1>5. \A d \in Spaces \ {c} : dir'[d] = dir[d] /\ \A v \in Page : pte'[dir[d]][v] = Entry(d, v)
  <2>1. \A d \in Spaces \ {c} : d \in Frame /\ dir[d] \in Frame /\ dir[d] # dir[c]
    BY <1>a, <1>1, SpaceFacts DEF FramesInv
  <2> QED BY <2>1, <1>c, <1>a DEF Freed, Entry, VType
<1>6. pagemap' = Toggled((({Entry(c, v) : v \in Page} \ lost) \cup {c, dir[c]}) \ {None})
  <2>1. \A v \in Page : Mapped(c, v) <=> v < ustacktop[i]
    BY <1>a, <1>c DEF PagesInv, Reach, Together
  <2>2. 0 .. ustacktop[i] - 1 \subseteq Page
    <3>1. ustacktop[i] \in StackPages + 1 .. MaxPage + 1
      BY <1>a DEF ChainInv
    <3> QED BY <3>1, NumberFacts DEF Page
  <2>3. \A v \in Page : v < ustacktop[i] => v \in 0 .. ustacktop[i] - 1
    <3>1. ustacktop[i] \in Nat
      BY <1>a, <1>1 DEF VType
    <3> QED BY <3>1, NumberFacts DEF Page
  <2>4. {Entry(c, v) : v \in 0 .. ustacktop[i] - 1} \ {None} = ({Entry(c, v) : v \in Page} \ lost) \ {None}
    <3>1. \A v \in 0 .. ustacktop[i] - 1 : v \in Page /\ Mapped(c, v)
      <4>1. ustacktop[i] \in Nat
        BY <1>a, <1>1 DEF VType
      <4> QED BY <4>1, <2>1, <2>2
    <3>2. \A v \in Page : Mapped(c, v) => v \in 0 .. ustacktop[i] - 1
      BY <2>1, <2>3
    <3> QED BY <3>1, <3>2 DEF Mapped
  <2>5. ({Entry(c, v) : v \in 0 .. ustacktop[i] - 1} \cup {dir[c], c}) \ {None}
           = (({Entry(c, v) : v \in Page} \ lost) \cup {c, dir[c]}) \ {None}
    BY <2>4
  <2>6. pagemap' = Toggled(({Entry(c, v) : v \in 0 .. ustacktop[i] - 1} \cup {dir[c], c}) \ {None})
    BY <1>c DEF Freed, Entry
  <2> QED BY <2>5, <2>6
<1>7. FramesInv'
  BY <1>a, <1>1, <1>4, <1>5, <1>6, FramesDrop
<1>8. pagemap' \subseteq pagemap
  <2>1. (({Entry(c, v) : v \in Page} \ lost) \cup {c, dir[c]}) \ {None} \subseteq pagemap
    BY <1>a, <1>1 DEF FramesInv
  <2> QED BY <2>1, <1>6, ToggledIs
<1>9. VType'
  <2>1. dir' \in [Frame -> Frame \cup {None}] /\ pte' \in [Frame -> [Page -> Frame \cup {None}]]
    BY <1>a, <1>c, <1>1 DEF Freed, VType
  <2> QED BY <2>1, <1>a, <1>2, <1>8 DEF VType
<1>10. ChainInv'
  <2>1. (\A q \in Alive : /\ pde[q] \in Frame /\ dir[pde[q]] \in Frame
                          /\ ustacktop[q] \in StackPages + 1 .. MaxPage + 1)'
    BY <1>a, <1>2, <1>3, <1>5 DEF ChainInv
  <2>2. (\A q, r \in Alive : Together(q, r) /\ q # r /\ ustacktop[q] <= ustacktop[r]
           => /\ ustacktop[q] + StackPages <= ustacktop[r]
              /\ parent[r] \in Alive /\ Together(parent[r], r)
              /\ ustacktop[parent[r]] + StackPages = ustacktop[r])'
    <3>1. ASSUME NEW q \in Alive \ {i}, NEW r \in Alive \ {i},
                 Together(q, r), q # r, ustacktop[q] <= ustacktop[r]
          PROVE  /\ ustacktop'[q] + StackPages <= ustacktop'[r]
                 /\ parent'[r] \in Alive' /\ (Together(parent[r], r))'
                 /\ ustacktop'[parent'[r]] + StackPages = ustacktop'[r]
      <4>1. /\ ustacktop[q] + StackPages <= ustacktop[r]
            /\ parent[r] \in Alive /\ Together(parent[r], r)
            /\ ustacktop[parent[r]] + StackPages = ustacktop[r]
        BY <1>a, <3>1 DEF ChainInv
      <4>2. parent'[r] = parent[r] /\ parent[r] # i
        BY <1>2, <1>3, <4>1
      <4> QED BY <4>1, <4>2, <1>2, <1>3 DEF Together
    <3> QED BY <3>1, <1>2, <1>3
  <2>3. (\A q \in Pid : state[q] = "ZOMBIE" => Threads(q) = {})'
    <3> SUFFICES ASSUME NEW q \in Pid, state'[q] = "ZOMBIE"
                 PROVE  \A k \in Pid : ~(/\ parent'[k] = q /\ state'[k] # "DEAD" /\ pde'[k] = pde'[q]
                                         /\ ustacktop'[k] > ustacktop'[q])
      BY DEF Threads, Kids
    <3>1. q # i /\ state[q] = "ZOMBIE"
      BY <1>2
    <3>2. \A k \in Pid : ~(/\ parent[k] = q /\ state[k] # "DEAD" /\ pde[k] = pde[q]
                           /\ ustacktop[k] > ustacktop[q])
      BY <1>a, <3>1 DEF ChainInv, Threads, Kids
    <3> QED BY <1>2, <3>1, <3>2
  <2> QED BY <2>1, <2>2, <2>3, Zenon DEF ChainInv
<1>11. PagesInv'
  <2>1. \A r \in Alive \ {i} : (Reach(r))' = Reach(r)
    BY <1>2, <1>3 DEF Reach, Busy
  <2>2. ASSUME NEW q \in Alive \ {i}, NEW v \in Page
        PROVE  (Mapped(pde[q], v) <=> \E r \in Alive : Together(q, r) /\ v < Reach(r))'
    <3>1. (Mapped(pde[q], v))' <=> Mapped(pde[q], v)
      BY <1>3, <1>5 DEF Entry, Mapped
    <3>2. (\E r \in Alive : Together(q, r) /\ v < Reach(r))' <=> \E r \in Alive : Together(q, r) /\ v < Reach(r)
      BY <1>2, <1>3, <2>1
    <3>3. Mapped(pde[q], v) <=> \E r \in Alive : Together(q, r) /\ v < Reach(r)
      BY <1>a DEF PagesInv
    <3> QED BY <3>1, <3>2, <3>3
  <2> QED BY <1>2, <2>2 DEF PagesInv
<1>12. ExecInv'
  <2> SUFFICES ASSUME NEW p \in Pid, Busy(p)
               PROVE  /\ state'[p] = "LIVE" /\ ustacktop'[p] = ustacktop[p]
                      /\ \A q \in Alive' : (Together(p, q))' => q = p
                      /\ \A q \in Pid : Busy(q) => q = p
                      /\ exec[p].frame # None => exec[p].frame \notin pagemap'
                      /\ \A v \in Page : Entry(pde[p], v)' = Entry(pde[p], v)
    BY <1>a DEF ExecInv, Busy
  <2>1. /\ state[p] = "LIVE" /\ p # i /\ p \in Alive
        /\ \A q \in Alive : Together(p, q) => q = p
        /\ \A q \in Pid : Busy(q) => q = p
        /\ exec[p].frame # None => exec[p].frame \notin pagemap
    BY <1>a DEF ExecInv, Alive
  <2>2. \A v \in Page : Entry(pde[p], v)' = Entry(pde[p], v)
    BY <2>1, <1>3, <1>5 DEF Entry
  <2> QED BY <2>1, <2>2, <1>2, <1>3, <1>8
<1>13. PagesKept
  <2> SUFFICES ASSUME NEW q \in Pid, NEW v \in 0 .. ustacktop[q] - 1,
                      state[q] = "LIVE", state'[q] = "LIVE"
               PROVE  pte'[dir'[pde'[q]]][v] = pte[dir[pde[q]]][v]
    BY DEF PagesKept
  <2>1. q \in Alive \ {i} /\ v \in Page
    BY <1>2, PagesThere DEF Alive
  <2> QED BY <2>1, <1>3, <1>5 DEF Entry
<1> QED BY <1>7, <1>9, <1>10, <1>11, <1>12, <1>13 DEF VInv

LEMMA ExitStep ==
  ASSUME VInv, NEW p \in Pid, Exit(p)
  PROVE  VInv' /\ PagesKept
<1>a. VType /\ ChainInv /\ PagesInv /\ ExecInv /\ FramesInv
  BY DEF VInv
<1>1. p \in Alive /\ ~Busy(p) /\ Threads(p) = {} /\ state[p] = "LIVE"
  BY DEF Exit, Runs, Alive, Busy, MayLeave
<1>2. CASE parent[p] = None /\ Freed(p) /\ Vacate(p)
  <2>1. \A q \in Alive : Together(p, q) => q = p
    <3>1. parent[p] \notin Alive
      BY <1>2, NumberFacts DEF Alive
    <3> QED BY <3>1, <1>a, <1>1, SharesAsThread
  <2> QED BY <2>1, <1>1, <1>2, FreedStep DEF Exit
<1>3. CASE /\ state' = [state EXCEPT ![p] = "ZOMBIE"]
           /\ UNCHANGED <<parent, pde, sz, ustacktop, memory>>
  <2>1. UNCHANGED <<parent, pde, sz, ustacktop, pagemap, dir, pte, exec, stopped, lost, made>>
    BY <1>3 DEF Exit, memory
  <2>2. \A q \in Pid : state'[q] = IF q = p THEN "ZOMBIE" ELSE state[q]
    BY <1>3, <1>a DEF VType
  <2>3. Alive' = Alive
    BY <1>1, <2>2 DEF Alive
  <2>4. VType'
    BY <1>a, <1>3, <2>1 DEF VType, States
  <2>5. ChainInv'
    <3>1. (\A q \in Pid : state[q] = "ZOMBIE" => Threads(q) = {})'
      <4>1. \A q \in Pid : Threads(q)' = Threads(q)
        BY <2>1, <2>3 DEF Threads, Kids, Alive
      <4> QED BY <1>a, <1>1, <2>2, <4>1 DEF ChainInv
    <3>2. (\A q \in Alive : /\ pde[q] \in Frame /\ dir[pde[q]] \in Frame
                            /\ ustacktop[q] \in StackPages + 1 .. MaxPage + 1)'
      BY <1>a, <2>1, <2>3 DEF ChainInv
    <3>3. (\A q, r \in Alive : Together(q, r) /\ q # r /\ ustacktop[q] <= ustacktop[r]
             => /\ ustacktop[q] + StackPages <= ustacktop[r]
                /\ parent[r] \in Alive /\ Together(parent[r], r)
                /\ ustacktop[parent[r]] + StackPages = ustacktop[r])'
      BY <1>a, <2>1, <2>3 DEF ChainInv, Together
    <3> QED BY <3>1, <3>2, <3>3, Zenon DEF ChainInv
  <2>6. PagesInv'
    BY <1>a, <2>1, <2>3 DEF PagesInv, Mapped, Entry, Together, Reach, Busy
  <2>7. ExecInv'
    BY <1>a, <1>1, <2>1, <2>2, <2>3 DEF ExecInv, Entry, Together, Busy
  <2>8. FramesInv'
    BY <1>a, <2>1, <2>3 DEF FramesInv, Spaces, Entry
  <2>9. PagesKept
    BY <2>1 DEF PagesKept
  <2> QED BY <2>4, <2>5, <2>6, <2>7, <2>8, <2>9 DEF VInv
<1> QED BY <1>2, <1>3 DEF Exit

LEMMA WaitStep ==
  ASSUME VInv, NEW p \in Pid, NEW i \in Pid, WaitReap(p, i)
  PROVE  VInv' /\ PagesKept
<1>a. VType /\ ChainInv /\ ExecInv
  BY DEF VInv
<1>1. i \in Alive /\ parent[i] = p /\ state[i] = "ZOMBIE" /\ Threads(p) = {}
  BY DEF WaitReap, Kids, Alive, MayLeave
<1>2. Threads(i) = {} /\ ~Busy(i)
  BY <1>a, <1>1 DEF ChainInv, ExecInv
<1>3. \A q \in Alive : Together(i, q) => q = i
  BY <1>a, <1>1, <1>2, SharesAsThread
<1> QED BY <1>1, <1>2, <1>3, FreedStep DEF WaitReap

LEMMA JoinStep ==
  ASSUME VInv, NEW p \in Pid, NEW t \in Pid, Join(p, t)
  PROVE  VInv' /\ PagesKept
<1>c. PICK c : c = pde[t]
  OBVIOUS
<1>n. PICK lo, hi : lo = StackOf(t) /\ hi = ustacktop[t]
  OBVIOUS
<1>v. PICK V : V = lo .. hi - 1
  OBVIOUS
<1>a. VType /\ ChainInv /\ PagesInv /\ ExecInv /\ FramesInv
  BY DEF VInv
<1>1. /\ p \in Alive /\ t \in Alive /\ parent[t] = p /\ state[t] = "ZOMBIE" /\ pde[t] = pde[p]
      /\ ustacktop[t] > ustacktop[p] /\ p # t /\ Together(p, t) /\ c \in Spaces /\ c = pde[p]
  <2>1. /\ p \in Alive /\ t \in Alive /\ parent[t] = p /\ state[t] = "ZOMBIE" /\ pde[t] = pde[p]
        /\ ustacktop[t] > ustacktop[p] /\ state[p] = "LIVE"
    BY DEF Join, Runs, Threads, Kids, Alive
  <2> QED BY <2>1, <1>c DEF Together, Spaces
<1>2. /\ \A q \in Pid : state'[q] = IF q = t THEN "DEAD" ELSE state[q]
      /\ \A q \in Pid \ {t} : parent'[q] = parent[q] /\ pde'[q] = pde[q] /\ ustacktop'[q] = ustacktop[q]
      /\ Alive' = Alive \ {t}
      /\ state' \in [Pid -> States] /\ parent' \in [Pid -> Pid \cup {None}]
      /\ pde' \in [Pid -> Frame \cup {None}] /\ sz' \in [Pid -> Nat] /\ ustacktop' \in [Pid -> Nat]
  BY <1>a, VacateIs DEF Join
<1>3. /\ ustacktop[p] \in Nat /\ hi \in StackPages + 1 .. MaxPage + 1 /\ lo = hi - StackPages /\ lo \in Nat
      /\ ustacktop[p] = lo
      /\ \A q \in Alive : Together(t, q) => ustacktop[q] \in Nat /\ ustacktop[q] <= hi
      /\ \A q \in Alive : Together(t, q) /\ q # t => ustacktop[q] <= lo
  <2>1. Threads(t) = {}
    BY <1>a, <1>1 DEF ChainInv
  <2>2. \A q \in Alive : Together(t, q) => ustacktop[q] \in Nat /\ ustacktop[q] <= hi
    BY <1>a, <1>1, <1>n, <2>1, Highest DEF VType, Alive
  <2>3. hi \in StackPages + 1 .. MaxPage + 1 /\ lo = hi - StackPages /\ lo \in Nat
    BY <1>a, <1>1, <1>n, NumberFacts DEF ChainInv, StackOf
  <2>4. ustacktop[p] + StackPages = hi /\ ustacktop[p] \in Nat
    BY <1>a, <1>1, <1>n, <2>1, SharesAsThread DEF Together, VType
  <2>5. \A q \in Alive : Together(t, q) /\ q # t => ustacktop[q] + StackPages <= hi
    BY <1>a, <1>1, <1>n, <2>2 DEF ChainInv, Together
  <2> QED BY <2>2, <2>3, <2>4, <2>5, NumberFacts
<1>4. \A q \in Alive : Together(t, q) => Reach(q) = ustacktop[q]
  <2>1. ASSUME NEW q \in Alive, Together(t, q), Busy(q)
        PROVE  FALSE
    <3>1. \A r \in Alive : Together(q, r) => r = q
      BY <1>a, <2>1 DEF ExecInv, Alive
    <3> QED BY <3>1, <2>1, <1>1 DEF Together
  <2> QED BY <2>1 DEF Reach
<1>5. V \in SUBSET Page /\ \A v \in V : Entry(c, v) # None /\ Entry(c, v) \notin lost
  <2>1. \A v \in V : v \in 0 .. ustacktop[t] - 1
    BY <1>3, <1>n, <1>v, NumberFacts
  <2> QED BY <2>1, <1>1, <1>c, PagesThere
<1>6. \A q \in Alive \ {t} : /\ q \in Pid /\ pde'[q] = pde[q] /\ pde[q] \in Spaces
                             /\ \A r \in Alive \ {t} : (Together(q, r))' <=> Together(q, r)
  BY <1>2 DEF Alive, Spaces, Together
<1>7. Spaces' = Spaces
  BY <1>1, <1>2, <1>6 DEF Spaces
<1>8. /\ dir' = dir /\ lost' = lost /\ pagemap' = Toggled({Entry(c, v) : v \in V})
      /\ \A d \in Spaces : \A v \in Page :
            pte'[dir[d]][v] = IF d = c /\ v \in V THEN None ELSE Entry(d, v)
  <2>1. dir' = dir /\ pagemap' = Toggled({Entry(c, v) : v \in V} \ {None})
    BY <1>c, <1>n, <1>v DEF Join, Shrunk, Entry
  <2>2. {Entry(c, v) : v \in V} \ {None} = {Entry(c, v) : v \in V}
    BY <1>5
  <2>3. \A d \in Spaces : dir[d] \in Frame /\ (d # c => dir[d] # dir[c])
    BY <1>a, <1>1, SpaceFacts DEF FramesInv
  <2>4. pte' = [pte EXCEPT ![dir[c]] = [v \in Page |-> IF v \in V THEN None ELSE @[v]]]
    BY <1>c, <1>n, <1>v DEF Join, Shrunk
  <2>5. \A d \in Spaces : d # c => pte'[dir[d]] = pte[dir[d]]
    BY <2>3, <2>4, <1>a DEF VType
  <2>6. pte'[dir[c]] = [v \in Page |-> IF v \in V THEN None ELSE pte[dir[c]][v]]
    BY <1>1, <2>3, <2>4, <1>a DEF VType
  <2>7. lost' = lost
    BY DEF Join
  <2> QED BY <2>1, <2>2, <2>5, <2>6, <2>7 DEF Entry
<1>9. FramesInv'
  BY <1>a, <1>1, <1>5, <1>7, <1>8, FramesShrink
<1>10. pagemap' \subseteq pagemap
  <2>1. {Entry(c, v) : v \in V} \subseteq pagemap
    BY <1>a, <1>1, <1>5 DEF FramesInv
  <2> QED BY <2>1, <1>8, ToggledIs
<1>11. VType'
  <2>1. dir[c] \in Frame
    BY <1>a, <1>1, SpaceFacts
  <2> DEFINE f == [v \in Page |-> IF v \in V THEN None ELSE pte[dir[c]][v]]
  <2>2. f \in [Page -> Frame \cup {None}]
    BY <2>1, <1>a DEF VType
  <2>3. pte' = [pte EXCEPT ![dir[c]] = f]
    BY <1>c, <1>n, <1>v DEF Join, Shrunk
  <2> HIDE DEF f
  <2>4. pte' \in [Frame -> [Page -> Frame \cup {None}]]
    BY <2>1, <2>2, <2>3, <1>a DEF VType
  <2> QED BY <2>4, <1>a, <1>2, <1>8, <1>10 DEF VType, Join
<1>12. ChainInv'
  <2>1. (\A q \in Alive : /\ pde[q] \in Frame /\ dir[pde[q]] \in Frame
                          /\ ustacktop[q] \in StackPages + 1 .. MaxPage + 1)'
    BY <1>a, <1>2, <1>6, <1>8 DEF ChainInv
  <2>2. (\A q, r \in Alive : Together(q, r) /\ q # r /\ ustacktop[q] <= ustacktop[r]
           => /\ ustacktop[q] + StackPages <= ustacktop[r]
              /\ parent[r] \in Alive /\ Together(parent[r], r)
              /\ ustacktop[parent[r]] + StackPages = ustacktop[r])'
    <3>1. ASSUME NEW q \in Alive \ {t}, NEW r \in Alive \ {t},
                 Together(q, r), q # r, ustacktop[q] <= ustacktop[r]
          PROVE  /\ ustacktop'[q] + StackPages <= ustacktop'[r]
                 /\ parent'[r] \in Alive' /\ (Together(parent[r], r))'
                 /\ ustacktop'[parent'[r]] + StackPages = ustacktop'[r]
      <4>1. /\ ustacktop[q] + StackPages <= ustacktop[r]
            /\ parent[r] \in Alive /\ Together(parent[r], r)
            /\ ustacktop[parent[r]] + StackPages = ustacktop[r]
        BY <1>a, <3>1 DEF ChainInv
      <4>2. parent[r] # t
        <5>1. SUFFICES ASSUME parent[r] = t
                       PROVE  FALSE
          OBVIOUS
        <5>2. Together(t, r) /\ hi + StackPages = ustacktop[r]
          BY <4>1, <5>1, <1>n
        <5>3. ustacktop[r] <= hi
          BY <5>2, <1>3
        <5> QED BY <5>2, <5>3, <1>3, NumberFacts
      <4>3. parent'[r] = parent[r]
        BY <1>2, <1>6
      <4> QED BY <4>1, <4>2, <4>3, <1>2, <1>6 DEF Together
    <3> QED BY <3>1, <1>2, <1>6
  <2>3. (\A q \in Pid : state[q] = "ZOMBIE" => Threads(q) = {})'
    <3> SUFFICES ASSUME NEW q \in Pid, state'[q] = "ZOMBIE"
                 PROVE  \A k \in Pid : ~(/\ parent'[k] = q /\ state'[k] # "DEAD" /\ pde'[k] = pde'[q]
                                         /\ ustacktop'[k] > ustacktop'[q])
      BY DEF Threads, Kids
    <3>1. q # t /\ state[q] = "ZOMBIE"
      BY <1>2
    <3>2. \A k \in Pid : ~(/\ parent[k] = q /\ state[k] # "DEAD" /\ pde[k] = pde[q]
                           /\ ustacktop[k] > ustacktop[q])
      BY <1>a, <3>1 DEF ChainInv, Threads, Kids
    <3> QED BY <1>2, <3>1, <3>2
  <2> QED BY <2>1, <2>2, <2>3, Zenon DEF ChainInv
<1>13. PagesInv'
  <2>1. \A r \in Alive \ {t} : (Reach(r))' = Reach(r)
    BY <1>2, <1>6 DEF Reach, Busy, Join
  <2>2. ASSUME NEW q \in Alive \ {t}, NEW v \in Page
        PROVE  (Mapped(pde[q], v) <=> \E r \in Alive : Together(q, r) /\ v < Reach(r))'
    <3>1. (Mapped(pde[q], v))' <=> Mapped(pde[q], v) /\ ~(pde[q] = c /\ v \in V)
      BY <1>6, <1>8 DEF Entry, Mapped
    <3>2. (\E r \in Alive : Together(q, r) /\ v < Reach(r))'
             <=> \E r \in Alive \ {t} : Together(q, r) /\ v < Reach(r)
      BY <1>2, <1>6, <2>1
    <3>3. Mapped(pde[q], v) <=> \E r \in Alive : Together(q, r) /\ v < Reach(r)
      BY <1>a DEF PagesInv
    <3>4. CASE Together(q, t)
      <4>1. pde[q] = c /\ \A r \in Alive : Together(q, r) <=> Together(t, r)
        BY <3>4, <1>c DEF Together
      <4>2. (\E r \in Alive \ {t} : Together(q, r) /\ v < Reach(r)) <=> v < lo
        <5>1. \A r \in Alive \ {t} : Together(q, r) /\ v < Reach(r) => v < lo
          BY <4>1, <1>3, <1>4, NumberFacts
        <5>2. p \in Alive \ {t} /\ Together(q, p) /\ Reach(p) = lo
          BY <4>1, <1>1, <1>3, <1>4 DEF Together
        <5> QED BY <5>1, <5>2
      <4>3. (\E r \in Alive : Together(q, r) /\ v < Reach(r)) <=> v < hi
        <5>1. \A r \in Alive : Together(q, r) /\ v < Reach(r) => v < hi
          BY <4>1, <1>3, <1>4, NumberFacts
        <5>2. Together(q, t) /\ Reach(t) = hi
          BY <3>4, <1>1, <1>4, <1>n DEF Together
        <5> QED BY <5>1, <5>2, <1>1
      <4>4. v < lo <=> v < hi /\ v \notin V
        BY <1>3, <1>v, NumberFacts
      <4> QED BY <3>1, <3>2, <3>3, <4>1, <4>2, <4>3, <4>4
    <3>5. CASE ~Together(q, t)
      BY <3>1, <3>2, <3>3, <3>5, <1>c DEF Together
    <3> QED BY <3>4, <3>5
  <2> QED BY <1>2, <2>2 DEF PagesInv
<1>14. ExecInv'
  <2> SUFFICES ASSUME NEW b \in Pid, Busy(b)
               PROVE  /\ state'[b] = "LIVE" /\ ustacktop'[b] = ustacktop[b]
                      /\ \A q \in Alive' : (Together(b, q))' => q = b
                      /\ \A q \in Pid : Busy(q) => q = b
                      /\ exec[b].frame # None => exec[b].frame \notin pagemap'
                      /\ \A v \in Page : Entry(pde[b], v)' = Entry(pde[b], v)
    BY <1>a DEF ExecInv, Busy, Join
  <2>1. /\ state[b] = "LIVE" /\ b # t /\ b \in Alive
        /\ \A q \in Alive : Together(b, q) => q = b
        /\ \A q \in Pid : Busy(q) => q = b
        /\ exec[b].frame # None => exec[b].frame \notin pagemap
    BY <1>a, <1>1 DEF ExecInv, Alive
  <2>2. pde[b] # c
    BY <2>1, <1>1, <1>c DEF Together
  <2>3. \A v \in Page : Entry(pde[b], v)' = Entry(pde[b], v)
    BY <2>1, <2>2, <1>1, <1>6, <1>8 DEF Entry
  <2> QED BY <2>1, <2>3, <1>2, <1>6, <1>10
<1>15. PagesKept
  <2> SUFFICES ASSUME NEW q \in Pid, NEW v \in 0 .. ustacktop[q] - 1,
                      state[q] = "LIVE", state'[q] = "LIVE"
               PROVE  pte'[dir'[pde'[q]]][v] = pte[dir[pde[q]]][v]
    BY DEF PagesKept
  <2>1. q \in Alive \ {t} /\ v \in Page
    BY <1>2, PagesThere DEF Alive
  <2>2. ~(pde[q] = c /\ v \in V)
    <3> SUFFICES ASSUME pde[q] = c, v \in V
                 PROVE  FALSE
      OBVIOUS
    <3>1. ustacktop[q] <= lo /\ ustacktop[q] \in Nat
      BY <2>1, <1>3, <1>c DEF Together
    <3>2. lo <= v /\ v < ustacktop[q] /\ v \in Int
      BY <1>3, <1>v, <3>1
    <3> QED BY <3>1, <3>2, <1>3
  <2> QED BY <2>1, <2>2, <1>6, <1>8 DEF Entry
<1> QED BY <1>9, <1>11, <1>12, <1>13, <1>14, <1>15 DEF VInv

\* An exec of a shorter program leaves the frames above its stack lost.
LEMMA InPlaceStep ==
  ASSUME VInv, NEW p \in Pid, NEW n \in Images, ExecInPlace(p, n)
  PROVE  VInv' /\ PagesKept
<1>c. PICK c : c = pde[p]
  OBVIOUS
<1>o. PICK top, old : top = n + StackPages /\ old = ustacktop[p]
  OBVIOUS
<1>a. VType /\ ChainInv /\ PagesInv /\ ExecInv /\ FramesInv
  BY DEF VInv
<1>1. p \in Alive /\ ~Busy(p) /\ state[p] = "LIVE" /\ c \in Spaces
  BY <1>c DEF ExecInPlace, Runs, Alive, Busy, Spaces
<1>2. \A q \in Alive : Together(p, q) => q = p
  BY <1>a, <1>1, SharesAsThread DEF ExecInPlace, MayExec
<1>3. \A q \in Alive \ {p} : ~Together(p, q) /\ ~Together(q, p) /\ q \in Pid
  BY <1>2 DEF Together, Alive
<1>4. top \in StackPages + 1 .. MaxPage + 1 /\ old \in StackPages + 1 .. MaxPage + 1 /\ top <= old
  <2>1. n \in Nat \ {0} /\ sz[p] \in Nat
    BY <1>a, VmAssumption DEF VType
  <2>2. n <= sz[p] /\ old = sz[p] + StackPages /\ old \in StackPages + 1 .. MaxPage + 1
    BY <1>a, <1>1, <1>o DEF ExecInPlace, MayExec, ChainInv
  <2> QED BY <1>o, <2>1, <2>2, NumberFacts
<1>5. /\ UNCHANGED <<state, parent, pde, pagemap, dir, pte, exec, stopped>>
      /\ sz' = [sz EXCEPT ![p] = n] /\ ustacktop' = [ustacktop EXCEPT ![p] = top]
      /\ lost' = lost \cup {Entry(c, v) : v \in top .. old - 1} /\ made' \in Nat
  BY <1>a, <1>c, <1>o DEF ExecInPlace, memory, Entry, VType
<1>6. /\ ustacktop'[p] = top /\ \A q \in Pid \ {p} : ustacktop'[q] = ustacktop[q]
      /\ (Reach(p))' = top /\ Reach(p) = old /\ \A q \in Pid \ {p} : (Reach(q))' = Reach(q)
      /\ Alive' = Alive /\ Spaces' = Spaces
      /\ \A d, v : Entry(d, v)' = Entry(d, v)
  BY <1>a, <1>1, <1>5, <1>o DEF VType, Reach, Busy, Alive, Spaces, Entry
<1>7. \A v \in top .. old - 1 : v \in Page /\ v < old /\ Entry(c, v) # None /\ Entry(c, v) \notin lost
  <2>1. \A v \in top .. old - 1 : v \in 0 .. ustacktop[p] - 1 /\ v < old
    BY <1>4, <1>o, NumberFacts
  <2> QED BY <2>1, <1>1, <1>c, PagesThere
<1>8. VType'
  <2>1. n \in Nat /\ top \in Nat
    BY <1>4, VmAssumption, NumberFacts
  <2> QED BY <2>1, <1>a, <1>5 DEF VType
<1>9. ChainInv'
  <2>1. (\A q \in Alive : /\ pde[q] \in Frame /\ dir[pde[q]] \in Frame
                          /\ ustacktop[q] \in StackPages + 1 .. MaxPage + 1)'
    BY <1>a, <1>3, <1>4, <1>5, <1>6 DEF ChainInv
  <2>2. (\A q, r \in Alive : Together(q, r) /\ q # r /\ ustacktop[q] <= ustacktop[r]
           => /\ ustacktop[q] + StackPages <= ustacktop[r]
              /\ parent[r] \in Alive /\ Together(parent[r], r)
              /\ ustacktop[parent[r]] + StackPages = ustacktop[r])'
    <3>1. ASSUME NEW q \in Alive, NEW r \in Alive,
                 Together(q, r), q # r, ustacktop'[q] <= ustacktop'[r]
          PROVE  /\ ustacktop'[q] + StackPages <= ustacktop'[r]
                 /\ parent[r] \in Alive /\ Together(parent[r], r)
                 /\ ustacktop'[parent[r]] + StackPages = ustacktop'[r]
      <4>1. q # p /\ r # p
        BY <3>1, <1>3
      <4>2. ustacktop'[q] = ustacktop[q] /\ ustacktop'[r] = ustacktop[r]
        BY <4>1, <1>3, <1>6
      <4>3. /\ ustacktop[q] + StackPages <= ustacktop[r]
            /\ parent[r] \in Alive /\ Together(parent[r], r)
            /\ ustacktop[parent[r]] + StackPages = ustacktop[r]
        BY <1>a, <3>1, <4>2 DEF ChainInv
      <4>4. parent[r] # p
        BY <4>1, <4>3, <1>3
      <4> QED BY <4>2, <4>3, <4>4, <1>3, <1>6
    <3> QED BY <3>1, <1>5, <1>6 DEF Together
  <2>3. (\A q \in Pid : state[q] = "ZOMBIE" => Threads(q) = {})'
    <3> SUFFICES ASSUME NEW q \in Pid, state[q] = "ZOMBIE"
                 PROVE  \A k \in Pid : ~(/\ parent[k] = q /\ state[k] # "DEAD" /\ pde[k] = pde[q]
                                         /\ ustacktop'[k] > ustacktop'[q])
      BY <1>5 DEF Threads, Kids
    <3>1. q # p /\ q \in Alive
      BY <1>1 DEF Alive
    <3>2. \A k \in Pid : ~(/\ parent[k] = q /\ state[k] # "DEAD" /\ pde[k] = pde[q]
                           /\ ustacktop[k] > ustacktop[q])
      BY <1>a, <3>1 DEF ChainInv, Threads, Kids
    <3>3. pde[p] # pde[q]
      BY <3>1, <1>3 DEF Together
    <3> QED BY <1>6, <3>1, <3>2, <3>3
  <2> QED BY <2>1, <2>2, <2>3, Zenon DEF ChainInv
<1>10. PagesInv'
  <2>1. ASSUME NEW q \in Alive \ {p}, NEW v \in Page
        PROVE  (Mapped(pde[q], v) <=> \E r \in Alive : Together(q, r) /\ v < Reach(r))'
    <3>1. \A u \in top .. old - 1 : Entry(pde[q], v) # None => Entry(pde[q], v) # Entry(c, u)
      <4>1. pde[q] \in Spaces /\ pde[q] # c
        BY <1>3, <1>c DEF Spaces, Together
      <4> QED BY <4>1, <1>1, <1>7, <1>a DEF FramesInv
    <3>2. (Mapped(pde[q], v))' <=> Mapped(pde[q], v)
      BY <3>1, <1>5, <1>6 DEF Mapped
    <3>3. (\E r \in Alive : Together(q, r) /\ v < Reach(r))' <=> \E r \in Alive : Together(q, r) /\ v < Reach(r)
      BY <1>3, <1>5, <1>6 DEF Together
    <3>4. Mapped(pde[q], v) <=> \E r \in Alive : Together(q, r) /\ v < Reach(r)
      BY <1>a DEF PagesInv
    <3> QED BY <3>2, <3>3, <3>4
  <2>2. ASSUME NEW v \in Page
        PROVE  (Mapped(pde[p], v) <=> \E r \in Alive : Together(p, r) /\ v < Reach(r))'
    <3>1. Mapped(c, v) <=> v < old
      BY <1>a, <1>c, <1>1, <1>2, <1>6 DEF PagesInv, Together
    <3>2. (\E r \in Alive : Together(p, r) /\ v < Reach(r))' <=> v < top
      BY <1>1, <1>2, <1>5, <1>6 DEF Together
    <3>3. Entry(c, v) # None => ((\E u \in top .. old - 1 : Entry(c, v) = Entry(c, u)) <=> v \in top .. old - 1)
      BY <1>1, <1>7, <1>a DEF FramesInv
    <3>4. (Mapped(pde[p], v))' <=> Mapped(c, v) /\ v \notin top .. old - 1
      BY <3>3, <1>c, <1>5, <1>6 DEF Mapped
    <3>5. v < top <=> v < old /\ v \notin top .. old - 1
      BY <1>4, NumberFacts
    <3> QED BY <3>1, <3>2, <3>4, <3>5
  <2> QED BY <1>6, <2>1, <2>2 DEF PagesInv
<1>11. ExecInv'
  <2> SUFFICES ASSUME NEW b \in Pid, Busy(b)
               PROVE  b # p
    BY <1>a, <1>5, <1>6 DEF ExecInv, Busy, Together
  <2> QED BY <1>1
<1>12. FramesInv'
  <2>1. \A v \in top .. old - 1 :
           Entry(c, v) \in pagemap /\ \A e \in Spaces : Entry(c, v) # e /\ Entry(c, v) # dir[e]
    BY <1>1, <1>7, <1>a DEF FramesInv
  <2>2. lost' \subseteq pagemap
    BY <2>1, <1>5, <1>a DEF FramesInv
  <2>3. \A d \in Spaces : d \in pagemap \ lost' /\ dir[d] \in pagemap \ lost'
    BY <2>1, <1>5, <1>a DEF FramesInv
  <2>4. \A f \in pagemap \ lost' : \E d \in Spaces :
          f = d \/ f = dir[d] \/ \E v \in Page : f = Entry(d, v)
    BY <1>5, <1>a DEF FramesInv
  <2> QED BY <2>2, <2>3, <2>4, <1>5, <1>6, <1>a DEF FramesInv
<1>13. PagesKept
  BY <1>5 DEF PagesKept
<1> QED BY <1>8, <1>9, <1>10, <1>11, <1>12, <1>13 DEF VInv

LEMMA ExecStep ==
  ASSUME VInv, NEW p \in Pid, NEW e \in [image : Nat, va : Nat, frame : Frame \cup {None}],
         UNCHANGED <<procs, memory, stopped, lost>>, made' \in Nat,
         exec' = [exec EXCEPT ![p] = e],
         state[p] = "LIVE",
         \A q \in Alive : Together(p, q) => q = p,
         \A q \in Pid : Busy(q) => q = p,
         e.image # 0, e.image + StackPages <= MaxPage + 1,
         e.va = Reach(p), e.va < e.image + StackPages, ustacktop[p] <= e.va,
         e.frame # None => e.frame \notin pagemap,
         \A v \in Page : v >= e.va => Entry(pde[p], v) = None
  PROVE  VInv' /\ PagesKept
<1>a. VType /\ ChainInv /\ PagesInv /\ ExecInv /\ FramesInv
  BY DEF VInv
<1>1. /\ \A q \in Pid : exec'[q] = IF q = p THEN e ELSE exec[q]
      /\ UNCHANGED <<state, parent, pde, sz, ustacktop, pagemap, dir, pte>>
      /\ Alive' = Alive
  BY <1>a DEF VType, procs, memory, Alive
<1>2. e # NoExec
  BY DEF NoExec
<1>3. \A q \in Pid : (Reach(q))' = Reach(q)
  BY <1>1, <1>2 DEF Reach, Busy
<1>4. VType'
  BY <1>a, <1>1 DEF VType
<1>5. ChainInv'
  BY <1>a, <1>1 DEF ChainInv, Together, Threads, Kids
<1>6. PagesInv'
  BY <1>a, <1>1, <1>3 DEF PagesInv, Mapped, Entry, Together, Alive
<1>7. ExecInv'
  BY <1>1, <1>2 DEF ExecInv, Entry, Together, Busy
<1>8. FramesInv'
  BY <1>a, <1>1 DEF FramesInv, Spaces, Entry
<1>9. PagesKept
  BY <1>1 DEF PagesKept
<1> QED BY <1>4, <1>5, <1>6, <1>7, <1>8, <1>9 DEF VInv

LEMMA BeginStep ==
  ASSUME VInv, Orderly, NEW p \in Pid, NEW n \in Images, ExecBegin(p, n)
  PROVE  VInv' /\ PagesKept
<1> DEFINE e == [image |-> n, va |-> sz[p] + StackPages, frame |-> None]
<1>a. VType /\ ChainInv
  BY DEF VInv
<1>1. p \in Alive /\ state[p] = "LIVE" /\ \A q \in Pid : ~Busy(q)
  BY NoneBusy DEF ExecBegin, Runs, Alive
<1>2. n \in Nat /\ n # 0 /\ sz[p] \in Nat
  BY <1>a, VmAssumption DEF VType
<1>3. \A q \in Alive : Together(p, q) => q = p
  BY <1>a, <1>1, SharesAsThread DEF ExecBegin, MayExec
<1>b. Bare(p)
  BY <1>a, <1>2 DEF ExecBegin, MayExec, Orderly
<1>4. e \in [image : Nat, va : Nat, frame : Frame \cup {None}]
  BY <1>2, NumberFacts
<1>5. /\ ustacktop[p] = sz[p] + StackPages /\ n + StackPages <= MaxPage + 1 /\ n > sz[p]
      /\ Reach(p) = ustacktop[p]
  BY <1>1 DEF ExecBegin, MayExec, Reach
<1>6. sz[p] + StackPages < n + StackPages
  BY <1>2, <1>5, NumberFacts
<1>7. UNCHANGED <<procs, memory, stopped, lost>> /\ made' \in Nat /\ exec' = [exec EXCEPT ![p] = e]
  BY <1>a DEF ExecBegin, VType
<1>8. PICK e0 : e0 = e
  OBVIOUS
<1>9. /\ e0.image = n /\ e0.va = sz[p] + StackPages /\ e0.frame = None
  BY <1>8
<1>10. ustacktop[p] <= ustacktop[p]
  BY <1>2, <1>5, NumberFacts
<1>11. \A v \in Page : v >= e0.va => Entry(pde[p], v) = None
  BY <1>1, <1>5, <1>9, <1>b, AboveEmpty
<1> HIDE DEF e
<1> QED BY <1>1, <1>2, <1>3, <1>4, <1>5, <1>6, <1>7, <1>8, <1>9, <1>10, <1>11, ExecStep

LEMMA PeekStep ==
  ASSUME VInv, NEW p \in Pid, ExecPeek(p)
  PROVE  VInv' /\ PagesKept
<1>a. VType /\ ExecInv
  BY DEF VInv
<1>1. CASE Stop
  BY <1>1, <1>a, StopStep DEF Stop, VType
<1>2. CASE FreeFrames # << >> /\ exec' = [exec EXCEPT ![p].frame = FreeFrames[1]]
           /\ UNCHANGED <<procs, memory, stopped, lost, made>>
  <2>f. PICK f : f = FreeFrames[1]
    OBVIOUS
  <2>1. f \in Frame /\ f \notin pagemap
    <3>1. /\ FreeFrames \in Seq(Frame) /\ Len(FreeFrames) \in Nat
          /\ \A i \in 1 .. Len(FreeFrames) : FreeFrames[i] \in Frame /\ FreeFrames[i] \notin pagemap
      BY <1>a, FreeFramesRight DEF VType
    <3>2. Len(FreeFrames) # 0
      BY <1>2, <3>1
    <3> QED BY <2>f, <3>1, <3>2
  <2>2. PICK e : e = [exec[p] EXCEPT !.frame = f]
    OBVIOUS
  <2>3. /\ exec[p] \in [image : Nat, va : Nat, frame : Frame \cup {None}]
        /\ Busy(p)
    BY <1>a DEF VType, ExecPeek, InExec, Busy
  <2>4. /\ e \in [image : Nat, va : Nat, frame : Frame \cup {None}]
        /\ e.image = exec[p].image /\ e.va = exec[p].va /\ e.frame = f
    BY <2>1, <2>2, <2>3
  <2>5. exec' = [exec EXCEPT ![p] = e]
    BY <1>2, <1>a, <2>f, <2>2 DEF VType
  <2>6. /\ state[p] = "LIVE"
        /\ \A q \in Alive : Together(p, q) => q = p
        /\ \A q \in Pid : Busy(q) => q = p
        /\ e.image # 0 /\ e.image + StackPages <= MaxPage + 1
        /\ ustacktop[p] <= e.va /\ e.va < e.image + StackPages
        /\ e.va = Reach(p)
        /\ \A v \in Page : v >= e.va => Entry(pde[p], v) = None
    BY <1>a, <2>3, <2>4 DEF ExecInv, Reach
  <2>7. made' \in Nat /\ UNCHANGED <<procs, memory, stopped, lost>>
    BY <1>2, <1>a DEF VType
  <2> QED BY <2>1, <2>4, <2>5, <2>6, <2>7, ExecStep
<1> QED BY <1>1, <1>2, Zenon DEF ExecPeek

LEMMA ToggleStep ==
  ASSUME VInv, NEW p \in Pid, ExecToggle(p)
  PROVE  VInv' /\ PagesKept /\ stopped' = stopped
<1>c. PICK c : c = pde[p]
  OBVIOUS
<1>e. PICK e : e = exec[p]
  OBVIOUS
<1>w. PICK w : w = e.va
  OBVIOUS
<1>a. VType /\ ChainInv /\ PagesInv /\ ExecInv /\ FramesInv
  BY DEF VInv
<1>1. /\ Busy(p) /\ e \in [image : Nat, va : Nat, frame : Frame \cup {None}]
      /\ e.frame # None /\ e.frame \in Frame /\ w \in Nat
  BY <1>a, <1>e, <1>w DEF VType, ExecToggle, InExec, Busy
<1>2. /\ state[p] = "LIVE"
      /\ \A q \in Alive : Together(p, q) => q = p
      /\ \A q \in Pid : Busy(q) => q = p
      /\ e.image # 0 /\ e.image + StackPages <= MaxPage + 1
      /\ ustacktop[p] <= w /\ w < e.image + StackPages
      /\ e.frame \notin pagemap
      /\ Reach(p) = w
      /\ \A v \in Page : v >= w => Entry(pde[p], v) = None
  BY <1>a, <1>1, <1>e, <1>w DEF ExecInv, Reach
<1>3. /\ p \in Alive /\ c \in Spaces /\ w \in Page /\ w + 1 <= MaxPage + 1
      /\ ustacktop[p] \in StackPages + 1 .. MaxPage + 1
  BY <1>a, <1>c, <1>1, <1>2, NumberFacts DEF Alive, Spaces, Page, ChainInv
<1>4. \A v \in Page : Mapped(c, v) <=> v < w
  BY <1>a, <1>c, <1>2, <1>3 DEF PagesInv, Together
<1>5. Entry(c, w) = None /\ ~Present(p, w)
  <2>1. w >= w
    BY <1>1
  <2> QED BY <2>1, <1>2, <1>3, <1>c DEF Entry, Present
<1>6. /\ pagemap' = Toggled({e.frame})
      /\ pte' = [pte EXCEPT ![dir[c]][w] = e.frame]
      /\ \/ /\ w + 1 < e.image + StackPages
            /\ exec' = [exec EXCEPT ![p].va = @ + 1, ![p].frame = None]
            /\ UNCHANGED <<sz, ustacktop>>
         \/ /\ w + 1 = e.image + StackPages
            /\ exec' = [exec EXCEPT ![p] = NoExec]
            /\ sz' = [sz EXCEPT ![p] = e.image]
            /\ ustacktop' = [ustacktop EXCEPT ![p] = e.image + StackPages]
      /\ UNCHANGED <<state, parent, pde, dir, stopped, lost, made>>
  BY <1>5, <1>c, <1>e, <1>w DEF ExecToggle
<1>7. /\ exec' \in [Pid -> [image : Nat, va : Nat, frame : Frame \cup {None}]]
      /\ sz' \in [Pid -> Nat] /\ ustacktop' \in [Pid -> Nat]
      /\ \A q \in Pid \ {p} : exec'[q] = exec[q] /\ ustacktop'[q] = ustacktop[q]
      /\ (Reach(p))' = w + 1
      /\ ustacktop'[p] \in StackPages + 1 .. MaxPage + 1
      /\ (Busy(p))' => /\ exec'[p].image = e.image /\ exec'[p].va = w + 1
                       /\ w + 1 < e.image + StackPages /\ ustacktop'[p] = ustacktop[p]
                       /\ exec'[p].frame = None
  <2>1. CASE /\ w + 1 < e.image + StackPages
             /\ exec' = [exec EXCEPT ![p].va = @ + 1, ![p].frame = None]
             /\ UNCHANGED <<sz, ustacktop>>
    <3>1. exec'[p] = [image |-> e.image, va |-> w + 1, frame |-> None]
      BY <2>1, <1>a, <1>e, <1>w, <1>1 DEF VType
    <3>2. \A q \in Pid \ {p} : exec'[q] = exec[q]
      BY <2>1, <1>a DEF VType
    <3>3. exec'[p] \in [image : Nat, va : Nat, frame : Frame \cup {None}]
      BY <3>1, <1>1, NumberFacts
    <3>4. exec' \in [Pid -> [image : Nat, va : Nat, frame : Frame \cup {None}]]
      <4>1. DOMAIN exec' = Pid /\ exec' = [q \in Pid |-> exec'[q]]
        BY <2>1, <1>a DEF VType
      <4>2. \A q \in Pid : exec'[q] \in [image : Nat, va : Nat, frame : Frame \cup {None}]
        BY <3>2, <3>3, <1>a DEF VType
      <4> QED BY <4>1, <4>2, Zenon
    <3>5. (Busy(p))' /\ (Reach(p))' = w + 1
      BY <3>1, <1>2 DEF Busy, Reach, NoExec
    <3>6. sz' \in [Pid -> Nat] /\ ustacktop' \in [Pid -> Nat] /\ ustacktop' = ustacktop
      BY <2>1, <1>a DEF VType
    <3>7. exec'[p].image = e.image /\ exec'[p].va = w + 1 /\ exec'[p].frame = None
      BY <3>1
    <3> QED BY <2>1, <3>2, <3>4, <3>5, <3>6, <3>7, <1>3
  <2>2. CASE /\ w + 1 = e.image + StackPages
             /\ exec' = [exec EXCEPT ![p] = NoExec]
             /\ sz' = [sz EXCEPT ![p] = e.image]
             /\ ustacktop' = [ustacktop EXCEPT ![p] = e.image + StackPages]
    <3>1. NoExec \in [image : Nat, va : Nat, frame : Frame \cup {None}]
      BY NumberFacts DEF NoExec
    <3>2. exec' \in [Pid -> [image : Nat, va : Nat, frame : Frame \cup {None}]]
      BY <2>2, <3>1, <1>a DEF VType
    <3>3. e.image \in Nat /\ e.image + StackPages \in Nat
      BY <1>1, NumberFacts
    <3>4. sz' \in [Pid -> Nat] /\ ustacktop' \in [Pid -> Nat]
      BY <2>2, <3>3, <1>a DEF VType
    <3>5. \A q \in Pid \ {p} : exec'[q] = exec[q] /\ ustacktop'[q] = ustacktop[q]
      BY <2>2, <1>a DEF VType
    <3>6. exec'[p] = NoExec /\ ustacktop'[p] = w + 1
      BY <2>2, <1>a DEF VType
    <3>7. ~(Busy(p))' /\ (Reach(p))' = w + 1
      BY <3>6 DEF Busy, Reach
    <3>8. w + 1 \in StackPages + 1 .. MaxPage + 1
      BY <2>2, <1>1, <1>2, NumberFacts
    <3> QED BY <3>2, <3>4, <3>5, <3>6, <3>7, <3>8
  <2> QED BY <2>1, <2>2, <1>6
<1>8. Alive' = Alive /\ Spaces' = Spaces
  BY <1>6 DEF Alive, Spaces
<1>9. \A d \in Spaces : \A v \in Page : pte'[dir[d]][v] = IF d = c /\ v = w THEN e.frame ELSE Entry(d, v)
  <2>1. \A d \in Spaces : dir[d] \in Frame /\ (d # c => dir[d] # dir[c])
    BY <1>a, <1>3, SpaceFacts DEF FramesInv
  <2>2. \A d \in Spaces : d # c => pte'[dir[d]] = pte[dir[d]]
    BY <2>1, <1>6, <1>a DEF VType
  <2>3. pte'[dir[c]] = [pte[dir[c]] EXCEPT ![w] = e.frame]
    BY <2>1, <1>3, <1>6, <1>a DEF VType
  <2>4. \A v \in Page : pte'[dir[c]][v] = IF v = w THEN e.frame ELSE pte[dir[c]][v]
    BY <2>1, <2>3, <1>3, <1>a DEF VType
  <2> QED BY <2>2, <2>4 DEF Entry
<1>10. FramesInv'
  <2>v. PICK V : V = {w}
    OBVIOUS
  <2>1. PICK G : G = [v \in {w} |-> e.frame]
    OBVIOUS
  <2>2. G[w] = e.frame /\ {G[v] : v \in V} = {e.frame}
    BY <2>1, <2>v
  <2>3. \A d \in Spaces : \A v \in Page :
            pte'[dir[d]][v] = IF d = c /\ v \in V THEN G[v] ELSE Entry(d, v)
    BY <2>2, <2>v, <1>9
  <2>4. \A v \in V : Entry(c, v) = None /\ G[v] \in Frame /\ G[v] \notin pagemap
    BY <2>2, <2>v, <1>1, <1>2, <1>5
  <2>5. dir' = dir /\ pagemap' = Toggled({G[v] : v \in V})
    BY <2>2, <1>6
  <2>6. V \in SUBSET Page /\ \A v, u \in V : G[v] = G[u] => v = u
    BY <2>v, <1>3
  <2>7. lost' = lost /\ c \in Spaces
    BY <1>3, <1>6
  <2>8. Gets(c, V, G)
    BY <1>8, <2>3, <2>4, <2>5, <2>6, <2>7, Zenon DEF Gets
  <2> QED BY <1>a, <2>8, FramesGrow
<1>11. VType'
  <2>1. pagemap' \subseteq Frame
    BY <1>a, <1>1, <1>6 DEF Toggled, VType
  <2>2. c \in Frame /\ dir[c] \in Frame
    BY <1>a, <1>3, SpaceFacts
  <2>3. PICK f : f = [pte[dir[c]] EXCEPT ![w] = e.frame]
    OBVIOUS
  <2>4. f \in [Page -> Frame \cup {None}]
    BY <2>2, <2>3, <1>1, <1>a DEF VType
  <2>5. pte' = [pte EXCEPT ![dir[c]] = f]
    BY <2>2, <2>3, <1>6, <1>a DEF VType
  <2>6. pte' \in [Frame -> [Page -> Frame \cup {None}]]
    BY <2>2, <2>4, <2>5, <1>a DEF VType
  <2> QED BY <2>1, <2>6, <1>a, <1>6, <1>7 DEF VType
<1>12. \A q \in Alive \ {p} : ~Together(p, q) /\ ~Together(q, p) /\ q \in Pid
  BY <1>2 DEF Together, Alive
<1>13. ChainInv'
  <2>1. (\A q \in Alive : /\ pde[q] \in Frame /\ dir[pde[q]] \in Frame
                          /\ ustacktop[q] \in StackPages + 1 .. MaxPage + 1)'
    BY <1>a, <1>6, <1>7, <1>8, <1>12 DEF ChainInv
  <2>2. (\A q, r \in Alive : Together(q, r) /\ q # r /\ ustacktop[q] <= ustacktop[r]
           => /\ ustacktop[q] + StackPages <= ustacktop[r]
              /\ parent[r] \in Alive /\ Together(parent[r], r)
              /\ ustacktop[parent[r]] + StackPages = ustacktop[r])'
    <3>1. ASSUME NEW q \in Alive, NEW r \in Alive,
                 Together(q, r), q # r, ustacktop'[q] <= ustacktop'[r]
          PROVE  /\ ustacktop'[q] + StackPages <= ustacktop'[r]
                 /\ parent[r] \in Alive /\ Together(parent[r], r)
                 /\ ustacktop'[parent[r]] + StackPages = ustacktop'[r]
      <4>1. q # p /\ r # p
        BY <3>1, <1>12
      <4>2. ustacktop'[q] = ustacktop[q] /\ ustacktop'[r] = ustacktop[r]
        BY <4>1, <1>7, <1>12
      <4>3. /\ ustacktop[q] + StackPages <= ustacktop[r]
            /\ parent[r] \in Alive /\ Together(parent[r], r)
            /\ ustacktop[parent[r]] + StackPages = ustacktop[r]
        BY <1>a, <3>1, <4>2 DEF ChainInv
      <4>4. parent[r] # p
        BY <4>1, <4>3, <1>12
      <4> QED BY <4>2, <4>3, <4>4, <1>7, <1>12
    <3> QED BY <3>1, <1>6, <1>8 DEF Together
  <2>3. (\A q \in Pid : state[q] = "ZOMBIE" => Threads(q) = {})'
    <3> SUFFICES ASSUME NEW q \in Pid, state[q] = "ZOMBIE"
                 PROVE  \A k \in Pid : ~(/\ parent[k] = q /\ state[k] # "DEAD" /\ pde[k] = pde[q]
                                         /\ ustacktop'[k] > ustacktop'[q])
      BY <1>6 DEF Threads, Kids
    <3>1. q # p /\ q \in Alive
      BY <1>2 DEF Alive
    <3>2. \A k \in Pid : ~(/\ parent[k] = q /\ state[k] # "DEAD" /\ pde[k] = pde[q]
                           /\ ustacktop[k] > ustacktop[q])
      BY <1>a, <3>1 DEF ChainInv, Threads, Kids
    <3>3. pde[p] # pde[q]
      BY <3>1, <1>12 DEF Together
    <3> QED BY <1>7, <3>1, <3>2, <3>3
  <2> QED BY <2>1, <2>2, <2>3, Zenon DEF ChainInv
<1>14. PagesInv'
  <2>1. \A r \in Alive \ {p} : (Reach(r))' = Reach(r)
    BY <1>7, <1>12 DEF Reach, Busy
  <2>2. ASSUME NEW q \in Alive \ {p}, NEW v \in Page
        PROVE  (Mapped(pde[q], v) <=> \E r \in Alive : Together(q, r) /\ v < Reach(r))'
    <3>1. (Mapped(pde[q], v))' <=> Mapped(pde[q], v)
      BY <1>6, <1>9, <1>12, <1>c DEF Mapped, Entry, Spaces, Together
    <3>2. (\E r \in Alive : Together(q, r) /\ v < Reach(r))' <=> \E r \in Alive : Together(q, r) /\ v < Reach(r)
      BY <1>6, <1>8, <1>12, <2>1 DEF Together
    <3>3. Mapped(pde[q], v) <=> \E r \in Alive : Together(q, r) /\ v < Reach(r)
      BY <1>a DEF PagesInv
    <3> QED BY <3>1, <3>2, <3>3
  <2>3. ASSUME NEW v \in Page
        PROVE  (Mapped(pde[p], v) <=> \E r \in Alive : Together(p, r) /\ v < Reach(r))'
    <3>1. (Entry(pde[p], v))' = IF v = w THEN e.frame ELSE Entry(c, v)
      BY <1>3, <1>6, <1>9, <1>c DEF Entry
    <3>2. (\E r \in Alive : Together(p, r) /\ v < Reach(r))' <=> v < w + 1
      BY <1>2, <1>3, <1>6, <1>7, <1>8 DEF Together
    <3>3. v < w + 1 <=> v = w \/ v < w
      BY <1>1, NumberFacts
    <3>4. e.frame \notin lost /\ lost' = lost
      BY <1>a, <1>2, <1>6 DEF FramesInv
    <3>5. (Mapped(pde[p], v))' <=> v = w \/ Mapped(c, v)
      <4>1. v = w => ~Mapped(c, v)
        BY <1>5 DEF Mapped
      <4> QED BY <4>1, <3>1, <3>4, <1>1 DEF Mapped
    <3> QED BY <3>2, <3>3, <3>5, <1>4
  <2> QED BY <1>8, <2>2, <2>3 DEF PagesInv
<1>15. ExecInv'
  <2>1. ASSUME NEW b \in Pid, (Busy(b))'
        PROVE  b = p
    BY <2>1, <1>2, <1>7 DEF Busy
  <2> SUFFICES ASSUME (Busy(p))'
               PROVE  /\ state'[p] = "LIVE"
                      /\ \A q \in Alive' : (Together(p, q))' => q = p
                      /\ exec'[p].image # 0 /\ exec'[p].image + StackPages <= MaxPage + 1
                      /\ ustacktop'[p] <= exec'[p].va /\ exec'[p].va < exec'[p].image + StackPages
                      /\ exec'[p].frame # None => exec'[p].frame \notin pagemap'
                      /\ \A v \in Page : v >= exec'[p].va => Entry(pde[p], v)' = None
    BY <2>1 DEF ExecInv
  <2>2. ustacktop[p] <= w + 1
    BY <1>1, <1>2, <1>3, NumberFacts
  <2>3. ASSUME NEW v \in Page, v >= exec'[p].va
        PROVE  Entry(pde[p], v)' = None
    <3>1. v >= w /\ v # w
      BY <2>3, <1>1, <1>7, NumberFacts
    <3> QED BY <3>1, <1>2, <1>3, <1>6, <1>9, <1>c DEF Entry
  <2> QED BY <2>2, <2>3, <1>2, <1>6, <1>7, <1>8 DEF Together
<1>16. PagesKept
  <2> SUFFICES ASSUME NEW q \in Pid, NEW v \in 0 .. ustacktop[q] - 1, state[q] = "LIVE"
               PROVE  pte'[dir'[pde'[q]]][v] = pte[dir[pde[q]]][v]
    BY DEF PagesKept
  <2>1. q \in Alive /\ v \in Page /\ Entry(pde[q], v) # None /\ pde[q] \in Spaces
    BY PagesThere DEF Alive, Spaces
  <2>2. ~(pde[q] = c /\ v = w)
    BY <2>1, <1>5
  <2> QED BY <2>1, <2>2, <1>6, <1>9 DEF Entry
<1> QED BY <1>6, <1>10, <1>11, <1>13, <1>14, <1>15, <1>16 DEF VInv
-----------------------------------------------------------------------------
LEMMA InitInv ==
  ASSUME Fits, Init
  PROVE  VInv
<1>n. PICK n \in Images :
       /\ state = [p \in Pid |-> IF p = 1 THEN "LIVE" ELSE "DEAD"]
       /\ parent = [p \in Pid |-> None]
       /\ pde = [p \in Pid |-> IF p = 1 THEN 0 ELSE None]
       /\ sz = [p \in Pid |-> IF p = 1 THEN n ELSE 0]
       /\ ustacktop = [p \in Pid |-> IF p = 1 THEN n + StackPages ELSE 0]
       /\ pagemap = 0 .. n + StackPages + 1
       /\ dir = [f \in Frame |-> IF f = 0 THEN 2 ELSE None]
       /\ pte = [f \in Frame |-> [v \in Page |->
                   IF f # 2 \/ v >= n + StackPages THEN None ELSE IF v = 0 THEN 1 ELSE v + 2]]
       /\ exec = [p \in Pid |-> NoExec]
       /\ stopped = FALSE /\ lost = {}
       /\ made = 0
  BY DEF Init
<1>t. PICK top : top = n + StackPages
  OBVIOUS
<1>1. /\ n \in Nat /\ n # 0 /\ top \in Nat /\ top \in StackPages + 1 .. MaxPage + 1 /\ top >= 2
      /\ top + 2 <= Frames
  BY <1>t, NumberFacts, VmAssumption DEF Fits
<1>2. 1 \in Pid /\ Alive = {1} /\ Spaces = {0} /\ 0 \in Frame /\ 2 \in Frame /\ dir[0] = 2
  <2>1. 1 \in Pid /\ 0 \in Frame /\ 2 \in Frame
    BY <1>1, VmAssumption DEF Pid, Frame
  <2>2. Alive = {1} /\ pde[1] = 0
    BY <2>1, <1>n DEF Alive
  <2> QED BY <2>1, <2>2, <1>n DEF Spaces
<1>3. /\ pagemap = 0 .. top + 1 /\ pde[1] = 0 /\ ustacktop[1] = top
      /\ \A p \in Pid : ~Busy(p) /\ parent[p] = None
      /\ \A p \in Pid : state[p] # "ZOMBIE"
  <2>1. n + StackPages + 1 = top + 1
    BY <1>t
  <2> QED BY <2>1, <1>n, <1>t, <1>2 DEF Busy
<1>4. \A v \in Page : Entry(0, v) = IF v >= top THEN None ELSE IF v = 0 THEN 1 ELSE v + 2
  BY <1>n, <1>t, <1>2 DEF Entry
<1>5. \A v \in Page : (Entry(0, v) # None <=> v < top) /\ (Entry(0, v) # None => Entry(0, v) \in pagemap \ {0, 2})
  BY <1>1, <1>3, <1>4, NumberFacts
<1>6. VType
  <2>1. \A f \in Frame : \A v \in Page :
          (IF f # 2 \/ v >= n + StackPages THEN None ELSE IF v = 0 THEN 1 ELSE v + 2) \in Frame \cup {None}
    BY <1>1, <1>t, NumberFacts DEF Frame
  <2>2. pte \in [Frame -> [Page -> Frame \cup {None}]]
    BY <2>1, <1>n
  <2>3. NoExec \in [image : Nat, va : Nat, frame : Frame \cup {None}]
    BY NumberFacts DEF NoExec
  <2>4. exec \in [Pid -> [image : Nat, va : Nat, frame : Frame \cup {None}]]
    BY <2>3, <1>n
  <2>5. state \in [Pid -> States] /\ parent \in [Pid -> Pid \cup {None}] /\ pde \in [Pid -> Frame \cup {None}]
    BY <1>n, <1>2 DEF States
  <2>6. sz \in [Pid -> Nat] /\ ustacktop \in [Pid -> Nat]
    BY <1>n, <1>t, <1>1
  <2>7. dir \in [Frame -> Frame \cup {None}]
    BY <1>n, <1>2
  <2>8. pagemap \subseteq Frame
    BY <1>3, <1>1, NumberFacts DEF Frame
  <2>9. stopped \in BOOLEAN /\ made \in Nat
    BY <1>n
  <2> QED BY <2>2, <2>4, <2>5, <2>6, <2>7, <2>8, <2>9 DEF VType
<1>7. ChainInv
  BY <1>1, <1>2, <1>3 DEF ChainInv
<1>8. PagesInv
  BY <1>n, <1>2, <1>3, <1>5 DEF PagesInv, Mapped, Together, Reach
<1>9. ExecInv
  BY <1>3 DEF ExecInv
<1>10. FramesInv
  <2>1. 0 \in pagemap /\ 2 \in pagemap
    BY <1>1, <1>3
  <2>2. \A v, w \in Page : Entry(0, v) # None /\ Entry(0, v) = Entry(0, w) => v = w
    BY <1>1, <1>4, NumberFacts
  <2>3. \A f \in pagemap : f = 0 \/ f = 2 \/ \E v \in Page : f = Entry(0, v)
    <3> SUFFICES ASSUME NEW f \in pagemap, f # 0, f # 2
                 PROVE  \E v \in Page : f = Entry(0, v)
      OBVIOUS
    <3>1. CASE f = 1
      <4>1. 0 \in Page /\ Entry(0, 0) = f
        BY <3>1, <1>1, <1>4, NumberFacts DEF Page
      <4> QED BY <4>1
    <3>2. CASE f # 1
      <4>1. f \in 3 .. top + 1
        BY <3>2, <1>1, <1>3
      <4>2. f - 2 \in Page /\ Entry(0, f - 2) = f
        BY <4>1, <1>1, <1>4, NumberFacts DEF Page
      <4> QED BY <4>2
    <3> QED BY <3>1, <3>2
  <2>4. lost = {}
    BY <1>n
  <2> QED BY <2>1, <2>2, <2>3, <2>4, <1>2, <1>5 DEF FramesInv
<1> QED BY <1>6, <1>7, <1>8, <1>9, <1>10 DEF VInv

LEMMA NextInv ==
  ASSUME Orderly, VInv, [Next]_vars
  PROVE  VInv' /\ PagesKept
<1>1. ASSUME NEW p \in Pid, NEW a \in Pid, Fork(p, a)
      PROVE  VInv' /\ PagesKept
  BY <1>1, ForkStep
<1>2. ASSUME NEW p \in Pid, NEW a \in Pid, ThreadCreate(p, a)
      PROVE  VInv' /\ PagesKept
  BY <1>2, ThreadStep
<1>3. ASSUME NEW p \in Pid, NEW a \in Pid, WaitReap(p, a)
      PROVE  VInv' /\ PagesKept
  BY <1>3, WaitStep
<1>4. ASSUME NEW p \in Pid, NEW a \in Pid, Join(p, a)
      PROVE  VInv' /\ PagesKept
  BY <1>4, JoinStep
<1>5. ASSUME NEW p \in Pid, NEW n \in Images, ExecInPlace(p, n) \/ ExecBegin(p, n)
      PROVE  VInv' /\ PagesKept
  BY <1>5, InPlaceStep, BeginStep
<1>6. ASSUME NEW p \in Pid, ExecPeek(p) \/ ExecToggle(p) \/ Exit(p)
      PROVE  VInv' /\ PagesKept
  BY <1>6, PeekStep, ToggleStep, ExitStep
<1>7. CASE UNCHANGED vars
  BY <1>7, StopStep DEF vars, VInv, VType
<1> QED BY <1>1, <1>2, <1>3, <1>4, <1>5, <1>6, <1>7, Zenon DEF Next

LEMMA Invariance == Orderly /\ Fits => (Spec => []VInv)
<1>1. Fits /\ Init => VInv
  BY InitInv
<1>2. Orderly /\ VInv /\ [Next]_vars => VInv'
  BY NextInv
<1> SUFFICES ASSUME Orderly, Fits
             PROVE  Spec => []VInv
  OBVIOUS
<1> QED BY <1>1, <1>2, PTL DEF Spec

\* The places of OwnFrames and NoLeak in the words of FramesInv.
LEMMA HeldIs ==
  ASSUME VInv
  PROVE  /\ \A c \in Used : \E d \in Spaces :
               \/ c = <<d, "directory", 0>> /\ Held(c) = d
               \/ c = <<d, "table", 0>> /\ Held(c) = dir[d]
               \/ \E v \in Page : c = <<d, "page", v>> /\ Held(c) = Entry(d, v) /\ Entry(d, v) # None
         /\ \A d \in Spaces :
               /\ <<d, "directory", 0>> \in Used /\ Held(<<d, "directory", 0>>) = d
               /\ <<d, "table", 0>> \in Used /\ Held(<<d, "table", 0>>) = dir[d]
               /\ \A v \in Page : Entry(d, v) # None =>
                     <<d, "page", v>> \in Used /\ Held(<<d, "page", v>>) = Entry(d, v)
<1>1. \A d \in Spaces : d # None /\ dir[d] # None
  BY SpaceFacts, NumberFacts DEF VInv
<1>2. \A d \in Spaces : Held(<<d, "directory", 0>>) = d
  BY DEF Held
<1>3. \A d \in Spaces : Held(<<d, "table", 0>>) = dir[d]
  BY DEF Held
<1>4. \A d \in Spaces : \A v \in Page : Held(<<d, "page", v>>) = Entry(d, v)
  BY <1>1 DEF Held, Entry
<1>5. ASSUME NEW c \in Cells
      PROVE  \E d \in Spaces : \/ c = <<d, "directory", 0>> \/ c = <<d, "table", 0>>
                               \/ \E v \in Page : c = <<d, "page", v>>
  BY DEF Cells
<1>6. \A d \in Spaces : <<d, "directory", 0>> \in Cells /\ <<d, "table", 0>> \in Cells
  BY DEF Cells
<1>7. \A d \in Spaces : \A v \in Page : <<d, "page", v>> \in Cells
  BY DEF Cells
<1> HIDE DEF Held, Cells
<1>8. \A c \in Used : c \in Cells /\ Held(c) # None
  BY DEF Used
<1>9. ASSUME NEW c \in Used
      PROVE  \E d \in Spaces :
               \/ c = <<d, "directory", 0>> /\ Held(c) = d
               \/ c = <<d, "table", 0>> /\ Held(c) = dir[d]
               \/ \E v \in Page : c = <<d, "page", v>> /\ Held(c) = Entry(d, v) /\ Entry(d, v) # None
  <2>1. PICK d \in Spaces : \/ c = <<d, "directory", 0>> \/ c = <<d, "table", 0>>
                            \/ \E v \in Page : c = <<d, "page", v>>
    BY <1>5, <1>8
  <2>2. CASE c = <<d, "directory", 0>>
    BY <2>2, <1>2
  <2>3. CASE c = <<d, "table", 0>>
    BY <2>3, <1>3
  <2>4. CASE \E v \in Page : c = <<d, "page", v>>
    BY <2>4, <1>4, <1>8
  <2> QED BY <2>1, <2>2, <2>3, <2>4
<1>10. \A d \in Spaces : <<d, "directory", 0>> \in Used /\ <<d, "table", 0>> \in Used
  BY <1>1, <1>2, <1>3, <1>6 DEF Used
<1>11. \A d \in Spaces : \A v \in Page : Entry(d, v) # None => <<d, "page", v>> \in Used
  BY <1>4, <1>7 DEF Used
<1> QED BY <1>2, <1>3, <1>4, <1>9, <1>10, <1>11

LEMMA OwnFromInv == ASSUME VInv PROVE OwnFrames
<1>a. VType /\ ChainInv /\ FramesInv
  BY DEF VInv
<1>1. \A c \in Used : \E d \in Spaces :
               \/ c = <<d, "directory", 0>> /\ Held(c) = d
               \/ c = <<d, "table", 0>> /\ Held(c) = dir[d]
               \/ \E v \in Page : c = <<d, "page", v>> /\ Held(c) = Entry(d, v) /\ Entry(d, v) # None
  BY HeldIs
<1>2. \A c \in Used : Held(c) \in pagemap
  BY <1>1, <1>a DEF FramesInv
<1>3. \A c, e \in Used : Held(c) = Held(e) => c = e
  <2> SUFFICES ASSUME NEW c \in Used, NEW e \in Used, Held(c) = Held(e)
               PROVE  c = e
    OBVIOUS
  <2>1. PICK d \in Spaces :
               \/ c = <<d, "directory", 0>> /\ Held(c) = d
               \/ c = <<d, "table", 0>> /\ Held(c) = dir[d]
               \/ \E v \in Page : c = <<d, "page", v>> /\ Held(c) = Entry(d, v) /\ Entry(d, v) # None
    BY <1>1
  <2>2. PICK b \in Spaces :
               \/ e = <<b, "directory", 0>> /\ Held(e) = b
               \/ e = <<b, "table", 0>> /\ Held(e) = dir[b]
               \/ \E v \in Page : e = <<b, "page", v>> /\ Held(e) = Entry(b, v) /\ Entry(b, v) # None
    BY <1>1
  <2>3. CASE c = <<d, "directory", 0>> /\ Held(c) = d
    BY <2>2, <2>3, <1>a DEF FramesInv
  <2>4. CASE c = <<d, "table", 0>> /\ Held(c) = dir[d]
    BY <2>2, <2>4, <1>a DEF FramesInv
  <2>5. CASE \E v \in Page : c = <<d, "page", v>> /\ Held(c) = Entry(d, v) /\ Entry(d, v) # None
    BY <2>2, <2>5, <1>a DEF FramesInv
  <2> QED BY <2>1, <2>3, <2>4, <2>5
<1>4. \A p, q \in Alive : p # q /\ pde[p] = pde[q] => ustacktop[p] # ustacktop[q]
  <2> SUFFICES ASSUME NEW p \in Alive, NEW q \in Alive, p # q, pde[p] = pde[q],
                      ustacktop[p] = ustacktop[q]
               PROVE  FALSE
    OBVIOUS
  <2>1. ustacktop[p] \in Nat /\ ustacktop[p] <= ustacktop[q]
    BY <1>a DEF VType, Alive
  <2>2. ustacktop[p] + StackPages <= ustacktop[q]
    BY <2>1, <1>a DEF ChainInv, Together
  <2> QED BY <2>1, <2>2, NumberFacts
<1> QED BY <1>2, <1>3, <1>4 DEF OwnFrames

LEMMA NoLeakFromInv == ASSUME VInv PROVE NoLeak
<1>0. lost \subseteq pagemap
  BY DEF VInv, FramesInv
<1> SUFFICES ASSUME NEW f \in pagemap \ lost
             PROVE  \E c \in Used : f = Held(c)
  BY <1>0 DEF NoLeak
<1>1. PICK d \in Spaces : f = d \/ f = dir[d] \/ \E v \in Page : f = Entry(d, v)
  BY DEF VInv, FramesInv
<1>2. f # None
  BY NumberFacts DEF VInv, VType
<1>3. /\ <<d, "directory", 0>> \in Used /\ Held(<<d, "directory", 0>>) = d
      /\ <<d, "table", 0>> \in Used /\ Held(<<d, "table", 0>>) = dir[d]
      /\ \A v \in Page : Entry(d, v) # None =>
            <<d, "page", v>> \in Used /\ Held(<<d, "page", v>>) = Entry(d, v)
  BY HeldIs
<1>4. CASE f = d
  BY <1>3, <1>4
<1>5. CASE f = dir[d]
  BY <1>3, <1>5
<1>6. CASE \E v \in Page : f = Entry(d, v)
  BY <1>2, <1>3, <1>6
<1> QED BY <1>1, <1>4, <1>5, <1>6
-----------------------------------------------------------------------------
\* As long as the programs keep to the protocol of Vm and the first one fits,
\* no page frame is at two places, in two address spaces or in one, none that
\* is in use is free for kalloc, and the stacks in a space are apart.
THEOREM FramesOwned == Orderly /\ Fits => (Spec => []OwnFrames)
<1>1. VInv => OwnFrames
  BY OwnFromInv
<1> QED BY <1>1, Invariance, PTL

\* Under the same conditions, every frame in use is in a space, but for those
\* that deallocuvm does not reach after an exec of a shorter program: these,
\* and no others, are lost.
THEOREM NothingLeaks == Orderly /\ Fits => (Spec => []NoLeak)
<1>1. VInv => NoLeak
  BY NoLeakFromInv
<1> QED BY <1>1, Invariance, PTL

\* No call of another process, or of its own threads, moves or frees a page of
\* a process that is there before and after.
THEOREM PagesKeptAlways == Orderly /\ Fits => (Spec => PagesStay)
<1>1. Orderly /\ VInv /\ [Next]_vars => [PagesKept]_vars
  BY NextInv
<1>2. (Orderly /\ Fits => (Spec => [][PagesKept]_vars))
  <2> SUFFICES ASSUME Orderly, Fits
               PROVE  Spec => [][PagesKept]_vars
    OBVIOUS
  <2> QED BY <1>1, Invariance, PTL DEF Spec
<1> QED BY <1>2 DEF PagesStay, PagesKept

\* Why a step stops the machine: a child is to be made for which there are too
\* few frames, a stack, or a page of a longer program.
StopCauses ==
    \/ \E p \in Alive, a \in Vacant : Len(FreeFrames) < ustacktop[p] + 2
    \/ \E p \in Alive : /\ Bare(p)
                        /\ ustacktop[p] + StackPages <= MaxPage + 1
                        /\ Len(FreeFrames) < StackPages
    \/ \E p \in Pid : Busy(p) /\ Len(FreeFrames) = 0

LEMMA StopsWhen ==
  ASSUME Orderly, VInv, [Next]_vars, stopped' # stopped
  PROVE  StopCauses
<1>1. ASSUME NEW p \in Pid, NEW a \in Pid, Fork(p, a), stopped' # stopped
      PROVE  StopCauses
  <2>1. p \in Alive /\ a \in Vacant
    BY <1>1 DEF Fork, Runs, Alive
  <2>2. \A v \in 0 .. ustacktop[p] - 1 : Present(p, v)
    BY <2>1, PagesThere
  <2>3. Len(FreeFrames) < ustacktop[p] + 2
    BY <1>1, <2>2 DEF Fork
  <2> QED BY <2>1, <2>3 DEF StopCauses
<1>2. ASSUME NEW p \in Pid, NEW a \in Pid, ThreadCreate(p, a), stopped' # stopped
      PROVE  StopCauses
  <2>1. p \in Alive /\ Bare(p)
    BY <1>2 DEF ThreadCreate, Runs, Alive, MayThread, Orderly
  <2>2. ustacktop[p] \in StackPages + 1 .. MaxPage + 1 /\ ustacktop[p] + StackPages <= MaxPage + 1
    BY <1>2, <2>1 DEF VInv, ChainInv, ThreadCreate
  <2>3. \A v \in ustacktop[p] .. ustacktop[p] + StackPages - 1 : ~Present(p, v)
    <3>1. \A v \in ustacktop[p] .. ustacktop[p] + StackPages - 1 : v \in Page /\ v >= ustacktop[p]
      BY <2>2, NumberFacts DEF Page
    <3> QED BY <2>1, <3>1, AboveEmpty
  <2>4. Len(FreeFrames) < StackPages
    <3>1. PICK lo, hi : lo = ustacktop[p] /\ hi = ustacktop[p] + StackPages
      OBVIOUS
    <3>2. ~\E v \in lo .. hi - 1 : Present(p, v)
      BY <2>2, <2>3, <3>1, NumberFacts
    <3>3. \/ \E v \in lo .. hi - 1 : Present(p, v)
          \/ Len(FreeFrames) < StackPages
          \/ Grown(p, lo, hi) /\ UNCHANGED <<sz, exec, stopped, lost>>
      BY <1>2, <3>1, Zenon DEF ThreadCreate
    <3> QED BY <1>2, <3>2, <3>3
  <2> QED BY <2>1, <2>2, <2>4 DEF StopCauses
<1>3. ASSUME NEW p \in Pid, ExecPeek(p), stopped' # stopped
      PROVE  StopCauses
  <2>1. Len(FreeFrames) = 0 /\ Busy(p)
    BY <1>3 DEF ExecPeek, InExec, Busy
  <2> QED BY <2>1 DEF StopCauses
<1>4. ASSUME NEW p \in Pid, ExecToggle(p)
      PROVE  stopped' = stopped
  BY <1>4, ToggleStep
<1>5. ASSUME NEW p \in Pid, NEW a \in Pid, WaitReap(p, a) \/ Join(p, a)
      PROVE  stopped' = stopped
  BY <1>5 DEF WaitReap, Join
<1>6. ASSUME NEW p \in Pid, NEW n \in Images, ExecInPlace(p, n) \/ ExecBegin(p, n)
      PROVE  stopped' = stopped
  BY <1>6 DEF ExecInPlace, ExecBegin
<1>7. ASSUME NEW p \in Pid, Exit(p)
      PROVE  stopped' = stopped
  BY <1>7 DEF Exit
<1>8. CASE UNCHANGED vars
  BY <1>8 DEF vars
<1>9. CASE Next
  BY <1>1, <1>2, <1>3, <1>4, <1>5, <1>6, <1>7, <1>9, Zenon DEF Next
<1> QED BY <1>8, <1>9

\* The asserts of mappages and copyuvm, and the loop of kalloc, stop the machine
\* only when frames run out: fewer are free than the largest program and its
\* stack, their directory and their table take.
StopsShort == stopped' # stopped => Len(FreeFrames) < MaxPage + 3

\* A machine that has the frames for another program is never stopped by them.
THEOREM StopsOnlyShort == Orderly /\ Fits => (Spec => [][StopsShort]_vars)
<1>1. ASSUME Orderly, VInv, [Next]_vars, stopped' # stopped
      PROVE  Len(FreeFrames) < MaxPage + 3
  <2>1. Len(FreeFrames) \in Nat
    BY <1>1, FreeFramesRight DEF VInv, VType
  <2>2. \A p \in Alive : ustacktop[p] \in StackPages + 1 .. MaxPage + 1
    BY <1>1 DEF VInv, ChainInv
  <2>3. StopCauses
    BY <1>1, StopsWhen
  <2>4. CASE \E p \in Alive, a \in Vacant : Len(FreeFrames) < ustacktop[p] + 2
    BY <2>1, <2>2, <2>4, NumberFacts
  <2>5. CASE \E p \in Alive : Len(FreeFrames) < StackPages
    BY <2>1, <2>2, <2>5, NumberFacts
  <2>6. CASE Len(FreeFrames) = 0
    BY <2>6, NumberFacts
  <2> QED BY <2>3, <2>4, <2>5, <2>6 DEF StopCauses
<1>2. Orderly /\ VInv /\ [Next]_vars => [StopsShort]_vars
  BY <1>1 DEF StopsShort
<1> SUFFICES ASSUME Orderly, Fits
             PROVE  Spec => [][StopsShort]_vars
  OBVIOUS
<1> QED BY <1>2, Invariance, PTL DEF Spec
-----------------------------------------------------------------------------
\* A place for every frame a process may need: its directory, its table and the
\* pages of the largest program with its stacks.
Places == Pid \X (0 .. MaxPage + 2)
Content(x) ==
    IF x[2] = 0 THEN pde[x[1]]
    ELSE IF x[2] = 1 THEN dir[pde[x[1]]] ELSE Entry(pde[x[1]], x[2] - 2)

\* The memory of the machine has a frame for each of them, beside those lost.
Enough == Frames >= (MAX_PCB_NUM - 1) * (MaxPage + 3) + Cardinality(lost)

LEMMA Interval ==
  ASSUME NEW a \in Int, NEW b \in Int, a <= b
  PROVE  IsFiniteSet(a .. b) /\ Cardinality(a .. b) = b - a + 1
BY FS_Interval

\* Some places of one process.
LEMMA RowCount ==
  ASSUME NEW p, NEW a \in Int, NEW b \in Int, a <= b
  PROVE  Cardinality({p} \X (a .. b)) = b - a + 1
<1>1. PICK S, T : S = {p} /\ T = a .. b
  OBVIOUS
<1>2. IsFiniteSet(S) /\ Cardinality(S) = 1
  BY <1>1, FS_Singleton
<1>3. IsFiniteSet(T) /\ Cardinality(T) = b - a + 1
  BY <1>1, Interval
<1>4. Cardinality(S \X T) = Cardinality(S) * Cardinality(T)
  BY <1>2, <1>3, FS_Product
<1>5. Cardinality(S \X T) = b - a + 1
  BY <1>2, <1>3, <1>4
<1> QED BY <1>1, <1>5

LEMMA PlacesFinite ==
  IsFiniteSet(Places) /\ Cardinality(Places) = (MAX_PCB_NUM - 1) * (MaxPage + 3)
<1>1. IsFiniteSet(Pid) /\ Cardinality(Pid) = MAX_PCB_NUM - 1
  BY FS_Interval, VmAssumption DEF Pid
<1>2. IsFiniteSet(0 .. MaxPage + 2) /\ Cardinality(0 .. MaxPage + 2) = MaxPage + 3
  <2>1. PICK n \in Int : n = MaxPage + 2 /\ 0 <= n /\ n - 0 + 1 = MaxPage + 3
    BY VmAssumption
  <2>2. IsFiniteSet(0 .. n) /\ Cardinality(0 .. n) = n - 0 + 1
    BY <2>1, Interval
  <2> QED BY <2>1, <2>2
<1>3. PICK S, T : S = Pid /\ T = 0 .. MaxPage + 2
  OBVIOUS
<1>4. IsFiniteSet(S) /\ IsFiniteSet(T)
  BY <1>1, <1>2, <1>3
<1>5. IsFiniteSet(S \X T) /\ Cardinality(S \X T) = Cardinality(S) * Cardinality(T)
  BY ONLY <1>4, FS_Product
<1> QED BY <1>1, <1>2, <1>3, <1>5 DEF Places

\* Every frame in use that is not lost is at a place of a process that is there.
LEMMA InUse ==
  ASSUME VInv, NEW f \in pagemap \ lost
  PROVE  \E p \in Alive, i \in 0 .. MaxPage + 2 :
            /\ f = Content(<<p, i>>) /\ f # None
            /\ i >= 2 => i - 2 \in Page
<1>1. f # None
  BY NumberFacts DEF VInv, VType
<1>2. PICK d \in Spaces : f = d \/ f = dir[d] \/ \E v \in Page : f = Entry(d, v)
  BY DEF VInv, FramesInv
<1>3. PICK p \in Alive : d = pde[p]
  BY <1>2 DEF Spaces
<1>4. CASE f = d
  <2>1. 0 \in 0 .. MaxPage + 2 /\ f = Content(<<p, 0>>) /\ ~(0 >= 2)
    BY <1>3, <1>4, NumberFacts DEF Content
  <2> QED BY <1>1, <2>1
<1>5. CASE f = dir[d]
  <2>1. 1 \in 0 .. MaxPage + 2 /\ f = Content(<<p, 1>>) /\ ~(1 >= 2)
    BY <1>3, <1>5, NumberFacts DEF Content
  <2> QED BY <1>1, <2>1
<1>6. CASE \E v \in Page : f = Entry(d, v)
  <2>1. PICK v \in Page : f = Entry(d, v)
    BY <1>6
  <2>2. v \in Nat /\ v <= MaxPage
    BY <2>1, NumberFacts DEF Page
  <2>3. PICK i \in Nat : i = v + 2
    BY <2>2
  <2>4. i \in 0 .. MaxPage + 2 /\ i - 2 = v /\ i # 0 /\ i # 1
    BY <2>2, <2>3, NumberFacts
  <2>5. f = Content(<<p, i>>)
    BY <1>3, <2>1, <2>4 DEF Content
  <2> QED BY <1>1, <2>1, <2>4, <2>5
<1> QED BY <1>2, <1>4, <1>5, <1>6

\* As many frames are free as there are places that nothing in use needs.
LEMMA RoomLeft ==
  ASSUME VInv, Enough, NEW U \in SUBSET Places,
         \A f \in pagemap \ lost : \E x \in Places \ U : f = Content(x)
  PROVE  Len(FreeFrames) \in Nat /\ Cardinality(U) \in Nat /\ Len(FreeFrames) >= Cardinality(U)
<1> DEFINE F == Frame \ pagemap
           g == [f \in pagemap \ lost |-> CHOOSE x \in Places \ U : f = Content(x)]
<1>1. pagemap \subseteq Frame
  BY DEF VInv, VType
<1>2. Len(FreeFrames) = Cardinality(F) /\ Len(FreeFrames) \in Nat
  <2>1. Len(FreeFrames) \in Nat /\ DOMAIN FreeFrames = 1 .. Len(FreeFrames)
    BY <1>1, FreeFramesRight
  <2>2. DOMAIN FreeFrames = 1 .. Cardinality(F)
    BY DEF FreeFrames
  <2>3. Cardinality(F) \in Nat
    <3>1. IsFiniteSet(F)
      BY FrameFinite, FS_Difference
    <3> HIDE DEF F
    <3> QED BY <3>1, FS_CardinalityType
  <2> HIDE DEF F
  <2>4. PICK a \in Nat, b \in Nat : a = Len(FreeFrames) /\ b = Cardinality(F)
    BY <2>1, <2>3
  <2>5. 1 .. a = 1 .. b
    BY <2>1, <2>2, <2>4
  <2>6. a = b
    BY <2>5
  <2> QED BY <2>1, <2>4, <2>6
<1>3. g \in [pagemap \ lost -> Places \ U] /\ \A f \in pagemap \ lost : f = Content(g[f])
  OBVIOUS
<1>4. g \in Injection(pagemap \ lost, Places \ U)
  <2> HIDE DEF g
  <2>1. \A e, f \in pagemap \ lost : g[e] = g[f] => e = f
    BY <1>3, Zenon
  <2> QED BY <1>3, <2>1, Zenon DEF Injection, IsInjective
<1>5. /\ IsFiniteSet(pagemap) /\ Cardinality(pagemap) \in Nat
      /\ IsFiniteSet(lost) /\ Cardinality(lost) \in Nat
      /\ Cardinality(pagemap \ lost) = Cardinality(pagemap) - Cardinality(lost)
  <2>1. lost \subseteq pagemap
    BY DEF VInv, FramesInv
  <2>2. IsFiniteSet(pagemap) /\ IsFiniteSet(lost)
    BY <1>1, <2>1, FrameFinite, FS_Subset
  <2>3. pagemap \cap lost = lost
    BY <2>1
  <2> QED BY <2>2, <2>3, FS_Difference, FS_CardinalityType
<1>6. /\ IsFiniteSet(Places \ U) /\ IsFiniteSet(U)
      /\ Cardinality(Places \ U) = Cardinality(Places) - Cardinality(U)
  <2>1. Places \cap U = U
    OBVIOUS
  <2>2. IsFiniteSet(Places) /\ IsFiniteSet(U)
    BY PlacesFinite, FS_Subset
  <2>3. IsFiniteSet(Places \ U) /\ Cardinality(Places \ U) = Cardinality(Places) - Cardinality(Places \cap U)
    BY <2>2, FS_Difference
  <2> QED BY <2>1, <2>2, <2>3
<1>7. Cardinality(U) \in Nat /\ Cardinality(Places) \in Nat
  BY <1>6, PlacesFinite, FS_CardinalityType
<1>8. Cardinality(pagemap \ lost) <= Cardinality(Places) - Cardinality(U)
  <2> HIDE DEF g
  <2> QED BY <1>4, <1>6, FS_Injection
<1>9. Cardinality(F) = Frames - Cardinality(pagemap)
  <2>1. Frame \cap pagemap = pagemap
    BY <1>1
  <2>2. Cardinality(Frame) = Frames
    <3>1. 0 \in Int /\ Frames - 1 \in Int /\ Frames \in Nat
      BY NumberFacts
    <3>2. Cardinality(0 .. Frames - 1) = IF 0 > Frames - 1 THEN 0 ELSE Frames - 1 - 0 + 1
      BY <3>1, FS_Interval
    <3> QED BY <3>1, <3>2 DEF Frame
  <2> QED BY <2>1, <2>2, FrameFinite, FS_Difference
<1>10. Frames >= Cardinality(Places) + Cardinality(lost)
  BY PlacesFinite DEF Enough
<1> HIDE DEF F, g
<1> QED BY <1>2, <1>5, <1>7, <1>8, <1>9, <1>10, NumberFacts

\* A machine with a frame for every page its processes may need, beside those
\* that execs of shorter programs lose, never stops, in whatever order they fork,
\* create and join threads, exec, exit and wait: the asserts of mappages and
\* copyuvm hold and kalloc finds a frame.  A lost frame stays lost, so that it is
\* enough to have room for those lost so far.
THEOREM NeverStops == Orderly /\ Fits => (Spec => [](Enough => NeverStopped))
<1>1. ASSUME Orderly, Enough, VInv, [Next]_vars
      PROVE  stopped' = stopped
  <2> SUFFICES ASSUME StopCauses
               PROVE  FALSE
    BY <1>1, StopsWhen
  <2>1. \A p \in Alive : p \in Pid /\ ustacktop[p] \in StackPages + 1 .. MaxPage + 1
    BY <1>1 DEF VInv, ChainInv, Alive
  <2>2. CASE \E p \in Alive, a \in Vacant : Len(FreeFrames) < ustacktop[p] + 2
    <3>1. PICK p \in Alive, a \in Vacant : Len(FreeFrames) < ustacktop[p] + 2
      BY <2>2
    <3>2. PICK U : U = {a} \X (0 .. MaxPage + 2)
      OBVIOUS
    <3>3. U \in SUBSET Places /\ a \notin Alive
      BY <3>2 DEF Places, Vacant, Alive
    <3>4. Cardinality(U) = MaxPage + 3
      <4>1. PICK m \in Int, n \in Int : m = 0 /\ n = MaxPage + 2 /\ m <= n /\ n - m + 1 = MaxPage + 3
        BY VmAssumption
      <4>2. m \in Int /\ n \in Int /\ m <= n
        BY <4>1
      <4>3. Cardinality({a} \X (m .. n)) = n - m + 1
        BY ONLY <4>2, RowCount
      <4> QED BY <3>2, <4>1, <4>3
    <3>5. \A f \in pagemap \ lost : \E x \in Places \ U : f = Content(x)
      <4> TAKE f \in pagemap \ lost
      <4>1. PICK q \in Alive, i \in 0 .. MaxPage + 2 : f = Content(<<q, i>>)
        BY <1>1, InUse
      <4>2. <<q, i>> \in Places \ U
        BY <2>1, <3>2, <3>3, <4>1 DEF Places
      <4> QED BY <4>1, <4>2
    <3>6. Len(FreeFrames) \in Nat /\ Len(FreeFrames) >= MaxPage + 3
      BY <1>1, <3>3, <3>4, <3>5, RoomLeft
    <3> QED BY <2>1, <3>1, <3>6, NumberFacts
  <2>3. CASE \E p \in Alive : /\ Bare(p)
                              /\ ustacktop[p] + StackPages <= MaxPage + 1
                              /\ Len(FreeFrames) < StackPages
    <3>1. PICK p \in Alive : /\ Bare(p)
                             /\ ustacktop[p] + StackPages <= MaxPage + 1
                             /\ Len(FreeFrames) < StackPages
      BY <2>3
    <3>2. PICK lo \in Nat : lo = ustacktop[p]
      BY <2>1, NumberFacts
    <3>3. PICK U : U = {p} \X (lo + 2 .. lo + StackPages + 1)
      OBVIOUS
    <3>4. U \in SUBSET Places
      <4>1. lo + StackPages <= MaxPage + 1 /\ StackPages \in Nat /\ MaxPage \in Nat
        BY <3>1, <3>2, NumberFacts
      <4>2. lo + 2 .. lo + StackPages + 1 \subseteq 0 .. MaxPage + 2
        BY <4>1
      <4> QED BY <2>1, <3>3, <4>2 DEF Places
    <3>5. Cardinality(U) = StackPages
      <4>1. PICK m \in Int, n \in Int : m = lo + 2 /\ n = lo + StackPages + 1 /\ m <= n /\ n - m + 1 = StackPages
        BY <3>2, NumberFacts
      <4>2. m \in Int /\ n \in Int /\ m <= n
        BY <4>1
      <4>3. Cardinality({p} \X (m .. n)) = n - m + 1
        BY ONLY <4>2, RowCount
      <4> QED BY <3>3, <4>1, <4>3
    <3>6. \A f \in pagemap \ lost : \E x \in Places \ U : f = Content(x)
      <4> TAKE f \in pagemap \ lost
      <4>1. PICK q \in Alive, i \in 0 .. MaxPage + 2 :
               f = Content(<<q, i>>) /\ f # None /\ (i >= 2 => i - 2 \in Page)
        BY <1>1, InUse
      <4>2. <<q, i>> \notin U
        <5> SUFFICES ASSUME <<q, i>> \in U
                     PROVE  FALSE
          OBVIOUS
        <5>1. q = p /\ i >= lo + 2 /\ i \in Nat
          BY <3>2, <3>3
        <5>2. i >= 2 /\ i - 2 >= lo /\ i # 0 /\ i # 1
          BY <3>2, <5>1
        <5>3. f = Entry(pde[p], i - 2)
          BY <4>1, <5>1, <5>2 DEF Content
        <5>4. Entry(pde[p], i - 2) = None
          BY <1>1, <3>1, <3>2, <4>1, <5>2, AboveEmpty
        <5> QED BY <4>1, <5>3, <5>4
      <4>3. <<q, i>> \in Places \ U
        BY <2>1, <4>2 DEF Places
      <4> QED BY <4>1, <4>3
    <3>7. Len(FreeFrames) \in Nat /\ Len(FreeFrames) >= StackPages
      BY <1>1, <3>4, <3>5, <3>6, RoomLeft
    <3> QED BY <3>1, <3>7, NumberFacts
  <2>4. CASE \E p \in Pid : Busy(p) /\ Len(FreeFrames) = 0
    <3>1. PICK p \in Pid : Busy(p) /\ Len(FreeFrames) = 0
      BY <2>4
    <3>2. PICK w : w = exec[p].va
      OBVIOUS
    <3>3. /\ p \in Alive /\ w \in Page /\ w \in Nat /\ w <= MaxPage
          /\ \A q \in Alive : Together(p, q) => q = p
          /\ Reach(p) = w
      BY <1>1, <3>1, <3>2, NumberFacts DEF VInv, VType, ExecInv, Alive, Page, Reach
    <3>4. Entry(pde[p], w) = None
      <4>1. w >= exec[p].va
        BY <3>2, <3>3
      <4> QED BY <1>1, <3>1, <3>3, <4>1 DEF VInv, ExecInv
    <3>5. PICK i \in Nat : i = w + 2
      BY <3>3
    <3>6. i \in 0 .. MaxPage + 2 /\ i # 0 /\ i # 1 /\ i - 2 = w
      BY <3>3, <3>5, NumberFacts
    <3>7. PICK U : U = {<<p, i>>}
      OBVIOUS
    <3>8. U \in SUBSET Places /\ Cardinality(U) = 1
      <4>1. <<p, i>> \in Places
        BY <3>6 DEF Places
      <4> QED BY <3>7, <4>1, FS_Singleton
    <3>9. \A f \in pagemap \ lost : \E x \in Places \ U : f = Content(x)
      <4> TAKE f \in pagemap \ lost
      <4>1. PICK q \in Alive, j \in 0 .. MaxPage + 2 : f = Content(<<q, j>>) /\ f # None
        BY <1>1, InUse
      <4>2. Content(<<p, i>>) = None
        BY <3>4, <3>6 DEF Content
      <4>3. <<q, j>> \in Places \ U
        BY <2>1, <3>7, <4>1, <4>2 DEF Places
      <4> QED BY <4>1, <4>3
    <3>10. Len(FreeFrames) \in Nat /\ Len(FreeFrames) >= 1
      BY <1>1, <3>8, <3>9, RoomLeft
    <3> QED BY <3>1, <3>10
  <2> QED BY <2>2, <2>3, <2>4 DEF StopCauses
<1>2. ASSUME VInv, VInv', lost \subseteq lost', Enough'
      PROVE  Enough
  <2>1. pagemap' \subseteq Frame /\ lost' \subseteq pagemap'
    BY <1>2 DEF VInv, VType, FramesInv
  <2>2. IsFiniteSet(lost')
    BY <2>1, FrameFinite, FS_Subset
  <2>3. PICK L : L = lost'
    OBVIOUS
  <2>4. Cardinality(lost) <= Cardinality(L) /\ Cardinality(lost) \in Nat /\ Cardinality(L) \in Nat
    BY <1>2, <2>2, <2>3, FS_Subset, FS_CardinalityType
  <2>5. Frames >= (MAX_PCB_NUM - 1) * (MaxPage + 3) + Cardinality(L)
    BY <1>2, <2>3 DEF Enough
  <2>6. PICK k \in Int : k = (MAX_PCB_NUM - 1) * (MaxPage + 3)
    BY VmAssumption
  <2> QED BY <2>4, <2>5, <2>6, NumberFacts DEF Enough
<1>3. [Next]_vars => lost \subseteq lost'
  <2> SUFFICES ASSUME [Next]_vars
               PROVE  lost \subseteq lost'
    OBVIOUS
  <2>1. ASSUME NEW p \in Pid, NEW a \in Pid,
               Fork(p, a) \/ ThreadCreate(p, a) \/ WaitReap(p, a) \/ Join(p, a)
        PROVE  lost \subseteq lost'
    BY <2>1 DEF Fork, ThreadCreate, WaitReap, Join, Stop
  <2>2. ASSUME NEW p \in Pid, NEW n \in Images, ExecInPlace(p, n) \/ ExecBegin(p, n)
        PROVE  lost \subseteq lost'
    BY <2>2 DEF ExecInPlace, ExecBegin
  <2>3. ASSUME NEW p \in Pid, ExecPeek(p) \/ ExecToggle(p) \/ Exit(p)
        PROVE  lost \subseteq lost'
    BY <2>3 DEF ExecPeek, ExecToggle, Exit, Stop
  <2>4. CASE UNCHANGED vars
    BY <2>4 DEF vars
  <2> QED BY <2>1, <2>2, <2>3, <2>4, Zenon DEF Next
<1>4. Orderly /\ VInv /\ VInv' /\ (Enough => NeverStopped) /\ [Next]_vars => (Enough => NeverStopped)'
  BY <1>1, <1>2, <1>3 DEF NeverStopped
<1>5. Init => (Enough => NeverStopped)
  BY DEF Init, NeverStopped
<1> SUFFICES ASSUME Orderly, Fits
             PROVE  Spec => [](Enough => NeverStopped)
  OBVIOUS
<1> QED BY <1>4, <1>5, Invariance, PTL DEF Spec
=============================================================================
