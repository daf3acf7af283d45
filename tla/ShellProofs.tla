----------------------------- MODULE ShellProofs -----------------------------
(***************************************************************************)
(* Proofs about Shell: the semaphore keeps parent and child apart at the    *)
(* terminal, so that whatever is on its way to the screen is the rest of    *)
(* one text; the screen then shows the session, and the words arrive.       *)
(***************************************************************************)
EXTENDS Shell, SequenceTheorems, WellFoundedInduction, TLAPS

-----------------------------------------------------------------------------
\* The processes at the terminal: who has the semaphore, and who waits for it.
Holding(p) ==
  \/ p = Parent /\ pc[Parent] \in {"prompt", "getc", "line", "send", "post"}
  \/ p = Child /\ pc[Child] \in {"recv", "fork", "collect", "post", "done"}
Other(p) == IF p = Parent THEN Child ELSE Parent
Table(v, w) ==
  [value |-> [s \in {Dollar} |-> v], waiters |-> [s \in {Dollar} |-> w], avail |-> << >>]
Lock ==
  \/ dollar = Table(1, << >>) /\ \A p \in {Parent, Child} : ~Holding(p) /\ pc[p] # "asleep"
  \/ \E p \in {Parent, Child} :
        /\ Holding(p) /\ ~Holding(Other(p))
        /\ \/ dollar = Table(0, << >>) /\ pc[Other(p)] # "asleep"
           \/ dollar = Table(-1, <<Other(p)>>) /\ pc[Other(p)] = "asleep"

\* Where the programs are, and where they may be when text is on its way.
Labels == {"none", "wait", "asleep", "prompt", "getc", "line", "send", "recv", "fork",
           "collect", "post", "join", "exit", "zombie", "done"}
Places ==
  /\ pc \in [Proc -> Labels] /\ pending \in [Proc -> Seq(Int)]
  /\ pc[Parent] \in {"wait", "asleep", "prompt", "getc", "line", "send", "post", "join", "done"}
  /\ pc[Child] \in {"wait", "asleep", "recv", "fork", "collect", "post", "done"}
  /\ pc[Command] \in {"none", "exit", "zombie"}
  /\ pc[Command] # "none" <=> pc[Child] = "collect"
Turns ==
  /\ pending[Parent] # << >> => pc[Parent] \in {"getc", "line"}
  /\ pending[Child] # << >> => pc[Child] = "post"
  /\ pending[Command] # << >> => pc[Command] = "exit"
Control == Places /\ Turns /\ Lock

LEMMA Names ==
  /\ Parent \in Proc /\ Child \in Proc /\ Command \in Proc
  /\ Parent # Child /\ Parent # Command /\ Child # Command
  /\ Other(Parent) = Child /\ Other(Child) = Parent
  /\ Proc = {Parent, Child, Command}
BY DEF Proc, Parent, Child, Command, Other

Fields == {"value", "waiters", "avail"}
LEMMA FieldsIs ==
  ASSUME NEW D, D = [f \in Fields |-> D[f]]
  PROVE  D = [value |-> D.value, waiters |-> D.waiters, avail |-> D.avail]
BY DEF Fields

With(T, x, y) == [T EXCEPT !.value[Dollar] = x, !.waiters[Dollar] = y]
LEMMA TableWith ==
  ASSUME NEW v, NEW w, NEW x, NEW y, NEW T, T = Table(v, w)
  PROVE  With(T, x, y) = Table(x, y)
<1>1. PICK D : D = With(T, x, y)
  OBVIOUS
<1> USE DEF With
<1>2. D = [f \in Fields |-> D[f]]
  BY <1>1 DEF Fields, Table
<1>3. D = [value |-> D.value, waiters |-> D.waiters, avail |-> D.avail]
  BY <1>2, FieldsIs
<1>4. /\ D.value = [s \in {Dollar} |-> x] /\ D.waiters = [s \in {Dollar} |-> y]
      /\ D.avail = << >>
  BY <1>1 DEF Table
<1> QED BY <1>1, <1>3, <1>4 DEF Table

\* Down and Up on a table of one semaphore.
LEMMA TableIs ==
  ASSUME NEW v, NEW w, NEW T, T = Table(v, w)
  PROVE  /\ T.value[Dollar] = v /\ T.waiters[Dollar] = w
         /\ Blocks(T, Dollar) <=> v <= 0
         /\ Wakes(T, Dollar) <=> v + 1 <= 0 /\ w # << >>
         /\ Woken(T, Dollar) = Head(w)
BY DEF Table, Blocks, Wakes, Woken

LEMMA DownIs ==
  ASSUME NEW v \in Int, NEW w, NEW T, T = Table(v, w), NEW p
  PROVE  Down(T, Dollar, p) = Table(v - 1, IF v <= 0 THEN Append(w, p) ELSE w)
<1>1. PICK y : y = IF v <= 0 THEN Append(w, p) ELSE w
  OBVIOUS
<1>2. PICK x : x = v - 1
  OBVIOUS
<1>3. Down(T, Dollar, p) = With(T, x, y)
  BY <1>1, <1>2, TableIs DEF Down, With
<1>4. With(T, x, y) = Table(x, y)
  BY TableWith
<1> QED BY <1>1, <1>2, <1>3, <1>4

LEMMA UpIs ==
  ASSUME NEW v \in Int, NEW w, NEW T, T = Table(v, w)
  PROVE  Up(T, Dollar) = Table(v + 1, IF v + 1 <= 0 /\ w # << >> THEN RemoveFirst(w, Head(w)) ELSE w)
<1>1. PICK y : y = IF v + 1 <= 0 /\ w # << >> THEN RemoveFirst(w, Head(w)) ELSE w
  OBVIOUS
<1>2. PICK x : x = v + 1
  OBVIOUS
<1>3. Up(T, Dollar) = With(T, x, y)
  <2>1. T.value[Dollar] + 1 = x
    BY <1>2, TableIs
  <2>2. (IF Wakes(T, Dollar) THEN RemoveFirst(T.waiters[Dollar], Woken(T, Dollar))
         ELSE T.waiters[Dollar]) = y
    BY <1>1, TableIs
  <2> QED BY <2>1, <2>2 DEF Up, With
<1>4. With(T, x, y) = Table(x, y)
  BY TableWith
<1> QED BY <1>1, <1>2, <1>3, <1>4

\* Only one may be waiting: he is the one who is taken out.
LEMMA OneLeaves ==
  ASSUME NEW p
  PROVE  RemoveFirst(<<p>>, Head(<<p>>)) = << >>
<1>1. Head(<<p>>) = p /\ Len(<<p>>) = 1 /\ <<p>>[1] = p
  OBVIOUS
<1>2. {k \in 1 .. Len(<<p>>) : <<p>>[k] = p} = {1}
  BY <1>1
<1>3. SelectInSeq(<<p>>, LAMBDA x : x = p) = 1
  <2>1. Min({1}) = 1
    BY DEF Min
  <2> QED BY <1>1, <1>2, <2>1 DEF SelectInSeq
<1>4. RemoveAt(<<p>>, 1) = << >>
  <2>1. SubSeq(<<p>>, 1, 1 - 1) = << >> /\ SubSeq(<<p>>, 1 + 1, Len(<<p>>)) = << >>
    BY <1>1
  <2>2. << >> \o << >> = << >>
    <3>1. << >> \in Seq(Int)
      OBVIOUS
    <3> QED BY <3>1, ConcatEmptySeq
  <2> QED BY <2>1, <2>2 DEF RemoveAt
<1> QED BY <1>1, <1>3, <1>4 DEF RemoveFirst

-----------------------------------------------------------------------------
LEMMA ControlInit == Init => Control
<1> SUFFICES ASSUME Init PROVE Control
  OBVIOUS
<1>1. pc = [p \in Proc |-> IF p = Command THEN "none" ELSE "wait"] /\ pending = [p \in Proc |-> << >>]
  BY DEF Init
<1>2. /\ pc[Parent] = "wait" /\ pc[Child] = "wait" /\ pc[Command] = "none"
      /\ \A p \in Proc : pending[p] = << >>
  BY <1>1, Names
<1>3. Places
  <2>1. pc \in [Proc -> Labels]
    BY <1>1 DEF Labels
  <2>2. pending \in [Proc -> Seq(Int)]
    <3>1. << >> \in Seq(Int)
      OBVIOUS
    <3> QED BY <1>1, <3>1
  <2> QED BY <1>2, <2>1, <2>2 DEF Places
<1>4. Turns
  BY <1>2, Names DEF Turns
<1>5. Lock
  <2>1. dollar = Allot(FreshTable(1), 1)
    BY DEF Init
  <2>2. FreshTable(1) = [value |-> [s \in {Dollar} |-> 0], waiters |-> [s \in {Dollar} |-> << >>],
                         avail |-> [i \in 1 .. 1 |-> i - 1]]
    <3>1. 0 .. 1 - 1 = {Dollar}
      BY DEF Dollar
    <3> QED BY <3>1 DEF FreshTable
  <2>3. PICK a : a = [i \in 1 .. 1 |-> i - 1]
    OBVIOUS
  <2>4. a \in Seq(Int) /\ a # << >> /\ Len(a) = 1 /\ Head(a) = Dollar
    BY <2>3 DEF Dollar
  <2>5. Tail(a) = << >>
    <3>1. Tail(a) \in Seq(Int) /\ Len(Tail(a)) = 0
      BY <2>4, HeadTailProperties
    <3> QED BY <3>1, EmptySeq
  <2>6. PICK T : T = FreshTable(1)
    OBVIOUS
  <2>7. T = [value |-> [s \in {Dollar} |-> 0], waiters |-> [s \in {Dollar} |-> << >>], avail |-> a]
    BY <2>2, <2>3, <2>6
  <2>8. PICK D : D = [T EXCEPT !.value[Dollar] = 1, !.avail = << >>]
    OBVIOUS
  <2>9. dollar = D
    <3>1. T.avail = a
      BY <2>7
    <3>2. Head(T.avail) = Dollar /\ Tail(T.avail) = << >>
      BY <2>4, <2>5, <3>1
    <3> QED BY <2>1, <2>6, <2>8, <3>2 DEF Allot
  <2>10. D = [f \in Fields |-> D[f]]
    BY <2>7, <2>8 DEF Fields
  <2>11. D = [value |-> D.value, waiters |-> D.waiters, avail |-> D.avail]
    BY <2>10, FieldsIs
  <2>12. /\ D.value = [s \in {Dollar} |-> 1] /\ D.waiters = [s \in {Dollar} |-> << >>]
         /\ D.avail = << >>
    BY <2>7, <2>8
  <2>13. dollar = Table(1, << >>)
    BY <2>9, <2>11, <2>12 DEF Table
  <2> QED BY <1>2, <2>13, Names DEF Lock, Holding
<1> QED BY <1>3, <1>4, <1>5 DEF Control

\* Where a process is may change otherwise, as long as nobody gets or gives back
\* the semaphore.
LEMMA LockKept ==
  ASSUME Places, Lock, dollar' = dollar,
         \A p \in {Parent, Child} : Holding(p)' = Holding(p),
         \A p \in {Parent, Child} : (pc[p] = "asleep")' = (pc[p] = "asleep")
  PROVE  Lock'
<1>1. CASE dollar = Table(1, << >>) /\ \A p \in {Parent, Child} : ~Holding(p) /\ pc[p] # "asleep"
  BY <1>1 DEF Lock
<1>2. ASSUME NEW p \in {Parent, Child}, Holding(p), ~Holding(Other(p)),
             \/ dollar = Table(0, << >>) /\ pc[Other(p)] # "asleep"
             \/ dollar = Table(-1, <<Other(p)>>) /\ pc[Other(p)] = "asleep"
      PROVE  Lock'
  <2>1. Other(p) \in {Parent, Child}
    BY Names
  <2>2. Holding(p)' /\ ~Holding(Other(p))'
    BY <1>2, <2>1
  <2> QED BY <1>2, <2>1, <2>2 DEF Lock
<1> QED BY <1>1, <1>2 DEF Lock

\* What a step changes: where one process is, and what it has to put.
LEMMA GotoIs ==
  ASSUME Places, NEW p \in Proc, NEW l \in Labels, Goto(p, l)
  PROVE  pc' \in [Proc -> Labels] /\ pc'[p] = l /\ \A q \in Proc : q # p => pc'[q] = pc[q]
BY DEF Places, Goto

LEMMA PrintsIs ==
  ASSUME Places, NEW p \in Proc, NEW text \in Seq(Int), Prints(p, text)
  PROVE  /\ pending' \in [Proc -> Seq(Int)] /\ pending'[p] = text
         /\ \A q \in Proc : q # p => pending'[q] = pending[q]
BY DEF Places, Prints

\* A process that is neither asleep nor going to be, and has the semaphore both
\* before and after, or neither.
LEMMA MoveKeeps ==
  ASSUME Places, Lock, dollar' = dollar, NEW p \in Proc, NEW l \in Labels, Goto(p, l),
         Holding(p)' = Holding(p), pc[p] # "asleep", l # "asleep"
  PROVE  Lock'
<1>1. pc'[p] = l /\ \A q \in Proc : q # p => pc'[q] = pc[q]
  BY GotoIs
<1>2. \A q \in {Parent, Child} : Holding(q)' = Holding(q)
  BY <1>1, Names DEF Holding
<1>3. \A q \in {Parent, Child} : (pc[q] = "asleep")' = (pc[q] = "asleep")
  BY <1>1, Names
<1> QED BY <1>2, <1>3, LockKept

LEMMA StayKeeps ==
  ASSUME Places, Lock, dollar' = dollar, pc' = pc
  PROVE  Lock'
BY LockKept DEF Holding

LEMMA PutcControl ==
  ASSUME Control, NEW p \in Proc, Putc(p)
  PROVE  Control'
<1>1. pending[p] \in Seq(Int) /\ pending[p] # << >> /\ Prints(p, Tail(pending[p])) /\ pc' = pc /\ dollar' = dollar
  BY DEF Control, Places, Putc
<1>2. Tail(pending[p]) \in Seq(Int)
  BY <1>1
<1>3. /\ pending' \in [Proc -> Seq(Int)] /\ \A q \in Proc : q # p => pending'[q] = pending[q]
  BY <1>1, <1>2, PrintsIs DEF Control
<1>4. Places'
  BY <1>1, <1>3 DEF Control, Places
<1>5. Turns'
  BY <1>1, <1>3, Names DEF Control, Turns
<1>6. Lock'
  BY <1>1, StayKeeps DEF Control
<1> QED BY <1>4, <1>5, <1>6 DEF Control

LEMMA SemWaitControl ==
  ASSUME Control, NEW p \in {Parent, Child}, SemWait(p)
  PROVE  Control'
<1>1. /\ pc[p] = "wait" /\ pending[p] = << >> /\ dollar' = Down(dollar, Dollar, p) /\ pending' = pending
      /\ Goto(p, IF Blocks(dollar, Dollar) THEN "asleep" ELSE Granted(p))
  BY DEF SemWait, Ready
<1>2. PICK o \in {Parent, Child} : o = Other(p)
  BY Names
<1>3. p \in Proc /\ o \in Proc /\ p # o /\ Other(o) = p /\ {Parent, Child} = {p, o}
  BY <1>2, Names
<1>4. ~Holding(p)
  BY <1>1 DEF Holding
<1>5. PICK l : l = IF Blocks(dollar, Dollar) THEN "asleep" ELSE Granted(p)
  OBVIOUS
<1>6. l \in Labels /\ Goto(p, l) /\ (l = "asleep" \/ l = Granted(p))
  BY <1>1, <1>5 DEF Labels, Granted
<1>7. pc' \in [Proc -> Labels] /\ pc'[p] = l /\ \A q \in Proc : q # p => pc'[q] = pc[q]
  BY <1>3, <1>6, GotoIs DEF Control
<1>8. Places'
  BY <1>1, <1>3, <1>6, <1>7, Names DEF Control, Places, Granted
<1>9. Turns'
  BY <1>1, <1>3, <1>7, Names DEF Control, Turns
<1>10. Holding(o)' = Holding(o)
  BY <1>3, <1>7, Names DEF Holding
<1>11. Lock'
  <2>1. CASE dollar = Table(1, << >>) /\ \A q \in {Parent, Child} : ~Holding(q) /\ pc[q] # "asleep"
    <3>1. ~Blocks(dollar, Dollar)
      BY <2>1, TableIs
    <3>2. dollar' = Table(1 - 1, IF 1 <= 0 THEN Append(<< >>, p) ELSE << >>)
      BY <1>1, <2>1, DownIs
    <3>3. dollar' = Table(0, << >>)
      BY <3>2
    <3>4. Holding(p)'
      BY <1>5, <1>7, <3>1, Names DEF Granted, Holding
    <3>5. ~Holding(o)' /\ pc'[o] # "asleep"
      BY <1>3, <1>7, <1>10, <2>1
    <3> QED BY <1>2, <3>3, <3>4, <3>5 DEF Lock
  <2>2. CASE Holding(o) /\ dollar = Table(0, << >>)
    <3>1. Blocks(dollar, Dollar)
      BY <2>2, TableIs
    <3>2. PICK v \in Int : v = 0
      OBVIOUS
    <3>3. dollar' = Table(-1, <<p>>)
      <4>1. Append(<< >>, p) = <<p>> /\ v - 1 = -1 /\ v <= 0
        BY <3>2
      <4>2. dollar = Table(v, << >>)
        BY <2>2, <3>2
      <4>3. dollar' = Table(v - 1, IF v <= 0 THEN Append(<< >>, p) ELSE << >>)
        BY <1>1, <4>2, DownIs
      <4> QED BY <4>1, <4>3
    <3>4. pc'[p] = "asleep"
      BY <1>5, <1>7, <3>1
    <3>5. ~Holding(p)'
      BY <3>4 DEF Holding
    <3> QED BY <1>3, <1>10, <2>2, <3>3, <3>4, <3>5 DEF Lock
  <2> QED BY <1>1, <1>2, <1>3, <1>4, <2>1, <2>2 DEF Control, Lock
<1> QED BY <1>8, <1>9, <1>11 DEF Control

LEMMA SemPostControl ==
  ASSUME Control, NEW p \in {Parent, Child}, SemPost(p)
  PROVE  Control'
<1>1. /\ pc[p] = "post" /\ pending[p] = << >> /\ dollar' = Up(dollar, Dollar) /\ pending' = pending
  BY DEF SemPost, Ready
<1>2. PICK o \in {Parent, Child} : o = Other(p)
  BY Names
<1>3. p \in Proc /\ o \in Proc /\ p # o /\ Other(o) = p /\ Other(p) = o /\ {Parent, Child} = {p, o} /\ Command # p /\ Command # o
  BY <1>2, Names
<1>4. Holding(p)
  BY <1>1, <1>3 DEF Holding
<1>5. PICK l : l = IF p = Parent /\ IsExit(buf) THEN "join" ELSE "wait"
  OBVIOUS
<1>6. PICK w \in BOOLEAN : w = (Wakes(dollar, Dollar) /\ Woken(dollar, Dollar) = o)
  OBVIOUS
<1>7. l \in Labels /\ (l = "wait" \/ (p = Parent /\ l = "join"))
  <2>1. CASE p = Parent /\ IsExit(buf)
    BY <1>5, <2>1 DEF Labels
  <2>2. CASE ~(p = Parent /\ IsExit(buf))
    <3>1. l = "wait"
      BY <1>5, <2>2, Zenon
    <3> QED BY <3>1 DEF Labels
  <2> QED BY <2>1, <2>2
<1>8. Command # Woken(dollar, Dollar) \/ ~Wakes(dollar, Dollar)
  <2>1. CASE dollar = Table(0, << >>)
    BY <2>1, TableIs
  <2>2. CASE \E q \in {Parent, Child} : dollar = Table(-1, <<q>>)
    <3>1. PICK q \in {Parent, Child} : dollar = Table(-1, <<q>>)
      BY <2>2
    <3>2. Woken(dollar, Dollar) = Head(<<q>>)
      BY <3>1, TableIs
    <3> QED BY <3>2, Names
  <2> QED BY <1>2, <1>3, <1>4, <2>1, <2>2 DEF Control, Lock
<1>9. pc' \in [Proc -> Labels] /\ pc'[p] = l /\ pc'[Command] = pc[Command] /\ pc'[o] = IF w THEN Granted(o) ELSE pc[o]
  <2>1. pc' = [q \in Proc |->
                CASE q = p -> IF p = Parent /\ IsExit(buf) THEN "join" ELSE "wait"
                  [] q # p -> IF Wakes(dollar, Dollar) /\ Woken(dollar, Dollar) = q
                              THEN Granted(q) ELSE pc[q]]
    BY DEF SemPost
  <2>2. pc'[p] = l
    BY <1>3, <1>5, <2>1
  <2>3. pc'[o] = IF w THEN Granted(o) ELSE pc[o]
    BY <1>3, <1>6, <2>1
  <2>4. pc'[Command] = pc[Command]
    BY <1>3, <1>8, <2>1, Names
  <2>5. pc' = [q \in Proc |-> pc'[q]]
    BY <2>1
  <2>6. \A q \in Proc : pc'[q] \in Labels
    BY <1>3, <1>7, <2>2, <2>3, <2>4, Names DEF Control, Places, Granted, Labels
  <2> QED BY <2>2, <2>3, <2>4, <2>5, <2>6
<1>10. /\ Holding(p) /\ ~Holding(o)
       /\ \/ dollar = Table(0, << >>) /\ pc[o] # "asleep"
          \/ dollar = Table(-1, <<o>>) /\ pc[o] = "asleep"
  <2>1. PICK h \in {Parent, Child} :
          /\ Holding(h) /\ ~Holding(Other(h))
          /\ \/ dollar = Table(0, << >>) /\ pc[Other(h)] # "asleep"
             \/ dollar = Table(-1, <<Other(h)>>) /\ pc[Other(h)] = "asleep"
    BY <1>4 DEF Control, Lock
  <2>2. h = p
    BY <1>3, <1>4, <2>1
  <2>3. Other(h) = o
    BY <1>2, <2>2
  <2> QED BY <1>4, <2>1, <2>3, Zenon
<1>11. ~Holding(p)' /\ pc'[p] # "asleep"
  BY <1>7, <1>9, Names DEF Holding
<1>12. CASE dollar = Table(0, << >>) /\ pc[o] # "asleep"
  <2>1. ~Wakes(dollar, Dollar)
    BY <1>12, TableIs
  <2>2. dollar' = Table(0 + 1, IF 0 + 1 <= 0 /\ << >> # << >> THEN RemoveFirst(<< >>, Head(<< >>)) ELSE << >>)
    BY <1>1, <1>12, UpIs
  <2>3. dollar' = Table(1, << >>)
    BY <2>2
  <2>4. pc'[o] = pc[o]
    BY <1>6, <1>9, <2>1
  <2>5. ~Holding(o)' /\ pc'[o] # "asleep"
    BY <1>10, <1>12, <2>4, <1>3, Names DEF Holding
  <2>6. Lock'
    BY <1>3, <1>11, <2>3, <2>5 DEF Lock
  <2>7. Places'
    BY <1>1, <1>2, <1>3, <1>7, <1>9, <1>10, <2>4, Names DEF Control, Places, Holding
  <2>8. Turns'
    BY <1>1, <1>3, <1>9, <2>4, Names DEF Control, Turns
  <2> QED BY <2>6, <2>7, <2>8 DEF Control
<1>13. CASE dollar = Table(-1, <<o>>) /\ pc[o] = "asleep"
  <2>1. w
    <3>1. <<o>> # << >> /\ Head(<<o>>) = o
      OBVIOUS
    <3>2. Wakes(dollar, Dollar) /\ Woken(dollar, Dollar) = Head(<<o>>)
      BY <1>13, <3>1, TableIs
    <3> QED BY <1>6, <3>1, <3>2
  <2>2. PICK r : r = RemoveFirst(<<o>>, Head(<<o>>))
    OBVIOUS
  <2>3. r = << >>
    BY <2>2, OneLeaves
  <2>4. dollar' = Table(-1 + 1, IF -1 + 1 <= 0 /\ <<o>> # << >> THEN r ELSE <<o>>)
    BY <1>1, <1>13, <2>2, UpIs
  <2>5. -1 + 1 = 0 /\ 0 <= 0 /\ <<o>> # << >>
    OBVIOUS
  <2>6. dollar' = Table(0, << >>)
    BY <2>3, <2>4, <2>5
  <2>7. pc'[o] = Granted(o)
    BY <1>9, <2>1
  <2>8. Holding(o)'
    BY <1>3, <2>7, Names DEF Holding, Granted
  <2>9. Lock'
    BY <1>3, <1>11, <2>6, <2>8 DEF Lock
  <2>10. Places'
    BY <1>1, <1>2, <1>3, <1>7, <1>9, <1>13, <2>7, Names DEF Control, Places, Granted
  <2>11. Turns'
    BY <1>1, <1>3, <1>9, <1>13, <2>7, Names DEF Control, Turns
  <2> QED BY <2>9, <2>10, <2>11 DEF Control
<1> QED BY <1>10, <1>12, <1>13

\* A step after which a process is somewhere else and puts some text.
AtTerminal(p) ==
  IF p = Parent THEN {"prompt", "getc", "line", "send", "post"}
  ELSE {"recv", "fork", "collect", "post", "done"}
LEMMA StepControl ==
  ASSUME Control, NEW p \in {Parent, Child}, NEW l \in Labels, NEW text \in Seq(Int),
         Ready(p, pc[p]), Goto(p, l), Prints(p, text), dollar' = dollar,
         l \in AtTerminal(p) <=> pc[p] \in AtTerminal(p), pc[p] # "asleep",
         p = Parent => l \in {"wait", "prompt", "getc", "line", "send", "post", "join", "done"},
         p = Child => l \in {"wait", "recv", "fork", "post", "done"} /\ pc[Command] = "none",
         text # << >> => (p = Parent /\ l \in {"getc", "line"}) \/ (p = Child /\ l = "post")
  PROVE  Control'
<1>1. p \in Proc
  BY Names
<1>2. pc' \in [Proc -> Labels] /\ pc'[p] = l /\ \A q \in Proc : q # p => pc'[q] = pc[q]
  BY <1>1, GotoIs DEF Control
<1>3. /\ pending' \in [Proc -> Seq(Int)] /\ pending'[p] = text
      /\ \A q \in Proc : q # p => pending'[q] = pending[q]
  BY <1>1, PrintsIs DEF Control
<1>4. Places'
  <2>1. CASE p = Parent
    BY <1>2, <1>3, <2>1, Names DEF Control, Places
  <2>2. CASE p = Child
    BY <1>2, <1>3, <2>2, Names DEF Control, Places
  <2> QED BY <2>1, <2>2
<1>5. Turns'
  <2>1. CASE p = Parent
    BY <1>2, <1>3, <2>1, Names DEF Control, Turns
  <2>2. CASE p = Child
    BY <1>2, <1>3, <2>2, Names DEF Control, Turns
  <2> QED BY <2>1, <2>2
<1>6. l # "asleep"
  OBVIOUS
<1>7. Holding(p)' = Holding(p)
  <2>1. CASE p = Parent
    BY <1>2, <2>1, Names DEF Holding, AtTerminal
  <2>2. CASE p = Child
    BY <1>2, <2>2, Names DEF Holding, AtTerminal
  <2> QED BY <2>1, <2>2
<1>8. Lock'
  BY <1>1, <1>6, <1>7, MoveKeeps DEF Control
<1> QED BY <1>4, <1>5, <1>8 DEF Control

LEMMA Stays ==
  ASSUME Places, NEW p \in Proc, pc' = pc
  PROVE  Goto(p, pc[p]) /\ pc[p] \in Labels
BY DEF Places, Goto

LEMMA Silent ==
  ASSUME Places, NEW p \in Proc, pending' = pending, pending[p] = << >>
  PROVE  Prints(p, << >>)
BY DEF Places, Prints

-----------------------------------------------------------------------------
\* The line that is being edited and the words.
Words == {w \in Seq(Letters) : Len(w) <= MaxLine}
Unsent == IF pc[Parent] = "send" THEN <<buf>> ELSE << >>
Line ==
  /\ str \in Seq(Int) /\ Len(str) = MaxLine + 1
  /\ typed \in Words /\ index = Len(typed)
  /\ \A i \in 1 .. Len(typed) : str[i] = typed[i]
  /\ pc[Parent] \notin {"getc", "line"} => typed = << >>
Posted ==
  /\ queue \in Seq(Words) /\ entered \in Seq(Words) /\ answered \in Seq(Words)
  /\ pc[Parent] \in {"send", "post"} => buf \in Words
  /\ entered = (answered \o queue) \o Unsent
Inv == Control /\ Line /\ Posted

LEMMA Numbers == MaxLine \in Nat /\ SCR_WIDTH \in Nat /\ SCR_HEIGHT \in Nat /\ SCR_WIDTH >= 1 /\ SCR_HEIGHT >= 1
BY LineAssumption, ScreenAssumption

LEMMA LettersAre == \A c \in Letters : c \in Int /\ 33 <= c /\ c <= 126 /\ c # NUL
BY LettersAssumption DEF NUL

LEMMA WordsAre == \A w \in Words : w \in Seq(Letters) /\ w \in Seq(Int) /\ Len(w) \in Nat /\ Len(w) <= MaxLine
<1>1. \A w \in Seq(Letters) : w \in Seq(Int)
  BY LettersAre
<1> QED BY <1>1 DEF Words

LEMMA NoWord == << >> \in Words
BY Numbers DEF Words

\* The line is where the program is.
LEMMA InvKept ==
  ASSUME Line, Posted, UNCHANGED <<str, index, typed, queue, buf, entered, answered>>,
         \/ pc'[Parent] = pc[Parent]
         \/ /\ pc[Parent] \notin {"getc", "line", "send"}
            /\ pc'[Parent] \notin {"getc", "line", "send"}
            /\ pc'[Parent] = "post" => pc[Parent] = "post"
  PROVE  Line' /\ Posted'
<1>1. Line'
  BY DEF Line
<1>2. Unsent' = Unsent
  BY DEF Unsent
<1>3. Posted'
  BY <1>2 DEF Posted
<1> QED BY <1>1, <1>3

LEMMA PutcInv ==
  ASSUME Inv, NEW p \in Proc, Putc(p)
  PROVE  Inv'
<1>1. Control'
  BY PutcControl DEF Inv
<1>2. Line' /\ Posted'
  BY InvKept DEF Inv, Putc, input, history
<1> QED BY <1>1, <1>2 DEF Inv

LEMMA SemWaitInv ==
  ASSUME Inv, NEW p \in {Parent, Child}, SemWait(p)
  PROVE  Inv'
<1>1. Control'
  BY SemWaitControl DEF Inv
<1>2. PICK l : l = IF Blocks(dollar, Dollar) THEN "asleep" ELSE Granted(p)
  OBVIOUS
<1>3. l \in Labels /\ Goto(p, l) /\ (l = "asleep" \/ l = Granted(p)) /\ pc[p] = "wait"
  BY <1>2 DEF Labels, Granted, SemWait, Ready
<1>4. pc'[p] = l /\ \A q \in Proc : q # p => pc'[q] = pc[q]
  BY <1>3, GotoIs, Names DEF Inv, Control
<1>5. UNCHANGED <<str, index, typed, queue, buf, entered, answered>>
  BY DEF SemWait, input, history
<1>6. CASE p = Parent
  BY <1>1, <1>3, <1>4, <1>5, <1>6, InvKept DEF Inv, Granted
<1>7. CASE p = Child
  BY <1>1, <1>4, <1>5, <1>7, InvKept, Names DEF Inv
<1> QED BY <1>6, <1>7

LEMMA SemPostInv ==
  ASSUME Inv, NEW p \in {Parent, Child}, SemPost(p)
  PROVE  Inv'
<1>1. Control'
  BY SemPostControl DEF Inv
<1>2. pc' = [q \in Proc |->
                CASE q = p -> IF p = Parent /\ IsExit(buf) THEN "join" ELSE "wait"
                  [] q # p -> IF Wakes(dollar, Dollar) /\ Woken(dollar, Dollar) = q
                              THEN Granted(q) ELSE pc[q]]
  BY DEF SemPost
<1>3. UNCHANGED <<str, index, typed, queue, buf, entered, answered>> /\ pc[p] = "post" /\ dollar' = Up(dollar, Dollar)
  BY DEF SemPost, Ready, input, history
<1>4. CASE p = Parent
  <2>1. pc'[Parent] \in {"join", "wait"}
    BY <1>2, <1>4, Names, Zenon
  <2> QED BY <1>1, <1>3, <1>4, <2>1, InvKept DEF Inv
<1>5. CASE p = Child
  <2>1. pc'[Parent] = IF Wakes(dollar, Dollar) /\ Woken(dollar, Dollar) = Parent THEN "prompt" ELSE pc[Parent]
    BY <1>2, <1>5, Names DEF Granted
  <2>2. CASE pc'[Parent] = pc[Parent]
    BY <1>1, <1>3, <2>2, InvKept DEF Inv
  <2>3. CASE Wakes(dollar, Dollar) /\ Woken(dollar, Dollar) = Parent
    <3>1. pc[Parent] \notin {"getc", "line", "send"}
      <4>1. Holding(Child)
        BY <1>3, <1>5 DEF Holding
      <4>2. ~Holding(Parent)
        BY <4>1, Names DEF Inv, Control, Lock
      <4> QED BY <4>2 DEF Holding
    <3> QED BY <1>1, <1>3, <2>1, <2>3, <3>1, InvKept DEF Inv
  <2> QED BY <2>1, <2>2, <2>3
<1> QED BY <1>4, <1>5

LEMMA ParentStepControl ==
  ASSUME Control, NEW l \in {"getc", "line", "send", "post"}, NEW text \in Seq(Int),
         Ready(Parent, pc[Parent]), pc[Parent] \in {"prompt", "getc", "line", "send"},
         Goto(Parent, l), Prints(Parent, text), dollar' = dollar,
         text # << >> => l \in {"getc", "line"}
  PROVE  Control' /\ pc'[Parent] = l
<1>1. l \in Labels /\ l \in AtTerminal(Parent) /\ pc[Parent] \in AtTerminal(Parent)
  BY Names DEF Labels, AtTerminal
<1>2. pc'[Parent] = l
  BY <1>1, GotoIs, Names DEF Control
<1>3. Control'
  BY <1>1, StepControl, Names
<1> QED BY <1>2, <1>3

LEMMA PromptInv == Inv /\ Prompt => Inv'
<1> SUFFICES ASSUME Inv, Prompt PROVE Inv'
  OBVIOUS
<1>1. PROMPT \in Seq(Int)
  BY DEF PROMPT
<1>2. /\ pc[Parent] = "prompt" /\ Ready(Parent, pc[Parent]) /\ Prints(Parent, PROMPT) /\ Goto(Parent, "getc")
      /\ dollar' = dollar /\ index' = 0
      /\ UNCHANGED <<queue, str, typed, entered, answered>>
  BY DEF Prompt, Ready
<1>3. Control' /\ pc'[Parent] = "getc"
  BY <1>1, <1>2, ParentStepControl DEF Inv
<1>4. typed = << >> /\ Len(typed) = 0
  BY <1>2 DEF Inv, Line
<1>5. Line'
  BY <1>2, <1>3, <1>4 DEF Inv, Line
<1>6. Unsent' = Unsent
  BY <1>2, <1>3 DEF Unsent
<1>7. Posted'
  BY <1>2, <1>3, <1>6 DEF Inv, Posted
<1> QED BY <1>3, <1>5, <1>7 DEF Inv

LEMMA PressInv ==
  ASSUME Inv, NEW c \in Letters, Press(c)
  PROVE  Inv'
<1>1. <<c>> \in Seq(Int) /\ c \in Int
  BY LettersAre
<1>2. /\ pc[Parent] = "getc" /\ Ready(Parent, pc[Parent]) /\ Prints(Parent, <<c>>) /\ pc' = pc
      /\ dollar' = dollar /\ index' = index + 1 /\ str' = [str EXCEPT ![index + 1] = c]
      /\ Len(typed) < MaxLine /\ typed' = Append(typed, c)
      /\ UNCHANGED <<queue, buf, entered, answered>>
  BY DEF Press, Pressed, Ready
<1>3. Control' /\ pc'[Parent] = "getc"
  BY <1>1, <1>2, Stays, ParentStepControl, Names DEF Inv, Control
<1>4. PICK n \in Nat : n = Len(typed)
  BY WordsAre DEF Inv, Line
<1>5. typed \in Seq(Letters) /\ index = n /\ n < MaxLine /\ Len(str) = MaxLine + 1 /\ str \in Seq(Int)
  BY <1>2, <1>4, WordsAre DEF Inv, Line
<1>6. typed' \in Seq(Letters) /\ Len(typed') = n + 1 /\ typed'[n + 1] = c /\ \A i \in 1 .. n : typed'[i] = typed[i]
  BY <1>2, <1>4, <1>5
<1>7. typed' \in Words
  BY <1>4, <1>5, <1>6, Numbers DEF Words
<1>8. str' \in Seq(Int) /\ Len(str') = MaxLine + 1 /\ str'[n + 1] = c /\ \A i \in 1 .. n : str'[i] = str[i]
  BY <1>1, <1>2, <1>4, <1>5, Numbers
<1>9. \A i \in 1 .. Len(typed') : str'[i] = typed'[i]
  BY <1>4, <1>6, <1>8 DEF Inv, Line
<1>10. Line'
  BY <1>2, <1>3, <1>5, <1>6, <1>7, <1>8, <1>9 DEF Line
<1>11. Unsent' = Unsent
  BY <1>2 DEF Unsent
<1>12. Posted'
  BY <1>2, <1>11 DEF Inv, Posted
<1> QED BY <1>3, <1>10, <1>12 DEF Inv

LEMMA BackspaceInv == Inv /\ Backspace => Inv'
<1> SUFFICES ASSUME Inv, Backspace PROVE Inv'
  OBVIOUS
<1>1. /\ pc[Parent] = "getc" /\ Ready(Parent, pc[Parent]) /\ pc' = pc /\ dollar' = dollar
      /\ typed' = SubSeq(typed, 1, Len(typed) - 1) /\ pending[Parent] = << >>
      /\ UNCHANGED <<queue, buf, entered, answered>>
  BY DEF Backspace, Pressed, Ready
<1>2. Unsent' = Unsent
  BY <1>1 DEF Unsent
<1>3. Posted'
  BY <1>1, <1>2 DEF Inv, Posted
<1>4. PICK n \in Nat : n = Len(typed)
  BY WordsAre DEF Inv, Line
<1>5. typed \in Seq(Letters) /\ index = n /\ n <= MaxLine /\ Len(str) = MaxLine + 1 /\ str \in Seq(Int)
  BY <1>4, WordsAre DEF Inv, Line
<1>6. CASE index > 0
  <2>1. /\ Prints(Parent, <<BS, SPACE, BS>>)
        /\ str' = [str EXCEPT ![index + 1] = NUL] /\ index' = index - 1
    BY <1>6 DEF Backspace
  <2>2. <<BS, SPACE, BS>> \in Seq(Int)
    BY DEF BS, SPACE
  <2>3. Control' /\ pc'[Parent] = "getc"
    BY <1>1, <2>1, <2>2, Stays, ParentStepControl, Names DEF Inv, Control
  <2>4. typed' \in Seq(Letters) /\ Len(typed') = n - 1 /\ \A i \in 1 .. n - 1 : typed'[i] = typed[i]
    BY <1>1, <1>4, <1>5, <1>6
  <2>5. typed' \in Words
    BY <1>5, <2>4, Numbers DEF Words
  <2>6. NUL \in Int
    BY DEF NUL
  <2>7. str' \in Seq(Int) /\ Len(str') = MaxLine + 1 /\ \A i \in 1 .. n - 1 : str'[i] = str[i]
    BY <1>4, <1>5, <2>1, <2>6, Numbers
  <2>8. \A i \in 1 .. Len(typed') : str'[i] = typed'[i]
    <3>1. \A i \in 1 .. n : str[i] = typed[i]
      BY <1>4 DEF Inv, Line
    <3>2. 1 .. Len(typed') = 1 .. n - 1 /\ \A i \in 1 .. n - 1 : i \in 1 .. n
      BY <2>4
    <3> QED BY <2>4, <2>7, <3>1, <3>2
  <2>9. Line'
    BY <1>5, <2>1, <2>3, <2>4, <2>5, <2>7, <2>8 DEF Line
  <2> QED BY <1>3, <2>3, <2>9 DEF Inv
<1>7. CASE ~(index > 0)
  <2>1. UNCHANGED <<pending, str, index>>
    BY <1>7 DEF Backspace
  <2>2. << >> \in Seq(Int)
    OBVIOUS
  <2>3. Prints(Parent, << >>)
    BY <1>1, <2>1, Silent, Names DEF Inv, Control
  <2>4. Control' /\ pc'[Parent] = "getc"
    BY <1>1, <2>2, <2>3, Stays, ParentStepControl, Names DEF Inv, Control
  <2>5. n = 0
    BY <1>5, <1>7
  <2>6. typed = << >>
    BY <1>4, <1>5, <2>5, EmptySeq
  <2>7. typed' = << >>
    BY <1>1, <2>6
  <2>8. Line'
    BY <1>1, <2>1, <2>6, <2>7 DEF Inv, Line
  <2> QED BY <1>3, <2>4, <2>8 DEF Inv
<1> QED BY <1>6, <1>7

LEMMA NewlineInv == Inv /\ Newline => Inv'
<1> SUFFICES ASSUME Inv, Newline PROVE Inv'
  OBVIOUS
<1>1. <<LF>> \in Seq(Int)
  BY DEF LF
<1>2. /\ pc[Parent] = "getc" /\ Ready(Parent, pc[Parent]) /\ Prints(Parent, <<LF>>) /\ Goto(Parent, "line")
      /\ dollar' = dollar
      /\ UNCHANGED <<queue, str, index, typed, buf, entered, answered>>
  BY DEF Newline, Pressed, Ready
<1>3. Control' /\ pc'[Parent] = "line"
  BY <1>1, <1>2, ParentStepControl DEF Inv
<1>4. Line'
  BY <1>2, <1>3 DEF Inv, Line
<1>5. Unsent' = Unsent
  BY <1>2, <1>3 DEF Unsent
<1>6. Posted'
  BY <1>2, <1>3, <1>5 DEF Inv, Posted
<1> QED BY <1>3, <1>4, <1>6 DEF Inv

\* The line as the end of getStr leaves it: empty exactly when nothing is typed,
\* and else the word.
Ended(string) == string = [str EXCEPT ![index + 1] = NUL]
LEMMA LineEnds ==
  ASSUME Line, NEW string, Ended(string)
  PROVE  /\ string \in Seq(Int) /\ Len(string) = MaxLine + 1
         /\ \A i \in 1 .. Len(typed) : string[i] = typed[i]
         /\ At(string, 0) = NUL <=> typed = << >>
         /\ CString(string, 0) = typed
<1>1. PICK n \in Nat : n = Len(typed)
  BY WordsAre DEF Line
<1>2. PICK m \in Nat : m = MaxLine
  BY Numbers
<1>3. typed \in Seq(Letters) /\ index = n /\ n <= m /\ Len(str) = m + 1 /\ str \in Seq(Int)
  BY <1>1, <1>2, WordsAre DEF Line
<1>4. \A i \in 1 .. n : str[i] = typed[i]
  BY <1>1 DEF Line
<1>5. NUL \in Int
  BY DEF NUL
<1>6. string \in Seq(Int) /\ Len(string) = m + 1 /\ string[n + 1] = NUL /\ \A i \in 1 .. n : string[i] = str[i]
  BY <1>2, <1>3, <1>5 DEF Ended
<1>7. \A i \in 1 .. n : string[i] = typed[i] /\ string[i] # NUL
  <2>1. \A i \in 1 .. n : typed[i] \in Letters
    BY <1>1, <1>3
  <2> QED BY <1>4, <1>6, <2>1, LettersAre
<1>8. \A j \in 0 .. n - 1 : At(string, j) # NUL
  <2>1. \A j \in 0 .. n - 1 : At(string, j) = string[j + 1] /\ j + 1 \in 1 .. n
    <3>1. \A j \in 0 .. n - 1 : j < Len(string) /\ j + 1 \in 1 .. n
      <4>1. PICK l \in Nat : l = Len(string) /\ n < l
        BY <1>3, <1>6
      <4>2. \A j \in 0 .. n - 1 : j < l /\ j + 1 \in 1 .. n
        BY <4>1
      <4> QED BY <4>1, <4>2
    <3> QED BY <3>1 DEF At
  <2> QED BY <1>7, <2>1
<1>9. At(string, n) = NUL
  <2>1. n < Len(string)
    BY <1>3, <1>6
  <2> QED BY <1>6, <2>1 DEF At
<1>10. At(string, 0) = NUL <=> typed = << >>
  <2>1. CASE n = 0
    BY <1>1, <1>3, <1>9, <2>1, EmptySeq
  <2>2. CASE n # 0
    <3>1. typed # << >>
      BY <1>1, <2>2
    <3> QED BY <1>8, <2>2, <3>1
  <2> QED BY <2>1, <2>2
<1>11. CString(string, 0) = typed
  <2>1. PICK S : S = {j \in 0 .. Len(string) : At(string, j) = NUL}
    OBVIOUS
  <2>2. n \in S /\ \A j \in S : n <= j /\ j \in Int
    BY <1>3, <1>6, <1>8, <1>9, <2>1
  <2>3. Min(S) = n
    <3>1. PICK j : j = Min(S)
      OBVIOUS
    <3>2. j \in S /\ \A y \in S : j <= y
      <4>1. \E x \in S : \A y \in S : x <= y
        BY <2>2
      <4> QED BY <3>1, <4>1 DEF Min
    <3>3. j \in Int /\ n <= j /\ j <= n
      BY <2>2, <3>2
    <3> QED BY <3>1, <3>3
  <2>4. CString(string, 0) = SubSeq(string, 0 + 1, Min(S))
    BY <2>1 DEF CString
  <2>5. CString(string, 0) = SubSeq(string, 1, n)
    BY <2>3, <2>4
  <2>6. PICK w : w = SubSeq(string, 1, n)
    OBVIOUS
  <2>7. w \in Seq(Int) /\ Len(w) = n /\ \A i \in 1 .. n : w[i] = string[i]
    BY <1>3, <1>6, <2>6
  <2>8. typed \in Seq(Int)
    BY WordsAre DEF Line
  <2>9. \A i \in 1 .. n : w[i] = typed[i]
    BY <1>7, <2>7
  <2>10. w = typed
    BY <1>1, <2>7, <2>8, <2>9, SeqEqual
  <2> QED BY <2>5, <2>6, <2>10
<1> QED BY <1>1, <1>2, <1>6, <1>7, <1>10, <1>11

\* What was entered is still in order when a word moves on.
Joined(e, a, q, x) == e = (a \o q) \o x
Entered(S, e, a, q, w) ==
  /\ Append(e, w) \in Seq(S)
  /\ Joined(Append(e, w), a, q, <<w>>) /\ Joined(Append(e, w), a, Append(q, w), << >>)
LEMMA Enters ==
  ASSUME NEW S, NEW e, NEW a \in Seq(S), NEW q \in Seq(S), NEW w \in S, Joined(e, a, q, << >>)
  PROVE  Entered(S, e, a, q, w)
<1>1. PICK x : x = a \o q
  OBVIOUS
<1>2. x \in Seq(S)
  BY <1>1, ConcatProperties
<1>3. e = x
  BY <1>1, <1>2, ConcatEmptySeq DEF Joined
<1>4. Append(e, w) = x \o <<w>>
  BY <1>2, <1>3, AppendIsConcat
<1>5. <<w>> \in Seq(S)
  OBVIOUS
<1>6. a \o (q \o <<w>>) = x \o <<w>>
  BY <1>1, <1>5, ConcatAssociative
<1>7. Append(q, w) = q \o <<w>>
  BY AppendIsConcat
<1>8. Append(e, w) \in Seq(S)
  BY <1>2, <1>3
<1>9. (a \o Append(q, w)) \o << >> = Append(e, w)
  <2>1. a \o Append(q, w) = Append(e, w)
    BY <1>4, <1>6, <1>7
  <2> QED BY <1>8, <2>1, ConcatEmptySeq
<1> QED BY <1>1, <1>4, <1>8, <1>9 DEF Entered, Joined

LEMMA Received ==
  ASSUME NEW S, NEW a \in Seq(S), NEW q \in Seq(S), q # << >>
  PROVE  /\ Append(a, Head(q)) \o Tail(q) = a \o q
         /\ Append(a, Head(q)) \in Seq(S) /\ Tail(q) \in Seq(S) /\ Head(q) \in S
<1>1. PICK h, t : h = Head(q) /\ t = Tail(q)
  OBVIOUS
<1>2. h \in S /\ t \in Seq(S)
  BY <1>1
<1>3. <<h>> \in Seq(S)
  BY <1>2
<1>4. q = <<h>> \o t
  <2>1. PICK v : v = <<h>> \o t
    OBVIOUS
  <2>2. v \in Seq(S) /\ Len(v) = Len(<<h>>) + Len(t)
        /\ \A i \in 1 .. Len(<<h>>) + Len(t) : v[i] = IF i <= Len(<<h>>) THEN <<h>>[i] ELSE t[i - Len(<<h>>)]
    BY <1>2, <1>3, <2>1, ConcatProperties
  <2>3. Len(<<h>>) = 1 /\ <<h>>[1] = h
    OBVIOUS
  <2>4. PICK n \in Nat : n = Len(q)
    OBVIOUS
  <2>5. n >= 1 /\ Len(t) = n - 1 /\ q[1] = h /\ \A i \in 1 .. n - 1 : t[i] = q[i + 1]
    BY <1>1, <2>4
  <2>6. Len(v) = n /\ \A i \in 1 .. n : v[i] = q[i]
    <3>1. Len(v) = n
      BY <2>2, <2>3, <2>5
    <3>2. v[1] = q[1]
      BY <2>2, <2>3, <2>5
    <3>3. ASSUME NEW i \in 1 .. n, i # 1 PROVE v[i] = q[i]
      <4>1. PICK k \in 1 .. n - 1 : i = k + 1
        BY <2>4, <2>5, <3>3
      <4>2. v[i] = t[k]
        BY <2>2, <2>3, <2>5, <4>1
      <4> QED BY <2>5, <4>1, <4>2
    <3> QED BY <3>1, <3>2, <3>3
  <2> QED BY <2>1, <2>2, <2>4, <2>6, SeqEqual
<1>5. Append(a, h) = a \o <<h>>
  BY <1>2, AppendIsConcat
<1>6. (a \o <<h>>) \o t = a \o (<<h>> \o t)
  BY <1>2, <1>3, ConcatAssociative
<1>7. Append(a, h) \o t = a \o q
  BY <1>4, <1>5, <1>6
<1>8. Append(a, h) \in Seq(S)
  BY <1>2
<1> QED BY <1>1, <1>2, <1>7, <1>8

LEMMA EndLineInv == Inv /\ EndLine => Inv'
<1> SUFFICES ASSUME Inv, EndLine PROVE Inv'
  OBVIOUS
<1>1. PICK string : Ended(string)
  BY DEF Ended
<1>2. Scanned(string)
  BY <1>1 DEF EndLine, Ended
<1>3. /\ string \in Seq(Int) /\ Len(string) = MaxLine + 1
      /\ At(string, 0) = NUL <=> typed = << >>
      /\ CString(string, 0) = typed
  BY <1>1, LineEnds DEF Inv
<1>4. /\ pc[Parent] = "line" /\ Ready(Parent, pc[Parent]) /\ pending[Parent] = << >>
      /\ str' = string /\ index' = 0 /\ typed' = << >>
      /\ UNCHANGED <<pending, dollar, queue, answered>>
  BY <1>2 DEF Scanned, Ready
<1>5. << >> \in Seq(Int) /\ Prints(Parent, << >>)
  BY <1>4, Silent, Names DEF Inv, Control
<1>6. Line'
  BY <1>3, <1>4, NoWord DEF Line
<1>7. CASE At(string, 0) = NUL
  <2>1. Goto(Parent, "getc") /\ UNCHANGED <<buf, entered>>
    BY <1>2, <1>7 DEF Scanned
  <2>2. Control' /\ pc'[Parent] = "getc"
    BY <1>4, <1>5, <2>1, ParentStepControl DEF Inv
  <2>3. Unsent' = Unsent
    BY <1>4, <2>1, <2>2 DEF Unsent
  <2>4. Posted'
    BY <1>4, <2>1, <2>2, <2>3 DEF Inv, Posted
  <2> QED BY <1>6, <2>2, <2>4 DEF Inv
<1>8. CASE At(string, 0) # NUL
  <2>1. Goto(Parent, "send") /\ buf' = typed /\ entered' = Append(entered, typed)
    BY <1>2, <1>3, <1>8 DEF Scanned
  <2>2. Control' /\ pc'[Parent] = "send"
    BY <1>4, <1>5, <2>1, ParentStepControl DEF Inv
  <2>3. Unsent = << >> /\ Unsent' = <<typed>>
    BY <1>4, <2>1, <2>2 DEF Unsent
  <2>4. /\ typed \in Words /\ queue \in Seq(Words) /\ answered \in Seq(Words)
        /\ entered = (answered \o queue) \o << >>
    BY <2>3 DEF Inv, Line, Posted
  <2>5. entered' \in Seq(Words) /\ entered' = (answered \o queue) \o <<typed>>
    <3>1. Joined(entered, answered, queue, << >>)
      BY <2>4 DEF Joined
    <3>2. Entered(Words, entered, answered, queue, typed)
      BY <2>4, <3>1, Enters
    <3> QED BY <2>1, <3>2 DEF Entered, Joined
  <2>6. Posted'
    BY <1>4, <2>1, <2>2, <2>3, <2>4, <2>5 DEF Posted
  <2> QED BY <1>6, <2>2, <2>6 DEF Inv
<1> QED BY <1>7, <1>8

LEMMA SendInv == Inv /\ Send => Inv'
<1> SUFFICES ASSUME Inv, Send PROVE Inv'
  OBVIOUS
<1>1. /\ pc[Parent] = "send" /\ Ready(Parent, pc[Parent]) /\ pending[Parent] = << >>
      /\ queue' = Append(queue, buf) /\ Goto(Parent, "post")
      /\ UNCHANGED <<pending, dollar, str, index, buf, typed, entered, answered>>
  BY DEF Send, Ready, input, history
<1>2. << >> \in Seq(Int) /\ Prints(Parent, << >>)
  BY <1>1, Silent, Names DEF Inv, Control
<1>3. Control' /\ pc'[Parent] = "post"
  BY <1>1, <1>2, ParentStepControl DEF Inv
<1>4. Line'
  BY <1>1, <1>3 DEF Inv, Line
<1>5. Unsent = <<buf>> /\ Unsent' = << >>
  BY <1>1, <1>3 DEF Unsent
<1>6. /\ buf \in Words /\ queue \in Seq(Words) /\ answered \in Seq(Words) /\ entered \in Seq(Words)
      /\ entered = (answered \o queue) \o <<buf>>
  BY <1>1, <1>5 DEF Inv, Posted
<1>7. entered = (answered \o Append(queue, buf)) \o << >>
  <2>1. PICK e : Joined(e, answered, queue, << >>)
    BY DEF Joined
  <2>2. Entered(Words, e, answered, queue, buf)
    BY <1>6, <2>1, Enters
  <2> QED BY <1>6, <2>2 DEF Entered, Joined
<1>8. PICK q \in Seq(Words) : q = Append(queue, buf)
  <2>1. buf \in Words /\ queue \in Seq(Words)
    BY <1>6
  <2>2. Append(queue, buf) \in Seq(Words)
    BY <2>1
  <2> QED BY <2>2
<1>9. queue' = q /\ entered = (answered \o q) \o << >>
  <2>1. queue' = q
    BY <1>1, <1>8
  <2> QED BY <1>7, <1>8, <2>1
<1>10. Posted'
  BY <1>1, <1>3, <1>5, <1>6, <1>9 DEF Posted
<1> QED BY <1>3, <1>4, <1>10 DEF Inv

LEMMA JoinInv == Inv /\ Join => Inv'
<1> SUFFICES ASSUME Inv, Join PROVE Inv'
  OBVIOUS
<1>1. /\ pc[Parent] = "join" /\ Ready(Parent, pc[Parent]) /\ pending[Parent] = << >> /\ Goto(Parent, "done")
      /\ UNCHANGED <<pending, dollar, str, index, queue, buf, typed, entered, answered>>
  BY DEF Join, Ready, input, history
<1>2. << >> \in Seq(Int) /\ Prints(Parent, << >>)
  BY <1>1, Silent, Names DEF Inv, Control
<1>3. "done" \in Labels /\ ~("done" \in AtTerminal(Parent)) /\ ~(pc[Parent] \in AtTerminal(Parent))
  BY <1>1 DEF Labels, AtTerminal
<1>4. pc'[Parent] = "done"
  BY <1>1, <1>3, GotoIs, Names DEF Inv, Control
<1>5. Control'
  BY <1>1, <1>2, <1>3, StepControl, Names DEF Inv
<1>6. Line' /\ Posted'
  BY <1>1, <1>4, InvKept DEF Inv
<1> QED BY <1>5, <1>6 DEF Inv

LEMMA ChildStepControl ==
  ASSUME Control, NEW l \in {"fork", "post", "done"}, NEW text \in Seq(Int),
         Ready(Child, "recv"), Goto(Child, l), Prints(Child, text), dollar' = dollar,
         text # << >> => l = "post"
  PROVE  Control' /\ pc'[Parent] = pc[Parent]
<1>1. pc[Child] = "recv" /\ Ready(Child, pc[Child])
  BY DEF Ready
<1>2. l \in Labels /\ l \in AtTerminal(Child) /\ pc[Child] \in AtTerminal(Child)
  BY <1>1, Names DEF Labels, AtTerminal
<1>3. pc[Command] = "none"
  BY <1>1 DEF Control, Places
<1>4. pc'[Parent] = pc[Parent]
  BY <1>2, GotoIs, Names DEF Control
<1>5. Control'
  BY <1>1, <1>2, <1>3, StepControl, Names
<1> QED BY <1>4, <1>5

LEMMA RecvNothingInv == Inv /\ RecvNothing => Inv'
<1> SUFFICES ASSUME Inv, RecvNothing PROVE Inv'
  OBVIOUS
<1>1. /\ Ready(Child, "recv") /\ pending[Child] = << >> /\ Goto(Child, "post")
      /\ UNCHANGED <<pending, dollar, str, index, queue, buf, typed, entered, answered>>
  BY DEF RecvNothing, Ready, input, history
<1>2. << >> \in Seq(Int) /\ Prints(Child, << >>)
  BY <1>1, Silent, Names DEF Inv, Control
<1>3. Control' /\ pc'[Parent] = pc[Parent]
  BY <1>1, <1>2, ChildStepControl DEF Inv
<1>4. Line' /\ Posted'
  BY <1>1, <1>3, InvKept DEF Inv
<1> QED BY <1>3, <1>4 DEF Inv

LEMMA RecvInv == Inv /\ Recv => Inv'
<1> SUFFICES ASSUME Inv, Recv PROVE Inv'
  OBVIOUS
<1>1. /\ Ready(Child, "recv") /\ pending[Child] = << >> /\ queue # << >>
      /\ queue' = Tail(queue) /\ answered' = Append(answered, Head(queue))
      /\ UNCHANGED <<dollar, str, index, buf, typed, entered>>
  BY DEF Recv, Ready, input
<1>2. queue \in Seq(Words) /\ answered \in Seq(Words)
  BY DEF Inv, Posted
<1>3. PICK h \in Words : h = Head(queue)
  BY <1>1, <1>2
<1>4. Append(h, LF) \in Seq(Int)
  BY WordsAre DEF LF
<1>5. PICK l \in {"fork", "post", "done"}, text \in Seq(Int) :
        Goto(Child, l) /\ Prints(Child, text) /\ (text # << >> => l = "post")
  <2>1. << >> \in Seq(Int)
    OBVIOUS
  <2>2. pending' = pending => Prints(Child, << >>)
    BY <1>1, Silent, Names DEF Inv, Control
  <2>3. \/ Goto(Child, "done") /\ pending' = pending
        \/ Goto(Child, "fork") /\ pending' = pending
        \/ Goto(Child, "post") /\ Prints(Child, Append(h, LF))
    BY <1>3 DEF Recv, PrintsLine
  <2> QED BY <1>4, <2>1, <2>2, <2>3
<1>6. Control' /\ pc'[Parent] = pc[Parent]
  BY <1>1, <1>5, ChildStepControl DEF Inv
<1>7. Line'
  BY <1>1, <1>6 DEF Inv, Line
<1>8. Unsent' = Unsent
  BY <1>1, <1>6 DEF Unsent
<1>9. answered' \o queue' = answered \o queue /\ answered' \in Seq(Words) /\ queue' \in Seq(Words)
  <2>1. PICK a, q : a = answered /\ q = queue
    OBVIOUS
  <2>2. a \in Seq(Words) /\ q \in Seq(Words) /\ q # << >>
    BY <1>1, <1>2, <2>1
  <2>3. /\ Append(a, Head(q)) \o Tail(q) = a \o q
        /\ Append(a, Head(q)) \in Seq(Words) /\ Tail(q) \in Seq(Words)
    BY <2>2, Received
  <2> QED BY <1>1, <2>1, <2>3
<1>10. Posted'
  BY <1>1, <1>6, <1>8, <1>9 DEF Inv, Posted
<1> QED BY <1>6, <1>7, <1>10 DEF Inv

\* A command comes and goes while the child waits for it.
LEMMA ForkInv == Inv /\ Fork => Inv'
<1> SUFFICES ASSUME Inv, Fork PROVE Inv'
  OBVIOUS
<1>1. /\ pc[Child] = "fork" /\ pending[Child] = << >> /\ pc[Command] = "none" /\ pending[Command] = << >>
      /\ UNCHANGED <<dollar, str, index, queue, buf, typed, entered, answered>>
  BY DEF Fork, Ready, input, Inv, Control, Places, Turns
<1>2. CASE /\ pc' = [pc EXCEPT ![Child] = "collect", ![Command] = "exit"]
           /\ PrintsLine(Command, Output)
  <2>1. pc' \in [Proc -> Labels] /\ pc'[Child] = "collect" /\ pc'[Command] = "exit" /\ pc'[Parent] = pc[Parent]
    BY <1>2, Names DEF Inv, Control, Places, Labels
  <2>2. Append(Output, LF) \in Seq(Int)
    BY DEF Output, LF
  <2>3. /\ pending' \in [Proc -> Seq(Int)] /\ \A q \in Proc : q # Command => pending'[q] = pending[q]
    BY <1>2, <2>2, PrintsIs, Names DEF Inv, Control, PrintsLine
  <2>4. Places'
    BY <2>1, <2>3 DEF Inv, Control, Places
  <2>5. Turns'
    BY <1>1, <2>1, <2>3, Names DEF Inv, Control, Turns
  <2>6. /\ \A p \in {Parent, Child} : Holding(p)' = Holding(p)
        /\ \A p \in {Parent, Child} : (pc[p] = "asleep")' = (pc[p] = "asleep")
    BY <1>1, <2>1, Names DEF Holding
  <2>7. Lock'
    BY <1>1, <2>6, LockKept DEF Inv, Control
  <2>8. Line' /\ Posted'
    BY <1>1, <2>1, InvKept DEF Inv
  <2> QED BY <2>4, <2>5, <2>7, <2>8 DEF Inv, Control
<1>3. CASE Goto(Child, "post") /\ UNCHANGED <<pending, log>>
  <2>1. /\ "post" \in Labels
        /\ pc' \in [Proc -> Labels] /\ pc'[Child] = "post" /\ \A q \in Proc : q # Child => pc'[q] = pc[q]
    <3>1. "post" \in Labels
      BY DEF Labels
    <3> QED BY <1>3, <3>1, GotoIs, Names DEF Inv, Control
  <2>2. Places'
    BY <1>1, <1>3, <2>1, Names DEF Inv, Control, Places
  <2>3. Turns'
    BY <1>1, <1>3, <2>1, Names DEF Inv, Control, Turns
  <2>4. /\ \A p \in {Parent, Child} : Holding(p)' = Holding(p)
        /\ \A p \in {Parent, Child} : (pc[p] = "asleep")' = (pc[p] = "asleep")
    BY <1>1, <2>1, Names DEF Holding
  <2>5. Lock'
    BY <1>1, <2>4, LockKept DEF Inv, Control
  <2>6. Line' /\ Posted'
    BY <1>1, <2>1, InvKept, Names DEF Inv
  <2> QED BY <2>2, <2>3, <2>5, <2>6 DEF Inv, Control
<1> QED BY <1>2, <1>3 DEF Fork

LEMMA ExitInv == Inv /\ Exit => Inv'
<1> SUFFICES ASSUME Inv, Exit PROVE Inv'
  OBVIOUS
<1>1. /\ pc[Command] = "exit" /\ pending[Command] = << >> /\ Goto(Command, "zombie")
      /\ UNCHANGED <<pending, dollar, str, index, queue, buf, typed, entered, answered>>
  BY DEF Exit, Ready, input, history
<1>2. /\ pc' \in [Proc -> Labels] /\ pc'[Command] = "zombie" /\ \A q \in Proc : q # Command => pc'[q] = pc[q]
  <2>1. "zombie" \in Labels
    BY DEF Labels
  <2> QED BY <1>1, <2>1, GotoIs, Names DEF Inv, Control
<1>3. Places'
  BY <1>1, <1>2, Names DEF Inv, Control, Places
<1>4. Turns'
  BY <1>1, <1>2, Names DEF Inv, Control, Turns
<1>5. /\ \A p \in {Parent, Child} : Holding(p)' = Holding(p)
      /\ \A p \in {Parent, Child} : (pc[p] = "asleep")' = (pc[p] = "asleep")
  BY <1>2, Names DEF Holding
<1>6. Lock'
  BY <1>1, <1>5, LockKept DEF Inv, Control
<1>7. Line' /\ Posted'
  BY <1>1, <1>2, InvKept, Names DEF Inv
<1> QED BY <1>3, <1>4, <1>6, <1>7 DEF Inv, Control

LEMMA CollectInv == Inv /\ Collect => Inv'
<1> SUFFICES ASSUME Inv, Collect PROVE Inv'
  OBVIOUS
<1>1. /\ pc[Child] = "collect" /\ pc[Command] = "zombie" /\ pending[Child] = << >>
      /\ pc' = [pc EXCEPT ![Child] = "post", ![Command] = "none"]
      /\ UNCHANGED <<pending, dollar, str, index, queue, buf, typed, entered, answered>>
  BY DEF Collect, Ready, input, history
<1>2. pc' \in [Proc -> Labels] /\ pc'[Child] = "post" /\ pc'[Command] = "none" /\ pc'[Parent] = pc[Parent]
  BY <1>1, Names DEF Inv, Control, Places, Labels
<1>3. Places'
  BY <1>1, <1>2 DEF Inv, Control, Places
<1>4. Turns'
  BY <1>1, <1>2 DEF Inv, Control, Turns
<1>5. /\ \A p \in {Parent, Child} : Holding(p)' = Holding(p)
      /\ \A p \in {Parent, Child} : (pc[p] = "asleep")' = (pc[p] = "asleep")
  BY <1>1, <1>2, Names DEF Holding
<1>6. Lock'
  BY <1>1, <1>5, LockKept DEF Inv, Control
<1>7. Line' /\ Posted'
  BY <1>1, <1>2, InvKept DEF Inv
<1> QED BY <1>3, <1>4, <1>6, <1>7 DEF Inv, Control

LEMMA InvInit == Init => Inv
<1> SUFFICES ASSUME Init PROVE Inv
  OBVIOUS
<1>1. Control
  BY ControlInit
<1>2. pc[Parent] = "wait"
  BY Names DEF Init
<1>3. /\ str = [i \in 1 .. MaxLine + 1 |-> NUL] /\ index = 0
      /\ typed = << >> /\ queue = << >> /\ entered = << >> /\ answered = << >>
  BY DEF Init
<1>4. Line
  <2>1. str \in Seq(Int) /\ Len(str) = MaxLine + 1
    BY <1>3, Numbers DEF NUL
  <2>2. Len(typed) = 0
    BY <1>3
  <2>3. typed \in Words /\ index = Len(typed) /\ \A i \in 1 .. Len(typed) : str[i] = typed[i]
    <3>1. 1 .. Len(typed) = {}
      BY <2>2
    <3> QED BY <1>3, <2>2, <3>1, NoWord
  <2> QED BY <1>3, <2>1, <2>3 DEF Line
<1>5. Posted
  <2>1. << >> \in Seq(Words) /\ Unsent = << >>
    BY <1>2 DEF Unsent
  <2>2. (<< >> \o << >>) \o << >> = << >>
    <3>1. << >> \in Seq(Int)
      OBVIOUS
    <3>2. << >> \o << >> = << >>
      BY <3>1, ConcatEmptySeq
    <3> QED BY <3>2
  <2> QED BY <1>2, <1>3, <2>1, <2>2 DEF Posted
<1> QED BY <1>1, <1>4, <1>5 DEF Inv

LEMMA InvNext == Inv /\ [Next]_vars => Inv'
<1> SUFFICES ASSUME Inv, [Next]_vars PROVE Inv'
  OBVIOUS
<1>1. CASE \E p \in Proc : Putc(p)
  BY <1>1, PutcInv
<1>2. CASE \E p \in {Parent, Child} : SemWait(p)
  BY <1>2, SemWaitInv
<1>3. CASE \E p \in {Parent, Child} : SemPost(p)
  BY <1>3, SemPostInv
<1>4. CASE Prompt
  BY <1>4, PromptInv
<1>5. CASE EndLine
  BY <1>5, EndLineInv
<1>6. CASE Send
  BY <1>6, SendInv
<1>7. CASE Join
  BY <1>7, JoinInv
<1>8. CASE RecvNothing
  BY <1>8, RecvNothingInv
<1>9. CASE Recv
  BY <1>9, RecvInv
<1>10. CASE Fork
  BY <1>10, ForkInv
<1>11. CASE Collect
  BY <1>11, CollectInv
<1>12. CASE Exit
  BY <1>12, ExitInv
<1>13. CASE Backspace
  BY <1>13, BackspaceInv
<1>14. CASE Newline
  BY <1>14, NewlineInv
<1>15. CASE \E c \in Letters : Press(c)
  BY <1>15, PressInv
<1>16. CASE UNCHANGED vars
  <2>1. /\ pc' = pc /\ pending' = pending /\ dollar' = dollar
        /\ UNCHANGED <<str, index, typed, queue, buf, entered, answered>>
    BY <1>16 DEF vars, input, history
  <2>2. Lock'
    BY <2>1, StayKeeps DEF Inv, Control
  <2>3. Places' /\ Turns'
    BY <2>1 DEF Inv, Control, Places, Turns
  <2>4. Line' /\ Posted'
    BY <2>1, InvKept DEF Inv
  <2> QED BY <2>2, <2>3, <2>4 DEF Inv, Control
<1> QED
  BY <1>1, <1>2, <1>3, <1>4, <1>5, <1>6, <1>7, <1>8, <1>9, <1>10, <1>11, <1>12, <1>13, <1>14,
     <1>15, <1>16, Names
  DEF Next, ParentStep, ChildStep, CommandStep, User, Terminal

\* The inductive invariant of the shell, without the screen: what the semaphore
\* does for the two programs, the line that is being edited and the words.
THEOREM AlwaysInv == Spec => []Inv
<1>1. Init => Inv
  BY InvInit
<1>2. Inv /\ [Next]_vars => Inv'
  BY InvNext
<1> QED BY <1>1, <1>2, PTL DEF Spec

\* The words arrive in the order in which they were entered, each of them once,
\* as the user had edited it: getStr, scanf, the socket and the child.
THEOREM AlwaysArrive == Spec => []WordsArrive
<1>1. Inv => WordsArrive
  BY DEF Inv, Posted, Unsent, WordsArrive
<1> QED BY <1>1, AlwaysInv, PTL

-----------------------------------------------------------------------------
\* The screen: what put does to a cursor that does not reach the right edge.
Screen(r, c, m) == [row |-> r, col |-> c, cell |-> m]
ScreenFields == {"row", "col", "cell"}
LEMMA ScreenIs ==
  ASSUME NEW D, D = [f \in ScreenFields |-> D[f]]
  PROVE  D = Screen(D.row, D.col, D.cell)
BY DEF ScreenFields, Screen

LEMMA MoveTo ==
  ASSUME NEW r, NEW c, NEW m, NEW x, NEW scr, scr = Screen(r, c, m)
  PROVE  [scr EXCEPT !.col = x] = Screen(r, x, m)
<1>1. PICK D : D = [scr EXCEPT !.col = x]
  OBVIOUS
<1>2. D = [f \in ScreenFields |-> D[f]] /\ D.row = r /\ D.col = x /\ D.cell = m
  BY <1>1 DEF Screen, ScreenFields
<1> QED BY <1>1, <1>2, ScreenIs

LEMMA Lower ==
  ASSUME NEW r, NEW c, NEW m, NEW x, NEW scr, scr = Screen(r, c, m)
  PROVE  [scr EXCEPT !.row = x] = Screen(x, c, m)
<1>1. PICK D : D = [scr EXCEPT !.row = x]
  OBVIOUS
<1>2. D = [f \in ScreenFields |-> D[f]] /\ D.row = x /\ D.col = c /\ D.cell = m
  BY <1>1 DEF Screen, ScreenFields
<1> QED BY <1>1, <1>2, ScreenIs

LEMMA Fill ==
  ASSUME NEW r, NEW c, NEW m, NEW x, NEW scr, scr = Screen(r, c, m)
  PROVE  [scr EXCEPT !.cell = x] = Screen(r, c, x)
<1>1. PICK D : D = [scr EXCEPT !.cell = x]
  OBVIOUS
<1>2. D = [f \in ScreenFields |-> D[f]] /\ D.row = r /\ D.col = c /\ D.cell = x
  BY <1>1 DEF Screen, ScreenFields
<1> QED BY <1>1, <1>2, ScreenIs

LEMMA Parts ==
  ASSUME NEW r, NEW c, NEW m
  PROVE  Screen(r, c, m).row = r /\ Screen(r, c, m).col = c /\ Screen(r, c, m).cell = m
BY DEF Screen

\* Where the cursor is in a line, update_col does nothing.
LEMMA ColStays ==
  ASSUME NEW scr, scr.col \in Int, scr.col # SCR_WIDTH, scr.col >= 0
  PROVE  update_col(scr) = scr
BY DEF update_col

Plain == 32 .. 126
LEMMA PlainAre == \A text \in Seq(Plain) : text \in Seq(Int)
<1>1. \A c \in Plain : c \in Int
  BY DEF Plain
<1> QED BY <1>1

LEMMA PutPlain ==
  ASSUME NEW r \in Int, NEW c \in Nat, NEW m, NEW x \in Plain, c + 1 < SCR_WIDTH
  PROVE  put(Screen(r, c, m), x) = Screen(r, c + 1, [m EXCEPT ![r + 1][c + 1] = x])
<1>1. x # CR /\ x # BS /\ x # LF /\ x # HT
  BY DEF Plain, CR, BS, LF, HT
<1>2. PICK scr : scr = Screen(r, c, m)
  OBVIOUS
<1>3. put(scr, x) = Draw(scr, x)
  BY <1>1 DEF put
<1>4. scr.row = r /\ scr.col = c /\ scr.cell = m
  BY <1>2, Parts
<1>5. ~(scr.col + 1 > SCR_WIDTH)
  BY <1>4, Numbers
<1>6. Draw(scr, x) = update_col([draw_character(scr, x) EXCEPT !.col = @ + 1])
  BY <1>5 DEF Draw
<1>7. PICK k : k = [m EXCEPT ![r + 1][c + 1] = x]
  OBVIOUS
<1>8. PICK s : s = draw_character(scr, x)
  OBVIOUS
<1>9. s = Screen(r, c, k)
  <2>1. s = [scr EXCEPT !.cell[r + 1][c + 1] = x]
    BY <1>4, <1>8 DEF draw_character
  <2>2. s = [f \in ScreenFields |-> s[f]] /\ s.row = r /\ s.col = c /\ s.cell = k
    BY <1>2, <1>7, <2>1 DEF Screen, ScreenFields
  <2> QED BY <2>2, ScreenIs
<1>10. [s EXCEPT !.col = @ + 1] = Screen(r, c + 1, k)
  <2>1. s.col + 1 = c + 1
    BY <1>9, Parts
  <2>2. [s EXCEPT !.col = s.col + 1] = [s EXCEPT !.col = c + 1]
    BY <2>1
  <2>3. [s EXCEPT !.col = c + 1] = Screen(r, c + 1, k)
    BY <1>9, MoveTo
  <2> QED BY <2>2, <2>3
<1>11. update_col(Screen(r, c + 1, k)) = Screen(r, c + 1, k)
  <2>1. PICK t : t = Screen(r, c + 1, k)
    OBVIOUS
  <2>2. t.col = c + 1
    BY <2>1, Parts
  <2>3. t.col \in Int /\ t.col # SCR_WIDTH /\ t.col >= 0
    BY <2>2, Numbers
  <2> QED BY <2>1, <2>3, ColStays
<1> QED BY <1>2, <1>3, <1>6, <1>7, <1>8, <1>10, <1>11

LEMMA PutBack ==
  ASSUME NEW r, NEW c \in Nat, NEW m, c >= 1, c < SCR_WIDTH
  PROVE  put(Screen(r, c, m), BS) = Screen(r, c - 1, m)
<1>1. PICK scr : scr = Screen(r, c, m)
  OBVIOUS
<1>2. put(scr, BS) = update_col([scr EXCEPT !.col = @ - 1])
  <2>1. BS # CR /\ BS # LF /\ BS # HT
    BY DEF CR, BS, LF, HT
  <2> QED BY <2>1 DEF put
<1>3. scr.col - 1 = c - 1
  BY <1>1, Parts
<1>4. [scr EXCEPT !.col = scr.col - 1] = Screen(r, c - 1, m)
  BY <1>1, <1>3, MoveTo
<1>5. PICK t : t = Screen(r, c - 1, m)
  OBVIOUS
<1>6. t.col = c - 1
  BY <1>5, Parts
<1>7. update_col(t) = t
  <2>1. t.col \in Int /\ t.col # SCR_WIDTH /\ t.col >= 0
    BY <1>6, Numbers
  <2> QED BY <2>1, ColStays
<1> QED BY <1>1, <1>2, <1>4, <1>5, <1>7

LEMMA PutLine ==
  ASSUME NEW r \in Nat, NEW c, NEW m
  PROVE  put(Screen(r, c, m), LF) =
           IF r + 1 # SCR_HEIGHT THEN Screen(r + 1, 0, m)
           ELSE Screen(SCR_HEIGHT - 1, 0, Append(Tail(m), BlankRow))
<1>1. PICK scr : scr = Screen(r, c, m)
  OBVIOUS
<1>2. put(scr, LF) = update_row([scr EXCEPT !.col = 0], 1)
  <2>1. LF # CR /\ LF # BS /\ LF # HT
    BY DEF CR, BS, LF, HT
  <2> QED BY <2>1 DEF put
<1>3. PICK a : a = Screen(r, 0, m)
  OBVIOUS
<1>4. [scr EXCEPT !.col = 0] = a
  BY <1>1, <1>3, MoveTo
<1>5. PICK b : b = [a EXCEPT !.row = @ + 1]
  OBVIOUS
<1>6. b = Screen(r + 1, 0, m)
  <2>1. a.row + 1 = r + 1
    BY <1>3, Parts
  <2>2. b = [a EXCEPT !.row = r + 1]
    BY <1>5, <2>1
  <2> QED BY <1>3, <2>2, Lower
<1>7. update_row(a, 1) = IF b.row # SCR_HEIGHT THEN b
                         ELSE [scrollScreen(b) EXCEPT !.row = SCR_HEIGHT - 1, !.col = 0]
  BY <1>5 DEF update_row
<1>8. b.row = r + 1 /\ b.cell = m
  BY <1>6, Parts
<1>9. PICK s : s = scrollScreen(b)
  OBVIOUS
<1>10. PICK k : k = Append(Tail(m), BlankRow)
  OBVIOUS
<1>11. s = Screen(r + 1, 0, k)
  <2>1. s = [b EXCEPT !.cell = Append(Tail(b.cell), BlankRow)]
    BY <1>9 DEF scrollScreen
  <2>2. s = [b EXCEPT !.cell = k]
    BY <1>8, <1>10, <2>1
  <2> QED BY <1>6, <2>2, Fill
<1>12. [s EXCEPT !.row = SCR_HEIGHT - 1, !.col = 0] = Screen(SCR_HEIGHT - 1, 0, k)
  <2>1. PICK u : u = SCR_HEIGHT - 1
    OBVIOUS
  <2>2. PICK D : D = [s EXCEPT !.row = u, !.col = 0]
    OBVIOUS
  <2>3. D = [f \in ScreenFields |-> D[f]] /\ D.row = u /\ D.col = 0 /\ D.cell = k
    BY <1>11, <2>2 DEF Screen, ScreenFields
  <2> QED BY <2>1, <2>2, <2>3, ScreenIs
<1> QED BY <1>1, <1>2, <1>4, <1>6, <1>7, <1>8, <1>9, <1>10, <1>12

-----------------------------------------------------------------------------
\* The lines that a screen shows: a blank is a cell that says so, or one nobody
\* has written.
Dot(rows, r, i) ==
  IF r <= Len(rows) THEN IF i <= Len(rows[r]) THEN rows[r][i] ELSE SPACE ELSE SPACE
Glyph(c) == IF c = NUL THEN SPACE ELSE c
Cells == Seq(Seq(Int))
Fits(rows) ==
  /\ rows \in Seq(Seq(Plain)) /\ Len(rows) \in 1 .. SCR_HEIGHT
  /\ \A r \in 1 .. Len(rows) : Len(rows[r]) < SCR_WIDTH
Sized(m) == m \in Cells /\ Len(m) = SCR_HEIGHT /\ \A r \in 1 .. SCR_HEIGHT : Len(m[r]) = SCR_WIDTH
Showing(scr, rows, col) ==
  /\ Fits(rows) /\ col \in 0 .. SCR_WIDTH - 1
  /\ \E m : /\ scr = Screen(Len(rows) - 1, col, m) /\ Sized(m)
            /\ \A r \in 1 .. SCR_HEIGHT, i \in 1 .. SCR_WIDTH : Glyph(m[r][i]) = Dot(rows, r, i)

Sets(k, m, r, i, x) == k = [m EXCEPT ![r][i] = x]
LEMMA SizedSet ==
  ASSUME NEW m, Sized(m), NEW r \in 1 .. SCR_HEIGHT, NEW i \in 1 .. SCR_WIDTH, NEW x \in Int,
         NEW k, Sets(k, m, r, i, x)
  PROVE  /\ Sized(k) /\ k[r][i] = x
         /\ \A s \in 1 .. SCR_HEIGHT, j \in 1 .. SCR_WIDTH :
              ~(s = r /\ j = i) => k[s][j] = m[s][j]
<1>1. m \in Seq(Seq(Int)) /\ Len(m) = SCR_HEIGHT /\ \A s \in 1 .. SCR_HEIGHT : Len(m[s]) = SCR_WIDTH
  BY DEF Sized, Cells
<1>2. m[r] \in Seq(Int) /\ Len(m[r]) = SCR_WIDTH
  BY <1>1
<1>3. PICK row : row = [m[r] EXCEPT ![i] = x]
  OBVIOUS
<1>4. row \in Seq(Int) /\ Len(row) = SCR_WIDTH /\ row[i] = x /\ \A j \in 1 .. SCR_WIDTH : j # i => row[j] = m[r][j]
  BY <1>2, <1>3, Numbers
<1>5. k = [m EXCEPT ![r] = row]
  BY <1>3 DEF Sets
<1>6. k \in Seq(Seq(Int)) /\ Len(k) = SCR_HEIGHT /\ k[r] = row /\ \A s \in 1 .. SCR_HEIGHT : s # r => k[s] = m[s]
  BY <1>1, <1>4, <1>5, Numbers
<1>7. Sized(k)
  BY <1>1, <1>4, <1>6 DEF Sized, Cells
<1>8. k[r][i] = x
  BY <1>4, <1>6
<1>9. ASSUME NEW s \in 1 .. SCR_HEIGHT, NEW j \in 1 .. SCR_WIDTH, ~(s = r /\ j = i)
      PROVE  k[s][j] = m[s][j]
  BY <1>4, <1>6, <1>9
<1> QED BY <1>7, <1>8, <1>9

\* A character is drawn where the cursor is.
Replaces(old, new, col, x) ==
  /\ Fits(new) /\ Len(new) = Len(old)
  /\ \A r \in 1 .. SCR_HEIGHT, i \in 1 .. SCR_WIDTH :
       Dot(new, r, i) = IF r = Len(old) /\ i = col + 1 THEN x ELSE Dot(old, r, i)
LEMMA ShowsPlain ==
  ASSUME NEW scr, NEW rows, NEW col, Showing(scr, rows, col), NEW x \in Plain, col + 1 < SCR_WIDTH,
         NEW new, Replaces(rows, new, col, x)
  PROVE  Showing(put(scr, x), new, col + 1)
<1>1. PICK n \in 1 .. SCR_HEIGHT : n = Len(rows)
  BY DEF Showing, Fits
<1>2. col \in Nat /\ col + 1 \in 1 .. SCR_WIDTH /\ x \in Int /\ x # NUL
  BY Numbers DEF Showing, Plain, NUL
<1>3. PICK m : /\ scr = Screen(n - 1, col, m) /\ Sized(m)
               /\ \A r \in 1 .. SCR_HEIGHT, i \in 1 .. SCR_WIDTH : Glyph(m[r][i]) = Dot(rows, r, i)
  BY <1>1 DEF Showing
<1>4. PICK k : Sets(k, m, n, col + 1, x)
  BY DEF Sets
<1>5. put(scr, x) = Screen(n - 1, col + 1, k)
  <2>1. n - 1 \in Int /\ (n - 1) + 1 = n
    BY <1>1
  <2>2. PICK u \in Int : u = n - 1
    BY <2>1
  <2>3. u + 1 = n
    BY <2>1, <2>2
  <2>4. put(Screen(u, col, m), x) = Screen(u, col + 1, [m EXCEPT ![u + 1][col + 1] = x])
    BY <1>2, PutPlain
  <2>5. put(Screen(u, col, m), x) = Screen(u, col + 1, k)
    BY <1>4, <2>3, <2>4 DEF Sets
  <2> QED BY <1>3, <2>2, <2>5
<1>6. /\ Sized(k) /\ k[n][col + 1] = x
      /\ \A s \in 1 .. SCR_HEIGHT, j \in 1 .. SCR_WIDTH :
           ~(s = n /\ j = col + 1) => k[s][j] = m[s][j]
  <2>1. PICK c \in 1 .. SCR_WIDTH : c = col + 1
    BY <1>2
  <2>2. Sets(k, m, n, c, x)
    BY <1>4, <2>1
  <2>3. /\ Sized(k) /\ k[n][c] = x
        /\ \A s \in 1 .. SCR_HEIGHT, j \in 1 .. SCR_WIDTH :
             ~(s = n /\ j = c) => k[s][j] = m[s][j]
    BY <1>2, <1>3, <2>2, SizedSet
  <2> QED BY <2>1, <2>3
<1>7. ASSUME NEW r \in 1 .. SCR_HEIGHT, NEW i \in 1 .. SCR_WIDTH
      PROVE  Glyph(k[r][i]) = Dot(new, r, i)
  <2>1. CASE r = n /\ i = col + 1
    <3>1. Dot(new, r, i) = x
      BY <1>1, <2>1 DEF Replaces
    <3>2. k[r][i] = x
      BY <1>6, <2>1
    <3> QED BY <1>2, <3>1, <3>2 DEF Glyph
  <2>2. CASE ~(r = n /\ i = col + 1)
    <3>1. Dot(new, r, i) = Dot(rows, r, i)
      BY <1>1, <2>2 DEF Replaces
    <3>2. k[r][i] = m[r][i]
      BY <1>6, <2>2
    <3> QED BY <1>3, <3>1, <3>2
  <2> QED BY <2>1, <2>2
<1>8. Fits(new) /\ Len(new) = n
  BY <1>1 DEF Replaces
<1>9. col + 1 \in 0 .. SCR_WIDTH - 1
  BY <1>2, Numbers
<1> QED BY <1>5, <1>6, <1>7, <1>8, <1>9 DEF Showing

LEMMA ShowsBack ==
  ASSUME NEW scr, NEW rows, NEW col, Showing(scr, rows, col), col >= 1
  PROVE  Showing(put(scr, BS), rows, col - 1)
<1>1. PICK n \in Int : n = Len(rows) - 1
  <2>1. PICK k \in 1 .. SCR_HEIGHT : k = Len(rows)
    BY DEF Showing, Fits
  <2> QED BY <2>1
<1>2. PICK m : /\ scr = Screen(n, col, m) /\ Sized(m)
               /\ \A r \in 1 .. SCR_HEIGHT, i \in 1 .. SCR_WIDTH : Glyph(m[r][i]) = Dot(rows, r, i)
  BY <1>1 DEF Showing
<1>3. col \in Nat /\ col < SCR_WIDTH /\ col - 1 \in 0 .. SCR_WIDTH - 1
  BY Numbers DEF Showing
<1>4. put(scr, BS) = Screen(n, col - 1, m)
  BY <1>2, <1>3, PutBack
<1> QED BY <1>1, <1>2, <1>3, <1>4 DEF Showing

\* The next line: a new one, or all of them move up.
Lined(new, rows) == new = Shown(Append(rows, << >>))
LEMMA NextLine ==
  ASSUME NEW rows, Fits(rows), NEW new, Lined(new, rows), NEW n \in Nat, n = Len(rows)
  PROVE  /\ Fits(new) /\ new[Len(new)] = << >>
         /\ n < SCR_HEIGHT => /\ Len(new) = n + 1
                              /\ \A r \in 1 .. n : new[r] = rows[r]
         /\ n = SCR_HEIGHT => /\ Len(new) = n
                              /\ \A r \in 1 .. n : r < n => new[r] = rows[r + 1]
<1>1. rows \in Seq(Seq(Plain)) /\ n \in 1 .. SCR_HEIGHT /\ \A r \in 1 .. n : Len(rows[r]) < SCR_WIDTH
  BY DEF Fits
<1>2. PICK all : all = Append(rows, << >>)
  OBVIOUS
<1>3. << >> \in Seq(Plain) /\ Len(<< >>) = 0
  OBVIOUS
<1>4. all \in Seq(Seq(Plain)) /\ Len(all) = n + 1 /\ all[n + 1] = << >> /\ \A r \in 1 .. n : all[r] = rows[r]
  BY <1>1, <1>2, <1>3
<1>5. \A r \in 1 .. n + 1 : Len(all[r]) < SCR_WIDTH
  <2>1. ASSUME NEW r \in 1 .. n + 1 PROVE Len(all[r]) < SCR_WIDTH
    <3>1. CASE r = n + 1
      BY <1>3, <1>4, <3>1, Numbers
    <3>2. CASE r # n + 1
      <4>1. r \in 1 .. n
        BY <1>1, <3>2
      <4> QED BY <1>1, <1>4, <4>1
    <3> QED BY <3>1, <3>2
  <2> QED BY <2>1
<1>6. CASE n < SCR_HEIGHT
  <2>1. new = all
    BY <1>1, <1>2, <1>4, <1>6, Numbers DEF Shown, Lined
  <2>2. Fits(all)
    BY <1>1, <1>4, <1>5, <1>6, Numbers DEF Fits
  <2>3. n # SCR_HEIGHT
    BY <1>6, Numbers
  <2> QED BY <1>4, <2>1, <2>2, <2>3
<1>7. CASE n = SCR_HEIGHT
  <2>1. Len(all) > SCR_HEIGHT
    BY <1>4, <1>7, Numbers
  <2>2. new = Tail(all)
    BY <1>2, <2>1 DEF Shown, Lined
  <2>3. new \in Seq(Seq(Plain)) /\ Len(new) = n /\ \A r \in 1 .. n : new[r] = all[r + 1]
    BY <1>1, <1>4, <2>2
  <2>4. \A r \in 1 .. n : r + 1 \in 1 .. n + 1
    BY <1>1
  <2>5. \A r \in 1 .. n : Len(new[r]) < SCR_WIDTH
    BY <1>5, <2>3, <2>4
  <2>6. Fits(new)
    BY <1>1, <2>3, <2>5 DEF Fits
  <2>7. new[n] = << >>
    <3>1. n \in 1 .. n
      BY <1>1
    <3>2. new[n] = all[n + 1] /\ all[n + 1] = << >>
      BY <1>4, <2>3, <3>1
    <3> QED BY <3>2
  <2>8. \A r \in 1 .. n : r < n => new[r] = rows[r + 1]
    <3>1. \A r \in 1 .. n : r < n => r + 1 \in 1 .. n
      BY <1>1
    <3> QED BY <1>4, <2>3, <3>1
  <2>9. ~(n < SCR_HEIGHT)
    BY <1>7, Numbers
  <2> QED BY <2>3, <2>6, <2>7, <2>8, <2>9
<1> QED BY <1>1, <1>6, <1>7, Numbers

LEMMA SizedScroll ==
  ASSUME NEW m, Sized(m), NEW k, k = Append(Tail(m), BlankRow)
  PROVE  /\ Sized(k) /\ \A i \in 1 .. SCR_WIDTH : k[SCR_HEIGHT][i] = NUL
         /\ \A r \in 1 .. SCR_HEIGHT : r < SCR_HEIGHT => k[r] = m[r + 1]
<1>1. PICK n \in Nat : n = SCR_HEIGHT
  BY Numbers
<1>2. n >= 1 /\ m \in Seq(Seq(Int)) /\ Len(m) = n /\ \A r \in 1 .. n : Len(m[r]) = SCR_WIDTH
  BY <1>1, Numbers DEF Sized, Cells
<1>3. PICK b : b = BlankRow
  OBVIOUS
<1>4. b \in Seq(Int) /\ Len(b) = SCR_WIDTH /\ \A i \in 1 .. SCR_WIDTH : b[i] = NUL
  BY <1>3, Numbers DEF BlankRow, NUL
<1>5. PICK t : t = Tail(m)
  OBVIOUS
<1>6. t \in Seq(Seq(Int)) /\ Len(t) = n - 1 /\ \A r \in 1 .. n - 1 : t[r] = m[r + 1]
  BY <1>2, <1>5
<1>7. k \in Seq(Seq(Int)) /\ Len(k) = n /\ k[n] = b /\ \A r \in 1 .. n - 1 : k[r] = t[r]
  BY <1>2, <1>3, <1>4, <1>5, <1>6
<1>8. \A r \in 1 .. n : r < n => r \in 1 .. n - 1 /\ r + 1 \in 1 .. n
  BY <1>2
<1>9. \A r \in 1 .. n : r < n => k[r] = m[r + 1]
  BY <1>6, <1>7, <1>8
<1>10. ASSUME NEW r \in 1 .. n PROVE Len(k[r]) = SCR_WIDTH
  <2>1. CASE r < n
    BY <1>2, <1>8, <1>9, <2>1
  <2>2. CASE ~(r < n)
    <3>1. r = n
      BY <2>2
    <3> QED BY <1>4, <1>7, <3>1
  <2> QED BY <2>1, <2>2
<1>11. Sized(k)
  BY <1>1, <1>7, <1>10 DEF Sized, Cells
<1> QED BY <1>1, <1>4, <1>7, <1>9, <1>11

LEMMA ShowsLine ==
  ASSUME NEW scr, NEW rows, NEW col, Showing(scr, rows, col), NEW new, Lined(new, rows)
  PROVE  Showing(put(scr, LF), new, 0)
<1>1. PICK n \in 1 .. SCR_HEIGHT : n = Len(rows)
  BY DEF Showing, Fits
<1>2. PICK m : /\ scr = Screen(n - 1, col, m) /\ Sized(m)
               /\ \A r \in 1 .. SCR_HEIGHT, i \in 1 .. SCR_WIDTH : Glyph(m[r][i]) = Dot(rows, r, i)
  BY <1>1 DEF Showing
<1>3. PICK u \in Nat : u = n - 1
  OBVIOUS
<1>4. u + 1 = n /\ n \in Nat
  BY <1>3
<1>5. put(scr, LF) = IF n # SCR_HEIGHT THEN Screen(n, 0, m)
                     ELSE Screen(SCR_HEIGHT - 1, 0, Append(Tail(m), BlankRow))
  <2>1. put(Screen(u, col, m), LF) =
           IF u + 1 # SCR_HEIGHT THEN Screen(u + 1, 0, m)
           ELSE Screen(SCR_HEIGHT - 1, 0, Append(Tail(m), BlankRow))
    BY PutLine
  <2> QED BY <1>2, <1>3, <1>4, <2>1
<1>6. Fits(rows)
  BY DEF Showing
<1>7. /\ Fits(new) /\ new[Len(new)] = << >>
      /\ n < SCR_HEIGHT => /\ Len(new) = n + 1
                           /\ \A r \in 1 .. n : new[r] = rows[r]
      /\ n = SCR_HEIGHT => /\ Len(new) = n
                           /\ \A r \in 1 .. n : r < n => new[r] = rows[r + 1]
  BY <1>1, <1>4, <1>6, NextLine
<1>8. 0 \in 0 .. SCR_WIDTH - 1
  BY Numbers
<1>9. CASE n # SCR_HEIGHT
  <2>1. n < SCR_HEIGHT
    BY <1>9, Numbers
  <2>2. Len(new) = n + 1 /\ new[n + 1] = << >> /\ \A r \in 1 .. n : new[r] = rows[r]
    BY <1>7, <2>1
  <2>3. ASSUME NEW r \in 1 .. SCR_HEIGHT, NEW i \in 1 .. SCR_WIDTH
        PROVE  Dot(new, r, i) = Dot(rows, r, i)
    <3>1. CASE r <= n
      <4>1. r <= Len(rows) /\ r <= Len(new) /\ new[r] = rows[r]
        BY <1>1, <1>4, <2>2, <3>1
      <4> QED BY <4>1 DEF Dot
    <3>2. CASE r = n + 1
      <4>1. ~(r <= Len(rows)) /\ r <= Len(new) /\ new[r] = << >> /\ ~(i <= Len(<< >>))
        BY <1>1, <1>4, <2>2, <3>2
      <4> QED BY <4>1 DEF Dot
    <3>3. CASE r > n + 1
      <4>1. ~(r <= Len(rows)) /\ ~(r <= Len(new))
        BY <1>1, <1>4, <2>2, <3>3
      <4> QED BY <4>1 DEF Dot
    <3> QED BY <1>4, <3>1, <3>2, <3>3
  <2>4. put(scr, LF) = Screen(Len(new) - 1, 0, m)
    <3>1. Len(new) - 1 = n
      BY <1>4, <2>2
    <3> QED BY <1>5, <1>9, <3>1
  <2> QED BY <1>2, <1>7, <1>8, <2>3, <2>4 DEF Showing
<1>10. CASE n = SCR_HEIGHT
  <2>1. Len(new) = n /\ new[n] = << >> /\ \A r \in 1 .. n : r < n => new[r] = rows[r + 1]
    BY <1>7, <1>10
  <2>2. PICK k : k = Append(Tail(m), BlankRow)
    OBVIOUS
  <2>3. /\ Sized(k) /\ \A i \in 1 .. SCR_WIDTH : k[n][i] = NUL
        /\ \A r \in 1 .. n : r < n => k[r] = m[r + 1]
    BY <1>2, <1>10, <2>2, SizedScroll
  <2>4. ASSUME NEW r \in 1 .. SCR_HEIGHT, NEW i \in 1 .. SCR_WIDTH
        PROVE  Glyph(k[r][i]) = Dot(new, r, i)
    <3>1. CASE r < n
      <4>1. PICK s \in 1 .. SCR_HEIGHT : s = r + 1
        BY <1>10, <3>1, Numbers
      <4>2. k[r] = m[s] /\ new[r] = rows[s]
        BY <1>10, <2>1, <2>3, <3>1, <4>1
      <4>3. r <= Len(new) /\ s <= Len(rows)
        BY <1>1, <1>10, <2>1
      <4>4. Dot(new, r, i) = Dot(rows, s, i)
        BY <4>2, <4>3 DEF Dot
      <4> QED BY <1>2, <4>2, <4>4
    <3>2. CASE r = n
      <4>1. k[r][i] = NUL
        BY <2>3, <3>2
      <4>2. r <= Len(new) /\ new[r] = << >> /\ ~(i <= Len(<< >>))
        BY <1>4, <2>1, <3>2
      <4> QED BY <4>1, <4>2 DEF Dot, Glyph
    <3> QED BY <1>4, <1>10, <3>1, <3>2
  <2>5. put(scr, LF) = Screen(Len(new) - 1, 0, k)
    BY <1>5, <1>10, <2>1, <2>2
  <2> QED BY <1>7, <1>8, <2>3, <2>4, <2>5 DEF Showing
<1> QED BY <1>9, <1>10

-----------------------------------------------------------------------------
\* Text behind the last line.
Cat(rows, text) == [rows EXCEPT ![Len(rows)] = @ \o text]
Catted(new, rows, text) ==
  /\ new \in Seq(Seq(Plain)) /\ Len(new) = Len(rows)
  /\ new[Len(rows)] = rows[Len(rows)] \o text
  /\ \A r \in 1 .. Len(rows) : r # Len(rows) => new[r] = rows[r]
LEMMA CatIs ==
  ASSUME NEW rows \in Seq(Seq(Plain)), Len(rows) >= 1, NEW text \in Seq(Plain)
  PROVE  Catted(Cat(rows, text), rows, text)
<1>1. PICK n \in Nat : n = Len(rows)
  OBVIOUS
<1>2. n \in 1 .. n /\ rows[n] \in Seq(Plain)
  BY <1>1
<1>3. PICK x : x = rows[n] \o text
  OBVIOUS
<1>4. x \in Seq(Plain)
  BY <1>2, <1>3, ConcatProperties
<1>5. PICK new : new = [rows EXCEPT ![n] = x]
  OBVIOUS
<1>6. new \in Seq(Seq(Plain)) /\ Len(new) = n /\ new[n] = x /\ \A r \in 1 .. n : r # n => new[r] = rows[r]
  BY <1>1, <1>2, <1>4, <1>5
<1>7. new = Cat(rows, text)
  BY <1>1, <1>3, <1>5 DEF Cat
<1> QED BY <1>1, <1>3, <1>6, <1>7 DEF Catted

\* It is all of what it says.
LEMMA CattedIs ==
  ASSUME NEW rows \in Seq(Seq(Plain)), NEW text, NEW new, Catted(new, rows, text), Len(rows) >= 1,
         NEW old, Catted(old, rows, text)
  PROVE  new = old
<1>1. PICK n \in Nat : n = Len(rows)
  OBVIOUS
<1>2. /\ new \in Seq(Seq(Plain)) /\ Len(new) = n /\ old \in Seq(Seq(Plain)) /\ Len(old) = n
      /\ new[n] = old[n] /\ \A r \in 1 .. n : r # n => new[r] = old[r]
  BY <1>1 DEF Catted
<1>3. \A r \in 1 .. n : new[r] = old[r]
  BY <1>2
<1> QED BY <1>2, <1>3, SeqEqual

LEMMA CatNone ==
  ASSUME NEW rows \in Seq(Seq(Plain)), Len(rows) >= 1
  PROVE  Cat(rows, << >>) = rows
<1>1. << >> \in Seq(Plain)
  OBVIOUS
<1>2. Catted(Cat(rows, << >>), rows, << >>)
  BY <1>1, CatIs
<1>3. Catted(rows, rows, << >>)
  <2>1. rows[Len(rows)] \in Seq(Plain)
    OBVIOUS
  <2>2. rows[Len(rows)] \o << >> = rows[Len(rows)]
    BY <2>1, ConcatEmptySeq
  <2> QED BY <2>2 DEF Catted
<1> QED BY <1>2, <1>3, CattedIs

LEMMA Assoc ==
  ASSUME NEW y \in Seq(Plain), NEW s \in Seq(Plain), NEW t \in Seq(Plain)
  PROVE  (y \o s) \o t = y \o (s \o t)
<1>1. PICK S : S = Plain
  OBVIOUS
<1> QED BY <1>1, ConcatAssociative

LEMMA CatCat ==
  ASSUME NEW rows \in Seq(Seq(Plain)), Len(rows) >= 1, NEW s \in Seq(Plain), NEW t \in Seq(Plain)
  PROVE  Cat(Cat(rows, s), t) = Cat(rows, s \o t)
<1>1. PICK n \in Nat : n = Len(rows)
  OBVIOUS
<1>2. PICK a : a = Cat(rows, s)
  OBVIOUS
<1>3. Catted(a, rows, s)
  BY <1>2, CatIs
<1>4. a \in Seq(Seq(Plain)) /\ Len(a) = n /\ a[n] = rows[n] \o s /\ \A r \in 1 .. n : r # n => a[r] = rows[r]
  BY <1>1, <1>3 DEF Catted
<1>5. PICK b : b = Cat(a, t)
  OBVIOUS
<1>6. Catted(b, a, t)
  BY <1>1, <1>4, <1>5, CatIs
<1>7. PICK x : x = s \o t
  OBVIOUS
<1>8. x \in Seq(Plain)
  BY <1>7, ConcatProperties
<1>9. rows[n] \in Seq(Plain)
  BY <1>1
<1>10. (rows[n] \o s) \o t = rows[n] \o x
  <2>1. PICK y \in Seq(Plain) : y = rows[n]
    BY <1>9
  <2>2. (y \o s) \o t = y \o (s \o t)
    BY Assoc
  <2> QED BY <1>7, <2>1, <2>2
<1>11. Catted(b, rows, x)
  <2>1. /\ b \in Seq(Seq(Plain)) /\ Len(b) = n /\ b[n] = a[n] \o t
        /\ \A r \in 1 .. n : r # n => b[r] = a[r]
    BY <1>4, <1>6 DEF Catted
  <2>2. b[n] = rows[n] \o x
    BY <1>4, <1>10, <2>1
  <2>3. \A r \in 1 .. n : r # n => b[r] = rows[r]
    BY <1>4, <2>1
  <2> QED BY <1>1, <2>1, <2>2, <2>3 DEF Catted
<1>12. Catted(Cat(rows, x), rows, x)
  BY <1>8, CatIs
<1> QED BY <1>2, <1>5, <1>7, <1>11, <1>12, CattedIs

\* The last line gets longer.
Longer(new, rows, k) ==
  /\ Fits(new) /\ Len(new) = Len(rows) /\ Len(new[Len(new)]) = Len(rows[Len(rows)]) + k
LEMMA CatFits ==
  ASSUME NEW rows, Fits(rows), NEW text \in Seq(Plain),
         Len(rows[Len(rows)]) + Len(text) < SCR_WIDTH
  PROVE  Longer(Cat(rows, text), rows, Len(text))
<1>1. PICK n \in Nat : n = Len(rows)
  BY DEF Fits
<1>2. rows \in Seq(Seq(Plain)) /\ n \in 1 .. SCR_HEIGHT /\ \A r \in 1 .. n : Len(rows[r]) < SCR_WIDTH
  BY <1>1 DEF Fits
<1>3. rows[n] \in Seq(Plain) /\ n >= 1
  BY <1>1, <1>2
<1>4. PICK new : new = Cat(rows, text)
  OBVIOUS
<1>5. Catted(new, rows, text)
  BY <1>1, <1>2, <1>3, <1>4, CatIs
<1>6. /\ new \in Seq(Seq(Plain)) /\ Len(new) = n /\ new[n] = rows[n] \o text
      /\ \A r \in 1 .. n : r # n => new[r] = rows[r]
  BY <1>1, <1>5 DEF Catted
<1>7. Len(new[n]) = Len(rows[n]) + Len(text)
  BY <1>3, <1>6, ConcatProperties
<1>8. Len(new[n]) < SCR_WIDTH
  BY <1>1, <1>7
<1>9. \A r \in 1 .. n : Len(new[r]) < SCR_WIDTH
  BY <1>2, <1>6, <1>8
<1>10. Fits(new)
  BY <1>2, <1>6, <1>9 DEF Fits
<1> QED BY <1>1, <1>4, <1>6, <1>7, <1>10 DEF Longer

\* One more character behind the last line is one more dot.
LEMMA CatDot ==
  ASSUME NEW rows, Fits(rows), NEW col, col = Len(rows[Len(rows)]), col + 1 < SCR_WIDTH, NEW x \in Plain
  PROVE  Replaces(rows, Cat(rows, <<x>>), col, x)
<1>1. PICK n \in Nat : n = Len(rows)
  BY DEF Fits
<1>2. rows \in Seq(Seq(Plain)) /\ n \in 1 .. SCR_HEIGHT
  BY <1>1 DEF Fits
<1>3. PICK last : last = rows[n]
  OBVIOUS
<1>4. last \in Seq(Plain) /\ n >= 1
  BY <1>1, <1>2, <1>3
<1>5. PICK c \in Nat : c = Len(last)
  BY <1>4
<1>6. c = col
  BY <1>1, <1>3, <1>5
<1>7. PICK text : text = <<x>>
  OBVIOUS
<1>8. text \in Seq(Plain) /\ Len(text) = 1 /\ text[1] = x
  BY <1>7
<1>9. PICK new : new = Cat(rows, text)
  OBVIOUS
<1>10. Longer(new, rows, 1)
  <2>1. Len(rows[Len(rows)]) + Len(text) < SCR_WIDTH
    BY <1>8
  <2> QED BY <1>8, <1>9, <2>1, CatFits
<1>11. Catted(new, rows, text)
  BY <1>1, <1>2, <1>4, <1>8, <1>9, CatIs
<1>12. Len(new) = n /\ Fits(new) /\ new[n] = last \o text /\ \A r \in 1 .. n : r # n => new[r] = rows[r]
  BY <1>1, <1>3, <1>10, <1>11 DEF Longer, Catted
<1>13. Len(new[n]) = c + 1 /\ new[n][c + 1] = x /\ \A i \in 1 .. c : new[n][i] = last[i]
  <2>1. PICK v : v = last \o text
    OBVIOUS
  <2>2. /\ Len(v) = Len(last) + Len(text)
        /\ \A i \in 1 .. Len(last) + Len(text) : v[i] = IF i <= Len(last) THEN last[i] ELSE text[i - Len(last)]
    BY <1>4, <1>8, <2>1, ConcatProperties
  <2>3. Len(v) = c + 1 /\ \A i \in 1 .. c + 1 : v[i] = IF i <= c THEN last[i] ELSE text[i - c]
    BY <1>5, <1>8, <2>2
  <2>4. v[c + 1] = text[1]
    <3>1. c + 1 \in 1 .. c + 1 /\ ~(c + 1 <= c) /\ (c + 1) - c = 1
      OBVIOUS
    <3> QED BY <2>3, <3>1
  <2>5. \A i \in 1 .. c : v[i] = last[i]
    BY <2>3
  <2> QED BY <1>8, <1>12, <2>1, <2>3, <2>4, <2>5
<1>14. ASSUME NEW r \in 1 .. SCR_HEIGHT, NEW i \in 1 .. SCR_WIDTH
       PROVE  Dot(new, r, i) = IF r = n /\ i = c + 1 THEN x ELSE Dot(rows, r, i)
  <2>1. CASE r = n
    <3>1. r <= Len(rows) /\ r <= Len(new)
      BY <1>1, <1>12, <2>1
    <3>2. CASE i <= c
      <4>1. i <= Len(new[r]) /\ i <= Len(rows[r]) /\ new[r][i] = rows[r][i] /\ i # c + 1
        BY <1>3, <1>5, <1>13, <2>1, <3>2
      <4> QED BY <3>1, <4>1 DEF Dot
    <3>3. CASE i = c + 1
      <4>1. i <= Len(new[r]) /\ new[r][i] = x
        BY <1>13, <2>1, <3>3
      <4> QED BY <2>1, <3>1, <3>3, <4>1 DEF Dot
    <3>4. CASE i > c + 1
      <4>1. ~(i <= Len(new[r])) /\ ~(i <= Len(rows[r])) /\ i # c + 1
        BY <1>3, <1>5, <1>13, <2>1, <3>4
      <4> QED BY <3>1, <4>1 DEF Dot
    <3> QED BY <1>5, <3>2, <3>3, <3>4
  <2>2. CASE r # n
    <3>1. CASE r <= n
      <4>1. r <= Len(rows) /\ r <= Len(new) /\ new[r] = rows[r]
        BY <1>1, <1>12, <2>2, <3>1
      <4> QED BY <2>2, <4>1 DEF Dot
    <3>2. CASE ~(r <= n)
      <4>1. ~(r <= Len(rows)) /\ ~(r <= Len(new))
        BY <1>1, <1>12, <3>2
      <4> QED BY <2>2, <4>1 DEF Dot
    <3> QED BY <3>1, <3>2
  <2> QED BY <2>1, <2>2
<1> QED BY <1>1, <1>6, <1>7, <1>9, <1>12, <1>14 DEF Replaces

LEMMA CatUndot ==
  ASSUME NEW rows, Fits(rows), NEW col, col = Len(rows[Len(rows)]), col + 1 < SCR_WIDTH, NEW x \in Plain
  PROVE  Replaces(Cat(rows, <<x>>), rows, col, SPACE)
<1>1. PICK n \in Nat : n = Len(rows)
  BY DEF Fits
<1>2. PICK new : new = Cat(rows, <<x>>)
  OBVIOUS
<1>3. Replaces(rows, new, col, x)
  BY <1>2, CatDot
<1>4. Dot(rows, n, col + 1) = SPACE
  <2>1. PICK c \in Nat : c = Len(rows[n])
    <3>1. rows[n] \in Seq(Plain)
      BY <1>1 DEF Fits
    <3> QED BY <3>1
  <2>2. ~(c + 1 <= c) /\ n <= Len(rows)
    BY <1>1
  <2>3. Dot(rows, n, c + 1) = SPACE
    BY <2>1, <2>2 DEF Dot
  <2> QED BY <1>1, <2>1, <2>3
<1> QED BY <1>1, <1>2, <1>3, <1>4 DEF Replaces

-----------------------------------------------------------------------------
\* What is on its way to the screen, and the lines that the screen will show
\* when it has come: the rest of a text, which may end the line, or of what takes
\* a character back.
Tip(rows) == Len(rows[Len(rows)])
Writing(scr, q, R, rows, text) ==
  /\ text \in Seq(Plain) /\ Showing(scr, rows, Tip(rows)) /\ Tip(rows) + Len(text) < SCR_WIDTH
  /\ \/ q = text /\ R = Cat(rows, text)
     \/ q = Append(text, LF) /\ Lined(R, Cat(rows, text))
Erasing(scr, q, R, c) ==
  /\ c \in Plain /\ Tip(R) + 1 < SCR_WIDTH /\ Fits(R)
  /\ \/ q = <<BS, SPACE, BS>> /\ Showing(scr, Cat(R, <<c>>), Tip(R) + 1)
     \/ q = <<SPACE, BS>> /\ Showing(scr, Cat(R, <<c>>), Tip(R))
     \/ q = <<BS>> /\ Showing(scr, R, Tip(R) + 1)
Drawn(scr, q, R) ==
  \/ \E rows, text : Writing(scr, q, R, rows, text)
  \/ \E c : Erasing(scr, q, R, c)

LEMMA TipIs ==
  ASSUME NEW rows, Fits(rows)
  PROVE  /\ rows \in Seq(Seq(Plain)) /\ Len(rows) >= 1 /\ rows[Len(rows)] \in Seq(Plain)
         /\ Tip(rows) \in Nat /\ Tip(rows) < SCR_WIDTH
<1>1. PICK n \in Nat : n = Len(rows)
  BY DEF Fits
<1>2. rows \in Seq(Seq(Plain)) /\ n \in 1 .. SCR_HEIGHT /\ \A r \in 1 .. n : Len(rows[r]) < SCR_WIDTH
  BY <1>1 DEF Fits
<1>3. n >= 1 /\ n \in 1 .. n
  BY <1>2
<1>4. rows[n] \in Seq(Plain)
  BY <1>1, <1>2, <1>3
<1>5. Len(rows[n]) \in Nat /\ Len(rows[n]) < SCR_WIDTH
  BY <1>2, <1>3, <1>4
<1> QED BY <1>1, <1>2, <1>3, <1>4, <1>5 DEF Tip

\* Nothing is on its way: the screen shows it.
LEMMA NothingOnItsWay ==
  ASSUME NEW scr, NEW rows, Showing(scr, rows, Tip(rows))
  PROVE  Drawn(scr, << >>, rows)
<1>1. Fits(rows)
  BY DEF Showing
<1>2. rows = Cat(rows, << >>)
  BY <1>1, TipIs, CatNone
<1>3. << >> \in Seq(Plain) /\ Len(<< >>) = 0
  OBVIOUS
<1>4. Tip(rows) + Len(<< >>) < SCR_WIDTH
  <2>1. PICK t \in Nat : t = Tip(rows)
    BY <1>1, TipIs
  <2>2. t < SCR_WIDTH
    BY <1>1, <2>1, TipIs
  <2> QED BY <1>3, <2>1, <2>2
<1>5. Writing(scr, << >>, rows, rows, << >>)
  BY <1>2, <1>3, <1>4 DEF Writing
<1> QED BY <1>5 DEF Drawn

LEMMA AllDrawn ==
  ASSUME NEW scr, NEW R, Drawn(scr, << >>, R)
  PROVE  Showing(scr, R, Tip(R))
<1>1. \A c : ~Erasing(scr, << >>, R, c)
  <2>1. << >> # <<BS, SPACE, BS>> /\ << >> # <<SPACE, BS>> /\ << >> # <<BS>>
    OBVIOUS
  <2> QED BY <2>1 DEF Erasing
<1>2. PICK rows, text : Writing(scr, << >>, R, rows, text)
  BY <1>1 DEF Drawn
<1>3. text \in Seq(Plain) /\ Showing(scr, rows, Tip(rows)) /\ Fits(rows)
  BY <1>2 DEF Writing, Showing
<1>4. << >> # Append(text, LF)
  <2>1. text \in Seq(Int) /\ LF \in Int
    BY <1>3, PlainAre DEF LF
  <2>2. Len(Append(text, LF)) = Len(text) + 1 /\ Len(text) \in Nat
    BY <2>1
  <2> QED BY <2>2
<1>5. text = << >> /\ R = Cat(rows, text)
  BY <1>2, <1>4 DEF Writing
<1>6. R = rows
  BY <1>3, <1>5, TipIs, CatNone
<1> QED BY <1>3, <1>6

\* A text is the first of its characters and the rest.
LEMMA FirstAndRest ==
  ASSUME NEW text \in Seq(Plain), text # << >>
  PROVE  /\ Head(text) \in Plain /\ Tail(text) \in Seq(Plain) /\ Len(text) = Len(Tail(text)) + 1
         /\ <<Head(text)>> \o Tail(text) = text
<1>1. << >> \in Seq(Plain)
  OBVIOUS
<1>2. Head(text) \in Plain /\ Tail(text) \in Seq(Plain) /\ Len(text) = Len(Tail(text)) + 1
  OBVIOUS
<1>3. Append(<< >>, Head(text)) \o Tail(text) = << >> \o text
  BY <1>1, Received
<1>4. Append(<< >>, Head(text)) = <<Head(text)>>
  OBVIOUS
<1>5. << >> \o text = text
  BY ConcatEmptySeq
<1> QED BY <1>2, <1>3, <1>4, <1>5

\* A character of the text is put: it is on the last line, and the rest follows.
OnItsWay(scr, rows, text, new, rest) ==
  /\ rest \in Seq(Plain) /\ rest = Tail(text) /\ Showing(put(scr, Head(text)), new, Tip(new))
  /\ Tip(new) + Len(rest) < SCR_WIDTH /\ Cat(new, rest) = Cat(rows, text)
LEMMA OneMore ==
  ASSUME NEW scr, NEW rows, NEW text \in Seq(Plain), text # << >>,
         Showing(scr, rows, Tip(rows)), Tip(rows) + Len(text) < SCR_WIDTH
  PROVE  \E new, rest : OnItsWay(scr, rows, text, new, rest)
<1>1. PICK x \in Plain, rest \in Seq(Plain) : x = Head(text) /\ rest = Tail(text)
  BY FirstAndRest
<1>2. Len(text) = Len(rest) + 1 /\ <<x>> \o rest = text
  BY <1>1, FirstAndRest
<1>3. PICK one : one = <<x>>
  OBVIOUS
<1>4. one \in Seq(Plain) /\ Len(one) = 1
  BY <1>3
<1>5. Fits(rows)
  BY DEF Showing
<1>6. PICK c \in Nat : c = Tip(rows)
  BY <1>5, TipIs
<1>7. PICK k \in Nat : k = Len(rest)
  OBVIOUS
<1>8. c + (k + 1) < SCR_WIDTH
  BY <1>2, <1>6, <1>7
<1>9. c + 1 < SCR_WIDTH
  BY <1>8, Numbers
<1>10. PICK new : new = Cat(rows, one)
  OBVIOUS
<1>11. Replaces(rows, new, c, x)
  BY <1>3, <1>5, <1>6, <1>9, <1>10, CatDot DEF Tip
<1>12. Showing(put(scr, x), new, c + 1)
  BY <1>6, <1>9, <1>11, ShowsPlain
<1>13. Longer(new, rows, 1)
  BY <1>4, <1>5, <1>6, <1>9, <1>10, CatFits DEF Tip
<1>14. Tip(new) = c + 1
  BY <1>6, <1>13 DEF Longer, Tip
<1>15. Cat(new, rest) = Cat(rows, text)
  <2>1. Cat(Cat(rows, one), rest) = Cat(rows, one \o rest)
    BY <1>4, <1>5, TipIs, CatCat
  <2> QED BY <1>2, <1>3, <1>10, <2>1
<1>16. Tip(new) + Len(rest) < SCR_WIDTH
  BY <1>7, <1>8, <1>14, Numbers
<1>17. OnItsWay(scr, rows, text, new, rest)
  BY <1>1, <1>12, <1>14, <1>15, <1>16 DEF OnItsWay
<1> QED BY <1>17

LEMMA WritingStep ==
  ASSUME NEW scr, NEW q, NEW R, NEW rows, NEW text, Writing(scr, q, R, rows, text), q # << >>
  PROVE  Drawn(put(scr, Head(q)), Tail(q), R)
<1>1. text \in Seq(Plain) /\ Showing(scr, rows, Tip(rows)) /\ Tip(rows) + Len(text) < SCR_WIDTH
  BY DEF Writing
<1>2. text \in Seq(Int) /\ LF \in Int
  BY <1>1, PlainAre DEF LF
<1>3. CASE text # << >>
  <2>1. PICK new, rest : OnItsWay(scr, rows, text, new, rest)
    BY <1>1, <1>3, OneMore
  <2>2. /\ rest \in Seq(Plain) /\ rest = Tail(text) /\ Showing(put(scr, Head(text)), new, Tip(new))
        /\ Tip(new) + Len(rest) < SCR_WIDTH /\ Cat(new, rest) = Cat(rows, text)
    BY <2>1 DEF OnItsWay
  <2>3. CASE q = text /\ R = Cat(rows, text)
    <3>1. Writing(put(scr, Head(q)), Tail(q), R, new, rest)
      BY <2>2, <2>3 DEF Writing
    <3> QED BY <3>1 DEF Drawn
  <2>4. CASE q = Append(text, LF) /\ Lined(R, Cat(rows, text))
    <3>1. Head(q) = Head(text) /\ Tail(q) = Append(rest, LF)
      <4>1. Head(Append(text, LF)) = Head(text)
        BY <1>2, <1>3
      <4>2. Tail(Append(text, LF)) = Append(Tail(text), LF)
        BY <1>2, <1>3
      <4> QED BY <2>2, <2>4, <4>1, <4>2
    <3>2. Lined(R, Cat(new, rest))
      BY <2>2, <2>4
    <3>3. Writing(put(scr, Head(q)), Tail(q), R, new, rest)
      BY <2>2, <3>1, <3>2 DEF Writing
    <3> QED BY <3>3 DEF Drawn
  <2> QED BY <2>3, <2>4 DEF Writing
<1>4. CASE text = << >>
  <2>1. q = Append(<< >>, LF) /\ Lined(R, Cat(rows, << >>))
    BY <1>4 DEF Writing
  <2>2. Head(q) = LF /\ Tail(q) = << >>
    BY <2>1
  <2>3. Fits(rows)
    BY <1>1 DEF Showing
  <2>4. Lined(R, rows)
    BY <2>1, <2>3, TipIs, CatNone
  <2>5. Showing(put(scr, LF), R, 0)
    BY <1>1, <2>4, ShowsLine
  <2>6. Tip(R) = 0
    <3>1. R[Len(R)] = << >>
      <4>1. PICK n \in Nat : n = Len(rows)
        BY <2>3 DEF Fits
      <4> QED BY <2>3, <2>4, <4>1, NextLine
    <3> QED BY <3>1 DEF Tip
  <2> QED BY <2>2, <2>5, <2>6, NothingOnItsWay
<1> QED BY <1>3, <1>4

LEMMA ErasingStep ==
  ASSUME NEW scr, NEW q, NEW R, NEW c, Erasing(scr, q, R, c)
  PROVE  Drawn(put(scr, Head(q)), Tail(q), R)
<1>1. c \in Plain /\ Tip(R) + 1 < SCR_WIDTH /\ Fits(R)
  BY DEF Erasing
<1>2. PICK k \in Nat : k = Tip(R)
  BY <1>1, TipIs
<1>3. PICK old : old = Cat(R, <<c>>)
  OBVIOUS
<1>4. (k + 1) - 1 = k /\ k + 1 >= 1
  OBVIOUS
<1>5. CASE q = <<BS, SPACE, BS>> /\ Showing(scr, old, k + 1)
  <2>1. Head(q) = BS /\ Tail(q) = <<SPACE, BS>>
    BY <1>5
  <2>2. Showing(put(scr, BS), old, k)
    <3>1. Showing(put(scr, BS), old, (k + 1) - 1)
      BY <1>4, <1>5, ShowsBack
    <3> QED BY <1>4, <3>1
  <2>3. Erasing(put(scr, Head(q)), Tail(q), R, c)
    BY <1>1, <1>2, <1>3, <2>1, <2>2 DEF Erasing
  <2> QED BY <2>3 DEF Drawn
<1>6. CASE q = <<SPACE, BS>> /\ Showing(scr, old, k)
  <2>1. Head(q) = SPACE /\ Tail(q) = <<BS>>
    BY <1>6
  <2>2. Replaces(old, R, k, SPACE)
    BY <1>1, <1>2, <1>3, CatUndot DEF Tip
  <2>3. SPACE \in Plain /\ k + 1 < SCR_WIDTH
    BY <1>1, <1>2 DEF Plain, SPACE
  <2>4. Showing(put(scr, SPACE), R, k + 1)
    BY <1>6, <2>2, <2>3, ShowsPlain
  <2>5. Erasing(put(scr, Head(q)), Tail(q), R, c)
    BY <1>1, <1>2, <2>1, <2>4 DEF Erasing
  <2> QED BY <2>5 DEF Drawn
<1>7. CASE q = <<BS>> /\ Showing(scr, R, k + 1)
  <2>1. Head(q) = BS /\ Tail(q) = << >>
    BY <1>7
  <2>2. Showing(put(scr, BS), R, Tip(R))
    <3>1. Showing(put(scr, BS), R, (k + 1) - 1)
      BY <1>4, <1>7, ShowsBack
    <3> QED BY <1>2, <1>4, <3>1
  <2> QED BY <2>1, <2>2, NothingOnItsWay
<1> QED BY <1>2, <1>3, <1>5, <1>6, <1>7 DEF Erasing

LEMMA DrawnStep ==
  ASSUME NEW scr, NEW q, NEW R, Drawn(scr, q, R), q # << >>
  PROVE  Drawn(put(scr, Head(q)), Tail(q), R)
BY WritingStep, ErasingStep DEF Drawn

-----------------------------------------------------------------------------
\* The screen and the session.  Only one process at a time has text on its way;
\* the screen, once it has come, is the log with the line that is being edited.
Edited == IF pc[Parent] = "getc" THEN typed ELSE << >>
Session == Cat(log, Edited)
Logged ==
  /\ Fits(log) /\ log[Len(log)] \in {<< >>, PROMPT}
  /\ pc[Parent] # "getc" => log[Len(log)] = << >>
OnlyOne(p) == \A q \in Proc : q # p => pending[q] = << >>
Drawing == \A p \in Proc : OnlyOne(p) => Drawn(screen, pending[p], Session)
AllInv == Inv /\ Logged /\ Drawing

LEMMA SomeOne == Control => \E p \in Proc : OnlyOne(p)
<1> SUFFICES ASSUME Control PROVE \E p \in Proc : OnlyOne(p)
  OBVIOUS
<1>1. CASE pending[Parent] # << >>
  <2>1. Holding(Parent) /\ ~Holding(Child)
    BY <1>1, Names DEF Control, Turns, Lock, Holding
  <2>2. pending[Child] = << >> /\ pending[Command] = << >>
    BY <2>1, Names DEF Control, Turns, Places, Holding
  <2> QED BY <2>2, Names DEF OnlyOne
<1>2. CASE pending[Parent] = << >> /\ pending[Child] # << >>
  <2>1. pending[Command] = << >>
    BY <1>2 DEF Control, Turns, Places
  <2> QED BY <1>2, <2>1, Names DEF OnlyOne
<1>3. CASE pending[Parent] = << >> /\ pending[Child] = << >>
  BY <1>3, Names DEF OnlyOne
<1> QED BY <1>1, <1>2, <1>3

\* Who has the semaphore and puts nothing is alone.
LEMMA Alone ==
  ASSUME Control, NEW p \in {Parent, Child}, Holding(p), pending[p] = << >>, pc[Child] # "collect"
  PROVE  \A q \in Proc : pending[q] = << >>
<1>1. pending[Command] = << >>
  BY DEF Control, Turns, Places
<1>2. PICK o \in {Parent, Child} : o = Other(p)
  BY Names
<1>3. o # p /\ Other(o) = p /\ Proc = {p, o, Command}
  BY <1>2, Names
<1>4. ~Holding(o)
  BY <1>2, <1>3 DEF Control, Lock
<1>5. pending[o] = << >>
  BY <1>4, Names DEF Control, Turns, Holding
<1> QED BY <1>1, <1>3, <1>5

LEMMA WordsPlain ==
  ASSUME NEW w \in Words
  PROVE  w \in Seq(Plain) /\ Len(w) \in Nat /\ Len(w) <= MaxLine
<1>1. \A c \in Letters : c \in Plain
  BY LettersAre DEF Plain
<1> QED BY <1>1 DEF Words

LEMMA PromptIs == PROMPT \in Seq(Plain) /\ Len(PROMPT) = 2 /\ MaxLine + 2 < SCR_WIDTH
<1>1. PROMPT \in Seq(Plain) /\ Len(PROMPT) = 2
  BY DEF PROMPT, Plain
<1> QED BY <1>1, LineAssumption

LEMMA SessionIs ==
  ASSUME Logged, Edited = << >>
  PROVE  Session = log
BY TipIs, CatNone DEF Session, Logged

LEMMA TipLog ==
  ASSUME Logged
  PROVE  /\ Fits(log) /\ log \in Seq(Seq(Plain)) /\ Len(log) >= 1
         /\ Tip(log) \in Nat /\ Tip(log) <= 2 /\ (pc[Parent] # "getc" => Tip(log) = 0)
<1>1. Fits(log)
  BY DEF Logged
<1>2. Len(<< >>) = 0
  OBVIOUS
<1>3. CASE log[Len(log)] = << >>
  BY <1>1, <1>2, <1>3, TipIs DEF Tip
<1>4. CASE log[Len(log)] = PROMPT /\ pc[Parent] = "getc"
  BY <1>1, <1>4, PromptIs, TipIs DEF Tip
<1> QED BY <1>3, <1>4 DEF Logged

\* The session is shown when nothing is on its way.
LEMMA ShownNow ==
  ASSUME Drawing, \A q \in Proc : pending[q] = << >>
  PROVE  Showing(screen, Session, Tip(Session))
<1>1. OnlyOne(Parent) /\ pending[Parent] = << >>
  BY Names DEF OnlyOne
<1>2. Drawn(screen, << >>, Session)
  BY <1>1, Names DEF Drawing
<1> QED BY <1>2, AllDrawn

\* Nothing is put, and the log and the line stay as they are.
LEMMA QuietKeeps ==
  ASSUME Logged, Drawing, UNCHANGED <<screen, pending, log, typed>>,
         pc'[Parent] = "getc" <=> pc[Parent] = "getc"
  PROVE  Logged' /\ Drawing'
<1>1. Logged'
  BY DEF Logged
<1>2. Session' = Session
  BY DEF Session, Edited
<1>3. \A p \in Proc : OnlyOne(p)' <=> OnlyOne(p)
  BY DEF OnlyOne
<1>4. Drawing'
  BY <1>2, <1>3 DEF Drawing
<1> QED BY <1>1, <1>4

\* A process starts to put a text.
LEMMA StartKeeps ==
  ASSUME Places, NEW p \in Proc, NEW text \in Seq(Int), text # << >>, Prints(p, text),
         Drawn(screen', text, Session')
  PROVE  Drawing'
<1>1. pending'[p] = text
  BY PrintsIs
<1>2. ASSUME NEW q \in Proc, OnlyOne(q)' PROVE Drawn(screen', pending'[q], Session')
  <2>1. q = p
    BY <1>1, <1>2 DEF OnlyOne
  <2> QED BY <1>1, <2>1
<1> QED BY <1>2 DEF Drawing

LEMMA PutcDraws ==
  ASSUME Control, Logged, Drawing, NEW p \in Proc, Putc(p)
  PROVE  Logged' /\ Drawing'
<1>1. /\ pending[p] # << >> /\ screen' = put(screen, Head(pending[p])) /\ Prints(p, Tail(pending[p]))
      /\ pc' = pc /\ log' = log /\ typed' = typed
  BY DEF Putc, history
<1>2. OnlyOne(p)
  BY <1>1, SomeOne DEF OnlyOne
<1>3. Drawn(screen, pending[p], Session)
  BY <1>2 DEF Drawing
<1>4. Session' = Session /\ Logged'
  BY <1>1 DEF Session, Edited, Logged
<1>5. pending[p] \in Seq(Int)
  BY DEF Control, Places
<1>6. Tail(pending[p]) \in Seq(Int)
  BY <1>1, <1>5
<1>7. pending'[p] = Tail(pending[p]) /\ \A q \in Proc : q # p => pending'[q] = << >>
  BY <1>1, <1>2, <1>6, PrintsIs DEF Control, OnlyOne
<1>8. Drawn(screen', pending'[p], Session')
  BY <1>1, <1>3, <1>4, <1>7, DrawnStep
<1>9. ASSUME NEW q \in Proc, OnlyOne(q)' PROVE Drawn(screen', pending'[q], Session')
  <2>1. CASE q = p
    BY <1>8, <2>1
  <2>2. CASE q # p
    <3>1. pending'[p] = << >> /\ pending'[q] = << >>
      BY <1>7, <1>9, <2>2 DEF OnlyOne
    <3> QED BY <1>8, <3>1
  <2> QED BY <2>1, <2>2
<1>10. Drawing'
  BY <1>9 DEF Drawing
<1> QED BY <1>4, <1>10

LEMMA PromptDraws == Inv /\ Logged /\ Drawing /\ Prompt => Logged' /\ Drawing'
<1> SUFFICES ASSUME Inv, Logged, Drawing, Prompt PROVE Logged' /\ Drawing'
  OBVIOUS
<1>1. /\ pc[Parent] = "prompt" /\ pending[Parent] = << >> /\ Prints(Parent, PROMPT) /\ Goto(Parent, "getc")
      /\ log' = OnLast(PROMPT) /\ screen' = screen /\ typed' = typed
  BY DEF Prompt, Ready
<1>2. Holding(Parent) /\ pc[Child] # "collect"
  <2>1. Holding(Parent)
    BY <1>1 DEF Holding
  <2> QED BY <2>1, Names DEF Inv, Control, Lock, Holding
<1>3. \A q \in Proc : pending[q] = << >>
  BY <1>1, <1>2, Alone DEF Inv
<1>4. pc'[Parent] = "getc"
  <2>1. "getc" \in Labels
    BY DEF Labels
  <2> QED BY <1>1, <2>1, GotoIs, Names DEF Inv, Control
<1>5. typed = << >>
  BY <1>1 DEF Inv, Line
<1>6. Session = log
  BY <1>1, SessionIs DEF Edited
<1>7. Showing(screen, log, Tip(log)) /\ Tip(log) = 0 /\ Fits(log) /\ log \in Seq(Seq(Plain)) /\ Len(log) >= 1
  BY <1>1, <1>3, <1>6, ShownNow, TipLog
<1>8. log' = Cat(log, PROMPT)
  BY <1>1 DEF OnLast, Cat
<1>9. PROMPT \in Seq(Plain) /\ Tip(log) + Len(PROMPT) < SCR_WIDTH
  BY <1>7, PromptIs, Numbers
<1>10. Longer(log', log, Len(PROMPT))
  BY <1>7, <1>8, <1>9, CatFits DEF Tip
<1>11. Fits(log') /\ Len(log') = Len(log)
  BY <1>10 DEF Longer
<1>12. log'[Len(log')] = PROMPT
  <2>1. Catted(log', log, PROMPT)
    BY <1>7, <1>8, <1>9, CatIs
  <2>2. log[Len(log)] = << >>
    BY <1>1 DEF Logged
  <2>3. << >> \o PROMPT = PROMPT
    BY <1>9, ConcatEmptySeq
  <2> QED BY <1>11, <2>1, <2>2, <2>3 DEF Catted
<1>13. Logged'
  BY <1>4, <1>11, <1>12 DEF Logged
<1>14. Session' = log'
  <2>1. Edited' = << >>
    BY <1>1, <1>5 DEF Edited
  <2> QED BY <1>11, <2>1, TipIs, CatNone DEF Session
<1>15. Writing(screen, PROMPT, log', log, PROMPT)
  BY <1>7, <1>8, <1>9 DEF Writing
<1>16. Drawn(screen', PROMPT, Session')
  BY <1>1, <1>14, <1>15 DEF Drawn
<1>17. PROMPT \in Seq(Int) /\ PROMPT # << >>
  BY <1>9, PlainAre, PromptIs
<1>18. Drawing'
  BY <1>1, <1>16, <1>17, StartKeeps, Names DEF Inv, Control
<1> QED BY <1>13, <1>18

\* While the parent waits for a key nothing is on its way, and the screen shows
\* the line that is being edited.
LEMMA Editing ==
  ASSUME Inv, Logged, Drawing, pc[Parent] = "getc", pending[Parent] = << >>
  PROVE  /\ \A q \in Proc : pending[q] = << >>
         /\ Session = Cat(log, typed) /\ Fits(Session) /\ Showing(screen, Session, Tip(Session))
         /\ typed \in Seq(Plain) /\ Len(typed) \in Nat /\ Len(typed) <= MaxLine
         /\ Tip(Session) = Tip(log) + Len(typed)
<1>1. Holding(Parent) /\ pc[Child] # "collect"
  <2>1. Holding(Parent)
    BY DEF Holding
  <2> QED BY <2>1, Names DEF Inv, Control, Lock, Holding
<1>2. \A q \in Proc : pending[q] = << >>
  BY <1>1, Alone DEF Inv
<1>3. Showing(screen, Session, Tip(Session))
  BY <1>2, ShownNow
<1>4. Session = Cat(log, typed)
  BY DEF Session, Edited
<1>5. typed \in Seq(Plain) /\ Len(typed) \in Nat /\ Len(typed) <= MaxLine
  BY WordsPlain DEF Inv, Line
<1>6. Fits(log) /\ Tip(log) \in Nat /\ Tip(log) <= 2
  BY TipLog
<1>7. Tip(log) + Len(typed) < SCR_WIDTH
  BY <1>5, <1>6, PromptIs, Numbers
<1>8. Longer(Session, log, Len(typed))
  BY <1>4, <1>5, <1>6, <1>7, CatFits DEF Tip
<1> QED BY <1>2, <1>3, <1>4, <1>5, <1>8 DEF Longer, Tip

LEMMA PressDraws ==
  ASSUME Inv, Logged, Drawing, NEW c \in Letters, Press(c)
  PROVE  Logged' /\ Drawing'
<1>1. /\ pc[Parent] = "getc" /\ pending[Parent] = << >> /\ Prints(Parent, <<c>>) /\ pc' = pc /\ log' = log
      /\ Len(typed) < MaxLine /\ typed' = Append(typed, c) /\ screen' = screen
  BY DEF Press, Pressed, Ready
<1>2. /\ Session = Cat(log, typed) /\ Fits(Session) /\ Showing(screen, Session, Tip(Session))
      /\ typed \in Seq(Plain) /\ Len(typed) \in Nat /\ Len(typed) <= MaxLine
      /\ Tip(Session) = Tip(log) + Len(typed)
  BY <1>1, Editing
<1>3. PICK one : one = <<c>>
  OBVIOUS
<1>4. c \in Plain /\ one \in Seq(Plain) /\ Len(one) = 1 /\ one # << >>
  <2>1. c \in Plain
    BY LettersAre DEF Plain
  <2> QED BY <1>3, <2>1
<1>5. typed' = typed \o one
  BY <1>1, <1>2, <1>3, <1>4, AppendIsConcat
<1>6. Fits(log) /\ log \in Seq(Seq(Plain)) /\ Len(log) >= 1 /\ Tip(log) \in Nat /\ Tip(log) <= 2
  BY TipLog
<1>7. Session' = Cat(Session, one)
  <2>1. Session' = Cat(log, typed \o one)
    BY <1>1, <1>5 DEF Session, Edited
  <2> QED BY <1>2, <1>4, <1>6, <2>1, CatCat
<1>8. Tip(Session) + Len(one) < SCR_WIDTH
  BY <1>1, <1>2, <1>4, <1>6, PromptIs, Numbers
<1>9. Writing(screen, one, Session', Session, one)
  BY <1>2, <1>4, <1>7, <1>8 DEF Writing
<1>10. Drawn(screen', one, Session')
  BY <1>1, <1>9 DEF Drawn
<1>11. Drawing'
  BY <1>1, <1>3, <1>4, <1>10, PlainAre, StartKeeps, Names DEF Inv, Control
<1>12. Logged'
  BY <1>1 DEF Logged
<1> QED BY <1>11, <1>12

\* A sequence is all but its last element, and that one.
LEMMA LastOne ==
  ASSUME NEW S, NEW t \in Seq(S), NEW n \in Nat, n = Len(t), n >= 1
  PROVE  /\ SubSeq(t, 1, n - 1) \in Seq(S) /\ Len(SubSeq(t, 1, n - 1)) = n - 1
         /\ t[n] \in S /\ SubSeq(t, 1, n - 1) \o <<t[n]>> = t
<1>1. PICK a : a = SubSeq(t, 1, n - 1)
  OBVIOUS
<1>2. a \in Seq(S) /\ Len(a) = n - 1 /\ \A i \in 1 .. n - 1 : a[i] = t[i]
  BY <1>1
<1>3. PICK x \in S : x = t[n]
  OBVIOUS
<1>4. PICK b : b = Append(a, x)
  OBVIOUS
<1>5. b \in Seq(S) /\ Len(b) = n /\ b[n] = x /\ \A i \in 1 .. n - 1 : b[i] = a[i]
  BY <1>2, <1>4
<1>6. \A i \in 1 .. n : b[i] = t[i]
  <2>1. ASSUME NEW i \in 1 .. n PROVE b[i] = t[i]
    <3>1. CASE i = n
      BY <1>3, <1>5, <3>1
    <3>2. CASE i # n
      <4>1. i \in 1 .. n - 1
        BY <3>2
      <4> QED BY <1>2, <1>5, <4>1
    <3> QED BY <3>1, <3>2
  <2> QED BY <2>1
<1>7. b = t
  BY <1>5, <1>6, SeqEqual
<1>8. b = a \o <<x>>
  BY <1>2, <1>4, AppendIsConcat
<1> QED BY <1>1, <1>2, <1>3, <1>7, <1>8

LEMMA BackspaceDraws == Inv /\ Logged /\ Drawing /\ Backspace => Logged' /\ Drawing'
<1> SUFFICES ASSUME Inv, Logged, Drawing, Backspace PROVE Logged' /\ Drawing'
  OBVIOUS
<1>1. /\ pc[Parent] = "getc" /\ pending[Parent] = << >> /\ pc' = pc /\ log' = log
      /\ typed' = SubSeq(typed, 1, Len(typed) - 1) /\ screen' = screen
  BY DEF Backspace, Pressed, Ready
<1>2. /\ Session = Cat(log, typed) /\ Fits(Session) /\ Showing(screen, Session, Tip(Session))
      /\ typed \in Seq(Plain) /\ Len(typed) <= MaxLine
      /\ Tip(Session) = Tip(log) + Len(typed)
  BY <1>1, Editing
<1>3. PICK n \in Nat : n = Len(typed)
  BY <1>2
<1>4. index = n
  BY <1>3 DEF Inv, Line
<1>5. CASE index > 0
  <2>1. Prints(Parent, <<BS, SPACE, BS>>)
    BY <1>5 DEF Backspace
  <2>2. n >= 1
    BY <1>4, <1>5
  <2>3. PICK t, x : t = SubSeq(typed, 1, n - 1) /\ x = typed[n]
    OBVIOUS
  <2>4. t \in Seq(Plain) /\ Len(t) = n - 1 /\ x \in Plain /\ t \o <<x>> = typed /\ typed' = t
    <3>1. t \in Seq(Plain) /\ Len(t) = n - 1 /\ x \in Plain /\ t \o <<x>> = typed
      BY <1>2, <1>3, <2>2, <2>3, LastOne
    <3>2. typed' = t
      BY <1>1, <1>3, <2>3
    <3> QED BY <3>1, <3>2
  <2>5. PICK one : one = <<x>>
    OBVIOUS
  <2>6. one \in Seq(Plain)
    BY <2>4, <2>5
  <2>7. Fits(log) /\ log \in Seq(Seq(Plain)) /\ Len(log) >= 1
    BY TipLog
  <2>8. PICK k \in Nat : k = Tip(log) /\ k <= 2
    BY TipLog
  <2>9. PICK R : R = Cat(log, t)
    OBVIOUS
  <2>10. Session' = R
    BY <1>1, <2>4, <2>9 DEF Session, Edited
  <2>11. Session = Cat(R, one)
    <3>1. Cat(R, one) = Cat(log, t \o one)
      BY <2>4, <2>6, <2>7, <2>9, CatCat
    <3> QED BY <1>2, <2>4, <2>5, <3>1
  <2>12. k + n < SCR_WIDTH
    BY <1>2, <1>3, <2>8, PromptIs, Numbers
  <2>13. Longer(R, log, Len(t))
    <3>1. Tip(log) + Len(t) < SCR_WIDTH
      BY <2>4, <2>8, <2>12, Numbers
    <3> QED BY <2>4, <2>7, <2>9, <3>1, CatFits DEF Tip
  <2>14. Fits(R) /\ Tip(R) = k + (n - 1)
    BY <2>4, <2>8, <2>13 DEF Longer, Tip
  <2>15. Tip(Session) = Tip(R) + 1 /\ Tip(R) + 1 < SCR_WIDTH
    BY <1>2, <1>3, <2>8, <2>12, <2>14
  <2>16. Erasing(screen, <<BS, SPACE, BS>>, R, x)
    BY <1>2, <2>4, <2>5, <2>11, <2>14, <2>15 DEF Erasing
  <2>17. Drawn(screen', <<BS, SPACE, BS>>, Session')
    BY <1>1, <2>10, <2>16 DEF Drawn
  <2>18. <<BS, SPACE, BS>> \in Seq(Int) /\ <<BS, SPACE, BS>> # << >>
    BY DEF BS, SPACE
  <2>19. Drawing'
    BY <2>1, <2>17, <2>18, StartKeeps, Names DEF Inv, Control
  <2>20. Logged'
    BY <1>1 DEF Logged
  <2> QED BY <2>19, <2>20
<1>6. CASE ~(index > 0)
  <2>1. n = 0
    BY <1>4, <1>6
  <2>2. typed = << >>
    BY <1>2, <1>3, <2>1, EmptySeq
  <2>3. typed' = typed
    BY <1>1, <2>2
  <2>4. pending' = pending
    BY <1>6 DEF Backspace
  <2> QED BY <1>1, <2>3, <2>4, QuietKeeps
<1> QED BY <1>5, <1>6

\* The session goes on in the next line.
LEMMA LineGoesOn ==
  ASSUME NEW rows, Fits(rows), NEW new, Lined(new, rows)
  PROVE  Fits(new) /\ new[Len(new)] = << >> /\ Cat(new, << >>) = new
<1>1. PICK n \in Nat : n = Len(rows)
  BY DEF Fits
<1>2. Fits(new) /\ new[Len(new)] = << >>
  BY <1>1, NextLine
<1> QED BY <1>2, TipIs, CatNone

LEMMA NewlineDraws == Inv /\ Logged /\ Drawing /\ Newline => Logged' /\ Drawing'
<1> SUFFICES ASSUME Inv, Logged, Drawing, Newline PROVE Logged' /\ Drawing'
  OBVIOUS
<1>1. /\ pc[Parent] = "getc" /\ pending[Parent] = << >> /\ Prints(Parent, <<LF>>) /\ Goto(Parent, "line")
      /\ log' = Shown(Append(OnLast(typed), << >>)) /\ screen' = screen
  BY DEF Newline, Pressed, Ready
<1>2. /\ Session = Cat(log, typed) /\ Fits(Session) /\ Showing(screen, Session, Tip(Session))
  BY <1>1, Editing
<1>3. Lined(log', Session)
  BY <1>1, <1>2 DEF Lined, OnLast, Cat
<1>4. Fits(log') /\ log'[Len(log')] = << >> /\ Cat(log', << >>) = log'
  BY <1>2, <1>3, LineGoesOn
<1>5. pc'[Parent] = "line"
  <2>1. "line" \in Labels
    BY DEF Labels
  <2> QED BY <1>1, <2>1, GotoIs, Names DEF Inv, Control
<1>6. Logged'
  BY <1>4 DEF Logged
<1>7. Session' = log'
  BY <1>4, <1>5 DEF Session, Edited
<1>8. << >> \in Seq(Plain) /\ Len(<< >>) = 0 /\ <<LF>> = Append(<< >>, LF)
  OBVIOUS
<1>9. Cat(Session, << >>) = Session
  BY <1>2, TipIs, CatNone
<1>10. Tip(Session) + Len(<< >>) < SCR_WIDTH
  <2>1. Tip(Session) \in Nat /\ Tip(Session) < SCR_WIDTH
    BY <1>2, TipIs
  <2> QED BY <1>8, <2>1
<1>11. Writing(screen, <<LF>>, log', Session, << >>)
  BY <1>2, <1>3, <1>8, <1>9, <1>10 DEF Writing
<1>12. Drawn(screen', <<LF>>, Session')
  BY <1>1, <1>7, <1>11 DEF Drawn
<1>13. <<LF>> \in Seq(Int) /\ <<LF>> # << >>
  BY DEF LF
<1>14. Drawing'
  BY <1>1, <1>12, <1>13, StartKeeps, Names DEF Inv, Control
<1> QED BY <1>6, <1>14

\* When the line ends nothing changes on the screen.
LEMMA EndLineDraws == Inv /\ Logged /\ Drawing /\ EndLine => Logged' /\ Drawing'
<1> SUFFICES ASSUME Inv, Logged, Drawing, EndLine PROVE Logged' /\ Drawing'
  OBVIOUS
<1>1. /\ pc[Parent] = "line" /\ typed' = << >> /\ UNCHANGED <<screen, pending, log>>
  BY DEF EndLine, Scanned, Ready
<1>2. Edited = << >> /\ Edited' = << >>
  BY <1>1 DEF Edited
<1>3. Session' = Session
  BY <1>1, <1>2 DEF Session
<1>4. Logged'
  BY <1>1 DEF Logged
<1>5. \A p \in Proc : OnlyOne(p)' <=> OnlyOne(p)
  BY <1>1 DEF OnlyOne
<1>6. Drawing'
  BY <1>1, <1>3, <1>5 DEF Drawing
<1> QED BY <1>4, <1>6

LEMMA PrintsLineDraws ==
  ASSUME Inv, Logged, Drawing, pc[Parent] # "getc", pc'[Parent] = pc[Parent], screen' = screen,
         \A q \in Proc : pending[q] = << >>,
         NEW p \in Proc, NEW text \in Seq(Plain), Len(text) < SCR_WIDTH, PrintsLine(p, text)
  PROVE  Logged' /\ Drawing'
<1>1. Prints(p, Append(text, LF)) /\ log' = Shown(Append(OnLast(text), << >>))
  BY DEF PrintsLine
<1>2. Session = log
  BY SessionIs DEF Edited
<1>3. Showing(screen, log, Tip(log)) /\ Tip(log) = 0 /\ Fits(log) /\ log \in Seq(Seq(Plain)) /\ Len(log) >= 1
  BY <1>2, ShownNow, TipLog
<1>4. PICK rows : rows = Cat(log, text)
  OBVIOUS
<1>5. Tip(log) + Len(text) < SCR_WIDTH
  BY <1>3
<1>6. Longer(rows, log, Len(text))
  BY <1>3, <1>4, <1>5, CatFits DEF Tip
<1>7. Fits(rows)
  BY <1>6 DEF Longer
<1>8. Lined(log', rows)
  BY <1>1, <1>4 DEF Lined, OnLast, Cat
<1>9. Fits(log') /\ log'[Len(log')] = << >> /\ Cat(log', << >>) = log'
  BY <1>7, <1>8, LineGoesOn
<1>10. Logged'
  BY <1>9 DEF Logged
<1>11. Session' = log'
  BY <1>9 DEF Session, Edited
<1>12. Writing(screen, Append(text, LF), log', log, text)
  BY <1>3, <1>4, <1>5, <1>8 DEF Writing
<1>13. Drawn(screen', Append(text, LF), Session')
  BY <1>11, <1>12 DEF Drawn
<1>14. Append(text, LF) \in Seq(Int) /\ Append(text, LF) # << >>
  <2>1. text \in Seq(Int) /\ LF \in Int
    BY PlainAre DEF LF
  <2>2. Append(text, LF) \in Seq(Int) /\ Len(Append(text, LF)) = Len(text) + 1 /\ Len(text) \in Nat
    BY <2>1
  <2>3. Append(text, LF) # << >>
    BY <2>2
  <2> QED BY <2>2, <2>3
<1>15. Drawing'
  BY <1>1, <1>13, <1>14, StartKeeps DEF Inv, Control
<1> QED BY <1>10, <1>15

LEMMA RecvDraws == Inv /\ Logged /\ Drawing /\ Recv => Logged' /\ Drawing'
<1> SUFFICES ASSUME Inv, Logged, Drawing, Recv PROVE Logged' /\ Drawing'
  OBVIOUS
<1>1. /\ pc[Child] = "recv" /\ pending[Child] = << >> /\ queue # << >>
      /\ screen' = screen /\ typed' = typed
  BY DEF Recv, Ready
<1>2. Holding(Child) /\ ~Holding(Parent)
  <2>1. Holding(Child)
    BY <1>1 DEF Holding
  <2> QED BY <2>1, Names DEF Inv, Control, Lock
<1>3. pc[Parent] # "getc"
  BY <1>2 DEF Holding
<1>4. \A q \in Proc : pending[q] = << >>
  BY <1>1, <1>2, Alone DEF Inv
<1>5. queue \in Seq(Words)
  BY DEF Inv, Posted
<1>6. PICK h \in Words : h = Head(queue)
  BY <1>1, <1>5
<1>7. \/ \E l \in Labels : Goto(Child, l) /\ UNCHANGED <<pending, log>>
      \/ Goto(Child, "post") /\ PrintsLine(Child, h)
  BY <1>6 DEF Recv, Labels
<1>8. pc'[Parent] = pc[Parent]
  <2>1. "post" \in Labels
    BY DEF Labels
  <2> QED BY <1>7, <2>1, GotoIs, Names DEF Inv, Control
<1>9. CASE UNCHANGED <<pending, log>>
  BY <1>1, <1>8, <1>9, QuietKeeps
<1>10. CASE PrintsLine(Child, h)
  <2>1. h \in Seq(Plain) /\ Len(h) < SCR_WIDTH
    <3>1. h \in Seq(Plain) /\ Len(h) \in Nat /\ Len(h) <= MaxLine
      BY WordsPlain
    <3> QED BY <3>1, PromptIs, Numbers
  <2> QED BY <1>1, <1>3, <1>4, <1>8, <1>10, <2>1, PrintsLineDraws, Names
<1> QED BY <1>7, <1>9, <1>10

LEMMA ForkDraws == Inv /\ Logged /\ Drawing /\ Fork => Logged' /\ Drawing'
<1> SUFFICES ASSUME Inv, Logged, Drawing, Fork PROVE Logged' /\ Drawing'
  OBVIOUS
<1>1. /\ pc[Child] = "fork" /\ pending[Child] = << >> /\ screen' = screen /\ typed' = typed
  BY DEF Fork, Ready
<1>2. Holding(Child) /\ ~Holding(Parent)
  <2>1. Holding(Child)
    BY <1>1 DEF Holding
  <2> QED BY <2>1, Names DEF Inv, Control, Lock
<1>3. pc[Parent] # "getc"
  BY <1>2 DEF Holding
<1>4. \A q \in Proc : pending[q] = << >>
  BY <1>1, <1>2, Alone DEF Inv
<1>5. CASE /\ pc' = [pc EXCEPT ![Child] = "collect", ![Command] = "exit"]
           /\ PrintsLine(Command, Output)
  <2>1. pc'[Parent] = pc[Parent]
    BY <1>5, Names DEF Inv, Control, Places
  <2>2. Output \in Seq(Plain) /\ Len(Output) < SCR_WIDTH
    <3>1. Output \in Seq(Plain) /\ Len(Output) = 1
      BY DEF Output, Plain
    <3> QED BY <3>1, PromptIs, Numbers
  <2> QED BY <1>1, <1>3, <1>4, <1>5, <2>1, <2>2, PrintsLineDraws, Names
<1>6. CASE Goto(Child, "post") /\ UNCHANGED <<pending, log>>
  <2>1. "post" \in Labels
    BY DEF Labels
  <2>2. pc'[Parent] = pc[Parent]
    BY <1>6, <2>1, GotoIs, Names DEF Inv, Control
  <2> QED BY <1>1, <1>6, <2>2, QuietKeeps
<1> QED BY <1>5, <1>6 DEF Fork

\* The steps that put nothing and leave the log alone.
LEMMA QuietSteps ==
  ASSUME Inv, Logged, Drawing, UNCHANGED <<screen, pending, log, typed>>,
         NEW p \in Proc, NEW l \in Labels, Goto(p, l), p = Parent => pc[Parent] # "getc" /\ l # "getc"
  PROVE  Logged' /\ Drawing'
<1>1. pc'[p] = l /\ \A q \in Proc : q # p => pc'[q] = pc[q]
  BY GotoIs DEF Inv, Control
<1>2. pc'[Parent] = "getc" <=> pc[Parent] = "getc"
  BY <1>1, Names
<1> QED BY <1>2, QuietKeeps

LEMMA SemWaitDraws ==
  ASSUME Inv, Logged, Drawing, NEW p \in {Parent, Child}, SemWait(p)
  PROVE  Logged' /\ Drawing'
<1>1. PICK l : l = IF Blocks(dollar, Dollar) THEN "asleep" ELSE Granted(p)
  OBVIOUS
<1>2. /\ l \in Labels /\ Goto(p, l) /\ (l = "asleep" \/ l = Granted(p)) /\ pc[p] = "wait"
      /\ UNCHANGED <<screen, pending, log, typed>>
  BY <1>1 DEF Labels, Granted, SemWait, Ready, history
<1>3. p = Parent => pc[Parent] # "getc" /\ l # "getc"
  BY <1>2 DEF Granted
<1> QED BY <1>2, <1>3, QuietSteps, Names

LEMMA SemPostDraws ==
  ASSUME Inv, Logged, Drawing, NEW p \in {Parent, Child}, SemPost(p)
  PROVE  Logged' /\ Drawing'
<1>1. /\ pc[p] = "post" /\ UNCHANGED <<screen, pending, log, typed>>
      /\ pc' = [q \in Proc |->
                CASE q = p -> IF p = Parent /\ IsExit(buf) THEN "join" ELSE "wait"
                  [] q # p -> IF Wakes(dollar, Dollar) /\ Woken(dollar, Dollar) = q
                              THEN Granted(q) ELSE pc[q]]
  BY DEF SemPost, Ready, history
<1>2. CASE p = Parent
  <2>1. pc'[Parent] = "join" \/ pc'[Parent] = "wait"
    BY <1>1, <1>2, Names, Zenon
  <2>2. pc'[Parent] = "getc" <=> pc[Parent] = "getc"
    BY <1>1, <1>2, <2>1
  <2> QED BY <1>1, <2>2, QuietKeeps
<1>3. CASE p = Child
  <2>1. pc'[Parent] = IF Wakes(dollar, Dollar) /\ Woken(dollar, Dollar) = Parent THEN "prompt" ELSE pc[Parent]
    BY <1>1, <1>3, Names DEF Granted
  <2>2. ~Holding(Parent)
    <3>1. Holding(Child)
      BY <1>1, <1>3 DEF Holding
    <3> QED BY <3>1, Names DEF Inv, Control, Lock
  <2>3. pc[Parent] # "getc"
    BY <2>2 DEF Holding
  <2>4. pc'[Parent] = "getc" <=> pc[Parent] = "getc"
    BY <2>1, <2>3
  <2> QED BY <1>1, <2>4, QuietKeeps
<1> QED BY <1>2, <1>3

LEMMA DrawsNext == Inv /\ Logged /\ Drawing /\ [Next]_vars => Logged' /\ Drawing'
<1> SUFFICES ASSUME Inv, Logged, Drawing, [Next]_vars PROVE Logged' /\ Drawing'
  OBVIOUS
<1>1. CASE \E p \in Proc : Putc(p)
  BY <1>1, PutcDraws DEF Inv
<1>2. CASE \E p \in {Parent, Child} : SemWait(p)
  BY <1>2, SemWaitDraws
<1>3. CASE \E p \in {Parent, Child} : SemPost(p)
  BY <1>3, SemPostDraws
<1>4. CASE Prompt
  BY <1>4, PromptDraws
<1>5. CASE EndLine
  BY <1>5, EndLineDraws
<1>6. CASE Send
  <2>1. /\ pc[Parent] = "send" /\ Goto(Parent, "post") /\ "post" \in Labels
        /\ UNCHANGED <<screen, pending, log, typed>>
    BY <1>6 DEF Send, Ready, history, Labels
  <2> QED BY <2>1, QuietSteps, Names
<1>7. CASE Join
  <2>1. /\ pc[Parent] = "join" /\ Goto(Parent, "done") /\ "done" \in Labels
        /\ UNCHANGED <<screen, pending, log, typed>>
    BY <1>7 DEF Join, Ready, history, Labels
  <2> QED BY <2>1, QuietSteps, Names
<1>8. CASE RecvNothing
  <2>1. /\ Goto(Child, "post") /\ "post" \in Labels
        /\ UNCHANGED <<screen, pending, log, typed>>
    BY <1>8 DEF RecvNothing, history, Labels
  <2> QED BY <2>1, QuietSteps, Names
<1>9. CASE Recv
  BY <1>9, RecvDraws
<1>10. CASE Fork
  BY <1>10, ForkDraws
<1>11. CASE Collect
  <2>1. /\ pc' = [pc EXCEPT ![Child] = "post", ![Command] = "none"]
        /\ UNCHANGED <<screen, pending, log, typed>>
    BY <1>11 DEF Collect, history
  <2>2. pc'[Parent] = pc[Parent]
    BY <2>1, Names DEF Inv, Control, Places
  <2> QED BY <2>1, <2>2, QuietKeeps
<1>12. CASE Exit
  <2>1. /\ Goto(Command, "zombie") /\ "zombie" \in Labels
        /\ UNCHANGED <<screen, pending, log, typed>>
    BY <1>12 DEF Exit, history, Labels
  <2> QED BY <2>1, QuietSteps, Names
<1>13. CASE Backspace
  BY <1>13, BackspaceDraws
<1>14. CASE Newline
  BY <1>14, NewlineDraws
<1>15. CASE \E c \in Letters : Press(c)
  BY <1>15, PressDraws
<1>16. CASE UNCHANGED vars
  <2>1. pc' = pc /\ UNCHANGED <<screen, pending, log, typed>>
    BY <1>16 DEF vars, history
  <2> QED BY <2>1, QuietKeeps
<1> QED
  BY <1>1, <1>2, <1>3, <1>4, <1>5, <1>6, <1>7, <1>8, <1>9, <1>10, <1>11, <1>12, <1>13, <1>14,
     <1>15, <1>16, Names
  DEF Next, ParentStep, ChildStep, CommandStep, User, Terminal

LEMMA DrawsInit == Init => Logged /\ Drawing
<1> SUFFICES ASSUME Init PROVE Logged /\ Drawing
  OBVIOUS
<1>1. /\ screen = Empty /\ log = << << >> >> /\ pc[Parent] = "wait"
      /\ \A p \in Proc : pending[p] = << >>
  BY Names DEF Init
<1>2. << << >> >> \in Seq(Seq(Plain)) /\ Len(<< << >> >>) = 1 /\ << << >> >>[1] = << >> /\ Len(<< >>) = 0
  <2>1. << >> \in Seq(Plain)
    OBVIOUS
  <2> QED BY <2>1
<1>3. Fits(log) /\ log[Len(log)] = << >> /\ Len(log) = 1 /\ Tip(log) = 0
  BY <1>1, <1>2, Numbers DEF Fits, Tip
<1>4. Logged
  BY <1>3 DEF Logged
<1>5. Session = log
  BY <1>1, <1>4, SessionIs DEF Edited
<1>6. PICK m : m = [r \in 1 .. SCR_HEIGHT |-> BlankRow]
  OBVIOUS
<1>7. PICK b : b = BlankRow
  OBVIOUS
<1>8. b \in Seq(Int) /\ Len(b) = SCR_WIDTH /\ \A i \in 1 .. SCR_WIDTH : b[i] = NUL
  BY <1>7, Numbers DEF BlankRow, NUL
<1>9. m \in Seq(Seq(Int)) /\ Len(m) = SCR_HEIGHT /\ \A r \in 1 .. SCR_HEIGHT : m[r] = b
  BY <1>6, <1>7, <1>8, Numbers
<1>10. Sized(m)
  BY <1>8, <1>9 DEF Sized, Cells
<1>11. screen = Screen(Len(log) - 1, 0, m)
  <2>1. Len(log) - 1 = 0
    BY <1>3
  <2>2. screen = [row |-> 0, col |-> 0, cell |-> m]
    BY <1>1, <1>6 DEF Empty
  <2> QED BY <2>1, <2>2 DEF Screen
<1>12. ASSUME NEW r \in 1 .. SCR_HEIGHT, NEW i \in 1 .. SCR_WIDTH
       PROVE  Glyph(m[r][i]) = Dot(log, r, i)
  <2>1. m[r][i] = NUL
    BY <1>8, <1>9
  <2>2. Dot(log, r, i) = SPACE
    <3>1. CASE r <= Len(log)
      <4>1. r = 1 /\ log[r] = << >>
        BY <1>3, <3>1
      <4>2. ~(i <= Len(log[r]))
        BY <1>2, <4>1
      <4> QED BY <3>1, <4>2 DEF Dot
    <3>2. CASE ~(r <= Len(log))
      BY <3>2 DEF Dot
    <3> QED BY <3>1, <3>2
  <2> QED BY <2>1, <2>2 DEF Glyph
<1>13. 0 \in 0 .. SCR_WIDTH - 1
  BY Numbers
<1>14. Showing(screen, log, Tip(log))
  BY <1>3, <1>10, <1>11, <1>12, <1>13 DEF Showing
<1>15. Drawn(screen, << >>, Session)
  BY <1>5, <1>14, NothingOnItsWay
<1>16. Drawing
  BY <1>1, <1>15 DEF Drawing
<1> QED BY <1>4, <1>16

\* The inductive invariant with the screen: whatever is on its way, once it has
\* come the screen shows the log and the line that is being edited.
THEOREM AlwaysDrawn == Spec => []AllInv
<1>1. Init => AllInv
  BY InvInit, DrawsInit DEF AllInv
<1>2. AllInv /\ [Next]_vars => AllInv'
  BY InvNext, DrawsNext DEF AllInv
<1> QED BY <1>1, <1>2, PTL DEF Spec

-----------------------------------------------------------------------------
\* From what is drawn to the screen itself.
LEMMA ScreenHolds ==
  ASSUME NEW scr, NEW rows, NEW col, Showing(scr, rows, col)
  PROVE  scr.row = Len(rows) - 1 /\ scr.col = col /\ scr.row \in Rows /\ scr.col \in Cols
<1>1. PICK m : scr = Screen(Len(rows) - 1, col, m)
  BY DEF Showing
<1>2. scr.row = Len(rows) - 1 /\ scr.col = col
  BY <1>1, Parts
<1>3. PICK n \in 1 .. SCR_HEIGHT : n = Len(rows)
  BY DEF Showing, Fits
<1>4. col \in Cols
  BY DEF Showing, Cols
<1>5. n - 1 \in 0 .. SCR_HEIGHT - 1
  BY Numbers
<1> QED BY <1>2, <1>3, <1>4, <1>5 DEF Rows

LEMMA CursorHolds ==
  ASSUME NEW scr, NEW q, NEW R, Drawn(scr, q, R)
  PROVE  scr.row \in Rows /\ scr.col \in Cols
<1>1. \E rows, col : Showing(scr, rows, col)
  BY DEF Drawn, Writing, Erasing
<1> QED BY <1>1, ScreenHolds

LEMMA DollarHolds ==
  ASSUME Control
  PROVE  dollar \in [value : [{Dollar} -> -1 .. 1], waiters : [{Dollar} -> Seq(Proc)], avail : {<< >>}]
<1>1. \E v \in -1 .. 1, w \in Seq(Proc) : dollar = Table(v, w)
  <2>1. << >> \in Seq(Proc) /\ \A p \in Proc : <<p>> \in Seq(Proc)
    OBVIOUS
  <2>2. 1 \in -1 .. 1 /\ 0 \in -1 .. 1 /\ -1 \in -1 .. 1
    OBVIOUS
  <2>3. \A p \in {Parent, Child} : Other(p) \in Proc
    BY Names
  <2> QED BY <2>1, <2>2, <2>3 DEF Control, Lock
<1>2. PICK v \in -1 .. 1, w \in Seq(Proc) : dollar = Table(v, w)
  BY <1>1
<1> QED BY <1>2 DEF Table

\* The place in the line, the cursor and the semaphore: backspaces of the user and
\* of the echo never lead before the start of the line, nor text behind the edge
\* of the screen, and the semaphore is never more than one.
THEOREM AlwaysTyped == Spec => []TypeOK
<1>1. AllInv => TypeOK
  <2> SUFFICES ASSUME AllInv PROVE TypeOK
    OBVIOUS
  <2>1. PICK p \in Proc : Drawn(screen, pending[p], Session)
    BY SomeOne DEF AllInv, Inv, Drawing
  <2>2. screen.row \in Rows /\ screen.col \in Cols
    BY <2>1, CursorHolds
  <2>3. index \in 0 .. MaxLine
    <3>1. Len(typed) \in Nat /\ Len(typed) <= MaxLine
      BY WordsAre DEF AllInv, Inv, Line
    <3> QED BY <3>1, Numbers DEF AllInv, Inv, Line
  <2>4. dollar \in [value : [{Dollar} -> -1 .. 1], waiters : [{Dollar} -> Seq(Proc)], avail : {<< >>}]
    BY DollarHolds DEF AllInv, Inv
  <2> QED BY <2>2, <2>3, <2>4 DEF TypeOK, AllInv, Inv, Control, Places
<1> QED BY <1>1, AlwaysDrawn, PTL

\* A line as ShowsText writes it, and the cells that show it.
LEMMA RowShown ==
  ASSUME NEW row \in Seq(Int), Len(row) = SCR_WIDTH, NEW line \in Seq(Plain), Len(line) < SCR_WIDTH,
         \A i \in 1 .. SCR_WIDTH : Glyph(row[i]) = IF i <= Len(line) THEN line[i] ELSE SPACE
  PROVE  Glyphs(row) = Written(line)
<1>1. PICK g : g = Glyphs(row)
  OBVIOUS
<1>2. \A i \in 1 .. SCR_WIDTH : (IF row[i] = NUL THEN SPACE ELSE row[i]) \in Int
  BY DEF SPACE
<1>3. DOMAIN row = 1 .. SCR_WIDTH
  OBVIOUS
<1>4. g = [i \in 1 .. SCR_WIDTH |-> IF row[i] = NUL THEN SPACE ELSE row[i]]
  BY <1>1, <1>3 DEF Glyphs
<1>5. g \in Seq(Int) /\ Len(g) = SCR_WIDTH /\ \A i \in 1 .. SCR_WIDTH : g[i] = Glyph(row[i])
  BY <1>2, <1>4, Numbers DEF Glyph
<1>6. PICK n \in Nat : n = Len(line)
  OBVIOUS
<1>7. PICK k \in Nat : k = SCR_WIDTH - n
  BY <1>6, Numbers
<1>8. PICK b : b = [i \in 1 .. k |-> SPACE]
  OBVIOUS
<1>9. b \in Seq(Int) /\ Len(b) = k /\ \A i \in 1 .. k : b[i] = SPACE
  BY <1>8 DEF SPACE
<1>10. line \in Seq(Int)
  BY PlainAre
<1>11. PICK w : w = line \o b
  OBVIOUS
<1>12. /\ w \in Seq(Int) /\ Len(w) = n + k
       /\ \A i \in 1 .. n + k : w[i] = IF i <= n THEN line[i] ELSE b[i - n]
  <2>1. /\ line \o b \in Seq(Int) /\ Len(line \o b) = Len(line) + Len(b)
        /\ \A i \in 1 .. Len(line) + Len(b) :
             (line \o b)[i] = IF i <= Len(line) THEN line[i] ELSE b[i - Len(line)]
    BY <1>9, <1>10, ConcatProperties
  <2> QED BY <1>6, <1>9, <1>11, <2>1
<1>13. n + k = SCR_WIDTH
  BY <1>7, Numbers
<1>14. \A i \in 1 .. SCR_WIDTH : w[i] = g[i]
  <2>1. ASSUME NEW i \in 1 .. SCR_WIDTH PROVE w[i] = g[i]
    <3>1. CASE i <= n
      BY <1>5, <1>6, <1>12, <1>13, <3>1
    <3>2. CASE ~(i <= n)
      <4>1. i - n \in 1 .. k
        BY <1>13, <3>2, Numbers
      <4>2. w[i] = SPACE
        BY <1>9, <1>12, <1>13, <3>2, <4>1
      <4> QED BY <1>5, <1>6, <3>2, <4>2
    <3> QED BY <3>1, <3>2
  <2> QED BY <2>1
<1>15. w = g
  BY <1>5, <1>12, <1>13, <1>14, SeqEqual
<1>16. w = Written(line)
  BY <1>6, <1>7, <1>8, <1>11 DEF Written
<1> QED BY <1>1, <1>15, <1>16

\* Whenever nothing is on its way the screen shows the end of the session, with
\* the cursor behind the last line: parent, child and command never mix their
\* characters, and what was erased is gone from the screen as from the line.
THEOREM AlwaysShows == Spec => []ShowsText
<1>1. AllInv => ShowsText
  <2> SUFFICES ASSUME AllInv, \A p \in Proc : pending[p] = << >>
               PROVE  LET rows == OnLast(IF pc[Parent] = "getc" THEN typed ELSE << >>)
                      IN  /\ \A r \in 1 .. SCR_HEIGHT :
                               Glyphs(screen.cell[r]) = Written(IF r <= Len(rows) THEN rows[r] ELSE << >>)
                          /\ screen.row = Len(rows) - 1 /\ screen.col = Len(Last(rows))
    BY DEF ShowsText
  <2>1. PICK rows : rows = Session
    OBVIOUS
  <2>2. OnLast(IF pc[Parent] = "getc" THEN typed ELSE << >>) = rows
    BY <2>1 DEF OnLast, Session, Edited, Cat
  <2>3. Showing(screen, rows, Tip(rows))
    BY <2>1, ShownNow DEF AllInv
  <2>4. screen.row = Len(rows) - 1 /\ screen.col = Tip(rows)
    BY <2>3, ScreenHolds
  <2>5. screen.col = Len(Last(rows))
    BY <2>4 DEF Tip, Last
  <2>6. PICK m : /\ screen = Screen(Len(rows) - 1, Tip(rows), m) /\ Sized(m)
                 /\ \A r \in 1 .. SCR_HEIGHT, i \in 1 .. SCR_WIDTH : Glyph(m[r][i]) = Dot(rows, r, i)
    BY <2>3 DEF Showing
  <2>7. screen.cell = m
    BY <2>6, Parts
  <2>8. Fits(rows)
    BY <2>3 DEF Showing
  <2>9. ASSUME NEW r \in 1 .. SCR_HEIGHT
        PROVE  Glyphs(m[r]) = Written(IF r <= Len(rows) THEN rows[r] ELSE << >>)
    <3>1. m[r] \in Seq(Int) /\ Len(m[r]) = SCR_WIDTH
      BY <2>6 DEF Sized, Cells
    <3>2. CASE r <= Len(rows)
      <4>1. rows[r] \in Seq(Plain) /\ Len(rows[r]) < SCR_WIDTH
        <5>1. r \in 1 .. Len(rows)
          BY <2>8, <3>2 DEF Fits
        <5> QED BY <2>8, <5>1 DEF Fits
      <4>2. \A i \in 1 .. SCR_WIDTH : Glyph(m[r][i]) = IF i <= Len(rows[r]) THEN rows[r][i] ELSE SPACE
        BY <2>6, <3>2 DEF Dot
      <4>3. Glyphs(m[r]) = Written(rows[r])
        BY <3>1, <4>1, <4>2, RowShown
      <4> QED BY <3>2, <4>3
    <3>3. CASE ~(r <= Len(rows))
      <4>1. << >> \in Seq(Plain) /\ Len(<< >>) = 0 /\ Len(<< >>) < SCR_WIDTH
        BY Numbers
      <4>2. \A i \in 1 .. SCR_WIDTH : Glyph(m[r][i]) = IF i <= Len(<< >>) THEN << >>[i] ELSE SPACE
        <5>1. \A i \in 1 .. SCR_WIDTH : Glyph(m[r][i]) = SPACE /\ ~(i <= Len(<< >>))
          BY <2>6, <3>3, <4>1 DEF Dot
        <5> QED BY <5>1
      <4>3. Glyphs(m[r]) = Written(<< >>)
        BY <3>1, <4>1, <4>2, RowShown
      <4> QED BY <3>3, <4>3
    <3> QED BY <3>2, <3>3
  <2> QED BY <2>2, <2>4, <2>5, <2>7, <2>9
<1> QED BY <1>1, AlwaysDrawn, PTL

-----------------------------------------------------------------------------
\* The characters of a string: none of them is the 0 that ends it.
Character == {c \in Int : c # NUL}

\* The loops of strcmp and strncmp stop: a set of natural numbers has a least one.
LEMMA Least ==
  ASSUME NEW S \in SUBSET Nat, S # {}
  PROVE  Min(S) \in S /\ \A k \in S : Min(S) <= k
<1>1. \E m \in S : \A k \in S : <<k, m>> \notin OpToRel(<, Nat)
  BY NatLessThanWellFounded, WFMin
<1>2. PICK m \in S : \A k \in S : ~(k < m)
  BY <1>1 DEF OpToRel
<1>3. \A k \in S : m <= k
  BY <1>2
<1> QED BY <1>3 DEF Min

LEMMA AtIs ==
  ASSUME NEW a \in Seq(Character), NEW i \in Nat
  PROVE  /\ i < Len(a) => At(a, i) = a[i + 1] /\ At(a, i) \in Int /\ At(a, i) # NUL
         /\ ~(i < Len(a)) => At(a, i) = NUL
<1>1. Len(a) \in Nat
  OBVIOUS
<1>2. CASE i < Len(a)
  <2>1. i + 1 \in 1 .. Len(a)
    BY <1>1, <1>2
  <2>2. a[i + 1] \in Character
    BY <2>1
  <2> QED BY <1>2, <2>2 DEF At, Character
<1> QED BY <1>2 DEF At

\* Where strcmp stops: at the first difference, or at the end of one of the two.
LEMMA StopsAt ==
  ASSUME NEW a \in Seq(Character), NEW b \in Seq(Character)
  PROVE  LET i == Differ(a, b, -1)
         IN  /\ i \in Nat /\ i <= Len(a) /\ i <= Len(b)
             /\ \A j \in Nat : j < i => At(a, j) = At(b, j)
             /\ \A j \in Nat : j <= Len(a) /\ ~GoesOn(a, b, j, -1) => i <= j
             /\ ~GoesOn(a, b, i, -1)
<1>1. PICK S : S = {i \in 0 .. Len(a) : ~GoesOn(a, b, i, -1)}
  OBVIOUS
<1>2. Len(a) \in Nat /\ Len(b) \in Nat
  OBVIOUS
<1>3. Len(a) \in S
  <2>1. At(a, Len(a)) = NUL
    BY <1>2, AtIs
  <2> QED BY <1>1, <1>2, <2>1 DEF GoesOn
<1>4. S \in SUBSET Nat
  BY <1>1, <1>2
<1>5. PICK i : i = Differ(a, b, -1)
  OBVIOUS
<1>6. i = Min(S)
  BY <1>1, <1>5 DEF Differ
<1>7. i \in S /\ \A k \in S : i <= k
  BY <1>3, <1>4, <1>6, Least
<1>8. i \in Nat /\ i <= Len(a) /\ ~GoesOn(a, b, i, -1)
  BY <1>1, <1>2, <1>7
<1>9. \A j \in Nat : j < i => GoesOn(a, b, j, -1)
  BY <1>1, <1>2, <1>7, <1>8
<1>10. \A j \in Nat : j < i => At(a, j) = At(b, j) /\ At(b, j) # NUL
  BY <1>9 DEF GoesOn
<1>11. i <= Len(b)
  <2> SUFFICES ASSUME Len(b) < i PROVE FALSE
    BY <1>2, <1>8
  <2>1. At(b, Len(b)) = NUL
    BY <1>2, AtIs
  <2> QED BY <1>2, <1>10, <2>1
<1>12. \A j \in Nat : j <= Len(a) /\ ~GoesOn(a, b, j, -1) => i <= j
  BY <1>1, <1>2, <1>7
<1> QED BY <1>5, <1>8, <1>10, <1>11, <1>12

\* strcmp says 0 for equal strings and for no others, whatever their lengths and
\* characters, and has the sign of the first difference inside both.
THEOREM StrcmpRight ==
  ASSUME NEW a \in Seq(Character), NEW b \in Seq(Character)
  PROVE  /\ strcmp(a, b) = 0 <=> a = b
         /\ \A i \in Nat : (/\ i < Len(a) /\ i < Len(b) /\ At(a, i) # At(b, i)
                            /\ \A j \in Nat : j < i => At(a, j) = At(b, j)) =>
                (strcmp(a, b) < 0 <=> At(a, i) < At(b, i))
<1>1. PICK d : d = Differ(a, b, -1)
  OBVIOUS
<1>2. /\ d \in Nat /\ d <= Len(a) /\ d <= Len(b)
      /\ \A j \in Nat : j < d => At(a, j) = At(b, j)
      /\ \A j \in Nat : j <= Len(a) /\ ~GoesOn(a, b, j, -1) => d <= j
      /\ ~GoesOn(a, b, d, -1)
  BY <1>1, StopsAt
<1>3. Len(a) \in Nat /\ Len(b) \in Nat /\ NUL = 0 /\ d # -1
  BY <1>2 DEF NUL
<1>4. PICK x, y : x = At(a, d) /\ y = At(b, d)
  OBVIOUS
<1>5. strcmp(a, b) = IF x # NUL /\ y # NUL THEN x - y ELSE IF x # NUL \/ y # NUL THEN 1 ELSE 0
  BY <1>1, <1>3, <1>4 DEF strcmp, Compare
<1>6. /\ d < Len(a) => x \in Int /\ x # NUL
      /\ d < Len(b) => y \in Int /\ y # NUL
      /\ ~(d < Len(a)) => x = NUL
      /\ ~(d < Len(b)) => y = NUL
  BY <1>2, <1>4, AtIs
<1>7. x # NUL /\ y # NUL => x # y /\ x \in Int /\ y \in Int
  BY <1>2, <1>3, <1>4, <1>6 DEF GoesOn
<1>8. ASSUME a = b PROVE strcmp(a, b) = 0
  BY <1>4, <1>5, <1>7, <1>8
<1>9. ASSUME strcmp(a, b) = 0 PROVE a = b
  <2>1. x = NUL /\ y = NUL
    <3>1. CASE x # NUL /\ y # NUL
      <4>1. x - y = 0 /\ x # y /\ x \in Int /\ y \in Int
        BY <1>5, <1>7, <1>9, <3>1
      <4> QED BY <4>1
    <3> QED BY <1>5, <1>9, <3>1
  <2>2. d = Len(a) /\ d = Len(b)
    BY <1>2, <1>3, <1>6, <2>1
  <2>3. \A k \in 1 .. Len(a) : a[k] = b[k]
    <3> TAKE k \in 1 .. Len(a)
    <3>1. PICK j : j = k - 1
      OBVIOUS
    <3>2. j \in Nat /\ j < d /\ k = j + 1
      BY <1>3, <2>2, <3>1
    <3>3. At(a, j) = At(b, j)
      BY <1>2, <3>2
    <3>4. At(a, j) = a[j + 1] /\ At(b, j) = b[j + 1]
      BY <2>2, <3>2, AtIs
    <3> QED BY <3>2, <3>3, <3>4
  <2> QED BY <2>2, <2>3, SeqEqual
<1>10. ASSUME NEW i \in Nat, i < Len(a), i < Len(b), At(a, i) # At(b, i),
              \A j \in Nat : j < i => At(a, j) = At(b, j)
       PROVE  strcmp(a, b) < 0 <=> At(a, i) < At(b, i)
  <2>1. d <= i
    BY <1>2, <1>3, <1>10 DEF GoesOn
  <2>2. d < Len(a) /\ d < Len(b)
    BY <1>2, <1>3, <1>10, <2>1
  <2>3. x # NUL /\ y # NUL /\ x # y /\ x \in Int /\ y \in Int
    BY <1>6, <1>7, <2>2
  <2>4. d = i
    <3>1. ~(d < i)
      BY <1>2, <1>4, <1>10, <2>3
    <3> QED BY <1>2, <1>10, <2>1, <3>1
  <2>5. strcmp(a, b) = x - y
    BY <1>5, <2>3
  <2>6. x - y < 0 <=> x < y
    BY <2>3
  <2> QED BY <1>4, <2>4, <2>5, <2>6
<1> QED BY <1>8, <1>9, <1>10

\* The child exits for the word exit and runs a command for its name, and neither
\* for any other word (main.c, strcmp(buf, ...)).
THEOREM OnlyForItsName ==
  ASSUME NEW w \in Words
  PROVE  /\ IsExit(w) <=> w = ExitWord
         /\ strcmp(w, CommandWord) = 0 <=> w = CommandWord
<1>1. Letters \subseteq Character
  BY LettersAre DEF Character
<1>2. w \in Seq(Character)
  BY <1>1, WordsAre
<1>3. ExitWord \in Seq(Character) /\ CommandWord \in Seq(Character)
  BY DEF ExitWord, CommandWord, Character, NUL
<1> QED BY <1>2, <1>3, StrcmpRight DEF IsExit
=============================================================================
