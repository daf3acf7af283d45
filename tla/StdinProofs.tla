------------------------------ MODULE StdinProofs ------------------------------
(***************************************************************************)
(* Proofs about Stdin: for any number of readers, any size of the ring and *)
(* any letters, the keys typed are read in order, each once (AbsStdin), and *)
(* the table in use is the one that the keys held and the lock say.         *)
(***************************************************************************)
EXTENDS Stdin, FiniteSetTheorems, SequenceTheorems, TLAPS

\* A key that is held sends its code once.
NoRepeats == Repeats = FALSE

Value == dev.value[stdin]
Waiting == dev.waiters[stdin]

\* Who may be in sys_read, what the semaphore says of a sleeper, and that the
\* key looked at for its type is still there when its code is read.
CallInv ==
    /\ \A p, q \in Reader : pc[p] # "user" /\ pc[q] # "user" => p = q
    /\ \A p \in Reader : /\ pc[p] = "asleep" => Value = -1 /\ Waiting = <<p>>
                         /\ pc[p] = "code" => type[p] = keyBuffer[bufferHead].type
    /\ (\A p \in Reader : pc[p] # "asleep") => Value >= 0 /\ Waiting = << >>

\* The semaphore tells how many keys the ring holds, from bufferHead on.
Place(i) == (bufferHead + i) % MAX_KEYBUFFER_SIZE
RingInv ==
    /\ Unread <= MAX_KEYBUFFER_SIZE
    /\ bufferTail = Place(Unread)
    /\ \A i \in 0 .. Unread - 1 : keyBuffer[Place(i)] \in Key

RInv == TypeOK /\ CallInv /\ RingInv
-----------------------------------------------------------------------------
\* What the semaphore, its waiters and the readers past it amount to.
UnreadFacts ==
    /\ Unread \in Nat
    /\ \A p \in Reader : /\ pc[p] = "asleep" => Unread = 0
                         /\ pc[p] \in {"type", "code"} => Unread = Value + 1
    /\ (\A p \in Reader : pc[p] \notin {"asleep", "type", "code"}) => Unread = Value

LEMMA UnreadIs == TypeOK /\ CallInv => UnreadFacts
<1> SUFFICES ASSUME TypeOK, CallInv PROVE UnreadFacts  OBVIOUS
<1> DEFINE n == Cardinality(Claiming)
<1>1. Claiming = {} => n = 0  BY FS_EmptySet
<1>2. ASSUME NEW p \in Reader, pc[p] \in {"type", "code"} PROVE n = 1
  <2>1. Claiming = {p}  BY <1>2 DEF Claiming, CallInv
  <2> QED BY <2>1, FS_Singleton
<1>3. Value \in Int  BY DEF TypeOK, SemTables, Value
<1>4. Unread = Value + Len(Waiting) + n  BY DEF Unread, Value, Waiting
<1>5. ASSUME NEW p \in Reader, pc[p] = "asleep" PROVE Unread = 0
  <2>1. n = 0  BY <1>1, <1>5 DEF Claiming, CallInv
  <2>2. Value = -1 /\ Len(Waiting) = 1  BY <1>5 DEF CallInv
  <2> HIDE DEF n
  <2> QED BY <1>4, <2>1, <2>2
<1>6. ASSUME NEW p \in Reader, pc[p] \in {"type", "code"} PROVE Value >= 0 /\ Unread = Value + 1
  <2>1. Value >= 0 /\ Len(Waiting) = 0  BY <1>6 DEF CallInv
  <2>2. n = 1  BY <1>2, <1>6
  <2> HIDE DEF n
  <2> QED BY <1>3, <1>4, <2>1, <2>2
<1>7. ASSUME \A p \in Reader : pc[p] \notin {"asleep", "type", "code"}
      PROVE  Value >= 0 /\ Unread = Value
  <2>1. Value >= 0 /\ Len(Waiting) = 0  BY <1>7 DEF CallInv
  <2>2. n = 0  BY <1>1, <1>7 DEF Claiming
  <2> HIDE DEF n
  <2> QED BY <1>3, <1>4, <2>1, <2>2
<1> QED BY <1>3, <1>5, <1>6, <1>7 DEF UnreadFacts

LEMMA UnreadIsNext == (TypeOK /\ CallInv)' => UnreadFacts'
BY UnreadIs, PTL
-----------------------------------------------------------------------------
\* Indices modulo the size of the ring.
Size == MAX_KEYBUFFER_SIZE

LEMMA ModIs ==
  ASSUME NEW n \in Nat \ {0}, NEW a \in 0 .. 2 * n
  PROVE  a % n = IF a < n THEN a ELSE IF a < 2 * n THEN a - n ELSE 0
BY SMT

LEMMA Wrapped ==
  ASSUME NEW a \in 0 .. 2 * Size
  PROVE  /\ a % Size \in Slot
         /\ a % Size = IF a < Size THEN a ELSE IF a < 2 * Size THEN a - Size ELSE 0
<1>1. PICK n \in Nat \ {0} : n = Size  BY BufferAssumption DEF Size
<1>2. a % n = IF a < n THEN a ELSE IF a < 2 * n THEN a - n ELSE 0  BY <1>1, ModIs
<1> DEFINE m == a % n
<1>3. m = IF a < n THEN a ELSE IF a < 2 * n THEN a - n ELSE 0  BY <1>2
<1> HIDE DEF m
<1>4. m \in Slot  BY <1>1, <1>3 DEF Slot, Size
<1> QED BY <1>1, <1>3, <1>4 DEF m

LEMMA PlaceIs ==
  ASSUME NEW h \in 0 .. Size, NEW i \in 0 .. Size
  PROVE  /\ (h + i) % Size \in Slot
         /\ (h + i) % Size = IF h + i < Size THEN h + i
                             ELSE IF h + i < 2 * Size THEN h + i - Size ELSE 0
<1>1. PICK a : a = h + i /\ a \in 0 .. 2 * Size  BY BufferAssumption DEF Size
<1>2. /\ a % Size \in Slot
      /\ a % Size = IF a < Size THEN a ELSE IF a < 2 * Size THEN a - Size ELSE 0
  BY <1>1, Wrapped
<1>3. Size \in Nat  BY BufferAssumption DEF Size
<1> QED BY <1>1, <1>2, <1>3

LEMMA PlaceNext ==
  ASSUME NEW h \in 0 .. Size, NEW i \in 0 .. Size - 1
  PROVE  (((h + i) % Size) + 1) % Size = (h + (i + 1)) % Size
<1>1. Size \in Nat \ {0} /\ i \in 0 .. Size /\ i + 1 \in 0 .. Size  BY BufferAssumption DEF Size
<1> DEFINE a == (h + i) % Size
           b == (h + (i + 1)) % Size
<1>2. /\ a \in Slot
      /\ a = IF h + i < Size THEN h + i ELSE IF h + i < 2 * Size THEN h + i - Size ELSE 0
  BY <1>1, PlaceIs
<1>3. b = IF h + (i + 1) < Size THEN h + (i + 1)
          ELSE IF h + (i + 1) < 2 * Size THEN h + (i + 1) - Size ELSE 0
  BY <1>1, PlaceIs
<1> HIDE DEF a, b
<1>4. a \in 0 .. Size /\ 1 \in 0 .. Size  BY <1>1, <1>2 DEF Slot, Size
<1> DEFINE c == (a + 1) % Size
<1>5. c = IF a + 1 < Size THEN a + 1 ELSE IF a + 1 < 2 * Size THEN a + 1 - Size ELSE 0
  BY <1>4, PlaceIs
<1> HIDE DEF c
<1>6. c = b  BY <1>1, <1>2, <1>3, <1>5 DEF Slot, Size
<1> QED BY <1>6 DEF a, b, c

\* Fewer places than the ring has slots are all different.
LEMMA PlaceApart ==
  ASSUME NEW h \in 0 .. Size, NEW u \in 0 .. Size - 1, NEW i \in 0 .. u - 1
  PROVE  (h + i) % Size # (h + u) % Size
<1>1. Size \in Nat \ {0} /\ i \in 0 .. Size /\ u \in 0 .. Size  BY BufferAssumption DEF Size
<1> DEFINE a == (h + i) % Size
           b == (h + u) % Size
<1>2. a = IF h + i < Size THEN h + i ELSE IF h + i < 2 * Size THEN h + i - Size ELSE 0
  BY <1>1, PlaceIs
<1>3. b = IF h + u < Size THEN h + u ELSE IF h + u < 2 * Size THEN h + u - Size ELSE 0
  BY <1>1, PlaceIs
<1> HIDE DEF a, b
<1>4. a # b  BY <1>1, <1>2, <1>3
<1> QED BY <1>4 DEF a, b

\* The wrap of bufferHead moves no key.
LEMMA PlaceWrapped ==
  ASSUME NEW h \in 0 .. Size, NEW i \in 0 .. Size
  PROVE  h % Size \in Slot /\ ((h % Size) + i) % Size = (h + i) % Size
<1>1. Size \in Nat \ {0} /\ Slot \subseteq 0 .. Size /\ 0 \in Slot  BY BufferAssumption DEF Size, Slot
<1>2. h % Size = IF h < Size THEN h ELSE 0  BY <1>1, Wrapped, h \in 0 .. 2 * Size
<1> DEFINE g == h % Size
<1>3. g \in Slot  BY <1>1, <1>2 DEF Slot, Size
<1> DEFINE a == (g + i) % Size
           b == (h + i) % Size
<1>4. b = IF h + i < Size THEN h + i ELSE IF h + i < 2 * Size THEN h + i - Size ELSE 0
  BY PlaceIs
<1> SUFFICES ASSUME g = IF h < Size THEN h ELSE 0 PROVE a = b  BY <1>2, <1>3
<1> HIDE DEF g
<1>5. a = IF g + i < Size THEN g + i ELSE IF g + i < 2 * Size THEN g + i - Size ELSE 0
  BY <1>1, <1>3, PlaceIs
<1> HIDE DEF a, b
<1> QED BY <1>1, <1>4, <1>5
-----------------------------------------------------------------------------
\* The semaphore with at most one waiter, who is the first in line.
LEMMA OneRemoved == ASSUME NEW p PROVE RemoveFirst(<<p>>, p) = << >>
<1> DEFINE s == <<p>>
           I == {i \in 1 .. Len(s) : s[i] = p}
<1>1. I = {1}  OBVIOUS
<1>2. Min(I) = 1  BY <1>1 DEF Min
<1>3. RemoveFirst(s, p) = RemoveAt(s, 1)  BY <1>1, <1>2 DEF RemoveFirst, SelectInSeq
<1>4. RemoveAt(s, 1) = << >>  BY DEF RemoveAt
<1> QED BY <1>3, <1>4

LEMMA UpIs ==
  ASSUME NEW T \in SemTables({stdin}, Reader), NEW w, w = T.waiters[stdin],
         w = << >> \/ \E p \in Reader : w = <<p>>
  PROVE  /\ Up(T, stdin) \in SemTables({stdin}, Reader)
         /\ Up(T, stdin).value[stdin] = T.value[stdin] + 1
         /\ Up(T, stdin).waiters[stdin] = IF Wakes(T, stdin) THEN << >> ELSE w
<1> DEFINE v == IF Wakes(T, stdin) THEN RemoveFirst(w, Woken(T, stdin)) ELSE w
<1>1. v = IF Wakes(T, stdin) THEN << >> ELSE w
  <2>1. CASE w = << >>  BY <2>1 DEF Wakes
  <2>2. ASSUME NEW p \in Reader, w = <<p>> PROVE RemoveFirst(w, Woken(T, stdin)) = << >>
    BY <2>2, OneRemoved DEF Woken
  <2> QED BY <2>1, <2>2
<1>2. v \in Seq(Reader)
  <2>1. << >> \in Seq(Reader) /\ \A p \in Reader : <<p>> \in Seq(Reader)  OBVIOUS
  <2> HIDE DEF v
  <2> QED BY <1>1, <2>1
<1>3. Up(T, stdin) = [T EXCEPT !.value[stdin] = @ + 1, !.waiters[stdin] = v]  BY DEF Up
<1> HIDE DEF v
<1>4. Up(T, stdin) = [value   |-> [T.value EXCEPT ![stdin] = T.value[stdin] + 1],
                      waiters |-> [T.waiters EXCEPT ![stdin] = v], avail |-> T.avail]
  BY <1>3 DEF SemTables
<1> QED BY <1>1, <1>2, <1>4 DEF SemTables

LEMMA DownIs ==
  ASSUME NEW T \in SemTables({stdin}, Reader), NEW p \in Reader, T.waiters[stdin] = << >>
  PROVE  /\ Down(T, stdin, p) \in SemTables({stdin}, Reader)
         /\ Down(T, stdin, p).value[stdin] = T.value[stdin] - 1
         /\ Down(T, stdin, p).waiters[stdin] = IF Blocks(T, stdin) THEN <<p>> ELSE << >>
<1> DEFINE v == IF Blocks(T, stdin) THEN <<p>> ELSE << >>
<1>1. v \in Seq(Reader)  OBVIOUS
<1>2. Down(T, stdin, p) = [T EXCEPT !.value[stdin] = @ - 1, !.waiters[stdin] = v]
  BY DEF Down
<1> HIDE DEF v
<1>3. Down(T, stdin, p) = [value   |-> [T.value EXCEPT ![stdin] = T.value[stdin] - 1],
                           waiters |-> [T.waiters EXCEPT ![stdin] = v], avail |-> T.avail]
  BY <1>2 DEF SemTables
<1> QED BY <1>1, <1>3 DEF SemTables, v

LEMMA Bounds ==
  ASSUME TypeOK
  PROVE  /\ Size \in Nat \ {0} /\ Slot = 0 .. Size - 1 /\ 0 \in Slot
         /\ bufferHead \in 0 .. Size /\ bufferTail \in Slot /\ Value \in Int
         /\ dev \in SemTables({stdin}, Reader)
BY BufferAssumption DEF TypeOK, Size, Slot, Value, SemTables

LEMMA InitRInv == Init => RInv
<1> SUFFICES ASSUME Init PROVE RInv  OBVIOUS
<1>1. TypeOK
  <2>1. KbTypeOK  BY DEF Init, KbInit, KbTypeOK
  <2>2. 0 \in Slot  BY BufferAssumption DEF Slot
  <2>3. dev \in SemTables({stdin}, Reader)  BY DEF Init, SemTables
  <2> QED BY <2>1, <2>2, <2>3 DEF Init, TypeOK
<1>2. CallInv  BY DEF Init, CallInv, Value, Waiting
<1>3. Unread = 0  BY <1>1, <1>2, UnreadIs DEF UnreadFacts, Init, Value
<1>4. (0 + 0) % Size = 0  BY PlaceIs, BufferAssumption DEF Size
<1>5. RingInv  BY <1>3, <1>4, BufferAssumption DEF RingInv, Place, Init, Size
<1> QED BY <1>1, <1>2, <1>5 DEF RInv

\* A step that leaves the ring and the number of unread keys alone.
LEMMA RingStays ==
  ASSUME RInv, UNCHANGED <<keyBuffer, bufferHead, bufferTail>>, Unread' = Unread
  PROVE  RingInv'
BY DEF RInv, RingInv, Place

LEMMA NextStateIs ==
  ASSUME keyboardState \in 0 .. 2, NEW key, NEW press \in BOOLEAN
  PROVE  NextState(key, press) \in 0 .. 2
<1>1. \/ NextState(key, press) = keyboardState + 1 /\ keyboardState < 2
      \/ NextState(key, press) \in {0, keyboardState}
  BY Zenon DEF NextState
<1> QED BY <1>1

LEMMA ModifyRInv ==
  ASSUME RInv, NEW key \in Modifiers, NEW press \in BOOLEAN, Modify(key, press)
  PROVE  RInv'
<1> USE DEF RInv, Modify
<1>1. KbTypeOK'
  <2>1. keyTable' \in {"L", "U"}  BY DEF TypeOK, KbTypeOK, GetKeyCode, Switched
  <2>2. keyboardState' \in 0 .. 2  BY NextStateIs DEF TypeOK, KbTypeOK, GetKeyCode
  <2>3. held' \subseteq Modifiers  BY DEF TypeOK, KbTypeOK, Sends
  <2> QED BY <2>1, <2>2, <2>3 DEF KbTypeOK
<1>2. TypeOK'  BY <1>1 DEF TypeOK, At
<1>3. CallInv'  BY DEF CallInv, Value, Waiting
<1>4. Unread' = Unread  BY DEF Unread, Claiming
<1> QED BY <1>2, <1>3, <1>4, RingStays

LEMMA ReadRInv ==
  ASSUME RInv, NEW p \in Reader, Read(p)
  PROVE  RInv'
<1> USE DEF RInv, Read, Refuse, At, Goto
<1>1. TypeOK'  BY DEF TypeOK, KbTypeOK, kbvars
<1>2. CallInv'
  <2>1. CASE Value < 0  BY <2>1 DEF CallInv, Value, Waiting
  <2>2. CASE ~(Value < 0)
    <3>1. \A q \in Reader : pc[q] # "asleep"  BY <2>2 DEF CallInv
    <3>2. pc' = [pc EXCEPT ![p] = "wait"]  BY <2>2 DEF Value
    <3>3. \A q \in Reader : pc'[q] = IF q = p THEN "wait" ELSE "user"  BY <3>1, <3>2 DEF TypeOK
    <3> QED BY <3>1, <3>3 DEF CallInv, Value, Waiting
  <2> QED BY <2>1, <2>2
<1>3. Unread' = Unread
  <2>1. Claiming' = Claiming  BY DEF Claiming, TypeOK
  <2> QED BY <2>1 DEF Unread
<1> QED BY <1>1, <1>2, <1>3, RingStays

LEMMA WaitRInv ==
  ASSUME RInv, NEW p \in Reader, Wait(p)
  PROVE  RInv'
<1> USE DEF RInv, Wait, At, Goto
<1>1. /\ \A q \in Reader : q # p => pc[q] = "user"
      /\ Value >= 0 /\ Waiting = << >> /\ Unread = Value
  BY UnreadIs DEF CallInv, UnreadFacts
<1>2. /\ dev' \in SemTables({stdin}, Reader) /\ Value' = Value - 1
      /\ Waiting' = IF Blocks(dev, stdin) THEN <<p>> ELSE << >>
  BY <1>1, Bounds, DownIs DEF Value, Waiting
<1>3. \A q \in Reader : pc'[q] = IF q = p THEN IF Blocks(dev, stdin) THEN "asleep" ELSE "type"
                                 ELSE "user"
  BY <1>1 DEF TypeOK
<1>4. TypeOK'  BY <1>2, <1>3 DEF TypeOK, KbTypeOK, kbvars
<1>5. Blocks(dev, stdin) <=> Value = 0  BY <1>1, Bounds DEF Blocks, Value
<1>6. CallInv'  BY <1>1, <1>2, <1>3, <1>5, Bounds DEF CallInv
<1>7. Unread' = Unread
  BY <1>1, <1>2, <1>3, <1>4, <1>5, <1>6, Bounds, UnreadIsNext DEF UnreadFacts
<1> QED BY <1>4, <1>6, <1>7, RingStays

LEMMA ReadTypeRInv ==
  ASSUME RInv, NEW p \in Reader, ReadType(p)
  PROVE  RInv'
<1> USE DEF RInv, ReadType, At, Goto
<1>1. /\ \A q \in Reader : q # p => pc[q] = "user"
      /\ Value >= 0 /\ Waiting = << >> /\ Unread = Value + 1
  BY UnreadIs DEF CallInv, UnreadFacts
<1>2. /\ \A q \in Reader : pc'[q] = IF q = p THEN "code" ELSE "user"
      /\ bufferHead \in Slot
  BY <1>1 DEF TypeOK
<1>3. keyBuffer[bufferHead].type \in {"NORMAL", "BACKSPACE", "NEWLINE"}
  BY <1>2 DEF TypeOK, Key, Blank
<1>4. TypeOK'  BY <1>2, <1>3 DEF TypeOK, KbTypeOK, kbvars
<1>5. CallInv'  BY <1>1, <1>2 DEF CallInv, Value, Waiting, TypeOK
<1>6. Unread' = Unread
  BY <1>1, <1>2, <1>4, <1>5, UnreadIsNext DEF UnreadFacts, Value
<1> QED BY <1>4, <1>5, <1>6, RingStays

\* What the handler puts into the ring.
LEMMA PressedIs ==
  ASSUME TypeOK, NEW c \in Letter \cup {"BACKSPACE", "NEWLINE"}
  PROVE  Pressed(c) \in Key
<1>1. CASE c \in Letter  BY <1>1 DEF Pressed, GetChar, Key, Normal, TypeOK, KbTypeOK
<1>2. CASE c \notin Letter  BY <1>2 DEF Pressed, Key
<1> QED BY <1>1, <1>2

\* A key pressed goes behind the unread ones, and a sleeper past its sem_wait.
LEMMA PressFacts ==
  ASSUME RInv, NEW c \in Letter \cup {"BACKSPACE", "NEWLINE"}, Press(c)
  PROVE  /\ TypeOK' /\ CallInv'
         /\ Unread \in 0 .. Size - 1 /\ Unread' = Unread + 1
         /\ \A q \in Reader : pc'[q] = IF pc[q] = "asleep" THEN "type" ELSE pc[q]
<1> USE DEF RInv, Press, Goto
<1>1. Unread \in 0 .. Size - 1
  BY UnreadIs, Bounds DEF UnreadFacts, Size
<1>2. TypeOK /\ CallInv /\ UnreadFacts  BY UnreadIs
<1>3. /\ Waiting = << >> \/ \E p \in Reader : Waiting = <<p>>
      /\ Value \in Int /\ dev \in SemTables({stdin}, Reader)
  BY Bounds DEF CallInv
<1>4. /\ dev' \in SemTables({stdin}, Reader) /\ Value' = Value + 1
      /\ Waiting' = IF Wakes(dev, stdin) THEN << >> ELSE Waiting
  BY <1>3, UpIs DEF Value, Waiting
<1>5. keyBuffer' \in [Slot -> Key \cup {Blank}] /\ bufferTail' \in Slot
  <2>1. Pressed(c) \in Key  BY PressedIs
  <2>2. bufferTail \in 0 .. Size /\ 1 \in 0 .. Size  BY Bounds
  <2>3. bufferTail' \in Slot  BY <2>2, PlaceIs DEF Size
  <2> QED BY <2>1, <2>3 DEF TypeOK
<1>6. CASE \E p \in Reader : pc[p] = "asleep"
  <2>1. PICK p \in Reader : pc[p] = "asleep"  BY <1>6
  <2>2. Value = -1 /\ Waiting = <<p>> /\ \A q \in Reader : q # p => pc[q] = "user"
    BY <2>1, <1>2 DEF CallInv
  <2>3. Wakes(dev, stdin) /\ Woken(dev, stdin) = p
    BY <2>2 DEF Wakes, Woken, Value, Waiting
  <2>4. \A q \in Reader : pc'[q] = IF q = p THEN "type" ELSE pc[q]
    BY <2>3 DEF TypeOK
  <2>5. TypeOK'
    BY <1>4, <1>5, <2>1, <2>2, <2>3, <2>4 DEF TypeOK, KbTypeOK, kbvars, At
  <2>6. CallInv'  BY <1>4, <2>2, <2>3, <2>4 DEF CallInv
  <2>7. Unread = 0 /\ Unread' = 1
    BY <1>2, <1>4, <2>1, <2>2, <2>4, <2>5, <2>6, UnreadIsNext DEF UnreadFacts
  <2> QED BY <1>1, <2>1, <2>2, <2>4, <2>5, <2>6, <2>7
<1>7. CASE \A p \in Reader : pc[p] # "asleep"
  <2>1. Value >= 0 /\ Waiting = << >>  BY <1>7, <1>2 DEF CallInv
  <2>2. ~Wakes(dev, stdin) /\ UNCHANGED pc  BY <2>1 DEF Wakes, Waiting
  <2>3. TypeOK'  BY <1>4, <1>5, <2>2 DEF TypeOK, KbTypeOK, kbvars, At
  <2>4. CallInv'
    <3>1. ASSUME NEW p \in Reader, pc[p] = "code"
          PROVE  type[p] = keyBuffer'[bufferHead].type
      <4>1. Unread = Value + 1 /\ bufferHead \in Slot
        BY <3>1, <1>2 DEF UnreadFacts, TypeOK, CallInv, At
      <4>2. 0 \in 0 .. Unread - 1  BY <4>1, <2>1, <1>3
      <4>3. bufferTail = (bufferHead + Unread) % Size  BY DEF RingInv, Place, Size
      <4>4. (bufferHead + 0) % Size # bufferTail  BY <4>2, <4>3, <1>1, Bounds, PlaceApart
      <4>5. (bufferHead + 0) % Size = bufferHead  BY <4>1, Bounds, PlaceIs
      <4>6. keyBuffer'[bufferHead] = keyBuffer[bufferHead]  BY <4>1, <4>4, <4>5 DEF TypeOK
      <4> QED BY <3>1, <4>6, <1>2 DEF CallInv
    <3> QED BY <1>2, <1>3, <1>4, <1>7, <2>1, <2>2, <3>1 DEF CallInv
  <2>5. Unread' = Unread + 1
    <3>1. UnreadFacts'  BY <2>3, <2>4, UnreadIsNext
    <3>2. CASE \E p \in Reader : pc[p] \in {"type", "code"}
      BY <3>1, <3>2, <1>2, <1>4, <2>2 DEF UnreadFacts
    <3>3. CASE \A p \in Reader : pc[p] \notin {"type", "code"}
      BY <3>1, <3>3, <1>2, <1>4, <1>7, <2>2 DEF UnreadFacts
    <3> QED BY <3>2, <3>3
  <2> QED BY <1>1, <1>7, <2>2, <2>3, <2>4, <2>5
<1> QED BY <1>6, <1>7

\* The keys in the ring after a key has been pressed.
LEMMA PressKeeps ==
  ASSUME RInv, NEW c \in Letter \cup {"BACKSPACE", "NEWLINE"}, Press(c)
  PROVE  /\ \A i \in 0 .. Unread - 1 : keyBuffer'[Place(i)] = keyBuffer[Place(i)]
         /\ keyBuffer'[Place(Unread)] = Pressed(c)
<1>1. Unread \in 0 .. Size - 1 /\ bufferHead \in 0 .. Size  BY PressFacts, Bounds DEF RInv
<1>2. bufferTail = (bufferHead + Unread) % Size /\ bufferTail \in Slot
  BY Bounds DEF RInv, RingInv, Place, Size
<1>3. keyBuffer' = [keyBuffer EXCEPT ![bufferTail] = Pressed(c)] /\ DOMAIN keyBuffer = Slot
  BY DEF Press, RInv, TypeOK
<1>4. ASSUME NEW i \in 0 .. Unread - 1 PROVE keyBuffer'[Place(i)] = keyBuffer[Place(i)]
  <2>1. (bufferHead + i) % Size # bufferTail  BY <1>1, <1>2, PlaceApart
  <2>2. i \in 0 .. Size  BY <1>1, Bounds DEF RInv
  <2>3. (bufferHead + i) % Size \in Slot  BY <1>1, <2>2, PlaceIs
  <2> QED BY <1>3, <2>1, <2>3 DEF Place, Size
<1> QED BY <1>2, <1>3, <1>4 DEF Place, Size

LEMMA PressRInv ==
  ASSUME RInv, NEW c \in Letter \cup {"BACKSPACE", "NEWLINE"}, Press(c)
  PROVE  RInv'
<1>1. TypeOK' /\ CallInv' /\ Unread \in 0 .. Size - 1 /\ Unread' = Unread + 1
  BY PressFacts
<1>2. bufferHead \in 0 .. Size /\ bufferHead' = bufferHead  BY Bounds DEF RInv, Press
<1>3. \A i \in 0 .. Unread : keyBuffer'[Place(i)] \in Key
  BY <1>1, PressKeeps, PressedIs DEF RInv, RingInv
<1>4. bufferTail' = Place(Unread + 1)
  <2>1. (((bufferHead + Unread) % Size) + 1) % Size = (bufferHead + (Unread + 1)) % Size
    BY <1>1, <1>2, PlaceNext
  <2> QED BY <2>1 DEF RInv, RingInv, Press, Place, Size
<1>5. Unread + 1 <= Size  BY <1>1, Bounds DEF RInv
<1>6. RingInv'
  <2>1. \A i : Place(i)' = Place(i)  BY <1>2 DEF Place
  <2>2. 0 .. Unread' - 1 = 0 .. Unread  BY <1>1
  <2> QED BY <1>1, <1>3, <1>4, <1>5, <2>1, <2>2 DEF RingInv, Place, Size
<1> QED BY <1>1, <1>6 DEF RInv

\* A key is taken out: the others move up.
LEMMA ReadCodeFacts ==
  ASSUME RInv, NEW p \in Reader, ReadCode(p)
  PROVE  /\ Unread \in 1 .. Size /\ Unread' = Unread - 1 /\ CallInv'
         /\ bufferHead \in Slot /\ keyBuffer[bufferHead] \in Key
         /\ type[p] = keyBuffer[bufferHead].type
         /\ \A q \in Reader : pc'[q] = IF q = p THEN "wrap" ELSE "user"
         /\ \A i : Place(i)' = (bufferHead + 1 + i) % Size
         /\ TypeOK'
<1> USE DEF RInv, ReadCode, At, Goto
<1>1. /\ \A q \in Reader : q # p => pc[q] = "user"
      /\ Value >= 0 /\ Waiting = << >> /\ Unread = Value + 1
      /\ type[p] = keyBuffer[bufferHead].type
  BY UnreadIs DEF CallInv, UnreadFacts
<1>2. \A q \in Reader : pc'[q] = IF q = p THEN "wrap" ELSE "user"  BY <1>1 DEF TypeOK
<1>3. bufferHead \in Slot  BY <1>1 DEF TypeOK
<1>4. Unread \in 1 .. Size  BY <1>1, Bounds DEF RingInv, Size
<1>5. keyBuffer[bufferHead] \in Key
  <2>1. (bufferHead + 0) % Size = bufferHead  BY <1>3, Bounds, PlaceIs
  <2> QED BY <1>4, <2>1 DEF RingInv, Place, Size
<1>6. CharOf(type[p], keyBuffer[bufferHead].code) \in Char
  BY <1>1, <1>5 DEF CharOf, Key, Char
<1>7. bufferHead' \in Slot \/ bufferHead' = Size  BY <1>3, Bounds
<1>8. TypeOK'  BY <1>2, <1>6, <1>7 DEF TypeOK, KbTypeOK, kbvars, Size
<1>9. CallInv'  BY <1>1, <1>2 DEF CallInv, Value, Waiting
<1>10. Unread' = Unread - 1
  BY <1>1, <1>2, <1>8, <1>9, Bounds, UnreadIsNext DEF UnreadFacts, Value
<1> QED BY <1>1, <1>2, <1>3, <1>4, <1>5, <1>8, <1>9, <1>10 DEF Place, Size

LEMMA ReadCodeRInv ==
  ASSUME RInv, NEW p \in Reader, ReadCode(p)
  PROVE  RInv'
<1>1. Unread \in 1 .. Size /\ Unread' = Unread - 1 /\ bufferHead \in 0 .. Size /\ Size \in Nat
  BY ReadCodeFacts, Bounds DEF RInv
<1>2. \A i : Place(i)' = (bufferHead + 1 + i) % Size  BY ReadCodeFacts
<1>3. \A i \in Int : Place(i)' = Place(i + 1)
  <2>1. \A i \in Int : bufferHead + 1 + i = bufferHead + (i + 1)  BY <1>1
  <2> QED BY <1>2, <2>1 DEF Place, Size
<1>4. UNCHANGED <<keyBuffer, bufferTail>>  BY DEF ReadCode
<1>5. Unread' <= Size  BY <1>1
<1>6. bufferTail' = Place(Unread)'
  <2>1. Unread' \in Int /\ Unread' + 1 = Unread  BY <1>1
  <2>2. bufferTail = (bufferHead + Unread) % Size  BY DEF RInv, RingInv, Place, Size
  <2>3. (bufferHead' + Unread') % Size = (bufferHead + (Unread' + 1)) % Size
    BY <1>3, <2>1 DEF Place, Size
  <2> QED BY <1>4, <2>1, <2>2, <2>3 DEF Place, Size
<1>7. \A i \in 0 .. Unread' - 1 : keyBuffer'[Place(i)'] \in Key
  <2>1. ASSUME NEW i \in 0 .. Unread' - 1 PROVE i \in Int /\ i + 1 \in 0 .. Unread - 1
    BY <1>1, <2>1
  <2>2. \A i \in 0 .. Unread - 1 : keyBuffer[Place(i)] \in Key  BY DEF RInv, RingInv
  <2> QED BY <1>3, <1>4, <2>1, <2>2
<1>8. RingInv'  BY <1>5, <1>6, <1>7 DEF RingInv, Size
<1> QED BY <1>8, ReadCodeFacts DEF RInv

LEMMA WrapRInv ==
  ASSUME RInv, NEW p \in Reader, Wrap(p)
  PROVE  /\ RInv' /\ Unread' = Unread
         /\ \A i \in 0 .. Size : Place(i)' = Place(i)
<1> USE DEF RInv, Wrap, At, Goto
<1>1. /\ \A q \in Reader : q # p => pc[q] = "user"
      /\ Value >= 0 /\ Waiting = << >> /\ Unread = Value
  BY UnreadIs DEF CallInv, UnreadFacts
<1>2. \A q \in Reader : pc'[q] = "user"  BY <1>1 DEF TypeOK
<1>3. bufferHead \in 0 .. Size /\ Size \in Nat  BY Bounds
<1>4. bufferHead' \in Slot /\ \A i \in 0 .. Size : Place(i)' = Place(i)
  BY <1>3, PlaceWrapped DEF Place, Size
<1>5. TypeOK'  BY <1>2, <1>4 DEF TypeOK, KbTypeOK, kbvars
<1>6. CallInv'  BY <1>1, <1>2 DEF CallInv, Value, Waiting
<1>7. Unread' = Unread  BY <1>1, <1>2, <1>5, <1>6, UnreadIsNext DEF UnreadFacts, Value
<1>8. Unread \in 0 .. Size  BY UnreadIs, <1>3 DEF UnreadFacts, RingInv, Size
<1>9. RingInv'
  <2>1. (bufferHead' + Unread') % Size = (bufferHead + Unread) % Size
    BY <1>4, <1>7, <1>8 DEF Place, Size
  <2>2. \A i \in 0 .. Unread' - 1 : Place(i)' = Place(i)  BY <1>3, <1>4, <1>7, <1>8
  <2>3. bufferTail' = Place(Unread)'  BY <2>1 DEF RingInv, Place, Size
  <2>4. \A i \in 0 .. Unread' - 1 : keyBuffer'[Place(i)'] \in Key  BY <1>7, <2>2 DEF RingInv
  <2> QED BY <1>7, <2>3, <2>4 DEF RingInv
<1> QED BY <1>4, <1>5, <1>6, <1>7, <1>9

LEMMA NextRInv == RInv /\ [Next]_vars => RInv'
<1> SUFFICES ASSUME RInv, [Next]_vars PROVE RInv'  OBVIOUS
<1>1. ASSUME NEW c \in Letter \cup {"BACKSPACE", "NEWLINE"}, Press(c) PROVE RInv'
  BY <1>1, PressRInv
<1>2. ASSUME NEW key \in Modifiers, NEW press \in BOOLEAN, Modify(key, press) PROVE RInv'
  BY <1>2, ModifyRInv
<1>3. ASSUME NEW p \in Reader, Read(p) \/ Step(p) PROVE RInv'
  BY <1>3, ReadRInv, WaitRInv, ReadTypeRInv, ReadCodeRInv, WrapRInv DEF Step
<1>4. CASE UNCHANGED vars
  BY <1>4 DEF vars, kbvars, RInv, TypeOK, KbTypeOK, At, CallInv, Value, Waiting, RingInv,
              Place, Unread, Claiming
<1> QED BY <1>1, <1>2, <1>3, <1>4 DEF Next

\* The number of keys in the ring, and where they are, is what the semaphore and
\* its users say, in every reachable state.
THEOREM Invariance == Spec => []RInv
BY InitRInv, NextRInv, PTL DEF Spec

\* The indices of keyBuffer stay in it, but for bufferHead between the two last
\* steps of a read, for any number of readers and any size of the ring.
THEOREM TypeCorrect == Spec => []TypeOK
<1>1. RInv => TypeOK  BY DEF RInv
<1> QED BY <1>1, Invariance, PTL
-----------------------------------------------------------------------------
\* The table in use.
LEMMA OneShift ==
  ASSUME NEW H
  PROVE  Cardinality(H \cap Shifts) = 1 <=> ~("left shift" \in H <=> "right shift" \in H)
<1> DEFINE D == H \cap Shifts
<1>1. IsFiniteSet(D)
  <2>1. Shifts = {"left shift"} \cup {"right shift"}  BY DEF Shifts
  <2>2. IsFiniteSet({"left shift"})  BY FS_Singleton
  <2>3. IsFiniteSet({"left shift"} \cup {"right shift"})  BY ONLY <2>2, FS_AddElement
  <2> QED BY <2>1, <2>3, FS_Subset
<1>2. Cardinality(D) = 1 <=> \E x : D = {x}  BY <1>1, FS_Singleton
<1>3. CASE "left shift" \in H /\ "right shift" \in H
  <2>1. "left shift" \in D /\ "right shift" \in D  BY <1>3 DEF Shifts
  <2>2. ASSUME NEW x, D = {x} PROVE FALSE
    <3>1. "left shift" \in {x} /\ "right shift" \in {x}  BY <2>1, <2>2
    <3>2. x = "left shift" /\ x = "right shift"  BY ONLY <3>1
    <3> QED BY ONLY <3>2
  <2> QED BY <1>2, <1>3, <2>2, Zenon
<1>4. CASE "left shift" \in H /\ "right shift" \notin H
  <2>1. D = {"left shift"}  BY <1>4 DEF Shifts
  <2> QED BY <1>2, <1>4, <2>1, Zenon
<1>5. CASE "left shift" \notin H /\ "right shift" \in H
  <2>1. D = {"right shift"}  BY <1>5 DEF Shifts
  <2> QED BY <1>2, <1>5, <2>1, Zenon
<1>6. CASE "left shift" \notin H /\ "right shift" \notin H
  <2>1. ~ \E x : D = {x}  BY <1>6 DEF Shifts
  <2> QED BY <1>2, <1>6, <2>1, Zenon
<1> QED BY <1>3, <1>4, <1>5, <1>6

OddShifts == ~("left shift" \in held <=> "right shift" \in held)
Locked == keyboardState # 0
Upper == keyTable = "U"

LEMMA TableIs ==
  /\ TableInStep <=> (Upper <=> ~(OddShifts <=> Locked))
  /\ TableInStep' <=> (Upper' <=> ~(OddShifts' <=> Locked'))
BY OneShift DEF TableInStep, OddShifts, Locked, Upper

\* A modifier switches the table when it changes the number of shifts held, or the lock.
LEMMA TableStep ==
  ASSUME NoRepeats, RInv, TableInStep, NEW key \in Modifiers, NEW press \in BOOLEAN,
         Modify(key, press)
  PROVE  TableInStep'
<1> USE DEF Modify, GetKeyCode
<1>1. /\ key \in held <=> ~press
      /\ held' = IF press THEN held \cup {key} ELSE held \ {key}
  BY DEF Sends, NoRepeats
<1>2. keyboardState \in 0 .. 2 /\ keyTable \in {"L", "U"}  BY DEF RInv, TypeOK, KbTypeOK
<1>3. Upper' <=> ~(Upper <=> Switches(key, press))  BY <1>2 DEF Upper, Switched
<1>4. CASE key \in Shifts
  <2>1. Switches(key, press)  BY <1>4 DEF Switches
  <2>2. keyboardState' = keyboardState  BY <1>4 DEF NextState, Shifts
  <2>3. OddShifts' <=> ~OddShifts  BY <1>1, <1>4 DEF OddShifts, Shifts
  <2>4. Locked' <=> Locked  BY <2>2 DEF Locked
  <2> QED BY <1>3, <2>1, <2>3, <2>4, TableIs
<1>5. CASE key = "caps lock"
  <2>1. OddShifts' <=> OddShifts  BY <1>1, <1>5 DEF OddShifts
  <2>2. Switches(key, press) <=> IF press THEN keyboardState = 0 ELSE keyboardState = 2
    BY <1>5 DEF Switches, Shifts
  <2>3. /\ press /\ keyboardState < 2 => keyboardState' = keyboardState + 1
        /\ press /\ ~(keyboardState < 2) => keyboardState' = keyboardState
        /\ ~press /\ keyboardState = 2 => keyboardState' = 0
        /\ ~press /\ keyboardState # 2 => keyboardState' = keyboardState
    BY <1>5, Zenon DEF NextState
  <2>4. Locked' <=> ~(Locked <=> Switches(key, press))
    <3>1. CASE press
      <4>1. /\ keyboardState < 2 => keyboardState' = keyboardState + 1
            /\ ~(keyboardState < 2) => keyboardState' = keyboardState
        BY <2>3, <3>1, Zenon
      <4>2. keyboardState' # 0  BY <1>2, <4>1
      <4> QED BY <2>2, <3>1, <4>2 DEF Locked
    <3>2. CASE ~press  BY <1>2, <2>2, <2>3, <3>2 DEF Locked
    <3> QED BY <3>1, <3>2
  <2> QED BY <1>3, <2>1, <2>4, TableIs
<1> QED BY <1>4, <1>5 DEF Modifiers

\* A typist who holds no key until it repeats always gets the table that the
\* shifts held and the lock say, whatever the programs do meanwhile.
THEOREM TableRight == ASSUME NoRepeats PROVE Spec => []TableInStep
<1>1. Init => TableInStep
  BY TableIs DEF Init, KbInit, OddShifts, Locked, Upper
<1>2. RInv /\ TableInStep /\ [Next]_vars => TableInStep'
  <2> SUFFICES ASSUME RInv, TableInStep, [Next]_vars PROVE TableInStep'  OBVIOUS
  <2>1. CASE UNCHANGED kbvars  BY <2>1 DEF kbvars, TableInStep
  <2>2. CASE \E key \in Modifiers, press \in BOOLEAN : Modify(key, press)
    BY <2>2, TableStep
  <2> QED BY <2>1, <2>2 DEF Next, Press, Read, Step, Wait, ReadType, ReadCode, Wrap, vars
<1> QED BY <1>1, <1>2, Invariance, PTL DEF Spec
-----------------------------------------------------------------------------
\* The state of the abstract input.
KeyChar(k) == CharOf(k.type, k.code)
Typed == [i \in 1 .. Unread |->
             LET k == keyBuffer[(bufferHead + i - 1) % MAX_KEYBUFFER_SIZE]
             IN  CharOf(k.type, k.code)]
Asleep == {p \in Reader : pc[p] = "asleep"}

LEMMA KeyCharIs == \A k \in Key : KeyChar(k) \in Char
BY DEF Key, KeyChar, CharOf, Char

TypedFacts ==
    /\ Unread \in 0 .. Size /\ Typed \in Seq(Char) /\ Len(Typed) = Unread
    /\ Typed = [i \in 1 .. Unread |-> KeyChar(keyBuffer[Place(i - 1)])]

LEMMA TypedIs == RInv => TypedFacts
<1> SUFFICES ASSUME RInv PROVE TypedFacts  OBVIOUS
<1>1. Unread \in 0 .. Size /\ bufferHead \in Int
  BY UnreadIs, Bounds DEF RInv, RingInv, UnreadFacts, Size
<1>2. ASSUME NEW i \in 1 .. Unread
      PROVE  /\ (bufferHead + i - 1) % MAX_KEYBUFFER_SIZE = Place(i - 1)
             /\ i - 1 \in 0 .. Unread - 1
  BY <1>1 DEF Place
<1>3. Typed = [i \in 1 .. Unread |-> KeyChar(keyBuffer[Place(i - 1)])]
  BY <1>2 DEF Typed, KeyChar
<1>4. \A i \in 1 .. Unread : KeyChar(keyBuffer[Place(i - 1)]) \in Char
  BY <1>2, KeyCharIs DEF RInv, RingInv
<1> QED BY <1>1, <1>3, <1>4 DEF TypedFacts

LEMMA TypedIsNext == RInv' => TypedFacts'
BY TypedIs, PTL

\* A step that takes no key out and puts none in.
LEMMA TypedStays ==
  ASSUME RInv, RInv', Unread' = Unread, keyBuffer' = keyBuffer,
         \A i \in 0 .. Size : Place(i)' = Place(i)
  PROVE  Typed' = Typed
<1>1. TypedFacts /\ TypedFacts'  BY TypedIs, TypedIsNext
<1>2. \A i \in 1 .. Unread : i - 1 \in 0 .. Size /\ Place(i - 1)' = Place(i - 1)
  BY <1>1, Bounds DEF TypedFacts, RInv
<1>3. \A i \in 1 .. Unread :
         KeyChar(keyBuffer'[Place(i - 1)']) = KeyChar(keyBuffer[Place(i - 1)])
  BY <1>2
<1> QED BY <1>1, <1>3 DEF TypedFacts

LEMMA RingUnchanged ==
  ASSUME RInv, RInv', Unread' = Unread, UNCHANGED <<keyBuffer, bufferHead>>
  PROVE  Typed' = Typed
BY DEF Typed

\* How many keys a process in a call finds, and that the others are in none.
LEMMA Inside ==
  ASSUME RInv, NEW p \in Reader, pc[p] \notin {"user", "asleep"}
  PROVE  /\ \A q \in Reader : q # p => pc[q] = "user"
         /\ Unread = IF pc[p] \in {"type", "code"} THEN Value + 1 ELSE Value
BY UnreadIs DEF RInv, CallInv, UnreadFacts

LEMMA ModifyMaps ==
  ASSUME RInv, RInv', NEW key \in Modifiers, NEW press \in BOOLEAN, Modify(key, press)
  PROVE  UNCHANGED <<Typed, Asleep, got>>
BY DEF Modify, Typed, Asleep, Unread, Claiming

LEMMA PressMaps ==
  ASSUME RInv, RInv', NEW c \in Letter \cup {"BACKSPACE", "NEWLINE"}, Press(c)
  PROVE  \E ch \in Char : Typed' = Append(Typed, ch) /\ Asleep' = {} /\ got' = got
<1> DEFINE ch == KeyChar(Pressed(c))
<1>1. ch \in Char  BY PressedIs, KeyCharIs DEF RInv
<1>2. /\ Unread \in 0 .. Size - 1 /\ Unread' = Unread + 1
      /\ \A q \in Reader : pc'[q] # "asleep"
  BY PressFacts
<1>3. TypedFacts /\ TypedFacts' /\ bufferHead' = bufferHead
  BY TypedIs, TypedIsNext DEF Press
<1>4. \A i \in 0 .. Unread :
         keyBuffer'[Place(i)'] = IF i = Unread THEN Pressed(c) ELSE keyBuffer[Place(i)]
  BY <1>2, <1>3, PressKeeps DEF Place
<1> HIDE DEF ch
<1>5. ASSUME NEW i \in 1 .. Unread + 1 PROVE Typed'[i] = Append(Typed, ch)[i]
  <2>1. i - 1 \in 0 .. Unread  BY <1>2
  <2>2. Typed'[i] = KeyChar(keyBuffer'[Place(i - 1)'])  BY <1>2, <1>3 DEF TypedFacts
  <2>3. CASE i = Unread + 1
    <3>1. i - 1 = Unread  BY <1>2, <2>3
    <3>2. Typed'[i] = ch  BY <1>4, <2>1, <2>2, <3>1 DEF ch
    <3>3. Append(Typed, ch)[i] = ch  BY <1>1, <1>3, <2>3, AppendProperties DEF TypedFacts
    <3> QED BY <3>2, <3>3
  <2>4. CASE i \in 1 .. Unread
    <3>1. i - 1 # Unread  BY <1>2, <2>4
    <3>2. Typed'[i] = KeyChar(keyBuffer[Place(i - 1)])  BY <1>4, <2>1, <2>2, <3>1
    <3>3. Typed[i] = KeyChar(keyBuffer[Place(i - 1)])  BY <1>3, <2>4 DEF TypedFacts
    <3>4. Append(Typed, ch)[i] = Typed[i]  BY <1>1, <1>3, <2>4, AppendProperties DEF TypedFacts
    <3> QED BY <3>2, <3>3, <3>4
  <2>5. i = Unread + 1 \/ i \in 1 .. Unread  BY <1>3 DEF TypedFacts
  <2> QED BY <2>3, <2>4, <2>5
<1>6. Typed' = Append(Typed, ch)
  <2>1. Append(Typed, ch) \in Seq(Char) /\ Len(Append(Typed, ch)) = Unread + 1
    BY <1>1, <1>3, AppendProperties DEF TypedFacts
  <2>2. Typed' \in Seq(Char) /\ Len(Typed') = Unread + 1  BY <1>2, <1>3 DEF TypedFacts
  <2> QED BY <1>5, <2>1, <2>2, SeqEqual
<1> QED BY <1>1, <1>2, <1>6 DEF Asleep, Press

LEMMA ReadMaps ==
  ASSUME RInv, RInv', NEW p \in Reader, Read(p)
  PROVE  \/ UNCHANGED <<Typed, Asleep, got>>
         \/ UNCHANGED <<Typed, Asleep>> /\ Asleep # {} /\ got' = [got EXCEPT ![p] = NoChar]
<1> USE DEF Read, Refuse, At, Goto
<1>1. Unread' = Unread
  <2>1. Claiming' = Claiming  BY DEF Claiming, RInv, TypeOK
  <2> QED BY <2>1 DEF Unread
<1>2. Typed' = Typed  BY <1>1, RingUnchanged
<1>3. Asleep' = Asleep  BY DEF Asleep, RInv, TypeOK
<1>4. dev.value[stdin] < 0 => Asleep # {}
  BY Bounds DEF RInv, CallInv, Value, Asleep
<1> QED BY <1>2, <1>3, <1>4

LEMMA WaitMaps ==
  ASSUME RInv, RInv', NEW p \in Reader, Wait(p)
  PROVE  \/ UNCHANGED <<Typed, Asleep, got>>
         \/ Typed = << >> /\ Asleep = {} /\ Asleep' = {p} /\ UNCHANGED <<Typed, got>>
<1> USE DEF Wait, At, Goto
<1>1. /\ \A q \in Reader : q # p => pc[q] = "user"
      /\ Unread = Value /\ Value >= 0 /\ Waiting = << >> /\ Asleep = {}
  BY Inside DEF RInv, CallInv, Asleep
<1>2. Value' = Value - 1  BY <1>1, Bounds, DownIs DEF RInv, Value, Waiting
<1>3. \A q \in Reader : pc'[q] = IF q = p THEN IF Blocks(dev, stdin) THEN "asleep" ELSE "type"
                                 ELSE "user"
  BY <1>1 DEF RInv, TypeOK
<1>4. Blocks(dev, stdin) <=> Value = 0  BY <1>1, Bounds DEF RInv, Blocks, Value
<1>5. Unread' = Unread
  BY <1>1, <1>2, <1>3, <1>4, Bounds, UnreadIsNext DEF RInv, UnreadFacts
<1>6. Typed' = Typed  BY <1>5, RingUnchanged
<1>7. CASE Value = 0
  <2>1. Typed = << >>
    <3>1. Typed \in Seq(Char) /\ Len(Typed) = 0  BY <1>1, <1>7, TypedIs DEF TypedFacts
    <3> QED BY <3>1, EmptySeq
  <2> QED BY <1>1, <1>3, <1>4, <1>6, <1>7, <2>1 DEF Asleep
<1>8. CASE Value # 0  BY <1>1, <1>3, <1>4, <1>6, <1>8 DEF Asleep
<1> QED BY <1>7, <1>8

LEMMA ReadTypeMaps ==
  ASSUME RInv, RInv', NEW p \in Reader, ReadType(p)
  PROVE  UNCHANGED <<Typed, Asleep, got>>
<1> USE DEF ReadType, At, Goto
<1>1. Claiming' = Claiming /\ Asleep' = Asleep  BY DEF Claiming, Asleep, RInv, TypeOK
<1>2. Unread' = Unread  BY <1>1 DEF Unread
<1> QED BY <1>1, <1>2, RingUnchanged

LEMMA ReadCodeMaps ==
  ASSUME RInv, RInv', NEW p \in Reader, ReadCode(p)
  PROVE  /\ p \notin Asleep /\ Typed # << >> /\ got' = [got EXCEPT ![p] = Head(Typed)]
         /\ Typed' = Tail(Typed) /\ UNCHANGED Asleep
<1> USE DEF ReadCode, At, Goto
<1>1. /\ Unread \in 1 .. Size /\ Unread' = Unread - 1 /\ bufferHead \in Slot
      /\ keyBuffer[bufferHead] \in Key /\ type[p] = keyBuffer[bufferHead].type
      /\ \A i : Place(i)' = (bufferHead + 1 + i) % Size
  BY ReadCodeFacts
<1>2. TypedFacts /\ TypedFacts'  BY TypedIs, TypedIsNext
<1>3. p \notin Asleep /\ UNCHANGED Asleep  BY DEF Asleep, RInv, TypeOK
<1>4. Typed # << >>  BY <1>1, <1>2 DEF TypedFacts
<1>5. Head(Typed) = CharOf(type[p], keyBuffer[bufferHead].code)
  <2>1. Head(Typed) = Typed[1] /\ 1 \in 1 .. Unread  BY <1>1, <1>2, <1>4, HeadTailProperties DEF TypedFacts
  <2>2. Typed[1] = KeyChar(keyBuffer[Place(1 - 1)])  BY <1>2, <2>1 DEF TypedFacts
  <2>3. (bufferHead + 0) % Size = bufferHead  BY <1>1, Bounds, PlaceIs DEF RInv
  <2>4. Place(1 - 1) = bufferHead  BY <2>3 DEF Place, Size
  <2> QED BY <1>1, <2>1, <2>2, <2>4 DEF KeyChar
<1>6. ASSUME NEW i \in 1 .. Unread - 1 PROVE Typed'[i] = Tail(Typed)[i]
  <2>1. i + 1 \in 1 .. Unread /\ i \in 1 .. Unread' /\ i \in 1 .. Len(Typed) - 1
    BY <1>1, <1>2, <1>6 DEF TypedFacts
  <2>2. Typed'[i] = KeyChar(keyBuffer'[Place(i - 1)'])  BY <1>2, <2>1 DEF TypedFacts
  <2>3. Typed[i + 1] = KeyChar(keyBuffer[Place((i + 1) - 1)])  BY <1>2, <2>1 DEF TypedFacts
  <2>4. Place(i - 1)' = Place((i + 1) - 1)
    <3>1. bufferHead + 1 + (i - 1) = bufferHead + ((i + 1) - 1)
      BY <1>1, Bounds, i \in Int, bufferHead \in Int DEF RInv
    <3> QED BY <1>1, <3>1 DEF Place, Size
  <2>5. Tail(Typed)[i] = Typed[i + 1]  BY <1>2, <1>4, <2>1, HeadTailProperties DEF TypedFacts
  <2> QED BY <2>2, <2>3, <2>4, <2>5
<1>7. Typed' = Tail(Typed)
  <2>1. Tail(Typed) \in Seq(Char) /\ Len(Tail(Typed)) = Unread - 1
    BY <1>1, <1>2, <1>4, HeadTailProperties DEF TypedFacts
  <2>2. Typed' \in Seq(Char) /\ Len(Typed') = Unread - 1  BY <1>1, <1>2 DEF TypedFacts
  <2> QED BY <1>6, <2>1, <2>2, SeqEqual
<1> QED BY <1>3, <1>4, <1>5, <1>7

LEMMA WrapMaps ==
  ASSUME RInv, RInv', NEW p \in Reader, Wrap(p)
  PROVE  UNCHANGED <<Typed, Asleep, got>>
<1>1. Unread' = Unread /\ \A i \in 0 .. Size : Place(i)' = Place(i)  BY WrapRInv
<1>2. Asleep' = Asleep  BY DEF Wrap, At, Goto, Asleep, RInv, TypeOK
<1>3. Typed' = Typed  BY <1>1, TypedStays DEF Wrap
<1> QED BY <1>2, <1>3 DEF Wrap

LEMMA MapInit == Init => S!Init
<1> SUFFICES ASSUME Init PROVE S!Init  OBVIOUS
<1>1. RInv  BY InitRInv
<1>2. Unread = 0  BY <1>1, UnreadIs DEF RInv, UnreadFacts, Init, Value
<1>3. Typed \in Seq(Char) /\ Len(Typed) = 0  BY <1>1, <1>2, TypedIs DEF TypedFacts
<1>4. Typed = << >>  BY <1>3, EmptySeq
<1> QED BY <1>4 DEF Init, S!Init, Typed

LEMMA MapStep == RInv /\ RInv' /\ [Next]_vars => [S!Next]_(S!avars)
<1> SUFFICES ASSUME RInv, RInv', [Next]_vars PROVE S!Next \/ UNCHANGED S!avars  OBVIOUS
<1> USE DEF Typed, Asleep
<1>1. ASSUME NEW c \in Letter \cup {"BACKSPACE", "NEWLINE"}, Press(c) PROVE S!Next
  <2>1. \E ch \in Char : S!Press(ch)  BY <1>1, PressMaps DEF S!Press
  <2> QED BY <2>1 DEF S!Next
<1>2. ASSUME NEW key \in Modifiers, NEW press \in BOOLEAN, Modify(key, press)
      PROVE  UNCHANGED S!avars
  BY <1>2, ModifyMaps DEF S!avars
<1>3. ASSUME NEW p \in Reader, Read(p) PROVE S!Next \/ UNCHANGED S!avars
  <2>1. S!Refuse(p) \/ UNCHANGED S!avars  BY <1>3, ReadMaps DEF S!Refuse, S!avars
  <2> QED BY <2>1 DEF S!Next
<1>4. ASSUME NEW p \in Reader, Wait(p) PROVE S!Next \/ UNCHANGED S!avars
  <2>1. S!Sleep(p) \/ UNCHANGED S!avars  BY <1>4, WaitMaps DEF S!Sleep, S!avars
  <2> QED BY <2>1 DEF S!Next
<1>5. ASSUME NEW p \in Reader, ReadCode(p) PROVE S!Next
  <2>1. S!Read(p)  BY <1>5, ReadCodeMaps DEF S!Read
  <2> QED BY <2>1 DEF S!Next
<1>6. ASSUME NEW p \in Reader, ReadType(p) \/ Wrap(p) PROVE UNCHANGED S!avars
  BY <1>6, ReadTypeMaps, WrapMaps DEF S!avars
<1>7. CASE UNCHANGED vars  BY <1>7 DEF vars, S!avars, Unread, Claiming
<1> QED BY <1>1, <1>2, <1>3, <1>4, <1>5, <1>6, <1>7 DEF Next, Step

\* The keys typed are read in the order they were typed, each once, by whoever
\* reads, for any number of readers and any size of the ring.
THEOREM ImplementsInput == Spec => InputInOrder
BY InitRInv, NextRInv, MapInit, MapStep, PTL DEF Spec, InputInOrder, S!Spec
=============================================================================
