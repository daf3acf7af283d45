----------------------------- MODULE SocketProofs -----------------------------
(***************************************************************************)
(* Proofs about Socket: for any number of processes and ports and any size *)
(* of the rings, the sockets are bounded channels (AbsChannel), as long as  *)
(* a port has one sender at a time.                                         *)
(***************************************************************************)
EXTENDS Socket, SequenceTheorems, TLAPS

OneSender == Careless = {}

Closing == {"closeEnd", "closeBegin"}

\* What a call knows about its own arguments.
CallInv == \A p \in Proc :
    /\ pc[p] \notin {"user", "scan"} => port[p] \in Port
    /\ pc[p] \in Sending => msg[p] \in Msg
    /\ pc[p] = "claim" => ~in_use[port[p]]

\* Who may be in a call about the same port.
Alone == \A p, q \in Proc : p # q =>
    /\ ~(pc[p] \in Opening /\ pc[q] \in Opening)
    /\ port[p] = port[q] =>
        /\ ~(pc[p] \in Sending /\ pc[q] \in Sending)
        /\ ~(pc[p] \in Receiving /\ pc[q] \in Receiving)
        /\ ~(pc[p] \in Closing /\ pc[q] \in Sending \cup Receiving)

\* The slots between begin and end, which may have wrapped, hold packets.
Filled(s, i) ==
    IF ring[s].begin <= ring[s].end THEN ring[s].begin <= i /\ i < ring[s].end
    ELSE ring[s].begin <= i \/ i < ring[s].end
DataInv == \A s \in Port : Undisturbed(s) =>
    \A i \in Slot : Filled(s, i) => ring[s].data[i] \in Msg

\* What a call has found out is still so, whatever the others have done since:
\* the room for its packet, the packet to be taken, the slot it has given back.
Knows(p) ==
    /\ pc[p] \in {"write", "end"} => ~QueueFull(port[p])
    /\ pc[p] = "end" => ring[port[p]].data[ring[port[p]].end] = msg[p]
    /\ pc[p] = "begin" => ~QueueEmpty(port[p])
    /\ pc[p] = "copy" => /\ Succ(slot[p]) = ring[port[p]].begin
                         /\ ring[port[p]].data[slot[p]] \in Msg
    /\ pc[p] = "closeBegin" => ring[port[p]].end = 0
StepInv == \A p \in Proc : Knows(p)

SInv == TypeOK /\ CallInv /\ Alone /\ DataInv /\ StepInv
-----------------------------------------------------------------------------
LEMMA ModSmall == ASSUME NEW n \in Nat \ {0}, NEW a \in Nat, a < n PROVE a % n = a
BY SMT
LEMMA ModOnce == ASSUME NEW n \in Nat \ {0}, NEW a \in Nat, n <= a, a < 2 * n PROVE a % n = a - n
BY SMT

\* The successor of a slot is the next one, or the first.
LEMMA SuccIs ==
  ASSUME NEW i \in Slot
  PROVE  Succ(i) \in Slot /\ Succ(i) = IF i = MAX_UDP_BUFLEN - 1 THEN 0 ELSE i + 1
<1>1. CASE i + 1 < MAX_UDP_BUFLEN
  BY <1>1, ModSmall, SocketAssumption DEF Slot, Succ
<1>2. CASE i + 1 = MAX_UDP_BUFLEN
  <2>1. (i + 1) % MAX_UDP_BUFLEN = i + 1 - MAX_UDP_BUFLEN
    BY <1>2, ModOnce, SocketAssumption DEF Slot
  <2> QED BY <1>2, <2>1, SocketAssumption DEF Slot, Succ
<1> QED BY <1>1, <1>2, SocketAssumption DEF Slot

\* One field of one ring is assigned.
Rings == [Port -> [begin : Slot, end : Slot, data : [Slot -> Msg \cup {NoMsg}]]]

LEMMA ZeroSlot == 0 \in Slot /\ Slot \subseteq Nat
BY SocketAssumption DEF Slot

\* A step that leaves the rings alone, and closes no port.
LEMMA DataStays ==
  ASSUME DataInv, UNCHANGED ring, \A s \in Port : Undisturbed(s)' => Undisturbed(s)
  PROVE  DataInv'
BY DEF DataInv, Filled

\* A step of another process that does not touch the ring a process is at.
Same(q) == pc'[q] = pc[q] /\ port'[q] = port[q] /\ msg'[q] = msg[q] /\ slot'[q] = slot[q]
SameRing(s) == /\ ring'[s].begin = ring[s].begin /\ ring'[s].end = ring[s].end
               /\ ring'[s].data = ring[s].data

LEMMA KnowsStays ==
  ASSUME NEW q \in Proc, Knows(q), Same(q), pc[q] \notin {"user", "scan"} => SameRing(port[q])
  PROVE  Knows(q)'
BY DEF Knows, Same, SameRing, QueueFull, QueueEmpty

LEMMA InitSInv == Init => SInv
<1> SUFFICES ASSUME Init PROVE SInv  OBVIOUS
<1> USE SocketAssumption DEF Init, Sending, Receiving, Opening, Closing
<1>1. TypeOK  BY DEF TypeOK, Slot, Port
<1>2. CallInv /\ Alone  BY DEF CallInv, Alone
<1>3. DataInv  BY DEF DataInv, Filled, Slot
<1>4. StepInv  BY DEF StepInv, Knows
<1> QED BY <1>1, <1>2, <1>3, <1>4 DEF SInv

LEMMA NewSInv ==
  ASSUME NEW p \in Proc, OneSender, SInv, New(p)
  PROVE  SInv'
<1> USE DEF SInv, New, At, Goto, Sending, Receiving, Opening, Closing
<1>1. TypeOK'  BY ZeroSlot, SocketAssumption, TrafficAssumption DEF TypeOK, Port, CallInv
<1>2. CallInv'  BY TrafficAssumption DEF MayOpen, TypeOK, CallInv, Alone
<1>3. Alone'  BY DEF TypeOK, Alone, MayOpen, MayClose, MaySend, MayReceive, Undisturbed, In, OneSender
<1>4. DataInv'
  <2>1. \A u \in Port : Undisturbed(u)' => Undisturbed(u)  BY DEF TypeOK, Undisturbed, In
  <2> QED BY <2>1, DataStays
<1>5. StepInv'
  <2>1. \A q \in Proc \ {p} : Knows(q)'  BY KnowsStays DEF StepInv, Same, SameRing, TypeOK
  <2>2. Knows(p)'  BY DEF StepInv, Knows, TypeOK, QueueFull, QueueEmpty, CallInv
  <2> QED BY <2>1, <2>2 DEF StepInv
<1> QED BY <1>1, <1>2, <1>3, <1>4, <1>5

LEMMA ScanSInv ==
  ASSUME NEW p \in Proc, OneSender, SInv, Scan(p)
  PROVE  SInv'
<1> USE DEF SInv, Scan, At, Goto, Return, Sending, Receiving, Opening, Closing
<1>1. TypeOK'
  <2>1. port' \in [Proc -> 0 .. MAX_SOCKET]  BY SocketAssumption DEF TypeOK
  <2>2. pc' \in [Proc -> {"user", "scan", "claim"} \cup {pc[q] : q \in Proc}]
    BY DEF TypeOK
  <2>3. msg' \in [Proc -> Msg \cup {NoMsg}] /\ slot' \in [Proc -> Slot]  BY ZeroSlot DEF TypeOK
  <2> QED BY <2>1, <2>2, <2>3 DEF TypeOK
<1>2. CallInv'  BY SocketAssumption DEF Port, TypeOK, CallInv, Alone
<1>3. Alone'  BY DEF TypeOK, Alone, MayOpen, MayClose, MaySend, MayReceive, Undisturbed, In, OneSender
<1>4. DataInv'
  <2>1. \A u \in Port : Undisturbed(u)' => Undisturbed(u)  BY DEF TypeOK, Undisturbed, In
  <2> QED BY <2>1, DataStays
<1>5. StepInv'
  <2>1. \A q \in Proc \ {p} : Knows(q)'  BY KnowsStays DEF StepInv, Same, SameRing, TypeOK
  <2>2. Knows(p)'  BY DEF StepInv, Knows, TypeOK, QueueFull, QueueEmpty, CallInv
  <2> QED BY <2>1, <2>2 DEF StepInv
<1> QED BY <1>1, <1>2, <1>3, <1>4, <1>5

LEMMA ClaimSInv ==
  ASSUME NEW p \in Proc, OneSender, SInv, Claim(p)
  PROVE  SInv'
<1> USE DEF SInv, Claim, At, Goto, Return, Sending, Receiving, Opening, Closing
<1>1. TypeOK'
  <2>1. in_use' \in [Port -> BOOLEAN]  BY DEF TypeOK
  <2>2. port' \in [Proc -> 0 .. MAX_SOCKET]  BY SocketAssumption DEF TypeOK
  <2> QED BY <2>1, <2>2, ZeroSlot DEF TypeOK
<1>2. CallInv'  BY TrafficAssumption DEF MayOpen, TypeOK, CallInv, Alone
<1>3. Alone'  BY DEF TypeOK, Alone, MayOpen, MayClose, MaySend, MayReceive, Undisturbed, In, OneSender
<1>4. DataInv'
  <2>1. \A u \in Port : Undisturbed(u)' => Undisturbed(u)  BY DEF TypeOK, Undisturbed, In
  <2> QED BY <2>1, DataStays
<1>5. StepInv'
  <2>1. \A q \in Proc \ {p} : Knows(q)'  BY KnowsStays DEF StepInv, Same, SameRing, TypeOK
  <2>2. Knows(p)'  BY DEF StepInv, Knows, TypeOK, QueueFull, QueueEmpty, CallInv
  <2> QED BY <2>1, <2>2 DEF StepInv
<1> QED BY <1>1, <1>2, <1>3, <1>4, <1>5

LEMMA DestroySInv ==
  ASSUME NEW p \in Proc, NEW s \in Port, OneSender, SInv, Destroy(p, s)
  PROVE  SInv'
<1> USE DEF SInv, Destroy, At, Goto, Sending, Receiving, Opening, Closing
<1>1. TypeOK'
  <2>1. in_use' \in [Port -> BOOLEAN]  BY DEF TypeOK
  <2>2. s \in 0 .. MAX_SOCKET  BY SocketAssumption DEF Port
  <2>3. port' \in [Proc -> 0 .. MAX_SOCKET]  BY <2>2 DEF TypeOK
  <2> QED BY <2>1, <2>3 DEF TypeOK
<1>2. CallInv'  BY TrafficAssumption DEF MayOpen, TypeOK, CallInv, Alone
<1>3. Alone'  BY DEF TypeOK, Alone, MayOpen, MayClose, MaySend, MayReceive, Undisturbed, In, OneSender
<1>4. DataInv'
  <2>1. \A u \in Port : Undisturbed(u)' => Undisturbed(u)  BY DEF TypeOK, Undisturbed, In
  <2> QED BY <2>1, DataStays
<1>5. StepInv'
  <2>1. \A q \in Proc \ {p} : Knows(q)'  BY KnowsStays DEF StepInv, Same, SameRing, TypeOK
  <2>2. Knows(p)'  BY DEF StepInv, Knows, TypeOK, QueueFull, QueueEmpty, CallInv
  <2> QED BY <2>1, <2>2 DEF StepInv
<1> QED BY <1>1, <1>2, <1>3, <1>4, <1>5

LEMMA CloseEndSInv ==
  ASSUME NEW p \in Proc, OneSender, SInv, CloseEnd(p)
  PROVE  SInv'
<1> USE DEF SInv, CloseEnd, At, Goto, Sending, Receiving, Opening, Closing
<1> PICK t \in Port : t = port[p]  BY DEF CallInv
<1>1. ring \in Rings  BY DEF TypeOK, Rings
<1>2. ring[t].begin \in Slot /\ ring[t].end \in Slot  BY <1>1 DEF Rings
<1>3. /\ ring' \in Rings
      /\ \A u \in Port : /\ ring'[u].end = IF u = t THEN 0 ELSE ring[u].end
                        /\ ring'[u].begin = ring[u].begin /\ ring'[u].data = ring[u].data
  BY <1>1, <1>2, ZeroSlot DEF Rings
<1>4. TypeOK'  BY <1>2, <1>3, ZeroSlot, SocketAssumption DEF TypeOK, Rings
<1>5. CallInv'  BY DEF TypeOK, CallInv, Alone
<1>6. Alone'  BY DEF TypeOK, Alone
<1>7. DataInv'
  <2>1. \A u \in Port : Undisturbed(u)' => Undisturbed(u) /\ u # t  BY DEF TypeOK, Undisturbed, In
  <2> QED BY <1>3, <2>1 DEF DataInv, Filled
<1>8. StepInv'
  <2>1. \A q \in Proc \ {p} : Same(q)  BY DEF TypeOK, Same
  <2>2. ASSUME NEW q \in Proc \ {p}, port[q] # t PROVE Knows(q)'
    <3>1. pc[q] \notin {"user", "scan"} => SameRing(port[q])  BY <1>3, <2>2 DEF CallInv, SameRing
    <3> QED BY <2>1, <3>1, KnowsStays DEF StepInv
  <2>3. ASSUME NEW q \in Proc \ {p}, port[q] = t PROVE Knows(q)'
    <3>1. pc[q] \in {"user", "scan", "claim"}  BY <2>3 DEF TypeOK, Alone
    <3> QED BY <2>1, <3>1 DEF Knows, Same
  <2>4. Knows(p)'  BY <1>1, <1>3 DEF Knows, TypeOK
  <2> QED BY <2>2, <2>3, <2>4 DEF StepInv
<1> QED BY <1>4, <1>5, <1>6, <1>7, <1>8

LEMMA CloseBeginSInv ==
  ASSUME NEW p \in Proc, OneSender, SInv, CloseBegin(p)
  PROVE  SInv'
<1> USE DEF SInv, CloseBegin, At, Goto, Return, Sending, Receiving, Opening, Closing
<1> PICK t \in Port : t = port[p]  BY DEF CallInv
<1>1. ring \in Rings  BY DEF TypeOK, Rings
<1>2. ring[t].begin \in Slot /\ ring[t].end \in Slot  BY <1>1 DEF Rings
<1>3. /\ ring' \in Rings
      /\ \A u \in Port : /\ ring'[u].begin = IF u = t THEN 0 ELSE ring[u].begin
                        /\ ring'[u].end = ring[u].end /\ ring'[u].data = ring[u].data
  BY <1>1, <1>2, ZeroSlot DEF Rings
<1>4. TypeOK'  BY <1>2, <1>3, ZeroSlot, SocketAssumption DEF TypeOK, Rings
<1>5. CallInv'  BY DEF TypeOK, CallInv, Alone
<1>6. Alone'  BY DEF TypeOK, Alone
<1>7. DataInv'
  <2>1. \A u \in Port : u # t /\ Undisturbed(u)' => Undisturbed(u)  BY DEF TypeOK, Undisturbed, In
  <2>2. ring'[t].begin = 0 /\ ring'[t].end = 0  BY <1>1, <1>3 DEF StepInv, Knows
  <2>3. \A i \in Slot : ~Filled(t, i)'  BY <2>2, ZeroSlot DEF Filled
  <2>4. \A u \in Port \ {t}, i \in Slot : Filled(u, i)' = Filled(u, i)  BY <1>3 DEF Filled
  <2> QED BY <1>3, <2>1, <2>3, <2>4 DEF DataInv
<1>8. StepInv'
  <2>1. \A q \in Proc \ {p} : Same(q)  BY DEF TypeOK, Same
  <2>2. ASSUME NEW q \in Proc \ {p}, port[q] # t PROVE Knows(q)'
    <3>1. pc[q] \notin {"user", "scan"} => SameRing(port[q])  BY <1>3, <2>2 DEF CallInv, SameRing
    <3> QED BY <2>1, <3>1, KnowsStays DEF StepInv
  <2>3. ASSUME NEW q \in Proc \ {p}, port[q] = t PROVE Knows(q)'
    <3>1. pc[q] \in {"user", "scan", "claim"}  BY <2>3 DEF TypeOK, Alone
    <3> QED BY <2>1, <3>1 DEF Knows, Same
  <2>4. Knows(p)'  BY DEF Knows, TypeOK
  <2> QED BY <2>2, <2>3, <2>4 DEF StepInv
<1> QED BY <1>4, <1>5, <1>6, <1>7, <1>8

LEMMA SendSInv ==
  ASSUME NEW p \in Proc, NEW from \in Port, NEW to \in Traffic, NEW m \in Msg, OneSender, SInv, Send(p, from, to, m)
  PROVE  SInv'
<1> USE DEF SInv, Send, At, Goto, Sending, Receiving, Opening, Closing
<1>1. TypeOK'
  <2>1. to \in 0 .. MAX_SOCKET  BY TrafficAssumption, SocketAssumption DEF Port
  <2>2. port' \in [Proc -> 0 .. MAX_SOCKET]  BY <2>1 DEF TypeOK
  <2>3. msg' \in [Proc -> Msg \cup {NoMsg}]  BY DEF TypeOK
  <2> QED BY <2>2, <2>3 DEF TypeOK
<1>2. CallInv'  BY TrafficAssumption DEF MayOpen, TypeOK, CallInv, Alone
<1>3. Alone'  BY DEF TypeOK, Alone, MayOpen, MayClose, MaySend, MayReceive, Undisturbed, In, OneSender
<1>4. DataInv'
  <2>1. \A u \in Port : Undisturbed(u)' => Undisturbed(u)  BY DEF TypeOK, Undisturbed, In
  <2> QED BY <2>1, DataStays
<1>5. StepInv'
  <2>1. \A q \in Proc \ {p} : Knows(q)'  BY KnowsStays DEF StepInv, Same, SameRing, TypeOK
  <2>2. Knows(p)'  BY DEF StepInv, Knows, TypeOK, QueueFull, QueueEmpty, CallInv
  <2> QED BY <2>1, <2>2 DEF StepInv
<1> QED BY <1>1, <1>2, <1>3, <1>4, <1>5

LEMMA PushFullSInv ==
  ASSUME NEW p \in Proc, OneSender, SInv, PushFull(p)
  PROVE  SInv'
<1> USE DEF SInv, PushFull, At, Goto, Return, Sending, Receiving, Opening, Closing
<1>1. TypeOK'
  <2>1. port' \in [Proc -> 0 .. MAX_SOCKET]  BY SocketAssumption DEF TypeOK
  <2>2. msg' \in [Proc -> Msg \cup {NoMsg}] /\ slot' \in [Proc -> Slot]  BY ZeroSlot DEF TypeOK
  <2> QED BY <2>1, <2>2 DEF TypeOK
<1>2. CallInv'  BY TrafficAssumption DEF MayOpen, TypeOK, CallInv, Alone
<1>3. Alone'  BY DEF TypeOK, Alone, MayOpen, MayClose, MaySend, MayReceive, Undisturbed, In, OneSender
<1>4. DataInv'
  <2>1. \A u \in Port : Undisturbed(u)' => Undisturbed(u)  BY DEF TypeOK, Undisturbed, In
  <2> QED BY <2>1, DataStays
<1>5. StepInv'
  <2>1. \A q \in Proc \ {p} : Knows(q)'  BY KnowsStays DEF StepInv, Same, SameRing, TypeOK
  <2>2. Knows(p)'  BY DEF StepInv, Knows, TypeOK, QueueFull, QueueEmpty, CallInv
  <2> QED BY <2>1, <2>2 DEF StepInv
<1> QED BY <1>1, <1>2, <1>3, <1>4, <1>5

LEMMA PushWriteSInv ==
  ASSUME NEW p \in Proc, OneSender, SInv, PushWrite(p)
  PROVE  SInv'
<1> USE DEF SInv, PushWrite, At, Goto, Sending, Receiving, Opening, Closing
<1> PICK t \in Port : t = port[p]  BY DEF CallInv
<1>1. ring \in Rings  BY DEF TypeOK, Rings
<1>2. ring[t].begin \in Slot /\ ring[t].end \in Slot  BY <1>1 DEF Rings
<1>3. /\ ring' \in Rings
      /\ \A u \in Port : /\ ring'[u].begin = ring[u].begin /\ ring'[u].end = ring[u].end
                        /\ u # t => ring'[u].data = ring[u].data
      /\ \A i \in Slot : ring'[t].data[i] = IF i = ring[t].end THEN msg[p] ELSE ring[t].data[i]
  BY <1>1, <1>2 DEF Rings, CallInv
<1>4. TypeOK'  BY <1>2, <1>3, ZeroSlot, SocketAssumption DEF TypeOK, Rings
<1>5. CallInv'  BY DEF TypeOK, CallInv, Alone
<1>6. Alone'  BY DEF TypeOK, Alone
<1>7. DataInv'
  <2>1. \A u \in Port : Undisturbed(u)' => Undisturbed(u)  BY DEF TypeOK, Undisturbed, In
  <2>2. \A u \in Port, i \in Slot : Filled(u, i)' = Filled(u, i)  BY <1>3 DEF Filled
  <2>3. msg[p] \in Msg  BY DEF CallInv
  <2> QED BY <1>1, <1>3, <2>1, <2>2, <2>3 DEF DataInv
<1>8. StepInv'
  <2>1. \A q \in Proc \ {p} : Same(q)  BY DEF TypeOK, Same
  <2>2. ASSUME NEW q \in Proc \ {p}, port[q] # t PROVE Knows(q)'
    <3>1. pc[q] \notin {"user", "scan"} => SameRing(port[q])  BY <1>3, <2>2 DEF CallInv, SameRing
    <3> QED BY <2>1, <3>1, KnowsStays DEF StepInv
  <2>3. ASSUME NEW q \in Proc \ {p}, port[q] = t PROVE Knows(q)'
    <3>1. pc[q] \in {"user", "scan", "claim", "begin", "copy"}  BY <2>3 DEF TypeOK, Alone
    <3>2. CASE pc[q] = "begin"
      BY <1>1, <1>3, <2>1, <2>3, <3>2 DEF StepInv, Knows, Same, QueueEmpty
    <3>3. CASE pc[q] = "copy"
      <4>1. Succ(ring[t].end) # ring[t].begin  BY DEF StepInv, Knows, QueueFull
      <4>2. slot[q] \in Slot /\ slot[q] # ring[t].end /\ ring'[t].begin = ring[t].begin
        BY <1>1, <1>3, <2>3, <3>3, <4>1 DEF StepInv, Knows, TypeOK
      <4>3. ring'[t].data[slot[q]] = ring[t].data[slot[q]]  BY <1>3, <4>2
      <4> QED BY <2>1, <2>3, <3>3, <4>2, <4>3 DEF StepInv, Knows, Same
    <3> QED BY <2>1, <3>1, <3>2, <3>3 DEF Knows, Same
  <2>4. Knows(p)'  BY <1>1, <1>2, <1>3 DEF StepInv, Knows, TypeOK, QueueFull
  <2> QED BY <2>2, <2>3, <2>4 DEF StepInv
<1> QED BY <1>4, <1>5, <1>6, <1>7, <1>8

LEMMA PushEndSInv ==
  ASSUME NEW p \in Proc, OneSender, SInv, PushEnd(p)
  PROVE  SInv'
<1> USE DEF SInv, PushEnd, At, Goto, Return, Sending, Receiving, Opening, Closing
<1> PICK t \in Port : t = port[p]  BY DEF CallInv
<1>1. ring \in Rings  BY DEF TypeOK, Rings
<1>2. ring[t].begin \in Slot /\ ring[t].end \in Slot  BY <1>1 DEF Rings
<1>3. /\ ring' \in Rings
      /\ \A u \in Port : /\ ring'[u].end = IF u = t THEN Succ(ring[t].end) ELSE ring[u].end
                        /\ ring'[u].begin = ring[u].begin /\ ring'[u].data = ring[u].data
  BY <1>1, <1>2, SuccIs DEF Rings
<1>4. TypeOK'  BY <1>2, <1>3, ZeroSlot, SocketAssumption DEF TypeOK, Rings
<1>5. CallInv'  BY DEF TypeOK, CallInv, Alone
<1>6. Alone'  BY DEF TypeOK, Alone
<1>7. DataInv'
  <2>1. \A u \in Port : Undisturbed(u)' => Undisturbed(u)  BY DEF TypeOK, Undisturbed, In
  <2>2. \A i \in Slot : Filled(t, i)' => Filled(t, i) \/ i = ring[t].end
    BY <1>1, <1>2, <1>3, SuccIs, ZeroSlot DEF Filled, Slot
  <2>3. ring[t].data[ring[t].end] \in Msg  BY DEF StepInv, Knows, CallInv
  <2>4. \A u \in Port \ {t}, i \in Slot : Filled(u, i)' = Filled(u, i)  BY <1>3 DEF Filled
  <2> QED BY <1>3, <2>1, <2>2, <2>3, <2>4 DEF DataInv
<1>8. StepInv'
  <2>1. \A q \in Proc \ {p} : Same(q)  BY DEF TypeOK, Same
  <2>2. ASSUME NEW q \in Proc \ {p}, port[q] # t PROVE Knows(q)'
    <3>1. pc[q] \notin {"user", "scan"} => SameRing(port[q])  BY <1>3, <2>2 DEF CallInv, SameRing
    <3> QED BY <2>1, <3>1, KnowsStays DEF StepInv
  <2>3. ASSUME NEW q \in Proc \ {p}, port[q] = t PROVE Knows(q)'
    <3>1. pc[q] \in {"user", "scan", "claim", "begin", "copy"}  BY <2>3 DEF TypeOK, Alone
    <3>2. Succ(ring[t].end) # ring[t].begin  BY DEF StepInv, Knows, QueueFull
    <3>3. CASE pc[q] = "begin"
      BY <1>1, <1>3, <2>1, <2>3, <3>2, <3>3 DEF Knows, Same, QueueEmpty
    <3>4. CASE pc[q] = "copy"
      BY <1>1, <1>3, <2>1, <2>3, <3>4 DEF StepInv, Knows, Same
    <3> QED BY <2>1, <3>1, <3>3, <3>4 DEF Knows, Same
  <2>4. Knows(p)'  BY DEF Knows, TypeOK
  <2> QED BY <2>2, <2>3, <2>4 DEF StepInv
<1> QED BY <1>4, <1>5, <1>6, <1>7, <1>8

LEMMA RecvSInv ==
  ASSUME NEW p \in Proc, NEW s \in Port, OneSender, SInv, Recv(p, s)
  PROVE  SInv'
<1> USE DEF SInv, Recv, At, Goto, Sending, Receiving, Opening, Closing
<1>1. TypeOK'
  <2>1. s \in 0 .. MAX_SOCKET  BY SocketAssumption DEF Port
  <2>2. port' \in [Proc -> 0 .. MAX_SOCKET]  BY <2>1 DEF TypeOK
  <2>3. got' \in [Proc -> Msg \cup {NoMsg}]  BY DEF TypeOK
  <2> QED BY <2>2, <2>3 DEF TypeOK
<1>2. CallInv'  BY TrafficAssumption DEF MayOpen, TypeOK, CallInv, Alone
<1>3. Alone'  BY DEF TypeOK, Alone, MayOpen, MayClose, MaySend, MayReceive, Undisturbed, In, OneSender
<1>4. DataInv'
  <2>1. \A u \in Port : Undisturbed(u)' => Undisturbed(u)  BY DEF TypeOK, Undisturbed, In
  <2> QED BY <2>1, DataStays
<1>5. StepInv'
  <2>1. \A q \in Proc \ {p} : Knows(q)'  BY KnowsStays DEF StepInv, Same, SameRing, TypeOK
  <2>2. Knows(p)'  BY DEF StepInv, Knows, TypeOK, QueueFull, QueueEmpty, CallInv
  <2> QED BY <2>1, <2>2 DEF StepInv
<1> QED BY <1>1, <1>2, <1>3, <1>4, <1>5

LEMMA PopBeginSInv ==
  ASSUME NEW p \in Proc, OneSender, SInv, PopBegin(p)
  PROVE  SInv'
<1> USE DEF SInv, PopBegin, At, Goto, Sending, Receiving, Opening, Closing
<1> PICK t \in Port : t = port[p]  BY DEF CallInv
<1>1. ring \in Rings  BY DEF TypeOK, Rings
<1>2. ring[t].begin \in Slot /\ ring[t].end \in Slot  BY <1>1 DEF Rings
<1>3. /\ ring' \in Rings
      /\ \A u \in Port : /\ ring'[u].begin = IF u = t THEN Succ(ring[t].begin) ELSE ring[u].begin
                        /\ ring'[u].end = ring[u].end /\ ring'[u].data = ring[u].data
  BY <1>1, <1>2, SuccIs DEF Rings
<1>4. TypeOK'  BY <1>2, <1>3, ZeroSlot, SocketAssumption DEF TypeOK, Rings
<1>5. CallInv'  BY DEF TypeOK, CallInv, Alone
<1>6. Alone'  BY DEF TypeOK, Alone
<1>7. DataInv'
  <2>1. \A u \in Port : Undisturbed(u)' => Undisturbed(u)  BY DEF TypeOK, Undisturbed, In
  <2>2. ring[t].begin # ring[t].end  BY DEF StepInv, Knows, QueueEmpty
  <2>3. \A i \in Slot : Filled(t, i)' => Filled(t, i)
    BY <1>1, <1>2, <1>3, <2>2, SuccIs, ZeroSlot DEF Filled, Slot
  <2>4. \A u \in Port \ {t}, i \in Slot : Filled(u, i)' = Filled(u, i)  BY <1>3 DEF Filled
  <2> QED BY <1>3, <2>1, <2>3, <2>4 DEF DataInv
<1>8. StepInv'
  <2>1. \A q \in Proc \ {p} : Same(q)  BY DEF TypeOK, Same
  <2>2. ASSUME NEW q \in Proc \ {p}, port[q] # t PROVE Knows(q)'
    <3>1. pc[q] \notin {"user", "scan"} => SameRing(port[q])  BY <1>3, <2>2 DEF CallInv, SameRing
    <3> QED BY <2>1, <3>1, KnowsStays DEF StepInv
  <2>3. ASSUME NEW q \in Proc \ {p}, port[q] = t PROVE Knows(q)'
    <3>1. pc[q] \in {"user", "scan", "claim", "full", "write", "end"}  BY <2>3 DEF TypeOK, Alone
    <3>2. ring[t].begin # ring[t].end  BY DEF StepInv, Knows, QueueEmpty
    <3>3. Succ(ring[t].end) # Succ(ring[t].begin)  BY <1>2, <3>2, SuccIs DEF Slot
    <3>4. CASE pc[q] \in {"write", "end"}
      BY <1>1, <1>3, <2>1, <2>3, <3>3, <3>4 DEF StepInv, Knows, Same, QueueFull
    <3> QED BY <2>1, <3>1, <3>4 DEF Knows, Same
  <2>4. Knows(p)'
    <3>1. Undisturbed(t)  BY DEF Undisturbed, In, Alone
    <3>2. ring[t].begin # ring[t].end  BY DEF StepInv, Knows, QueueEmpty
    <3>3. Filled(t, ring[t].begin)  BY <1>2, <3>2, ZeroSlot DEF Filled, Slot
    <3>4. ring[t].data[ring[t].begin] \in Msg  BY <1>1, <1>2, <3>1, <3>3 DEF DataInv
    <3>5. pc'[p] = "copy" /\ port'[p] = t /\ slot'[p] = ring[t].begin  BY DEF TypeOK
    <3> QED BY <1>1, <1>3, <3>4, <3>5 DEF Knows
  <2> QED BY <2>2, <2>3, <2>4 DEF StepInv
<1> QED BY <1>4, <1>5, <1>6, <1>7, <1>8

LEMMA PopCopySInv ==
  ASSUME NEW p \in Proc, OneSender, SInv, PopCopy(p)
  PROVE  SInv'
<1> USE DEF SInv, PopCopy, At, Goto, Return, Sending, Receiving, Opening, Closing
<1>1. TypeOK'
  <2>1. ring[port[p]].data[slot[p]] \in Msg  BY DEF StepInv, Knows
  <2>2. got' \in [Proc -> Msg \cup {NoMsg}]  BY <2>1 DEF TypeOK
  <2>3. port' \in [Proc -> 0 .. MAX_SOCKET]  BY SocketAssumption DEF TypeOK
  <2> QED BY <2>2, <2>3, ZeroSlot DEF TypeOK
<1>2. CallInv'  BY TrafficAssumption DEF MayOpen, TypeOK, CallInv, Alone
<1>3. Alone'  BY DEF TypeOK, Alone, MayOpen, MayClose, MaySend, MayReceive, Undisturbed, In, OneSender
<1>4. DataInv'
  <2>1. \A u \in Port : Undisturbed(u)' => Undisturbed(u)  BY DEF TypeOK, Undisturbed, In
  <2> QED BY <2>1, DataStays
<1>5. StepInv'
  <2>1. \A q \in Proc \ {p} : Knows(q)'  BY KnowsStays DEF StepInv, Same, SameRing, TypeOK
  <2>2. Knows(p)'  BY DEF StepInv, Knows, TypeOK, QueueFull, QueueEmpty, CallInv
  <2> QED BY <2>1, <2>2 DEF StepInv
<1> QED BY <1>1, <1>2, <1>3, <1>4, <1>5

LEMMA NextSInv == ASSUME OneSender PROVE SInv /\ [Next]_vars => SInv'
<1> SUFFICES ASSUME SInv, [Next]_vars PROVE SInv'  OBVIOUS
<1>1. ASSUME NEW p \in Proc, Call(p) PROVE SInv'
  BY <1>1, NewSInv, DestroySInv, RecvSInv, SendSInv DEF Call
<1>2. ASSUME NEW p \in Proc, Step(p) PROVE SInv'
  BY <1>2, ScanSInv, ClaimSInv, CloseEndSInv, CloseBeginSInv, PushFullSInv, PushWriteSInv,
     PushEndSInv, PopBeginSInv, PopCopySInv DEF Step
<1>3. CASE UNCHANGED vars
  BY <1>3 DEF vars, regs, SInv, TypeOK, CallInv, Alone, DataInv, StepInv, Knows, Filled,
     Undisturbed, In, QueueFull, QueueEmpty
<1> QED BY <1>1, <1>2, <1>3 DEF Next

\* The inductive invariant, for any number of processes and ports and any size
\* of the rings.
THEOREM Invariance == ASSUME OneSender PROVE Spec => []SInv
<1>1. Init => SInv  BY InitSInv
<1>2. SInv /\ [Next]_vars => SInv'  BY NextSInv
<1> QED BY <1>1, <1>2, PTL DEF Spec

\* The indices of every ring stay in it and a call keeps only ports and packets
\* there are, for any number of processes and ports.
THEOREM TypeCorrect == ASSUME OneSender PROVE Spec => []TypeOK
<1>1. SInv => TypeOK  BY DEF SInv
<1> QED BY <1>1, Invariance, PTL

-----------------------------------------------------------------------------
\* The packets of one ring.
Ring == [begin : Slot, end : Slot, data : [Slot -> Msg \cup {NoMsg}]]
HeldIn(r) == (r.end - r.begin + MAX_UDP_BUFLEN) % MAX_UDP_BUFLEN
Place(r, i) == (r.begin + i - 1) % MAX_UDP_BUFLEN
Packets(r) == [i \in 1 .. HeldIn(r) |-> r.data[Place(r, i)]]
Between(r, i) ==
    IF r.begin <= r.end THEN r.begin <= i /\ i < r.end ELSE r.begin <= i \/ i < r.end

LEMMA Wrapped ==
  ASSUME NEW a \in Nat, a < 2 * MAX_UDP_BUFLEN
  PROVE  a % MAX_UDP_BUFLEN = IF a < MAX_UDP_BUFLEN THEN a ELSE a - MAX_UDP_BUFLEN
<1>1. CASE a < MAX_UDP_BUFLEN  BY <1>1, ModSmall, SocketAssumption
<1>2. CASE MAX_UDP_BUFLEN <= a
  <2>1. a % MAX_UDP_BUFLEN = a - MAX_UDP_BUFLEN  BY <1>2, SocketAssumption
  <2> QED BY <1>2, <2>1, SocketAssumption
<1> QED BY <1>1, <1>2, SocketAssumption

LEMMA HeldIs ==
  ASSUME NEW r \in Ring
  PROVE  /\ HeldIn(r) = IF r.begin <= r.end THEN r.end - r.begin
                        ELSE r.end - r.begin + MAX_UDP_BUFLEN
         /\ HeldIn(r) \in 0 .. MAX_UDP_BUFLEN - 1
<1> DEFINE a == r.end - r.begin + MAX_UDP_BUFLEN
<1>1. r.begin \in Slot /\ r.end \in Slot  BY DEF Ring
<1>2. a \in Nat /\ a < 2 * MAX_UDP_BUFLEN  BY <1>1, SocketAssumption DEF Slot
<1>3. HeldIn(r) = a % MAX_UDP_BUFLEN  BY DEF HeldIn
<1> HIDE DEF a
<1>4. HeldIn(r) = IF a < MAX_UDP_BUFLEN THEN a ELSE a - MAX_UDP_BUFLEN  BY <1>2, <1>3, Wrapped
<1> QED BY <1>1, <1>4, SocketAssumption DEF Slot, a

LEMMA PlaceIs ==
  ASSUME NEW r \in Ring, NEW i \in 1 .. MAX_UDP_BUFLEN
  PROVE  Place(r, i) = IF r.begin + i <= MAX_UDP_BUFLEN THEN r.begin + i - 1
                       ELSE r.begin + i - 1 - MAX_UDP_BUFLEN
<1> DEFINE a == r.begin + i - 1
<1>1. r.begin \in Slot  BY DEF Ring
<1>2. a \in Nat /\ a < 2 * MAX_UDP_BUFLEN  BY <1>1, SocketAssumption DEF Slot
<1>3. Place(r, i) = a % MAX_UDP_BUFLEN  BY DEF Place
<1> HIDE DEF a
<1>4. Place(r, i) = IF a < MAX_UDP_BUFLEN THEN a ELSE a - MAX_UDP_BUFLEN  BY <1>2, <1>3, Wrapped
<1> QED BY <1>1, <1>4, SocketAssumption DEF Slot, a

\* The packets are in the slots from begin to end.
LEMMA PlaceBetween ==
  ASSUME NEW r \in Ring, NEW i \in 1 .. HeldIn(r)
  PROVE  Place(r, i) \in Slot /\ Between(r, Place(r, i)) /\ i \in 1 .. MAX_UDP_BUFLEN - 1
<1>1. r.begin \in Slot /\ r.end \in Slot  BY DEF Ring
<1>2. i \in 1 .. MAX_UDP_BUFLEN - 1  BY HeldIs, SocketAssumption
<1>3. i \in 1 .. MAX_UDP_BUFLEN  BY <1>2, SocketAssumption
<1> QED BY <1>1, <1>2, <1>3, HeldIs, PlaceIs, SocketAssumption DEF Slot, Between

LEMMA PacketsAre ==
  ASSUME NEW r \in Ring, \A i \in Slot : Between(r, i) => r.data[i] \in Msg
  PROVE  /\ Packets(r) \in Seq(Msg) /\ Len(Packets(r)) = HeldIn(r)
         /\ \A i \in 1 .. HeldIn(r) : Packets(r)[i] = r.data[Place(r, i)]
<1>1. HeldIn(r) \in Nat  BY HeldIs
<1>2. \A i \in 1 .. HeldIn(r) : r.data[Place(r, i)] \in Msg  BY PlaceBetween
<1>3. Packets(r) \in Seq(Msg)  BY <1>1, <1>2 DEF Packets
<1> QED BY <1>1, <1>3, LenProperties DEF Packets

\* push_queue: the packet written at end becomes the last one.
LEMMA PushAppends ==
  ASSUME NEW r \in Ring, NEW t \in Ring,
         \A i \in Slot : Between(r, i) => r.data[i] \in Msg,
         t.begin = r.begin, t.end = Succ(r.end), t.data = r.data,
         r.data[r.end] \in Msg, Succ(r.end) # r.begin
  PROVE  /\ Packets(t) = Append(Packets(r), r.data[r.end])
         /\ Len(Packets(r)) < MAX_UDP_BUFLEN - 1
<1>1. r.begin \in Slot /\ r.end \in Slot  BY DEF Ring
<1>2. HeldIn(t) = HeldIn(r) + 1 /\ HeldIn(r) < MAX_UDP_BUFLEN - 1 /\ HeldIn(r) \in Nat
  BY <1>1, HeldIs, SuccIs, SocketAssumption DEF Slot
<1>3. \A i \in Slot : Between(t, i) => t.data[i] \in Msg
  BY <1>1, SuccIs, SocketAssumption DEF Slot, Between
<1>4. \A i \in 1 .. MAX_UDP_BUFLEN : Place(t, i) = Place(r, i)  BY DEF Place
<1>5. Place(r, HeldIn(r) + 1) = r.end
  <2>1. HeldIn(r) + 1 \in 1 .. MAX_UDP_BUFLEN  BY <1>2, SocketAssumption
  <2> QED BY <1>1, <1>2, <2>1, HeldIs, PlaceIs, SocketAssumption DEF Slot
<1> DEFINE s == Append(Packets(r), r.data[r.end])
<1>6. /\ s \in Seq(Msg) /\ Len(s) = HeldIn(r) + 1 /\ s[HeldIn(r) + 1] = r.data[r.end]
      /\ \A i \in 1 .. HeldIn(r) : s[i] = r.data[Place(r, i)]
  BY PacketsAre, AppendProperties
<1>7. /\ Packets(t) \in Seq(Msg) /\ Len(Packets(t)) = HeldIn(r) + 1
      /\ \A i \in 1 .. HeldIn(r) + 1 : Packets(t)[i] = r.data[Place(r, i)]
  BY <1>2, <1>3, <1>4, PacketsAre, SocketAssumption
<1> HIDE DEF s
<1>8. \A i \in 1 .. HeldIn(r) + 1 : Packets(t)[i] = s[i]  BY <1>2, <1>5, <1>6, <1>7
<1>9. Packets(t) = s  BY <1>6, <1>7, <1>8, SeqEqual
<1> QED BY <1>2, <1>9, PacketsAre DEF s

\* pop_queue takes the first packet out.
LEMMA PopTakesFirst ==
  ASSUME NEW r \in Ring, NEW t \in Ring,
         \A i \in Slot : Between(r, i) => r.data[i] \in Msg,
         t.end = r.end, t.begin = Succ(r.begin), t.data = r.data, r.begin # r.end
  PROVE  /\ Packets(r) # << >> /\ Head(Packets(r)) = r.data[r.begin]
         /\ Packets(t) = Tail(Packets(r))
<1>1. r.begin \in Slot /\ r.end \in Slot  BY DEF Ring
<1>2. HeldIn(t) = HeldIn(r) - 1 /\ HeldIn(r) \in 1 .. MAX_UDP_BUFLEN - 1
  BY <1>1, HeldIs, SuccIs, SocketAssumption DEF Slot
<1>3. \A i \in Slot : Between(t, i) => t.data[i] \in Msg
  BY <1>1, SuccIs, SocketAssumption DEF Slot, Between
<1>4. \A i \in 1 .. HeldIn(t) : Place(t, i) = Place(r, i + 1)
  <2> TAKE i \in 1 .. HeldIn(t)
  <2>1. i \in 1 .. MAX_UDP_BUFLEN /\ i + 1 \in 1 .. MAX_UDP_BUFLEN  BY <1>2, SocketAssumption
  <2> QED BY <1>1, <2>1, PlaceIs, SuccIs, SocketAssumption DEF Slot
<1>5. Place(r, 1) = r.begin
  <2>1. 1 \in 1 .. MAX_UDP_BUFLEN  BY SocketAssumption
  <2> QED BY <1>1, <2>1, PlaceIs, SocketAssumption DEF Slot
<1>6. /\ Packets(r) \in Seq(Msg) /\ Len(Packets(r)) = HeldIn(r)
      /\ \A i \in 1 .. HeldIn(r) : Packets(r)[i] = r.data[Place(r, i)]
  BY PacketsAre
<1>7. Packets(r) # << >> /\ Head(Packets(r)) = r.data[r.begin]  BY <1>2, <1>5, <1>6
<1> DEFINE s == Tail(Packets(r))
<1>8. /\ s \in Seq(Msg) /\ Len(s) = HeldIn(r) - 1
      /\ \A i \in 1 .. HeldIn(r) - 1 : s[i] = r.data[Place(r, i + 1)]
  BY <1>2, <1>6, <1>7, HeadTailProperties
<1>9. /\ Packets(t) \in Seq(Msg) /\ Len(Packets(t)) = HeldIn(r) - 1
      /\ \A i \in 1 .. HeldIn(r) - 1 : Packets(t)[i] = r.data[Place(r, i + 1)]
  BY <1>2, <1>3, <1>4, PacketsAre
<1> HIDE DEF s
<1>10. Packets(t) = s  BY <1>8, <1>9, SeqEqual
<1> QED BY <1>7, <1>10 DEF s

\* A write at end changes none of the packets.
LEMMA WriteKeeps ==
  ASSUME NEW r \in Ring, NEW t \in Ring, t.begin = r.begin, t.end = r.end,
         \A i \in Slot \ {r.end} : t.data[i] = r.data[i]
  PROVE  Packets(t) = Packets(r)
<1>1. HeldIn(t) = HeldIn(r)  BY DEF HeldIn
<1>2. \A i \in 1 .. HeldIn(r) : t.data[Place(t, i)] = r.data[Place(r, i)]
  <2> TAKE i \in 1 .. HeldIn(r)
  <2>1. Place(t, i) = Place(r, i)  BY DEF Place
  <2>2. Place(r, i) \in Slot /\ Between(r, Place(r, i))  BY PlaceBetween
  <2>3. r.end \in Slot /\ r.begin \in Slot  BY DEF Ring
  <2>4. Place(r, i) # r.end  BY <2>2, <2>3 DEF Between, Slot
  <2> QED BY <2>1, <2>2, <2>4
<1> QED BY <1>1, <1>2 DEF Packets

\* The tests of queue_empty and queue_full.
LEMMA FullEmpty ==
  ASSUME NEW r \in Ring, \A i \in Slot : Between(r, i) => r.data[i] \in Msg
  PROVE  /\ r.begin = r.end => Packets(r) = << >>
         /\ Succ(r.end) = r.begin => Len(Packets(r)) = MAX_UDP_BUFLEN - 1
<1>1. r.begin \in Slot /\ r.end \in Slot  BY DEF Ring
<1>2. Packets(r) \in Seq(Msg) /\ Len(Packets(r)) = HeldIn(r)  BY PacketsAre
<1>3. r.begin = r.end => HeldIn(r) = 0  BY <1>1, HeldIs DEF Slot
<1>4. Succ(r.end) = r.begin => HeldIn(r) = MAX_UDP_BUFLEN - 1
  BY <1>1, HeldIs, SuccIs, SocketAssumption DEF Slot
<1> QED BY <1>2, <1>3, <1>4, EmptySeq

-----------------------------------------------------------------------------
\* The mapping of module Socket, by name.
OpenMap == {s \in Port : in_use[s]}
QueueMap == [s \in Port |-> Contents(s)]
OutboxMap == [p \in Proc |-> IF pc[p] \in Sending THEN <<port[p], msg[p]>> ELSE << >>]
InboxMap == [p \in Proc |-> IF pc[p] = "copy" THEN ring[port[p]].data[slot[p]] ELSE NoMsg]

LEMMA ContentsIs == \A s \in Port :
  /\ Contents(s) = IF Undisturbed(s) THEN Packets(ring[s]) ELSE << >>
  /\ Contents(s)' = IF Undisturbed(s)' THEN Packets(ring'[s]) ELSE << >>
BY DEF Contents, Held, Packets, HeldIn, Place

LEMMA RingAt ==
  ASSUME SInv, NEW s \in Port
  PROVE  /\ ring[s] \in Ring
         /\ Undisturbed(s) => \A i \in Slot : Between(ring[s], i) => ring[s].data[i] \in Msg
BY DEF SInv, TypeOK, Ring, DataInv, Filled, Between

LEMMA RingAtNext ==
  ASSUME SInv', NEW s \in Port
  PROVE  /\ ring'[s] \in Ring
         /\ Undisturbed(s)' => \A i \in Slot : Between(ring'[s], i) => ring'[s].data[i] \in Msg
BY DEF SInv, TypeOK, Ring, DataInv, Filled, Between

\* The parts of the mapping that a step which leaves their ingredients alone keeps.
LEMMA ExceptIs ==
  ASSUME NEW S, NEW f, NEW g, NEW x \in S, NEW v,
         f = [y \in S |-> f[y]], g = [y \in S |-> g[y]],
         g[x] = v, \A y \in S \ {x} : g[y] = f[y]
  PROVE  g = [f EXCEPT ![x] = v]
OBVIOUS

LEMMA QueueStays ==
  ASSUME UNCHANGED ring, \A s \in Port : Undisturbed(s)' = Undisturbed(s)
  PROVE  QueueMap' = QueueMap
BY DEF QueueMap, Contents, Held

LEMMA OutboxStays ==
  ASSUME \A p \in Proc : pc'[p] \in Sending <=> pc[p] \in Sending,
         \A p \in Proc : pc[p] \in Sending => port'[p] = port[p] /\ msg'[p] = msg[p]
  PROVE  OutboxMap' = OutboxMap
BY DEF OutboxMap, Sending

LEMMA InboxStays ==
  ASSUME \A p \in Proc : pc'[p] = "copy" <=> pc[p] = "copy",
         \A p \in Proc : pc[p] = "copy" =>
            ring'[port'[p]].data[slot'[p]] = ring[port[p]].data[slot[p]]
  PROVE  InboxMap' = InboxMap
BY DEF InboxMap

LEMMA NewMaps ==
  ASSUME NEW p \in Proc, SInv, SInv', New(p)
  PROVE  UNCHANGED C!cvars
<1> USE DEF SInv, New, At, Goto
<1>1. OpenMap' = OpenMap  BY DEF OpenMap
<1>2. QueueMap' = QueueMap  BY QueueStays DEF Undisturbed, In, TypeOK
<1>3. OutboxMap' = OutboxMap  BY OutboxStays DEF TypeOK, Sending
<1>4. InboxMap' = InboxMap  BY InboxStays DEF TypeOK
<1> QED BY <1>1, <1>2, <1>3, <1>4 DEF C!cvars, OpenMap, QueueMap, OutboxMap, InboxMap

LEMMA ScanMaps ==
  ASSUME NEW p \in Proc, SInv, SInv', Scan(p)
  PROVE  UNCHANGED C!cvars
<1> USE DEF SInv, Scan, At, Goto, Return
<1>1. OpenMap' = OpenMap  BY DEF OpenMap
<1>2. QueueMap' = QueueMap  BY QueueStays DEF Undisturbed, In, TypeOK
<1>3. OutboxMap' = OutboxMap  BY OutboxStays DEF TypeOK, Sending
<1>4. InboxMap' = InboxMap  BY InboxStays DEF TypeOK
<1> QED BY <1>1, <1>2, <1>3, <1>4 DEF C!cvars, OpenMap, QueueMap, OutboxMap, InboxMap

LEMMA CloseEndMaps ==
  ASSUME NEW p \in Proc, SInv, SInv', CloseEnd(p)
  PROVE  UNCHANGED C!cvars
<1> USE DEF SInv, CloseEnd, At, Goto
<1>1. OpenMap' = OpenMap  BY DEF OpenMap
<1>2. QueueMap' = QueueMap
  <2>1. \A u \in Port : Undisturbed(u)' = Undisturbed(u)  BY DEF Undisturbed, In, TypeOK
  <2>2. \A u \in Port : Undisturbed(u) => u # port[p]  BY DEF Undisturbed, In
  <2>3. \A u \in Port : Undisturbed(u) => ring'[u] = ring[u]  BY <2>2 DEF TypeOK
  <2> QED BY <2>1, <2>3, ContentsIs DEF QueueMap
<1>3. OutboxMap' = OutboxMap  BY OutboxStays DEF TypeOK, Sending
<1>4. InboxMap' = InboxMap
  <2>1. \A q \in Proc : pc[q] = "copy" => port[q] \in Port /\ port[q] # port[p]
    BY DEF Alone, CallInv, Closing, Receiving
  <2> QED BY <2>1, InboxStays DEF TypeOK
<1> QED BY <1>1, <1>2, <1>3, <1>4 DEF C!cvars, OpenMap, QueueMap, OutboxMap, InboxMap

LEMMA CloseBeginMaps ==
  ASSUME NEW p \in Proc, SInv, SInv', CloseBegin(p)
  PROVE  UNCHANGED C!cvars
<1> USE DEF SInv, CloseBegin, At, Goto, Return
<1> PICK t \in Port : t = port[p]  BY DEF CallInv
<1>1. OpenMap' = OpenMap  BY DEF OpenMap
<1>2. QueueMap' = QueueMap
  <2>1. \A u \in Port \ {t} : Undisturbed(u)' = Undisturbed(u) /\ ring'[u] = ring[u]
    BY DEF Undisturbed, In, TypeOK
  <2>2. Contents(t) = << >>  BY ContentsIs DEF Undisturbed, In
  <2>3. Contents(t)' = << >>
    <3>1. ring'[t].begin = ring'[t].end  BY DEF TypeOK, StepInv, Knows
    <3>2. ring'[t] \in Ring /\ (Undisturbed(t)' =>
            \A i \in Slot : Between(ring'[t], i) => ring'[t].data[i] \in Msg)
      BY RingAtNext
    <3> QED BY <3>1, <3>2, ContentsIs, FullEmpty
  <2> QED BY <2>1, <2>2, <2>3, ContentsIs DEF QueueMap
<1>3. OutboxMap' = OutboxMap  BY OutboxStays DEF TypeOK, Sending
<1>4. InboxMap' = InboxMap
  <2>1. \A q \in Proc : pc[q] = "copy" => port[q] \in Port /\ port[q] # t
    BY DEF Alone, CallInv, Closing, Receiving
  <2> QED BY <2>1, InboxStays DEF TypeOK
<1> QED BY <1>1, <1>2, <1>3, <1>4 DEF C!cvars, OpenMap, QueueMap, OutboxMap, InboxMap

LEMMA PushWriteMaps ==
  ASSUME NEW p \in Proc, SInv, SInv', PushWrite(p)
  PROVE  UNCHANGED C!cvars
<1> USE DEF SInv, PushWrite, At, Goto
<1> PICK t \in Port : t = port[p]  BY DEF CallInv
<1>1. OpenMap' = OpenMap  BY DEF OpenMap
<1>2. QueueMap' = QueueMap
  <2>1. \A u \in Port : Undisturbed(u)' = Undisturbed(u)  BY DEF Undisturbed, In, TypeOK
  <2>2. \A u \in Port \ {t} : ring'[u] = ring[u]  BY DEF TypeOK
  <2>3. ring[t] \in Ring /\ ring'[t] \in Ring  BY RingAt, RingAtNext
  <2>4. /\ ring'[t].begin = ring[t].begin /\ ring'[t].end = ring[t].end
        /\ \A i \in Slot \ {ring[t].end} : ring'[t].data[i] = ring[t].data[i]
    BY DEF TypeOK
  <2>5. Packets(ring'[t]) = Packets(ring[t])  BY <2>3, <2>4, WriteKeeps
  <2> QED BY <2>1, <2>2, <2>5, ContentsIs DEF QueueMap
<1>3. OutboxMap' = OutboxMap  BY OutboxStays DEF TypeOK, Sending
<1>4. InboxMap' = InboxMap
  <2>1. ASSUME NEW q \in Proc, pc[q] = "copy"
        PROVE  ring'[port[q]].data[slot[q]] = ring[port[q]].data[slot[q]]
    <3>1. CASE port[q] # t  BY <2>1, <3>1 DEF TypeOK, CallInv
    <3>2. CASE port[q] = t
      <4>1. Succ(ring[t].end) # ring[t].begin  BY DEF StepInv, Knows, QueueFull
      <4>2. slot[q] # ring[t].end /\ slot[q] \in Slot  BY <2>1, <3>2, <4>1 DEF StepInv, Knows, TypeOK
      <4> QED BY <3>2, <4>2 DEF TypeOK
    <3> QED BY <3>1, <3>2
  <2> QED BY <2>1, InboxStays DEF TypeOK
<1> QED BY <1>1, <1>2, <1>3, <1>4 DEF C!cvars, OpenMap, QueueMap, OutboxMap, InboxMap

LEMMA ClaimMaps ==
  ASSUME NEW p \in Proc, SInv, SInv', Claim(p)
  PROVE  \E s \in Port : C!Open(s)
<1> USE DEF SInv, Claim, At, Goto, Return
<1> PICK t \in Port : t = port[p]  BY DEF CallInv
<1>1. t \notin OpenMap /\ OpenMap' = OpenMap \cup {t}  BY DEF OpenMap, CallInv, TypeOK
<1>2. QueueMap' = QueueMap  BY QueueStays DEF Undisturbed, In, TypeOK
<1>3. OutboxMap' = OutboxMap  BY OutboxStays DEF TypeOK, Sending
<1>4. InboxMap' = InboxMap  BY InboxStays DEF TypeOK
<1> QED BY <1>1, <1>2, <1>3, <1>4 DEF C!Open, C!cvars, C!Nothing, OpenMap, QueueMap, OutboxMap, InboxMap

LEMMA DestroyMaps ==
  ASSUME NEW p \in Proc, NEW s \in Port, SInv, SInv', Destroy(p, s)
  PROVE  C!Close(s)
<1> USE DEF SInv, Destroy, At, Goto
<1>1. OpenMap' = OpenMap \ {s}  BY DEF OpenMap, TypeOK
<1>2. QueueMap' = [QueueMap EXCEPT ![s] = << >>]
  <2>1. ~Undisturbed(s)'  BY DEF Undisturbed, In, TypeOK
  <2>2. \A u \in Port \ {s} : Undisturbed(u)' = Undisturbed(u)  BY DEF Undisturbed, In, TypeOK
  <2> QED BY <2>1, <2>2, ContentsIs DEF QueueMap
<1>3. OutboxMap' = OutboxMap  BY OutboxStays DEF TypeOK, Sending
<1>4. InboxMap' = InboxMap  BY InboxStays DEF TypeOK
<1> QED BY <1>1, <1>2, <1>3, <1>4 DEF C!Close, C!cvars, C!Nothing, OpenMap, QueueMap, OutboxMap, InboxMap

LEMMA SendMaps ==
  ASSUME NEW p \in Proc, NEW from \in Port, NEW to \in Traffic, NEW m \in Msg, SInv, SInv', Send(p, from, to, m)
  PROVE  to \in Port /\ C!Send(p, to, m)
<1> USE DEF SInv, Send, At, Goto
<1>1. OpenMap' = OpenMap  BY DEF OpenMap
<1>2. QueueMap' = QueueMap  BY QueueStays DEF Undisturbed, In, TypeOK
<1>3. OutboxMap[p] = << >> /\ OutboxMap' = [OutboxMap EXCEPT ![p] = <<to, m>>]
  BY DEF OutboxMap, TypeOK, Sending
<1>4. InboxMap' = InboxMap  BY InboxStays DEF TypeOK
<1> QED BY <1>1, <1>2, <1>3, <1>4, TrafficAssumption DEF C!Send, C!cvars, C!Nothing, OpenMap, QueueMap, OutboxMap, InboxMap

LEMMA PushFullMaps ==
  ASSUME NEW p \in Proc, SInv, SInv', PushFull(p)
  PROVE  UNCHANGED C!cvars \/ \E s \in Port, m \in Msg : C!Drop(p, s, m)
<1> USE DEF SInv, PushFull, At, Goto, Return
<1> PICK t \in Port : t = port[p]  BY DEF CallInv
<1> PICK m \in Msg : m = msg[p]  BY DEF CallInv, Sending
<1>1. OpenMap' = OpenMap  BY DEF OpenMap
<1>2. QueueMap' = QueueMap  BY QueueStays DEF Undisturbed, In, TypeOK
<1>4. InboxMap' = InboxMap  BY InboxStays DEF TypeOK
<1>5. CASE ~QueueFull(t)
  <2>1. OutboxMap' = OutboxMap  BY <1>5, OutboxStays DEF TypeOK, Sending
  <2> QED BY <1>1, <1>2, <1>4, <2>1 DEF C!cvars, C!Nothing, OpenMap, QueueMap, OutboxMap, InboxMap
<1>6. CASE QueueFull(t)
  <2>1. /\ OutboxMap[p] = <<t, m>>
        /\ OutboxMap' = [OutboxMap EXCEPT ![p] = << >>]
    BY <1>6 DEF OutboxMap, TypeOK, Sending, CallInv
  <2>2. Undisturbed(t)  BY DEF Undisturbed, In, Alone, Closing, Sending
  <2>3. Len(QueueMap[t]) = MAX_UDP_BUFLEN - 1
    BY <1>6, <2>2, RingAt, FullEmpty, ContentsIs DEF QueueMap, QueueFull
  <2>4. C!Drop(p, t, m)
    BY <1>1, <1>2, <1>4, <2>1, <2>3 DEF C!Drop, C!cvars, C!Nothing, OpenMap, QueueMap, OutboxMap, InboxMap
  <2> QED BY <2>4
<1> QED BY <1>5, <1>6

LEMMA PushEndMaps ==
  ASSUME NEW p \in Proc, SInv, SInv', PushEnd(p)
  PROVE  \E s \in Port, m \in Msg : C!Post(p, s, m)
<1> USE DEF SInv, PushEnd, At, Goto, Return
<1> PICK t \in Port : t = port[p]  BY DEF CallInv
<1> PICK m \in Msg : m = msg[p]  BY DEF CallInv, Sending
<1>1. OpenMap' = OpenMap  BY DEF OpenMap
<1>2. /\ Len(QueueMap[t]) < MAX_UDP_BUFLEN - 1
      /\ QueueMap' = [QueueMap EXCEPT ![t] = Append(@, m)]
  <2>1. Undisturbed(t)  BY DEF Undisturbed, In, Alone, Closing, Sending
  <2>2. \A u \in Port : Undisturbed(u)' = Undisturbed(u)  BY DEF Undisturbed, In, TypeOK
  <2>3. \A u \in Port \ {t} : ring'[u] = ring[u]  BY DEF TypeOK
  <2>4. ring[t] \in Ring /\ ring'[t] \in Ring  BY RingAt, RingAtNext
  <2>5. /\ ring'[t].begin = ring[t].begin /\ ring'[t].end = Succ(ring[t].end)
        /\ ring'[t].data = ring[t].data
    BY DEF TypeOK
  <2>6. ring[t].data[ring[t].end] = m /\ Succ(ring[t].end) # ring[t].begin
    BY DEF StepInv, Knows, CallInv, Sending, QueueFull
  <2>7. \A i \in Slot : Between(ring[t], i) => ring[t].data[i] \in Msg  BY <2>1, RingAt
  <2>8. /\ Packets(ring'[t]) = Append(Packets(ring[t]), m)
        /\ Len(Packets(ring[t])) < MAX_UDP_BUFLEN - 1
    BY <2>4, <2>5, <2>6, <2>7, PushAppends
  <2>9. QueueMap[t] = Packets(ring[t]) /\ QueueMap'[t] = Append(QueueMap[t], m)
    BY <2>1, <2>2, <2>8, ContentsIs DEF QueueMap
  <2>10. \A u \in Port \ {t} : QueueMap'[u] = QueueMap[u]
    BY <2>2, <2>3, ContentsIs DEF QueueMap
  <2>11. QueueMap = [u \in Port |-> QueueMap[u]] /\ QueueMap' = [u \in Port |-> QueueMap'[u]]
    BY DEF QueueMap
  <2>12. QueueMap' = [QueueMap EXCEPT ![t] = Append(QueueMap[t], m)]
    BY <2>9, <2>10, <2>11, ExceptIs
  <2> QED BY <2>8, <2>9, <2>12
<1>3. /\ OutboxMap[p] = <<t, m>>
      /\ OutboxMap' = [OutboxMap EXCEPT ![p] = << >>]
  BY DEF OutboxMap, TypeOK, Sending, CallInv
<1>4. InboxMap' = InboxMap
  <2>1. \A q \in Proc : pc[q] = "copy" => port[q] \in Port  BY DEF CallInv
  <2>2. \A u \in Port : ring'[u].data = ring[u].data  BY DEF TypeOK
  <2> QED BY <2>1, <2>2, InboxStays DEF TypeOK
<1>5. C!Post(p, t, m)  BY <1>1, <1>2, <1>3, <1>4 DEF C!Post, C!cvars, C!Nothing, OpenMap, QueueMap, OutboxMap, InboxMap
<1> QED BY <1>5

LEMMA RecvMaps ==
  ASSUME NEW p \in Proc, NEW s \in Port, SInv, SInv', Recv(p, s)
  PROVE  UNCHANGED C!cvars \/ C!Fail(p, s)
<1> USE DEF SInv, Recv, At, Goto
<1>1. OpenMap' = OpenMap  BY DEF OpenMap
<1>2. QueueMap' = QueueMap  BY QueueStays DEF Undisturbed, In, TypeOK
<1>3. OutboxMap' = OutboxMap  BY OutboxStays DEF TypeOK, Sending
<1>4. InboxMap' = InboxMap  BY InboxStays DEF TypeOK
<1>5. CASE QueueEmpty(s)
  <2>1. QueueMap[s] = << >>
    BY <1>5, RingAt, FullEmpty, ContentsIs DEF QueueMap, QueueEmpty
  <2>2. InboxMap[p] = NoMsg  BY DEF InboxMap
  <2> QED BY <1>1, <1>2, <1>3, <1>4, <1>5, <2>1, <2>2 DEF C!Fail, C!cvars, C!Nothing, OpenMap, QueueMap, OutboxMap, InboxMap
<1>6. CASE ~QueueEmpty(s)
  BY <1>1, <1>2, <1>3, <1>4, <1>6 DEF C!cvars, C!Nothing, OpenMap, QueueMap, OutboxMap, InboxMap
<1> QED BY <1>5, <1>6

LEMMA PopBeginMaps ==
  ASSUME NEW p \in Proc, SInv, SInv', PopBegin(p)
  PROVE  \E s \in Port : C!Take(p, s)
<1> USE DEF SInv, PopBegin, At, Goto
<1> PICK t \in Port : t = port[p]  BY DEF CallInv
<1>1. OpenMap' = OpenMap  BY DEF OpenMap
<1>2. /\ QueueMap[t] # << >> /\ Head(QueueMap[t]) = ring[t].data[ring[t].begin]
      /\ QueueMap' = [QueueMap EXCEPT ![t] = Tail(@)]
  <2>1. Undisturbed(t)  BY DEF Undisturbed, In, Alone, Closing, Receiving
  <2>2. \A u \in Port : Undisturbed(u)' = Undisturbed(u)  BY DEF Undisturbed, In, TypeOK
  <2>3. \A u \in Port \ {t} : ring'[u] = ring[u]  BY DEF TypeOK
  <2>4. ring[t] \in Ring /\ ring'[t] \in Ring  BY RingAt, RingAtNext
  <2>5. /\ ring'[t].end = ring[t].end /\ ring'[t].begin = Succ(ring[t].begin)
        /\ ring'[t].data = ring[t].data
    BY DEF TypeOK
  <2>6. ring[t].begin # ring[t].end  BY DEF StepInv, Knows, QueueEmpty
  <2>7. \A i \in Slot : Between(ring[t], i) => ring[t].data[i] \in Msg  BY <2>1, RingAt
  <2>8. /\ Packets(ring[t]) # << >> /\ Head(Packets(ring[t])) = ring[t].data[ring[t].begin]
        /\ Packets(ring'[t]) = Tail(Packets(ring[t]))
    BY <2>4, <2>5, <2>6, <2>7, PopTakesFirst
  <2>9. QueueMap[t] = Packets(ring[t]) /\ QueueMap'[t] = Tail(QueueMap[t])
    BY <2>1, <2>2, <2>8, ContentsIs DEF QueueMap
  <2>10. \A u \in Port \ {t} : QueueMap'[u] = QueueMap[u]
    BY <2>2, <2>3, ContentsIs DEF QueueMap
  <2>11. QueueMap = [u \in Port |-> QueueMap[u]] /\ QueueMap' = [u \in Port |-> QueueMap'[u]]
    BY DEF QueueMap
  <2>12. QueueMap' = [QueueMap EXCEPT ![t] = Tail(QueueMap[t])]
    BY <2>9, <2>10, <2>11, ExceptIs
  <2> QED BY <2>8, <2>9, <2>12
<1>3. OutboxMap' = OutboxMap  BY OutboxStays DEF TypeOK, Sending
<1>4. InboxMap[p] = NoMsg /\ InboxMap' = [InboxMap EXCEPT ![p] = ring[t].data[ring[t].begin]]
  <2>1. \A q \in Proc : pc[q] = "copy" => port[q] \in Port  BY DEF CallInv
  <2>2. \A u \in Port : ring'[u].data = ring[u].data  BY DEF TypeOK
  <2>3. InboxMap[p] = NoMsg /\ InboxMap'[p] = ring[t].data[ring[t].begin]
    BY <2>2 DEF InboxMap, TypeOK
  <2>4. \A q \in Proc \ {p} : InboxMap'[q] = InboxMap[q]  BY <2>1, <2>2 DEF InboxMap, TypeOK
  <2>5. InboxMap = [q \in Proc |-> InboxMap[q]] /\ InboxMap' = [q \in Proc |-> InboxMap'[q]]
    BY DEF InboxMap
  <2> QED BY <2>3, <2>4, <2>5, ExceptIs
<1>5. C!Take(p, t)  BY <1>1, <1>2, <1>3, <1>4 DEF C!Take, C!cvars, C!Nothing, OpenMap, QueueMap, OutboxMap, InboxMap
<1> QED BY <1>5

LEMMA PopCopyMaps ==
  ASSUME NEW p \in Proc, SInv, SInv', PopCopy(p)
  PROVE  C!Deliver(p)
<1> USE DEF SInv, PopCopy, At, Goto, Return
<1>1. OpenMap' = OpenMap  BY DEF OpenMap
<1>2. QueueMap' = QueueMap  BY QueueStays DEF Undisturbed, In, TypeOK
<1>3. OutboxMap' = OutboxMap  BY OutboxStays DEF TypeOK, Sending
<1>4. /\ InboxMap[p] = ring[port[p]].data[slot[p]] /\ InboxMap[p] # NoMsg
      /\ InboxMap' = [InboxMap EXCEPT ![p] = NoMsg]
  <2>1. ring[port[p]].data[slot[p]] \in Msg  BY DEF StepInv, Knows
  <2>2. InboxMap[p] = ring[port[p]].data[slot[p]] /\ InboxMap'[p] = NoMsg
    BY DEF InboxMap, TypeOK
  <2>3. \A q \in Proc \ {p} : InboxMap'[q] = InboxMap[q]  BY DEF InboxMap, TypeOK
  <2>4. InboxMap = [q \in Proc |-> InboxMap[q]] /\ InboxMap' = [q \in Proc |-> InboxMap'[q]]
    BY DEF InboxMap
  <2>5. InboxMap' = [InboxMap EXCEPT ![p] = NoMsg]  BY <2>2, <2>3, <2>4, ExceptIs
  <2> QED BY <2>1, <2>2, <2>5, MsgAssumption
<1> QED BY <1>1, <1>2, <1>3, <1>4 DEF C!Deliver, C!cvars, C!Nothing, OpenMap, QueueMap, OutboxMap, InboxMap

LEMMA MapInit == Init => C!Init
<1> SUFFICES ASSUME Init PROVE C!Init  OBVIOUS
<1>1. SInv  BY InitSInv
<1>2. \A s \in Port : Contents(s) = << >>
  BY <1>1, RingAt, FullEmpty, ContentsIs DEF Init
<1> QED BY <1>2 DEF Init, C!Init, C!Nothing, Sending

LEMMA MapStep == ASSUME SInv, SInv', [Next]_vars PROVE [C!Next]_(C!cvars)
<1>1. ASSUME NEW p \in Proc, Call(p) PROVE C!Next \/ UNCHANGED C!cvars
  BY <1>1, NewMaps, DestroyMaps, RecvMaps, SendMaps DEF Call, C!Next
<1>2. ASSUME NEW p \in Proc, Step(p) PROVE C!Next \/ UNCHANGED C!cvars
  <2>1. CASE Scan(p) \/ CloseEnd(p) \/ CloseBegin(p) \/ PushWrite(p)
    BY <2>1, ScanMaps, CloseEndMaps, CloseBeginMaps, PushWriteMaps
  <2>2. CASE Claim(p)  BY <2>2, ClaimMaps DEF C!Next
  <2>3. CASE PushFull(p) \/ PushEnd(p)  BY <2>3, PushFullMaps, PushEndMaps DEF C!Next
  <2>4. CASE PopBegin(p)  BY <2>4, PopBeginMaps DEF C!Next
  <2>5. CASE PopCopy(p)
    <3>1. port[p] \in Port  BY <2>5 DEF SInv, CallInv, PopCopy, At
    <3> QED BY <2>5, <3>1, PopCopyMaps DEF C!Next
  <2> QED BY <1>2, <2>1, <2>2, <2>3, <2>4, <2>5 DEF Step
<1>3. CASE UNCHANGED vars
  BY <1>3 DEF vars, regs, C!cvars, Contents, Held, Undisturbed, In
<1> QED BY <1>1, <1>2, <1>3 DEF Next

\* The sockets are bounded channels: a packet is lost only when the ring of its
\* port is full, the others arrive in order, once and unchanged, for any number
\* of processes and ports and any size of the rings.
THEOREM ImplementsChannel == ASSUME OneSender PROVE Spec => Channels
<1>1. Init => SInv  BY InitSInv
<1>2. SInv /\ [Next]_vars => SInv'  BY NextSInv
<1>3. SInv /\ SInv' /\ [Next]_vars => [C!Next]_(C!cvars)  BY MapStep
<1>4. Init => C!Init  BY MapInit
<1> QED BY <1>1, <1>2, <1>3, <1>4, PTL DEF Spec, Channels, C!Spec
=============================================================================
