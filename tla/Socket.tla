------------------------------- MODULE Socket -------------------------------
(***************************************************************************)
(* The sockets of kernel/kernel/socket.c and the ring buffers of           *)
(* kernel/include/common/queue.h behind them.                              *)
(*                                                                         *)
(* None of these calls turns interrupts off: the clock may interrupt one   *)
(* between any two statements, and another process make a call of its own. *)
(* Here a step is one access to the shared table, and the processes        *)
(* interleave freely.  The fields len and size of a ring and the checksum  *)
(* of a packet are never read; they are left out.                          *)
(***************************************************************************)
EXTENDS Integers, Sequences

CONSTANTS
    Proc,             \* the processes that use sockets
    MAX_SOCKET,
    MAX_UDP_BUFLEN,   \* slots of a ring
    Traffic,          \* bound: the ports that packets are sent to
    Msg, NoMsg,       \* packets, and the contents of an unused slot
    Careless          \* what the programs may do, see below

ASSUME SocketAssumption == MAX_SOCKET \in Nat /\ MAX_UDP_BUFLEN \in Nat /\ MAX_UDP_BUFLEN >= 2
ASSUME MsgAssumption == NoMsg \notin Msg
ASSUME CarelessAssumption == Careless \subseteq {"senders"}

Port == 0 .. MAX_SOCKET - 1
Slot == 0 .. MAX_UDP_BUFLEN - 1
ASSUME TrafficAssumption == Traffic \subseteq Port

VARIABLES
    in_use,    \* socks[s].in_use
    ring,      \* socks[s].buf: begin, end and data
    pc,        \* where the call of a process is, "user" outside
    port,      \* the port it is about; in get_socket the loop counter
    msg,       \* the packet a process sends
    slot,      \* the slot pop_queue returned a pointer to
    got        \* the packet the last receive gave the process

regs == <<pc, port, msg, slot, got>>
vars == <<in_use, ring, regs>>

TypeOK ==
    /\ in_use \in [Port -> BOOLEAN]
    /\ ring \in [Port -> [begin : Slot, end : Slot, data : [Slot -> Msg \cup {NoMsg}]]]
    /\ pc \in [Proc -> {"user", "scan", "claim", "closeEnd", "closeBegin",
                        "full", "write", "end", "begin", "copy"}]
    /\ port \in [Proc -> 0 .. MAX_SOCKET]
    /\ msg \in [Proc -> Msg \cup {NoMsg}]
    /\ slot \in [Proc -> Slot]
    /\ got \in [Proc -> Msg \cup {NoMsg}]

Init ==
    /\ in_use = [s \in Port |-> FALSE]
    /\ ring = [s \in Port |-> [begin |-> 0, end |-> 0, data |-> [i \in Slot |-> NoMsg]]]
    /\ pc = [p \in Proc |-> "user"]
    /\ port = [p \in Proc |-> 0]
    /\ msg = [p \in Proc |-> NoMsg]
    /\ slot = [p \in Proc |-> 0]
    /\ got = [p \in Proc |-> NoMsg]
-----------------------------------------------------------------------------
\* Mutant: a ring is full only when its next slot is the last one read.
FullLate(s) == ring[s].end = ring[s].begin /\ ring[s].data[ring[s].end] # NoMsg

\* Mutant: an index that does not wrap.
SuccUnwrapped(i) == i + 1

Succ(i) == (i + 1) % MAX_UDP_BUFLEN
QueueEmpty(s) == ring[s].begin = ring[s].end
QueueFull(s) == Succ(ring[s].end) = ring[s].begin

Opening == {"scan", "claim", "closeEnd", "closeBegin"}
Sending == {"full", "write", "end"}
Receiving == {"begin", "copy"}

\* The processes in a call of this kind about port s.
In(calls, s) == {p \in Proc : pc[p] \in calls /\ port[p] = s}

\* What programs keep to: ports are opened and closed by one process at a
\* time, and closed when nobody uses them; a port has one sender at a time,
\* unless they are careless, and one receiver.
MayOpen == \A p \in Proc : pc[p] \notin Opening
MayClose(s) == MayOpen /\ In(Sending \cup Receiving, s) = {}
Undisturbed(s) == In({"closeEnd", "closeBegin"}, s) = {}
MaySend(s) == Undisturbed(s) /\ (In(Sending, s) = {} \/ "senders" \in Careless)
MayReceive(s) == Undisturbed(s) /\ In(Receiving, s) = {}

Goto(p, l) == pc' = [pc EXCEPT ![p] = l]
At(p, l) == pc[p] = l

\* Back in the program; what the call kept in registers is gone.
Return(p) ==
    /\ Goto(p, "user")
    /\ port' = [port EXCEPT ![p] = 0]
    /\ msg' = [msg EXCEPT ![p] = NoMsg]
    /\ slot' = [slot EXCEPT ![p] = 0]
-----------------------------------------------------------------------------
\* sys_socket_new: get_socket looks for a socket that is not in use, from
\* port 0 on, and then marks it; without one it returns -1.
New(p) ==
    /\ At(p, "user") /\ MayOpen
    /\ Goto(p, "scan")
    /\ port' = [port EXCEPT ![p] = 0]
    /\ UNCHANGED <<in_use, ring, msg, slot, got>>

Scan(p) ==
    /\ At(p, "scan")
    /\ \/ port[p] = MAX_SOCKET /\ Return(p)
       \/ /\ port[p] < MAX_SOCKET /\ in_use[port[p]]
          /\ port' = [port EXCEPT ![p] = @ + 1]
          /\ UNCHANGED <<pc, msg, slot>>
       \/ /\ port[p] < MAX_SOCKET /\ ~in_use[port[p]]
          /\ Goto(p, "claim")
          /\ UNCHANGED <<port, msg, slot>>
    /\ UNCHANGED <<in_use, ring, got>>

Claim(p) ==
    /\ At(p, "claim")
    /\ in_use' = [in_use EXCEPT ![port[p]] = TRUE]
    /\ Return(p)
    /\ UNCHANGED <<ring, got>>

\* sys_socket_destroy: back_socket frees the port, then empties its ring.
Destroy(p, s) ==
    /\ At(p, "user") /\ MayClose(s)
    /\ in_use' = [in_use EXCEPT ![s] = FALSE]
    /\ port' = [port EXCEPT ![p] = s]
    /\ Goto(p, "closeEnd")
    /\ UNCHANGED <<ring, msg, slot, got>>

CloseEnd(p) ==
    /\ At(p, "closeEnd")
    /\ ring' = [ring EXCEPT ![port[p]].end = 0]
    /\ Goto(p, "closeBegin")
    /\ UNCHANGED <<in_use, port, msg, slot, got>>

\* Mutant: a closed ring keeps its begin.
CloseBeginKept(p) == At(p, "closeBegin") /\ Return(p) /\ UNCHANGED <<in_use, ring, got>>

CloseBegin(p) ==
    /\ At(p, "closeBegin")
    /\ ring' = [ring EXCEPT ![port[p]].begin = 0]
    /\ Return(p)
    /\ UNCHANGED <<in_use, got>>
-----------------------------------------------------------------------------
\* sys_socket_send.  A packet is refused only if neither port is in use.
Send(p, from, to, m) ==
    /\ At(p, "user") /\ MaySend(to)
    /\ in_use[from] \/ in_use[to]
    /\ msg' = [msg EXCEPT ![p] = m]
    /\ port' = [port EXCEPT ![p] = to]
    /\ Goto(p, "full")
    /\ UNCHANGED <<in_use, ring, slot, got>>

\* push_queue drops the packet if the ring is full.
PushFull(p) ==
    /\ At(p, "full")
    /\ IF QueueFull(port[p])
       THEN Return(p)
       ELSE Goto(p, "write") /\ UNCHANGED <<port, msg, slot>>
    /\ UNCHANGED <<in_use, ring, got>>

PushWrite(p) ==
    /\ At(p, "write")
    /\ ring' = [ring EXCEPT ![port[p]].data[ring[port[p]].end] = msg[p]]
    /\ Goto(p, "end")
    /\ UNCHANGED <<in_use, port, msg, slot, got>>

PushEnd(p) ==
    /\ At(p, "end")
    /\ ring' = [ring EXCEPT ![port[p]].end = Succ(@)]
    /\ Return(p)
    /\ UNCHANGED <<in_use, got>>

\* sys_socket_recv: -1 if the ring is empty.
Recv(p, s) ==
    /\ At(p, "user") /\ MayReceive(s)
    /\ IF QueueEmpty(s)
       THEN got' = [got EXCEPT ![p] = NoMsg] /\ UNCHANGED <<pc, port>>
       ELSE Goto(p, "begin") /\ port' = [port EXCEPT ![p] = s] /\ UNCHANGED got
    /\ UNCHANGED <<in_use, ring, msg, slot>>

\* pop_queue gives the slot back to the ring and returns a pointer to it.
PopBegin(p) ==
    /\ At(p, "begin")
    /\ slot' = [slot EXCEPT ![p] = ring[port[p]].begin]
    /\ ring' = [ring EXCEPT ![port[p]].begin = Succ(@)]
    /\ Goto(p, "copy")
    /\ UNCHANGED <<in_use, port, msg, got>>

\* Only now is the packet copied out.
PopCopy(p) ==
    /\ At(p, "copy")
    /\ got' = [got EXCEPT ![p] = ring[port[p]].data[slot[p]]]
    /\ Return(p)
    /\ UNCHANGED <<in_use, ring>>
-----------------------------------------------------------------------------
Call(p) ==
    \/ New(p)
    \/ \E s \in Port : Destroy(p, s) \/ Recv(p, s)
    \/ \E from \in Port, to \in Traffic, m \in Msg : Send(p, from, to, m)

Step(p) ==
    \/ Scan(p) \/ Claim(p) \/ CloseEnd(p) \/ CloseBegin(p)
    \/ PushFull(p) \/ PushWrite(p) \/ PushEnd(p)
    \/ PopBegin(p) \/ PopCopy(p)

Next == \E p \in Proc : Call(p) \/ Step(p)

Spec == Init /\ [][Next]_vars
-----------------------------------------------------------------------------
\* The messages in a ring, oldest first; a port that is being closed has none.
Held(s) == (ring[s].end - ring[s].begin + MAX_UDP_BUFLEN) % MAX_UDP_BUFLEN
Contents(s) ==
    IF ~Undisturbed(s) THEN << >>
    ELSE [i \in 1 .. Held(s) |-> ring[s].data[(ring[s].begin + i - 1) % MAX_UDP_BUFLEN]]

\* The mapping to the abstract channel: a packet is in it once end has moved,
\* and no longer once begin has.
C == INSTANCE AbsChannel WITH
       Capacity <- MAX_UDP_BUFLEN - 1,
       open     <- {s \in Port : in_use[s]},
       queue    <- [s \in Port |-> Contents(s)],
       outbox   <- [p \in Proc |-> IF pc[p] \in Sending THEN <<port[p], msg[p]>> ELSE << >>],
       inbox    <- [p \in Proc |-> IF pc[p] = "copy" THEN ring[port[p]].data[slot[p]] ELSE NoMsg]

\* The sockets are such channels: packets are dropped only by a full ring, and
\* arrive in order, once, unchanged, although a receiver copies its packet
\* after it has given the slot back: the slot left free in a full ring is the
\* one just read.
Channels == C!Spec
=============================================================================
