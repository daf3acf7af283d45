----------------------------- MODULE AbsChannel -----------------------------
(***************************************************************************)
(* What the socket calls promise: a port is a bounded queue of messages.   *)
(* A message is lost only when the queue is full; those that are not lost  *)
(* arrive in the order they were sent, once, and as they were sent.        *)
(***************************************************************************)
EXTENDS Integers, Sequences

CONSTANTS Proc, Port, Msg, NoMsg, Capacity

VARIABLES
    open,      \* the ports somebody has
    queue,     \* the messages in each port
    outbox,    \* what a process is sending: a pair of a port and a message
    inbox,     \* what a process has taken out and not been given yet
    got        \* the result of the last receive of a process

cvars == <<open, queue, outbox, inbox, got>>

Nothing == <<>>

Init ==
    /\ open = {}
    /\ queue = [s \in Port |-> << >>]
    /\ outbox = [p \in Proc |-> Nothing]
    /\ inbox = [p \in Proc |-> NoMsg]
    /\ got = [p \in Proc |-> NoMsg]

Open(s) ==
    /\ s \notin open
    /\ open' = open \cup {s}
    /\ UNCHANGED <<queue, outbox, inbox, got>>

Close(s) ==
    /\ open' = open \ {s}
    /\ queue' = [queue EXCEPT ![s] = << >>]
    /\ UNCHANGED <<outbox, inbox, got>>

Send(p, s, m) ==
    /\ outbox[p] = Nothing
    /\ outbox' = [outbox EXCEPT ![p] = <<s, m>>]
    /\ UNCHANGED <<open, queue, inbox, got>>

Post(p, s, m) ==
    /\ outbox[p] = <<s, m>> /\ Len(queue[s]) < Capacity
    /\ queue' = [queue EXCEPT ![s] = Append(@, m)]
    /\ outbox' = [outbox EXCEPT ![p] = Nothing]
    /\ UNCHANGED <<open, inbox, got>>

Drop(p, s, m) ==
    /\ outbox[p] = <<s, m>> /\ Len(queue[s]) = Capacity
    /\ outbox' = [outbox EXCEPT ![p] = Nothing]
    /\ UNCHANGED <<open, queue, inbox, got>>

Take(p, s) ==
    /\ inbox[p] = NoMsg /\ queue[s] # << >>
    /\ inbox' = [inbox EXCEPT ![p] = Head(queue[s])]
    /\ queue' = [queue EXCEPT ![s] = Tail(@)]
    /\ UNCHANGED <<open, outbox, got>>

Deliver(p) ==
    /\ inbox[p] # NoMsg
    /\ got' = [got EXCEPT ![p] = inbox[p]]
    /\ inbox' = [inbox EXCEPT ![p] = NoMsg]
    /\ UNCHANGED <<open, queue, outbox>>

\* A receive from an empty port returns -1.
Fail(p, s) ==
    /\ inbox[p] = NoMsg /\ queue[s] = << >>
    /\ got' = [got EXCEPT ![p] = NoMsg]
    /\ UNCHANGED <<open, queue, outbox, inbox>>

Next ==
    \/ \E s \in Port : Open(s) \/ Close(s)
    \/ \E p \in Proc, s \in Port :
          \/ \E m \in Msg : Send(p, s, m) \/ Post(p, s, m) \/ Drop(p, s, m)
          \/ Take(p, s) \/ Deliver(p) \/ Fail(p, s)

Spec == Init /\ [][Next]_cvars
=============================================================================
