---------------------------- MODULE AbsSemaphore ----------------------------
(***************************************************************************)
(* What sem_init, sem_wait, sem_post and sem_destroy promise a program: a  *)
(* semaphore holds a number of tokens; a process that finds none sleeps    *)
(* until one is handed to it, and those that sleep are served in order.    *)
(***************************************************************************)
EXTENDS Integers, Sequences

CONSTANTS Proc, Sem

VARIABLES
    live,      \* the semaphores programs have
    tokens,    \* the tokens nobody holds
    queue,     \* the processes that wait for one, in order
    asleep     \* the processes a wait has put to sleep

avars == <<live, tokens, queue, asleep>>

Init ==
    /\ live = {}
    /\ tokens = [s \in Sem |-> 0]
    /\ queue = [s \in Sem |-> << >>]
    /\ asleep = {}

\* With any number of tokens.
Create(s) ==
    /\ s \notin live
    /\ live' = live \cup {s}
    /\ tokens' \in [Sem -> Nat]
    /\ \A t \in Sem \ {s} : tokens'[t] = tokens[t]
    /\ UNCHANGED <<queue, asleep>>

Take(s) ==
    /\ s \in live /\ tokens[s] > 0
    /\ tokens' = [tokens EXCEPT ![s] = @ - 1]
    /\ UNCHANGED <<live, queue, asleep>>

Sleep(p, s) ==
    /\ s \in live /\ tokens[s] = 0
    /\ p \notin asleep
    /\ queue' = [queue EXCEPT ![s] = Append(@, p)]
    /\ asleep' = asleep \cup {p}
    /\ UNCHANGED <<live, tokens>>

Put(s) ==
    /\ s \in live /\ queue[s] = << >>
    /\ tokens' = [tokens EXCEPT ![s] = @ + 1]
    /\ UNCHANGED <<live, queue, asleep>>

HandOver(s) ==
    /\ s \in live /\ queue[s] # << >>
    /\ queue' = [queue EXCEPT ![s] = Tail(@)]
    /\ asleep' = asleep \ {Head(queue[s])}
    /\ UNCHANGED <<live, tokens>>

Destroy(s) ==
    /\ s \in live /\ queue[s] = << >>
    /\ live' = live \ {s}
    /\ tokens' = [tokens EXCEPT ![s] = 0]
    /\ UNCHANGED <<queue, asleep>>

Next ==
    \E s \in Sem :
       \/ Create(s) \/ Take(s) \/ Put(s) \/ HandOver(s) \/ Destroy(s)
       \/ \E p \in Proc : Sleep(p, s)

Spec == Init /\ [][Next]_avars
=============================================================================
