------------------------------ MODULE Programs ------------------------------
(***************************************************************************)
(* Programs of app/main.c that meet only at semaphores: each process runs   *)
(* once through a sequence of calls.  A call is atomic (interrupts are off  *)
(* in the semaphore calls) and the processes take turns in any order.  Of   *)
(* the sleep calls only those are kept that a program relies on.            *)
(***************************************************************************)
EXTENDS Semaphore, FiniteSets

CONSTANTS
    Proc,       \* the processes
    MAX_SEMAPHORE,
    Tests,      \* for the name of each: the values the semaphores are created with,
                \* in order, and the calls of each process, <<call, semaphore>>
    Patient     \* whether a sleep lasts until nobody else can go on

Calls == {"wait", "post", "destroy", "sleep"}
Sem == 0 .. MAX_SEMAPHORE - 1

VARIABLES
    test,      \* the one that runs
    sems,      \* the table of semaphores
    pc,        \* the calls a process has made
    asleep     \* the processes a sem_wait has put to sleep

vars == <<test, sems, pc, asleep>>

\* The first semaphores have these values, the others are available, in order.
Created(initial) ==
    [value   |-> [s \in Sem |-> IF s < Len(initial) THEN initial[s + 1] ELSE 0],
     waiters |-> [s \in Sem |-> << >>],
     avail   |-> [i \in 1 .. MAX_SEMAPHORE - Len(initial) |-> Len(initial) + i - 1]]

Init ==
    /\ test \in DOMAIN Tests
    /\ sems = Created(Tests[test].initial)
    /\ pc = [p \in Proc |-> 0]
    /\ asleep = {}

Finished(p) == pc[p] = Len(Tests[test].program[p])

\* The next call of p, and the semaphore it is about.
NextCall(p) == Tests[test].program[p][pc[p] + 1]
IsAt(p, call) == p \notin asleep /\ ~Finished(p) /\ NextCall(p)[1] = call
Makes(p, call) ==
    /\ IsAt(p, call)
    /\ pc' = [pc EXCEPT ![p] = @ + 1]
    /\ UNCHANGED test

SemWait(p) ==
    /\ Makes(p, "wait")
    /\ LET s == NextCall(p)[2]
       IN  /\ sems' = Down(sems, s, p)
           /\ asleep' = IF Blocks(sems, s) THEN asleep \cup {p} ELSE asleep

SemPost(p) ==
    /\ Makes(p, "post")
    /\ LET s == NextCall(p)[2]
       IN  /\ sems' = Up(sems, s)
           /\ asleep' = IF Wakes(sems, s) THEN asleep \ {Woken(sems, s)} ELSE asleep

SemDestroy(p) ==
    /\ Makes(p, "destroy")
    /\ sems' = Discard(sems, NextCall(p)[2])
    /\ UNCHANGED asleep

\* The end of a sleep.
SleepEnds(p) ==
    /\ Makes(p, "sleep")
    /\ Patient => \A q \in Proc : q \in asleep \/ Finished(q) \/ IsAt(q, "sleep")
    /\ UNCHANGED <<sems, asleep>>

Step(p) == SemWait(p) \/ SemPost(p) \/ SemDestroy(p) \/ SleepEnds(p)

Next == \E p \in Proc : Step(p)

Spec == Init /\ [][Next]_vars
=============================================================================
