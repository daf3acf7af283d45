--------------------------- MODULE LinkedPrograms ---------------------------
(***************************************************************************)
(* The semaphore programs on the lists as they are in memory, and the three *)
(* parts of sem_test in app/main.c: a father and a child on one semaphore,  *)
(* the dining philosophers, and producers and consumers.                    *)
(***************************************************************************)
EXTENDS SemLinks

CONSTANTS
    N,          \* philosophers
    Producers,  \* and twice as many consumers
    Rounds,     \* how often the child waits; what a producer makes, half of it a consumer takes
    MAX_SEMAPHORE,
    Patient

ASSUME NAssumption ==
    N \in Nat /\ N >= 2 /\ Producers \in Nat /\ Rounds \in Nat /\ MAX_SEMAPHORE \in Nat
ASSUME PatientAssumption == Patient \in BOOLEAN

\* As many as the largest test needs.
Proc == 0 .. Max({N, 3 * Producers}) - 1

\* The calls of a loop that is run n times, and of one call.
Times(n, calls) ==
    [i \in 1 .. n * Len(calls) |-> calls[((i - 1) % Len(calls)) + 1]]
Call(call, s) == << <<call, s>> >>

FatherAndChild ==
    LET father == Times(Rounds, Call("sleep", 0) \o Call("post", 0)) \o Call("destroy", 0)
        child  == Times(Rounds, Call("wait", 0)) \o Call("destroy", 0)
    IN  [initial |-> <<0>>,
         program |-> [p \in Proc |-> CASE p = 0 -> father [] p = 1 -> child [] OTHER -> << >>]]

\* Mutants: room for all of them; a fork that two can take.
FullRoom == N
ForksForTwo == 2

Room == N - 1
Forks == 1
Right(i) == (i + 1) % N

Philosopher(i) ==
    Call("wait", N) \o Call("wait", i) \o Call("wait", Right(i))
    \o Call("post", Right(i)) \o Call("post", i) \o Call("post", N)

Philosophers ==
    [initial |-> [i \in 1 .. N + 1 |-> IF i = N + 1 THEN Room ELSE Forks],
     program |-> [i \in Proc |-> IF i < N THEN Philosopher(i) ELSE << >>]]

mutex == 0
buffer == 1

\* Mutant: the mutex lets two in.
MutexForTwo == 2
Mutex == 1

Producer == Times(Rounds, Call("wait", mutex) \o Call("post", mutex) \o Call("post", buffer))

\* Mutant: the consumer takes the mutex first.
ConsumerLocked ==
    Times(Rounds \div 2, Call("wait", mutex) \o Call("wait", buffer) \o Call("post", mutex))
Consumer ==
    Times(Rounds \div 2, Call("wait", buffer) \o Call("wait", mutex) \o Call("post", mutex))

ProducersAndConsumers ==
    [initial |-> <<Mutex, 0>>,
     program |-> [p \in Proc |-> IF p < Producers THEN Producer
                                 ELSE IF p < 3 * Producers THEN Consumer ELSE << >>]]

Tests == [one |-> FatherAndChild, philosophers |-> Philosophers, producers |-> ProducersAndConsumers]

VARIABLES
    test, pc, asleep,
    table      \* sem[], with the links of the processes

vars == <<test, pc, asleep, table>>

A == INSTANCE Programs WITH sems <- View(table)

ASSUME TestAssumption ==
    \A t \in DOMAIN Tests :
        LET c == Tests[t]
        IN  /\ c.initial \in Seq(Nat) /\ Len(c.initial) <= MAX_SEMAPHORE
            /\ c.program \in [Proc -> Seq(A!Calls \X A!Sem)]

Init ==
    /\ test \in DOMAIN Tests
    /\ table = Picked(Fresh(MAX_SEMAPHORE, Proc \cup {-1}, -1), Tests[test].initial)
    /\ pc = [p \in Proc |-> 0]
    /\ asleep = {}

SemWait(p) ==
    /\ A!Makes(p, "wait")
    /\ LET s == A!NextCall(p)[2]
       IN  /\ table' = LinkDown(table, s, p)
           /\ asleep' = IF table.value[s] <= 0 THEN asleep \cup {p} ELSE asleep

SemPost(p) ==
    /\ A!Makes(p, "post")
    /\ LET s == A!NextCall(p)[2]
       IN  /\ table' = LinkUp(table, s)
           /\ asleep' = IF LinkWakes(table, s)
                        THEN asleep \ {ListHead(table.links, Process(s))[2]} ELSE asleep

SemDestroy(p) ==
    /\ A!Makes(p, "destroy")
    /\ table' = LinkDiscard(table, A!NextCall(p)[2])
    /\ UNCHANGED asleep

Sleep(p) == UNCHANGED table /\ A!SleepEnds(p)

Step(p) == SemWait(p) \/ SemPost(p) \/ SemDestroy(p) \/ Sleep(p)

Next == \E p \in Proc : Step(p)

\* The processor is given to some process that is not asleep.  As the programs
\* are finite, it need not be given to each.
Spec == Init /\ [][Next]_vars /\ WF_vars(Next)
-----------------------------------------------------------------------------
\* Every list leads back along the links it came by: no node is in two lists
\* and none is lost, although a forked process has links of another at first,
\* and a semaphore is destroyed twice.
Linked ==
    \A h \in {Available, Busy} \cup {Process(s) : s \in A!Sem} :
        \A x \in {h} \cup Range(Ring(table.links, h)) : table.links.last[table.links.next[x]] = x

\* The lists implement the sequences: waiters are woken in the order in which
\* they came, and the right one is taken out.
Sequences == A!Spec

\* A call that has been made is a process and a place in its program; it has
\* returned unless it is the one its process sleeps in.
Made == UNION {{p} \X (1 .. pc[p]) : p \in Proc}
Returned(p, i) == ~(p \in asleep /\ i = pc[p])
Passed(call) ==
    {x \in Made : Tests[test].program[x[1]][x[2]] = call /\ Returned(x[1], x[2])}

\* Neighbours never eat at the same time: a philosopher eats from the return of
\* the second sem_wait for a fork to the next sem_post.
Eats(i) == <<i, pc[i]>> \in Passed(<<"wait", Right(i)>>)
NeighboursApart ==
    test = "philosophers" => \A i \in 0 .. N - 1 : ~(Eats(i) /\ Eats(Right(i)))

\* Nobody is inside the mutex with another, and no more is taken than was made.
BufferSafe ==
    test = "producers" =>
        /\ Cardinality(Passed(<<"wait", mutex>>)) <= Cardinality(Passed(<<"post", mutex>>)) + 1
        /\ Cardinality(Passed(<<"wait", buffer>>)) <= Cardinality(Passed(<<"post", buffer>>))

\* Every test comes to its end, and the father's loop around wait with it.
AllFinish == <>(\A p \in Proc : A!Finished(p))
=============================================================================
