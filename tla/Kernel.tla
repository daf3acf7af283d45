------------------------------- MODULE Kernel -------------------------------
(***************************************************************************)
(* The process manager together with the semaphores: the calls sem_init,   *)
(* sem_wait, sem_post and sem_destroy move processes between the pools of   *)
(* module Process on their own, and sys_exit wakes a parent that one of    *)
(* them has put to sleep.                                                  *)
(***************************************************************************)
EXTENDS Process, Semaphore

CONSTANTS
    MAX_SEMAPHORE,   \* number of semaphores
    InitValues,      \* arguments programs give to sem_init
    MaxValue,        \* bound: no post beyond this value
    SemCalls,        \* system calls the programs make
    Careless         \* what the programs may do: a process that has children
                     \* waits, semaphores are used when they are not theirs

ASSUME SemAssumption == MAX_SEMAPHORE \in Nat /\ InitValues \subseteq Nat /\ MaxValue \in Nat
ASSUME SemCallsAssumption == SemCalls \subseteq {"init", "P", "V", "destroy"}
ASSUME CarelessAssumption == Careless \subseteq {"parentWaits", "anySem"}

Sem == 0 .. MAX_SEMAPHORE - 1

VARIABLE sems

kvars == <<vars, sems>>

KInit == Init /\ sems = FreshTable(MAX_SEMAPHORE)

Live == Sem \ Range(sems.avail)

\* Nobody posts, waits for or destroys a semaphore that is not in use.
Usable(s) == s \in Live \/ "anySem" \in Careless

EntersSem(p, call) == Runs(p) /\ p # Idle /\ pc[p] = "user" /\ call \in SemCalls

\* Back in the program: a call that has not yielded.
Returns(p) == intr' = AfterRet(p) /\ UNCHANGED <<sched, family, uif, nested, pc, arg>>

\* The outer pushoff of sys_sem_handler is still in force at int $0x20.
Yields(p) ==
    /\ intr' = [intr EXCEPT ![p] = FALSE]
    /\ Goto(p, "yield")
    /\ UNCHANGED <<sched, family, uif, nested, arg>>

\* sys_sem_init; without an available semaphore it returns -1.
SemInit(p) ==
    /\ EntersSem(p, "init")
    /\ sems.avail # << >>
    /\ \E v \in InitValues : sems' = Allot(sems, v)
    /\ Returns(p)
    /\ UNCHANGED task

\* sys_sem_p: a process that gets its token gives the processor away as well.
SemP(p, s) ==
    /\ EntersSem(p, "P")
    /\ Usable(s)
    /\ Kids(p) # {} => "parentWaits" \in Careless
    /\ sems' = Down(sems, s, p)
    /\ IF Blocks(sems, s) THEN SetSleep(p, -1) ELSE UNCHANGED task
    /\ Yields(p)

\* sys_sem_v: the process it takes from the list is woken, whatever its state.
SemV(p, s) ==
    /\ EntersSem(p, "V")
    /\ Usable(s)
    /\ sems.value[s] < MaxValue
    /\ sems' = Up(sems, s)
    /\ IF Wakes(sems, s)
       THEN Awake(Woken(sems, s)) /\ UNCHANGED timeCount
       ELSE UNCHANGED task
    /\ Returns(p)

\* sys_sem_destroy
SemDestroy(p, s) ==
    /\ EntersSem(p, "destroy")
    /\ (s \in Live /\ sems.waiters[s] = << >>) \/ "anySem" \in Careless
    /\ sems' = Discard(sems, s)
    /\ Returns(p)
    /\ UNCHANGED task

SemCall(p) == SemInit(p) \/ \E s \in Sem : SemP(p, s) \/ SemV(p, s) \/ SemDestroy(p, s)

KNext == (Next /\ UNCHANGED sems) \/ \E p \in Pid : SemCall(p)

KSpec == KInit /\ [][KNext]_kvars
-----------------------------------------------------------------------------
\* No semaphore is available twice, or it would be handed to two programs.
SemTypeOK == sems \in SemTables(Sem, Pid) /\ IsInjective(sems.avail)

\* A process in a list of waiters sleeps until it is posted, and it is in one
\* such list, once: an awake in do_sem_signal takes it out of slp.
WaitersAsleep ==
    \A s \in Sem :
       /\ IsInjective(sems.waiters[s])
       /\ \A p \in Range(sems.waiters[s]) :
             /\ state[p] = "BLOCKED" /\ sleepTime[p] = -1
             /\ \A t \in Sem \ {s} : p \notin Range(sems.waiters[t])

\* Nobody wakes it but a post: it has no child that could.  With this, and the
\* invariant of module Process, the validity of the pools is inductive.
WaitersChildless == \A s \in Sem : \A p \in Range(sems.waiters[s]) : Kids(p) = {}

KInv == SemTypeOK /\ WaitersAsleep /\ WaitersChildless

\* A negative value counts the waiters of a semaphore; there are none at an
\* available one, so that sem_init hands out a semaphore nobody waits for.
ValueCounts ==
    \A s \in Sem :
       Len(sems.waiters[s]) = IF s \in Live /\ sems.value[s] < 0 THEN -sems.value[s] ELSE 0

\* The mapping to the abstract semaphores: a process is asleep if it is in a
\* list of waiters and BLOCKED.
Asleep == {p \in UNION {Range(sems.waiters[s]) : s \in Sem} : state[p] = "BLOCKED"}

A == INSTANCE AbsSemaphore WITH
       Proc   <- Pid,
       live   <- Live,
       tokens <- [s \in Sem |-> IF sems.value[s] > 0 THEN sems.value[s] ELSE 0],
       queue  <- sems.waiters,
       asleep <- Asleep

AbsSpec == A!Spec
=============================================================================
