------------------------------- MODULE Process -------------------------------
(***************************************************************************)
(* The process manager of kernel/kernel/irqHandle.c: the scheduler, the    *)
(* clock interrupt, and the system calls that create, block, start, end    *)
(* and collect processes.                                                  *)
(*                                                                         *)
(* One processor: only the process `current' takes steps.  A step of       *)
(* kernel code is atomic when it runs with interrupts off (pushoff ...     *)
(* popoff); pc[p] is the position of p between such steps, and the clock   *)
(* may interrupt p there when the IF flag of its context, intr[p], is on.  *)
(* The handler of vector 0x20 runs with interrupts off; it is cut into the *)
(* steps of its walk over the sleepers and a last step that ends in        *)
(* schedule.  The kernel enters the same handler with int $0x20 to give    *)
(* the processor away.                                                     *)
(***************************************************************************)
EXTENDS Pool

CONSTANTS
    MAX_PCB_NUM,      \* number of process slots
    MAX_TIME_COUNT,   \* ticks in a time slice
    SleepTimes,       \* arguments programs give to sleep, as the int they become
    Calls             \* system calls the programs make

ASSUME SlotsAssumption == MAX_PCB_NUM \in Nat /\ MAX_PCB_NUM >= 2
ASSUME SliceAssumption == MAX_TIME_COUNT \in Nat /\ MAX_TIME_COUNT >= 1
ASSUME SleepAssumption == SleepTimes \subseteq Int
ASSUME CallsAssumption ==
    Calls \subseteq {"sleep", "fork", "thread", "start", "startAny", "exit", "wait", "join"}

Pid == 0 .. MAX_PCB_NUM - 1
Idle == 0
None == -1

States == {"RUNNABLE", "RUNNING", "BLOCKED", "BABY", "DEAD", "ZOMBIE"}

VARIABLES
    current,     \* the process on the processor
    state,       \* pcb[p].state
    parent,      \* pcb[p].parent, -1 for none
    timeCount,   \* pcb[p].timeCount, the ticks left of the slice
    sleepTime,   \* pcb[p].sleepTime, the ticks left to sleep
    pools,       \* the lists busy, avai, slp, zombie and their sizes
    pc,          \* where p is between two atomic steps of the kernel
    arg,         \* the slot the system call of p is about
    intr,        \* the IF flag in the context of p
    uif,         \* the IF flag p has in user mode
    nested,      \* pcb[p].ncli is positive whenever p is in user mode
    iter,        \* 0 outside the clock handler, else the position in slp
    halted,      \* an Assert failed: the machine has stopped
    orphan       \* (history) processes whose creator has been collected

sched  == <<current, iter, halted>>
task   == <<state, timeCount, sleepTime, pools>>
family == <<parent, orphan>>
flags  == <<intr, uif, nested>>
ctl    == <<pc, arg>>
vars   == <<sched, task, family, flags, ctl>>

\* Positions in the kernel.  A process that has never run, or is back in its
\* program, is at "user"; one whose sys_exit would return is at "gone".
Yielding == {"yield", "waitYield", "joinYield", "exited"}   \* before int $0x20
Positions == {"user", "gone", "fork", "thread", "start", "exit", "wait", "join", "joinSleep",
              "joinFree"} \cup Yielding

TypeOK ==
    /\ current \in Pid
    /\ state \in [Pid -> States]
    /\ parent \in [Pid -> Pid \cup {None}]
    /\ timeCount \in [Pid -> 0 .. MAX_TIME_COUNT]
    /\ sleepTime \in [Pid -> Int]
    /\ pools \in Pools(Pid)
    /\ pc \in [Pid -> Positions]
    /\ arg \in [Pid -> Pid \cup {None}]
    /\ intr \in [Pid -> BOOLEAN]
    /\ uif \in [Pid -> BOOLEAN]
    /\ nested \in [Pid -> BOOLEAN]
    /\ iter \in Nat
    /\ halted \in BOOLEAN
    /\ orphan \subseteq Pid
-----------------------------------------------------------------------------
\* Mutant: the walk starts after the first sleeper.
WalkStartNext(P) == IF IsEmptyPool(P, "slp") THEN Len(P.list["slp"]) + 1 ELSE 2

\* The walk of the clock handler starts at head(slp), which is NULL when the
\* size of slp is zero.
WalkStart(P) == IF IsEmptyPool(P, "slp") THEN Len(P.list["slp"]) + 1 ELSE 1

\* initProc: slot 0 is the idle process, slot 1 the first program; both are
\* taken out of avai and put in front of busy.  It ends with sti; int $0x20.
InitPools ==
    [list |-> [l \in PoolNames |->
                 CASE l = "busy" -> <<1, 0>>
                   [] l = "avai" -> [i \in 1 .. MAX_PCB_NUM - 2 |-> i + 1]
                   [] OTHER      -> << >>],
     size |-> [l \in PoolNames |->
                 CASE l = "busy" -> 2
                   [] l = "avai" -> MAX_PCB_NUM - 2
                   [] OTHER      -> 0]]

Init ==
    /\ current = Idle
    /\ state = [p \in Pid |-> CASE p = 0 -> "RUNNING" [] p = 1 -> "RUNNABLE" [] OTHER -> "DEAD"]
    /\ parent = [p \in Pid |-> None]
    /\ timeCount = [p \in Pid |-> IF p = 1 THEN MAX_TIME_COUNT ELSE 0]
    /\ sleepTime = [p \in Pid |-> 0]
    /\ pools = InitPools
    /\ pc = [p \in Pid |-> "user"]
    /\ arg = [p \in Pid |-> None]
    /\ intr = [p \in Pid |-> p \in {0, 1}]
    /\ uif = [p \in Pid |-> p \in {0, 1}]
    /\ nested = [p \in Pid |-> FALSE]
    /\ iter = WalkStart(InitPools)
    /\ halted = FALSE
    /\ orphan = {}
-----------------------------------------------------------------------------
\* Mutant: popoff turns interrupts on without counting the nesting.
AfterOffUncounted(p) == intr

\* pushoff ... popoff around a piece of code: interrupts are off inside, and
\* afterwards on again only if they were on before and ncli is back to 0.
AfterOff(p) == [intr EXCEPT ![p] = @ /\ ~nested[p]]

\* iret to user mode restores the flags of the program.
AfterRet(p) == [intr EXCEPT ![p] = uif[p]]

Runs(p) == current = p /\ iter = 0 /\ ~halted

\* p, in its program, makes the system call.
Enters(p, call) == Runs(p) /\ p # Idle /\ pc[p] = "user" /\ call \in Calls

At(p, l) == Runs(p) /\ pc[p] = l

Goto(p, l) == pc' = [pc EXCEPT ![p] = l]

\* A collected slot leaves its children with the number of a slot in their
\* parent field.
Abandon(p) == orphan' = (orphan \ {p}) \cup {q \in Pid : parent[q] = p}
-----------------------------------------------------------------------------
\* The clock interrupts the current process.
Tick ==
    /\ Runs(current)
    /\ intr[current]
    /\ iter' = WalkStart(pools)
    /\ UNCHANGED <<current, halted, task, family, flags, ctl>>

\* int $0x20 in the kernel, and where the call goes on when p is back.
AfterYield(l) ==
    CASE l = "waitYield" -> "wait"
      [] l = "joinYield" -> "join"
      [] l = "exited"    -> "gone"
      [] l = "yield"     -> "user"

Int20(p) ==
    /\ Runs(p)
    /\ pc[p] \in Yielding
    /\ Goto(p, AfterYield(pc[p]))
    /\ arg' = [arg EXCEPT ![p] = IF pc[p] = "joinYield" THEN @ ELSE None]
    /\ intr' = IF pc[p] = "yield" THEN AfterRet(p) ELSE intr
    /\ iter' = WalkStart(pools)
    /\ UNCHANGED <<current, halted, task, family, uif, nested>>

\* awake(p)
Awake(p) ==
    /\ state' = [state EXCEPT ![p] = "RUNNABLE"]
    /\ sleepTime' = [sleepTime EXCEPT ![p] = 0]
    /\ pools' = Move(pools, "slp", "busy", p)

\* Mutant: a sleep of no fixed length, marked -1, counts as over.
LastTickSigned(p) == sleepTime[p] <= 1

LastTick(p) == sleepTime[p] = 1

\* One sleeper of the walk in timerHandle.  An expired one leaves the list, so
\* that the next sleeper is found at the same position.
WalkStep ==
    /\ ~halted
    /\ iter \in 1 .. Len(pools.list["slp"])
    /\ LET p == pools.list["slp"][iter] IN
       \/ /\ LastTick(p)
          /\ Awake(p)
          /\ UNCHANGED <<timeCount, iter>>
       \/ /\ ~LastTick(p)
          /\ sleepTime' = [sleepTime EXCEPT ![p] = IF @ > 0 THEN @ - 1 ELSE @]
          /\ iter' = iter + 1
          /\ UNCHANGED <<state, timeCount, pools>>
    /\ UNCHANGED <<current, halted, family, flags, ctl>>

\* Mutants: no test for a count that is already zero; no rotation; the process
\* whose slice is over stays RUNNING.
SliceOverAtOne == state[current] = "RUNNING" /\ timeCount[current] = 1
SlicePoolsKept == pools
SliceStateKept == state

\* The slice of the current process: used up, it goes to the tail of busy.
SliceOver == state[current] = "RUNNING" /\ timeCount[current] <= 1
SlicePools == IF SliceOver THEN Rotate(pools, "busy") ELSE pools
SliceState == IF SliceOver THEN [state EXCEPT ![current] = "RUNNABLE"] ELSE state
SliceCount ==
    IF SliceOver THEN [timeCount EXCEPT ![current] = MAX_TIME_COUNT]
    ELSE IF state[current] = "RUNNING" THEN [timeCount EXCEPT ![current] = @ - 1]
    ELSE timeCount

\* schedule: the head of busy runs next; the idle process gives way when it is
\* not alone.
SkipIdle(P) ==
    IF HeadOf(P, "busy") = Idle /\ Len(P.list["busy"]) > 1 THEN Rotate(P, "busy") ELSE P

Schedule(P, st) ==
    IF IsEmptyPool(P, "busy")
    THEN /\ halted' = TRUE
         /\ pools' = P
         /\ state' = st
         /\ UNCHANGED current
    ELSE /\ pools' = SkipIdle(P)
         /\ current' = HeadOf(SkipIdle(P), "busy")
         /\ state' = [st EXCEPT ![HeadOf(SkipIdle(P), "busy")] = "RUNNING"]
         /\ UNCHANGED halted

TickEnd ==
    /\ ~halted
    /\ iter > Len(pools.list["slp"])
    /\ iter' = 0
    /\ timeCount' = SliceCount
    /\ Schedule(SlicePools, SliceState)
    /\ UNCHANGED <<sleepTime, family, flags, ctl>>
-----------------------------------------------------------------------------
\* set_sleep(p, t)
SetSleep(p, t) ==
    /\ state' = [state EXCEPT ![p] = "BLOCKED"]
    /\ sleepTime' = [sleepTime EXCEPT ![p] = t]
    /\ pools' = Move(pools, "busy", "slp", p)
    /\ UNCHANGED timeCount

SysSleep(p) ==
    /\ Enters(p, "sleep")
    /\ \E t \in SleepTimes : SetSleep(p, t)
    /\ Goto(p, "yield")
    /\ intr' = AfterOff(p)
    /\ UNCHANGED <<sched, family, uif, nested, arg>>

\* sys_fork, up to the popoff that follows get_proc.  Without a free slot it
\* returns -1.
SysFork(p, kind) ==
    /\ Enters(p, kind)
    /\ IF IsEmptyPool(pools, "avai")
       THEN UNCHANGED <<pools, pc, arg, intr>>
       ELSE /\ arg' = [arg EXCEPT ![p] = HeadOf(pools, "avai")]
            /\ pools' = PickHead(pools, "avai")
            /\ Goto(p, kind)
            /\ intr' = AfterOff(p)
    /\ UNCHANGED <<sched, state, timeCount, sleepTime, family, uif, nested>>

\* The second part of sys_fork for a process: memcpy of the whole table entry,
\* with ncli as it is inside pushoff and the flags of the program, then
\* activate and a parent.
ForkActivate(p) ==
    /\ At(p, "fork")
    /\ LET a == arg[p] IN
       /\ state' = [state EXCEPT ![a] = "RUNNABLE"]
       /\ timeCount' = [timeCount EXCEPT ![a] = MAX_TIME_COUNT]
       /\ sleepTime' = [sleepTime EXCEPT ![a] = 0]
       /\ pools' = InsertTail(pools, "busy", a)
       /\ parent' = [parent EXCEPT ![a] = p]
       /\ orphan' = orphan \ {a}
       /\ uif' = [uif EXCEPT ![a] = uif[p]]
       /\ nested' = [nested EXCEPT ![a] = TRUE]
       /\ intr' = [AfterOff(p) EXCEPT ![a] = uif[p]]
       /\ pc' = [pc EXCEPT ![a] = "user", ![p] = "yield"]
       /\ arg' = [arg EXCEPT ![a] = None, ![p] = None]
    /\ UNCHANGED sched

\* Mutant: the thread stays in busy, where activate put it.
BabyPoolsTwice(a) == InsertTail(InsertTail(pools, "busy", a), "slp", a)

BabyPools(a) == Move(InsertTail(pools, "busy", a), "busy", "slp", a)

\* The same for a thread: activate, then BABY in slp until it is started.  The
\* slot keeps the flags and the ncli its last occupant left.
ThreadActivate(p) ==
    /\ At(p, "thread")
    /\ LET a == arg[p] IN
       /\ state' = [state EXCEPT ![a] = "BABY"]
       /\ timeCount' = [timeCount EXCEPT ![a] = MAX_TIME_COUNT]
       /\ sleepTime' = [sleepTime EXCEPT ![a] = -1]
       /\ pools' = BabyPools(a)
       /\ parent' = [parent EXCEPT ![a] = p]
       /\ orphan' = orphan \ {a}
       /\ intr' = [AfterOff(p) EXCEPT ![a] = uif[a]]
       /\ pc' = [pc EXCEPT ![a] = "user", ![p] = "yield"]
       /\ arg' = [arg EXCEPT ![a] = None, ![p] = None]
    /\ UNCHANGED <<sched, uif, nested>>

\* sys_th_start, the test: a RUNNABLE process is refused (-1), every other one
\* passes the second test.  "start" is a program that names threads it made,
\* before they block or end; "startAny" one that names any slot.
MayName(p, k, call) == call = "start" => parent[k] = p /\ state[k] \in {"BABY", "RUNNABLE"}

\* The list operations of sys_th_start are not inside pushoff.  The clock, if
\* it may interrupt them, rotates busy between the first and the last store of
\* insert_tail, and busy loses a process.  So in the model only a program starts
\* threads whose interrupts are off there: a forked one, which a popoff leaves
\* with interrupts off, but not the first program.
Quiet(p) == ~AfterOff(p)[p]

ThStartCheck(p) ==
    \E k \in Pid, call \in {"start", "startAny"} :
       /\ Enters(p, call) /\ MayName(p, k, call)
       /\ IF state[k] = "RUNNABLE"
          THEN UNCHANGED <<pc, arg, intr>>
          ELSE /\ Quiet(p)
               /\ Goto(p, "start")
               /\ arg' = [arg EXCEPT ![p] = k]
               /\ intr' = AfterOff(p)
       /\ UNCHANGED <<sched, task, family, uif, nested>>

\* sys_th_start, the rest, which no interrupt cuts (Quiet).
ThStart(p) ==
    /\ At(p, "start")
    /\ Awake(arg[p])
    /\ Goto(p, "user")
    /\ arg' = [arg EXCEPT ![p] = None]
    /\ intr' = AfterRet(p)
    /\ UNCHANGED <<sched, timeCount, family, uif, nested>>
-----------------------------------------------------------------------------
\* Mutant: kill leaves the process in busy.
ExitKillKeepsBusy(p) ==
    /\ Enters(p, "exit")
    /\ state' = [state EXCEPT ![p] = "ZOMBIE"]
    /\ pools' = InsertTail(pools, "zombie", p)
    /\ Goto(p, "exit")
    /\ intr' = AfterOff(p)
    /\ UNCHANGED <<sched, timeCount, sleepTime, family, uif, nested, arg>>

\* sys_exit, kill(current) inside pushoff ... popoff.
ExitKill(p) ==
    /\ Enters(p, "exit")
    /\ state' = [state EXCEPT ![p] = "ZOMBIE"]
    /\ pools' = Move(pools, "busy", "zombie", p)
    /\ Goto(p, "exit")
    /\ intr' = AfterOff(p)
    /\ UNCHANGED <<sched, timeCount, sleepTime, family, uif, nested, arg>>

\* Mutants: only a parent in a timed sleep is woken; any parent is.
ParentAsleepTimed(p) == state[parent[p]] = "BLOCKED" /\ sleepTime[parent[p]] # -1
ParentAsleepAny(p) == TRUE

ParentAsleep(p) == state[parent[p]] = "BLOCKED"

\* Mutant: the slot is taken out of the wrong pool.
FreeSlotWrongPool(p) == Move(pools, "busy", "avai", p)

\* The list operations of kill_zombie, and of the end of sys_wait(k).
FreeSlot(p) == Move(pools, "zombie", "avai", p)

\* sys_exit, the rest: wake the parent if it is blocked, for whatever reason
\* it is; without a parent, free the own slot.
ExitNotify(p) ==
    /\ At(p, "exit")
    /\ IF parent[p] = None
       THEN /\ state' = [state EXCEPT ![p] = "DEAD"]
            /\ pools' = FreeSlot(p)
            /\ Abandon(p)
            /\ UNCHANGED sleepTime
       ELSE /\ IF ParentAsleep(p)
               THEN Awake(parent[p])
               ELSE UNCHANGED <<state, sleepTime, pools>>
            /\ UNCHANGED orphan
    /\ Goto(p, "exited")
    /\ intr' = AfterOff(p)
    /\ UNCHANGED <<sched, timeCount, parent, uif, nested, arg>>

Kids(p) == {i \in Pid : parent[i] = p}
Zombies(p) == {i \in Kids(p) : state[i] = "ZOMBIE"}

\* sys_wait(-1), one turn of its loop, inside pushoff ... popoff: collect the
\* child zombie of the lowest slot, or return -1 without a child, or sleep.
WaitReap(p, i) ==
    /\ \A j \in Zombies(p) : i <= j
    /\ state' = [state EXCEPT ![i] = "DEAD"]
    /\ pools' = FreeSlot(i)
    /\ parent' = [parent EXCEPT ![i] = None]
    /\ Abandon(i)
    /\ Goto(p, "user")
    /\ intr' = AfterRet(p)
    /\ UNCHANGED <<timeCount, sleepTime>>

WaitScan(p) ==
    /\ Enters(p, "wait") \/ At(p, "wait")
    /\ \/ \E i \in Zombies(p) : WaitReap(p, i)
       \/ /\ Kids(p) = {}
          /\ Goto(p, "user")
          /\ intr' = AfterRet(p)
          /\ UNCHANGED <<task, family>>
       \/ /\ Kids(p) # {} /\ Zombies(p) = {}
          /\ SetSleep(p, -1)
          /\ Goto(p, "waitYield")
          /\ intr' = AfterOff(p)
          /\ UNCHANGED family
    /\ UNCHANGED <<sched, uif, nested, arg>>

\* sys_wait(k), which is thread_join: the tests, with interrupts as they are.
\* A zombie loses its parent and becomes DEAD before it leaves its list.
JoinTest(p, k) ==
    \/ /\ parent[k] # p \/ state[k] = "BABY"
       /\ Goto(p, "user")
       /\ arg' = [arg EXCEPT ![p] = None]
       /\ intr' = AfterRet(p)
       /\ UNCHANGED <<state, family>>
    \/ /\ parent[k] = p /\ state[k] = "ZOMBIE"
       /\ parent' = [parent EXCEPT ![k] = None]
       /\ state' = [state EXCEPT ![k] = "DEAD"]
       /\ Abandon(k)
       /\ Goto(p, "joinFree")
       /\ arg' = [arg EXCEPT ![p] = k]
       /\ intr' = AfterOff(p)
    \/ /\ parent[k] = p /\ state[k] \notin {"BABY", "ZOMBIE"}
       /\ Goto(p, "joinSleep")
       /\ arg' = [arg EXCEPT ![p] = k]
       /\ UNCHANGED <<state, family, intr>>

JoinCheck(p) ==
    /\ \/ Enters(p, "join") /\ \E k \in Pid : JoinTest(p, k)
       \/ At(p, "join") /\ JoinTest(p, arg[p])
    /\ UNCHANGED <<sched, timeCount, sleepTime, pools, uif, nested>>

JoinFree(p) ==
    /\ At(p, "joinFree")
    /\ pools' = FreeSlot(arg[p])
    /\ Goto(p, "user")
    /\ arg' = [arg EXCEPT ![p] = None]
    /\ intr' = AfterRet(p)
    /\ UNCHANGED <<sched, state, timeCount, sleepTime, family, uif, nested>>

\* set_sleep, some time after the test found no zombie.
JoinSleep(p) ==
    /\ At(p, "joinSleep")
    /\ SetSleep(p, -1)
    /\ Goto(p, "joinYield")
    /\ intr' = AfterOff(p)
    /\ UNCHANGED <<sched, family, uif, nested, arg>>
-----------------------------------------------------------------------------
Program(p) ==
    \/ SysSleep(p) \/ SysFork(p, "fork") \/ SysFork(p, "thread")
    \/ ThStartCheck(p) \/ ExitKill(p)
    \/ WaitScan(p) \/ JoinCheck(p)

Kernel(p) ==
    \/ Int20(p)
    \/ ForkActivate(p) \/ ThreadActivate(p) \/ ThStart(p)
    \/ ExitNotify(p)
    \/ JoinFree(p) \/ JoinSleep(p)

Handler == WalkStep \/ TickEnd

Next == Tick \/ Handler \/ \E p \in Pid : Program(p) \/ Kernel(p)

Spec == Init /\ [][Next]_vars
-----------------------------------------------------------------------------
\* Slots an unfinished call has taken out of avai, and zombies an unfinished
\* thread_join is putting back.
Reserved == {arg[p] : p \in {q \in Pid : pc[q] \in {"fork", "thread"}}}
Returning == {arg[p] : p \in {q \in Pid : pc[q] = "joinFree"}}

\* The pool the state of a slot says it is in.
Home(p) ==
    CASE state[p] \in {"RUNNABLE", "RUNNING"} -> "busy"
      [] state[p] \in {"BLOCKED", "BABY"}     -> "slp"
      [] state[p] = "ZOMBIE"                  -> "zombie"
      [] OTHER                                -> IF p \in Returning THEN "zombie"
                                                 ELSE IF p \in Reserved THEN "nowhere"
                                                 ELSE "avai"

\* Every slot is exactly once in the pool of its state, and in no other one,
\* and each size field counts its list: the validity every free_proc relies on.
PoolInv ==
    \A l \in PoolNames :
       /\ IsInjective(pools.list[l])
       /\ pools.size[l] = Len(pools.list[l])
       /\ \A p \in Pid : p \in Range(pools.list[l]) <=> Home(p) = l

\* schedule always finds a process in busy: its Assert(pt) does not fail.
NeverHalted == ~halted

\* At most one process other than idle is RUNNING, it is on the processor, and
\* it is the head of busy: the end of a slice and schedule take the head of the
\* list for the current process.
RunningIsHead ==
    \A p \in Pid \ {Idle} :
       state[p] = "RUNNING" => p = current /\ HeadOf(pools, "busy") = p

\* A process that exits never gets the processor back.
ExitIsFinal == iter = 0 => pc[current] # "gone"

\* sys_wait(-1) sleeps without a child to collect: a child that is a zombie
\* while its parent sleeps is just about to wake it.
WaitIsWoken ==
    \A p \in Pid :
       pc[p] \in {"wait", "waitYield"} /\ state[p] = "BLOCKED"
          => \A k \in Zombies(p) : k = current /\ pc[k] = "exit"

\* The same for sys_wait(k), thread_join, of a thread (a slot whose ncli no fork
\* has left positive).
JoinIsWoken ==
    \A p \in Pid :
       pc[p] \in {"join", "joinYield"} /\ state[p] = "BLOCKED"
             /\ state[arg[p]] = "ZOMBIE" /\ ~nested[arg[p]]
          => arg[p] = current /\ pc[arg[p]] = "exit"

\* A process is collected by the one that created it, not by a later occupant
\* of the same slot.
CollectedByCreator ==
    [][\A k \in orphan : state[k] = "ZOMBIE" => state'[k] = "ZOMBIE"]_vars

\* A sleeping process is woken by the clock on its last tick, or by a child
\* that exits.
SleepKept ==
    [][\A p \in Pid :
         state[p] = "BLOCKED" /\ state'[p] # "BLOCKED"
            => \/ iter > 0 /\ sleepTime[p] = 1
               \/ pc[current] = "exit" /\ parent[current] = p]_vars
-----------------------------------------------------------------------------
\* The strengthening that makes PoolInv, RunningIsHead and NeverHalted
\* inductive: the idle process is always in busy, a position in the kernel
\* bounds the state of the process, and a slot in the hands of a call is dead
\* (or, for thread_start, a child not started yet) and in no other hands.
IdleReady == state[Idle] \in {"RUNNABLE", "RUNNING"} /\ pc[Idle] = "user"

Holding == {"fork", "thread", "joinFree"}

PositionInv ==
    /\ iter = 0 /\ pc[current] \in {"user", "wait", "join", "joinSleep"} \cup Holding \cup {"start"}
          => state[current] = "RUNNING"
    /\ iter = 0 /\ pc[current] = "exit" => state[current] = "ZOMBIE"
    /\ \A p \in Pid :
          /\ pc[p] \in Holding \cup {"start"} => state[p] \in {"RUNNABLE", "RUNNING"}
          /\ pc[p] \in {"exit", "exited", "gone"} => state[p] \in {"ZOMBIE", "DEAD"}

HoldInv ==
    /\ \A p \in Pid :
          /\ pc[p] \in Holding => arg[p] \in Pid /\ state[arg[p]] = "DEAD"
          /\ pc[p] = "start" => /\ arg[p] \in Pid
                                /\ state[arg[p]] = "BABY"
                                /\ parent[arg[p]] = p
          /\ pc[p] \in {"join", "joinYield", "joinSleep"} => arg[p] \in Pid
          /\ state[p] = "BABY" => sleepTime[p] = -1
    /\ \A p, q \in Pid :
          pc[p] \in Holding /\ pc[q] \in Holding /\ arg[p] = arg[q] => p = q

IInv ==
    /\ TypeOK /\ PoolInv /\ NeverHalted /\ RunningIsHead
    /\ ExitIsFinal /\ IdleReady /\ PositionInv /\ HoldInv
-----------------------------------------------------------------------------
\* What the machine guarantees.  The clock latches its interrupt, so that it is
\* taken even if interrupts are off most of the time; a call that is often on
\* the processor advances, since ticks are far apart.  Programs may loop.
Continue(p) ==
    \/ Kernel(p)
    \/ At(p, "wait") /\ WaitScan(p)
    \/ At(p, "join") /\ JoinCheck(p)

Fairness ==
    /\ SF_vars(Tick)
    /\ WF_vars(Handler)
    /\ \A p \in Pid : SF_vars(Continue(p))

FairSpec == Spec /\ Fairness

\* Every process that is ready gets the processor.
ReadyRuns ==
    \A p \in Pid \ {Idle} : state[p] = "RUNNABLE" ~> state[p] # "RUNNABLE"

\* Every sleep of a positive number of ticks ends.
SleepEnds ==
    \A p \in Pid : (state[p] = "BLOCKED" /\ sleepTime[p] > 0) ~> state[p] # "BLOCKED"

\* A wait for any child returns once there is a child to collect, whether the
\* child exits while the parent gives the processor away or while it sleeps.
WaitReturns ==
    \A p \in Pid : (pc[p] \in {"waitYield", "wait"} /\ Zombies(p) # {}) ~> pc[p] = "user"
=============================================================================
