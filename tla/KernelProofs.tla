---------------------------- MODULE KernelProofs ----------------------------
(***************************************************************************)
(* Proofs about Kernel: the semaphores keep the pools valid and their       *)
(* waiters asleep, and they implement the semaphores of AbsSemaphore, for   *)
(* any number of slots and of semaphores.  The theorems assume programs in  *)
(* which a process that has children does not wait for a semaphore (the     *)
(* parent of the shell does: the run kern_parent), and that start threads   *)
(* as ProcessProofs assumes.                                                *)
(***************************************************************************)
EXTENDS Kernel, ProcessProofs

NoParentWaits == "parentWaits" \notin Careless

Waiters(s) == sems.waiters[s]

LEMMA KInvParts ==
  ASSUME KInv
  PROVE  /\ sems.value \in [Sem -> Int] /\ sems.waiters \in [Sem -> Seq(Pid)]
         /\ sems.avail \in Seq(Sem) /\ IsInjective(sems.avail)
         /\ sems = [value |-> sems.value, waiters |-> sems.waiters, avail |-> sems.avail]
         /\ \A s \in Sem : NoDup(Pid, Waiters(s)) /\ NoDup(Sem, sems.avail)
BY DEF KInv, SemTypeOK, SemTables, WaitersAsleep, NoDup, Waiters

LEMMA KInitKInv == KInit => IInv /\ KInv
<1> SUFFICES ASSUME KInit PROVE IInv /\ KInv  OBVIOUS
<1>1. IInv  BY InitIInv DEF KInit
<1> DEFINE a == [i \in 1 .. MAX_SEMAPHORE |-> i - 1]
<1>2. a \in Seq(Sem) /\ IsInjective(a)
  <2>1. a \in [1 .. MAX_SEMAPHORE -> Sem]  BY SemAssumption DEF Sem
  <2>2. a \in Seq(Sem)  BY <2>1, SemAssumption, SeqDef
  <2> QED BY <2>2, SemAssumption DEF IsInjective
<1>3. sems = [value |-> [s \in Sem |-> 0], waiters |-> [s \in Sem |-> << >>], avail |-> a]
  BY DEF KInit, FreshTable, Sem
<1> HIDE DEF a
<1>4. SemTypeOK
  <2>1. [s \in Sem |-> 0] \in [Sem -> Int]  OBVIOUS
  <2>2. [s \in Sem |-> << >>] \in [Sem -> Seq(Pid)]
    <3>1. << >> \in Seq(Pid)  OBVIOUS
    <3> QED BY <3>1
  <2> QED BY <1>2, <1>3, <2>1, <2>2 DEF SemTypeOK, SemTables
<1>5. \A s \in Sem : sems.waiters[s] = << >>  BY <1>3
<1>6. Range(<< >>) = {} /\ IsInjective(<< >>)  BY DEF Range, IsInjective
<1>7. WaitersAsleep /\ WaitersChildless  BY <1>5, <1>6 DEF WaitersAsleep, WaitersChildless
<1> QED BY <1>1, <1>4, <1>7 DEF KInv
-----------------------------------------------------------------------------
\* What the process manager leaves alone of a process that sleeps for no fixed
\* time: the length of its sleep.
LEMMA LastingSleepKept ==
  ASSUME OwnThreadsOnly, IInv, Next, NEW q \in Pid,
         state[q] = "BLOCKED", state'[q] = "BLOCKED", sleepTime[q] = -1
  PROVE  sleepTime'[q] = -1
<1>1. sleepTime \in [Pid -> Int] /\ state \in [Pid -> States]  BY DEF IInv, TypeOK
<1> USE DEF task
<1>2. CASE Tick \/ TickEnd  BY <1>2 DEF Tick, TickEnd
<1>3. CASE WalkStep
  <2> DEFINE k == pools.list["slp"][iter]
  <2>1. \/ sleepTime' = [sleepTime EXCEPT ![k] = IF @ > 0 THEN @ - 1 ELSE @]
        \/ /\ state' = [state EXCEPT ![k] = "RUNNABLE"]
           /\ sleepTime' = [sleepTime EXCEPT ![k] = 0]
    BY <1>3 DEF WalkStep, Awake
  <2> HIDE DEF k
  <2>2. CASE sleepTime' = [sleepTime EXCEPT ![k] = IF @ > 0 THEN @ - 1 ELSE @]
    BY <1>1, <2>2
  <2>3. CASE /\ state' = [state EXCEPT ![k] = "RUNNABLE"]
             /\ sleepTime' = [sleepTime EXCEPT ![k] = 0]
    BY <1>1, <2>3
  <2> QED BY <2>1, <2>2, <2>3
<1>4. ASSUME NEW p \in Pid, Program(p) \/ Kernel(p) PROVE sleepTime'[q] = -1
  <2>1. CASE SysSleep(p) \/ JoinSleep(p) \/ (WaitScan(p) /\ SetSleep(p, -1))
    <3>1. state[p] = "RUNNING"
      BY <2>1 DEF SysSleep, JoinSleep, WaitScan, Enters, At, IInv, PositionInv, Runs
    <3>2. \E t : sleepTime' = [sleepTime EXCEPT ![p] = t]
      BY <2>1 DEF SysSleep, JoinSleep, SetSleep
    <3> QED BY <1>1, <3>1, <3>2
  <2>2. CASE SysFork(p, "fork") \/ SysFork(p, "thread") \/ ThStartCheck(p) \/ Int20(p)
             \/ JoinFree(p) \/ ExitKill(p) \/ JoinCheck(p)
    BY <2>2 DEF SysFork, ThStartCheck, Int20, JoinFree, ExitKill, JoinCheck
  <2>3. CASE ForkActivate(p) \/ ThreadActivate(p)
    <3>1. state[arg[p]] = "DEAD"
      BY <2>3, ReservedSlot DEF ForkActivate, ThreadActivate, At
    <3>2. \E t : sleepTime' = [sleepTime EXCEPT ![arg[p]] = t]
      BY <2>3 DEF ForkActivate, ThreadActivate
    <3> QED BY <1>1, <3>1, <3>2
  <2>4. CASE ThStart(p) \/ ExitNotify(p)
    <3>1. sleepTime' = sleepTime \/ \E k : Awake(k)  BY <2>4 DEF ThStart, ExitNotify
    <3> QED BY <1>1, <3>1 DEF Awake
  <2>5. CASE WaitScan(p) /\ ~SetSleep(p, -1)
    BY <2>5 DEF WaitScan, WaitReap
  <2> QED BY <1>4, <2>1, <2>2, <2>3, <2>4, <2>5 DEF Program, Kernel
<1> QED BY <1>2, <1>3, <1>4 DEF Next, Handler

\* A process that sleeps gets no child.
LEMMA ChildlessKept ==
  ASSUME IInv, Next, NEW q \in Pid, state[q] = "BLOCKED", Kids(q) = {}
  PROVE  Kids(q)' = {}
<1>1. parent \in [Pid -> Pid \cup {None}] /\ None \notin Pid  BY PidFacts DEF IInv, TypeOK
<1> SUFFICES \A x \in Pid : parent'[x] # q  BY DEF Kids
<1>2. \A x \in Pid : parent[x] # q  BY DEF Kids
<1> USE DEF family
<1>3. CASE Tick \/ WalkStep \/ TickEnd  BY <1>2, <1>3 DEF Tick, WalkStep, TickEnd
<1>4. ASSUME NEW p \in Pid, Program(p) \/ Kernel(p) PROVE \A x \in Pid : parent'[x] # q
  <2>1. CASE ForkActivate(p) \/ ThreadActivate(p)
    <3>1. state[p] = "RUNNING" /\ parent' = [parent EXCEPT ![arg[p]] = p]
      BY <2>1 DEF ForkActivate, ThreadActivate, At, IInv, PositionInv, Runs, Holding
    <3> QED BY <1>1, <1>2, <3>1
  <2>2. CASE WaitScan(p) \/ JoinCheck(p)
    <3>1. parent' = parent \/ \E k : parent' = [parent EXCEPT ![k] = None]
      BY <2>2 DEF WaitScan, WaitReap, JoinCheck, JoinTest
    <3> QED BY <1>1, <1>2, <3>1
  <2>3. CASE parent' = parent  BY <1>2, <2>3
  <2> QED BY <1>4, <2>1, <2>2, <2>3
      DEF Program, Kernel, SysSleep, SysFork, ThStartCheck, ExitKill, Int20, ThStart,
          ExitNotify, JoinFree, JoinSleep
<1> QED BY <1>3, <1>4 DEF Next, Handler

\* The process manager leaves the waiters of semaphores alone.
LEMMA NextKInv ==
  ASSUME OwnThreadsOnly, IInv, KInv, Next, UNCHANGED sems
  PROVE  KInv'
<1>1. SemTypeOK'  BY DEF KInv, SemTypeOK
<1>2. ASSUME NEW s \in Sem, NEW p \in Range(sems.waiters[s])
      PROVE  state'[p] = "BLOCKED" /\ sleepTime'[p] = -1 /\ Kids(p)' = {}
  <2>1. p \in Pid  BY KInvParts DEF Range
  <2>2. state[p] = "BLOCKED" /\ sleepTime[p] = -1 /\ Kids(p) = {}
    BY DEF KInv, WaitersAsleep, WaitersChildless
  <2>3. \A x \in Pid : parent[x] # p  BY <2>2 DEF Kids
  <2>4. state'[p] = "BLOCKED"
    BY <2>1, <2>2, <2>3, NextWoken DEF WokenDuly, IInv, TypeOK
  <2> QED BY <2>1, <2>2, <2>4, LastingSleepKept, ChildlessKept
<1>3. WaitersAsleep' /\ WaitersChildless'
  BY <1>2 DEF KInv, WaitersAsleep, WaitersChildless
<1> QED BY <1>1, <1>3 DEF KInv
-----------------------------------------------------------------------------
\* The caller of a semaphore call.
LEMMA SemCaller ==
  ASSUME IInv, NEW p, NEW call, EntersSem(p, call), p \in Pid
  PROVE  /\ p \in Pid \ {Idle} /\ Runs(p) /\ pc[p] = "user" /\ state[p] = "RUNNING"
         /\ current = p
BY DEF EntersSem, Runs, IInv, PositionInv

\* A call that changes nothing but the flags of the process.
LEMMA ReturnsIInv ==
  ASSUME IInv, NEW p \in Pid, NEW call, EntersSem(p, call), Returns(p), UNCHANGED task
  PROVE  IInv'
<1>1. p \in Pid \ {Idle} /\ Runs(p) /\ pc[p] = "user" /\ state[p] = "RUNNING"  BY SemCaller
<1>2. /\ intr' \in [Pid -> BOOLEAN] /\ UNCHANGED <<sched, family, uif, nested, pc, arg>>
  BY FlagsType DEF Returns, IInv
<1>3. Goto(p, "user")  BY <1>1, <1>2 DEF Goto, IInv, TypeOK
<1>4. arg' \in [Pid -> Pid \cup {None}] /\ \A q \in Pid \ {p} : arg'[q] = arg[q]
  BY <1>2 DEF IInv, TypeOK
<1>5. pc[p] \notin Holding \cup {"start"}  BY <1>1 DEF Holding
<1>6. UNCHANGED <<sched, task, family, uif, nested>>  BY <1>2
<1> QED BY <1>1, <1>2, <1>3, <1>4, <1>5, <1>6, GotoIInv

\* A call that wakes a process.
LEMMA AwakeIInv ==
  ASSUME IInv, NEW p \in Pid, NEW call, EntersSem(p, call), Returns(p),
         NEW k \in Pid, state[k] = "BLOCKED", Awake(k), UNCHANGED timeCount
  PROVE  IInv'
<1>1. /\ p # Idle /\ Runs(p) /\ pc[p] = "user" /\ state[p] = "RUNNING" /\ current = p
  BY SemCaller
<1>2. /\ intr' \in [Pid -> BOOLEAN] /\ UNCHANGED <<sched, family, uif, nested, pc, arg>>
  BY FlagsType DEF Returns, IInv
<1>3. /\ state' = [state EXCEPT ![k] = "RUNNABLE"]
      /\ sleepTime' = [sleepTime EXCEPT ![k] = 0]
  BY DEF Awake
<1> USE DEF IInv, sched, family
<1>4. Reserved' = Reserved /\ Returning' = Returning  BY <1>2 DEF Reserved, Returning
<1>5. Home(k) = "slp"  BY DEF Home
<1>6. PoolInv' /\ pools' \in Pools(Pid) /\ RunningIsHead'
  BY <1>2, <1>4, <1>5, AwakeStep
<1>7. TypeOK'  BY <1>2, <1>3, <1>6 DEF TypeOK, States
<1>8. NeverHalted' /\ ExitIsFinal'  BY <1>2 DEF NeverHalted, ExitIsFinal
<1>9. IdleReady' /\ PositionInv'
  BY <1>1, <1>2, <1>3 DEF IdleReady, PositionInv, TypeOK
<1>10. HoldInv'  BY <1>2, <1>3 DEF HoldInv, TypeOK
<1> QED BY <1>6, <1>7, <1>8, <1>9, <1>10

LEMMA SemPIInv ==
  ASSUME IInv, NEW p \in Pid, NEW s \in Sem, SemP(p, s)
  PROVE  IInv'
<1>1. EntersSem(p, "P") /\ Yields(p)  BY DEF SemP
<1>2. p \in Pid \ {Idle} /\ Runs(p) /\ pc[p] = "user" /\ state[p] = "RUNNING"
  BY <1>1, SemCaller
<1>3. /\ intr' = [intr EXCEPT ![p] = FALSE] /\ Goto(p, "yield")
      /\ UNCHANGED <<sched, family, uif, nested, arg>>
  BY <1>1 DEF Yields
<1>4. intr' \in [Pid -> BOOLEAN]  BY <1>3 DEF IInv, TypeOK
<1>5. CASE SetSleep(p, -1)
  <2>1. -1 \in Int  OBVIOUS
  <2> QED BY <1>2, <1>3, <1>4, <1>5, <2>1, SleepIInv
<1>6. CASE UNCHANGED task
  <2>1. arg' \in [Pid -> Pid \cup {None}] /\ \A q \in Pid \ {p} : arg'[q] = arg[q]
    BY <1>3 DEF IInv, TypeOK
  <2>2. pc[p] \notin Holding \cup {"start"}  BY <1>2 DEF Holding
  <2>3. UNCHANGED <<sched, task, family, uif, nested>>  BY <1>3, <1>6
  <2> QED BY <1>2, <1>3, <1>4, <2>1, <2>2, <2>3, GotoIInv
<1> QED BY <1>5, <1>6 DEF SemP

\* The process that do_sem_signal takes from the list of waiters.
LEMMA WokenWaiter ==
  ASSUME KInv, NEW s \in Sem, Wakes(sems, s)
  PROVE  /\ Woken(sems, s) \in Pid /\ Woken(sems, s) \in Range(Waiters(s))
         /\ state[Woken(sems, s)] = "BLOCKED"
<1>1. Waiters(s) \in Seq(Pid) /\ Waiters(s) # << >>  BY KInvParts DEF Wakes, Waiters
<1>2. Woken(sems, s) = Waiters(s)[1] /\ 1 \in 1 .. Len(Waiters(s))
  BY <1>1 DEF Woken, Waiters
<1>3. Woken(sems, s) \in Pid /\ Woken(sems, s) \in Range(Waiters(s))
  BY <1>1, <1>2 DEF Range
<1> QED BY <1>3 DEF KInv, WaitersAsleep, Waiters

LEMMA SemCallIInv ==
  ASSUME IInv, KInv, NEW p \in Pid, SemCall(p)
  PROVE  IInv'
<1>1. CASE SemInit(p)  BY <1>1, ReturnsIInv DEF SemInit
<1>2. ASSUME NEW s \in Sem, SemP(p, s) PROVE IInv'  BY <1>2, SemPIInv
<1>3. ASSUME NEW s \in Sem, SemV(p, s) PROVE IInv'
  <2>1. EntersSem(p, "V") /\ Returns(p)  BY <1>3 DEF SemV
  <2>2. CASE Wakes(sems, s)
    <3>1. Awake(Woken(sems, s)) /\ UNCHANGED timeCount  BY <1>3, <2>2 DEF SemV
    <3> QED BY <2>1, <2>2, <3>1, WokenWaiter, AwakeIInv
  <2>3. CASE ~Wakes(sems, s)
    <3>1. UNCHANGED task  BY <1>3, <2>3 DEF SemV
    <3> QED BY <2>1, <3>1, ReturnsIInv
  <2> QED BY <2>2, <2>3
<1>4. ASSUME NEW s \in Sem, SemDestroy(p, s) PROVE IInv'  BY <1>4, ReturnsIInv DEF SemDestroy
<1> QED BY <1>1, <1>2, <1>3, <1>4 DEF SemCall
-----------------------------------------------------------------------------
\* A new element in front.
LEMMA PrependNoDup ==
  ASSUME NEW S, NEW s, NoDup(S, s), NEW e \in S, e \notin Range(s)
  PROVE  NoDup(S, <<e>> \o s)
<1> DEFINE t == <<e>> \o s
<1>1. s \in Seq(S) /\ IsInjective(s)  BY DEF NoDup
<1>2. /\ t \in Seq(S) /\ Len(t) = 1 + Len(s) /\ Len(s) \in Nat
      /\ \A i \in 1 .. 1 + Len(s) : t[i] = IF i <= 1 THEN e ELSE s[i - 1]
  BY <1>1
<1> HIDE DEF t
<1>3. DOMAIN t = 1 .. Len(s) + 1  BY <1>2
<1>4. \A i \in 1 .. Len(s) : s[i] # e  BY <1>1 DEF Range
<1>5. \A i, j \in 1 .. Len(s) : s[i] = s[j] => i = j  BY <1>1 DEF IsInjective
<1>6. ASSUME NEW i \in 1 .. Len(s) + 1, NEW j \in 1 .. Len(s) + 1, t[i] = t[j]
      PROVE  i = j
  <2>1. CASE i = 1 \/ j = 1  BY <1>2, <1>4, <1>6, <2>1
  <2>2. CASE i # 1 /\ j # 1
    <3>1. i - 1 \in 1 .. Len(s) /\ j - 1 \in 1 .. Len(s)  BY <1>2, <2>2
    <3>2. s[i - 1] = s[j - 1]  BY <1>2, <1>6, <2>2
    <3> QED BY <1>2, <1>5, <3>1, <3>2
  <2> QED BY <2>1, <2>2
<1>7. IsInjective(t)  BY <1>3, <1>6 DEF IsInjective
<1> QED BY <1>2, <1>7 DEF NoDup, t

\* What a semaphore call leaves alone: the fields it does not name.
Table(v, w, a) == [value |-> v, waiters |-> w, avail |-> a]

LEMMA InitTable ==
  ASSUME KInv, sems.avail # << >>, NEW v \in InitValues, sems' = Allot(sems, v)
  PROVE  SemTypeOK' /\ sems'.waiters = sems.waiters
<1> DEFINE h == Head(sems.avail)
<1>1. NoDup(Sem, Tail(sems.avail))
  <2>1. NoDup(Sem, sems.avail)  BY KInvParts DEF NoDup
  <2> QED BY <2>1, TailNoDup
<1>2. /\ sems'.value = [sems.value EXCEPT ![h] = v] /\ sems'.waiters = sems.waiters
      /\ sems'.avail = Tail(sems.avail) /\ sems' = Table(sems'.value, sems'.waiters, sems'.avail)
  BY KInvParts DEF Allot, Table
<1>3. v \in Int  BY SemAssumption
<1>4. sems'.value \in [Sem -> Int]  BY <1>2, <1>3, KInvParts
<1>5. sems' \in SemTables(Sem, Pid)
  BY <1>1, <1>2, <1>4, KInvParts DEF SemTables, NoDup, Table
<1> QED BY <1>1, <1>2, <1>5 DEF SemTypeOK, NoDup

LEMMA DestroyTable ==
  ASSUME KInv, NEW s \in Sem, sems' = Discard(sems, s)
  PROVE  SemTypeOK' /\ sems'.waiters = sems.waiters
<1> DEFINE r == RemoveFirst(sems.avail, s)
<1>0. NoDup(Sem, sems.avail) /\ sems.avail \in Seq(Sem)  BY KInvParts DEF NoDup
<1>1. NoDup(Sem, r) /\ s \notin Range(r)
  BY <1>0, RemoveFirstNoDup, RemoveFirstAbsent
<1> HIDE DEF r
<1>2. NoDup(Sem, <<s>> \o r)  BY <1>1, PrependNoDup
<1>3. /\ sems'.value = [sems.value EXCEPT ![s] = 0] /\ sems'.waiters = sems.waiters
      /\ sems'.avail = <<s>> \o r /\ sems' = Table(sems'.value, sems'.waiters, sems'.avail)
  BY KInvParts DEF Discard, Table, r
<1>4. sems'.value \in [Sem -> Int]
  <2>1. 0 \in Int  OBVIOUS
  <2> QED BY <1>3, <2>1, KInvParts, Zenon
<1>5. sems' \in SemTables(Sem, Pid)
  BY <1>2, <1>3, <1>4, KInvParts DEF SemTables, NoDup, Table
<1> QED BY <1>2, <1>3, <1>5 DEF SemTypeOK, NoDup

\* One list of waiters changes.
LEMMA WaitersTable ==
  ASSUME KInv, NEW s \in Sem, NEW v \in Int, NEW w, NoDup(Pid, w),
         sems' = [sems EXCEPT !.value[s] = v, !.waiters[s] = w]
  PROVE  /\ SemTypeOK'
         /\ \A t \in Sem : sems'.waiters[t] = IF t = s THEN w ELSE sems.waiters[t]
<1>1. /\ sems'.value = [sems.value EXCEPT ![s] = v]
      /\ sems'.waiters = [sems.waiters EXCEPT ![s] = w]
      /\ sems'.avail = sems.avail /\ sems' = Table(sems'.value, sems'.waiters, sems'.avail)
  BY KInvParts DEF Table
<1>2. sems'.value \in [Sem -> Int]  BY <1>1, KInvParts
<1>3. sems'.waiters \in [Sem -> Seq(Pid)]  BY <1>1, KInvParts DEF NoDup
<1>4. sems' \in SemTables(Sem, Pid)
  BY <1>1, <1>2, <1>3, KInvParts DEF SemTables, Table
<1>5. IsInjective(sems'.avail)  BY <1>1, KInvParts
<1> QED BY <1>1, <1>4, <1>5, KInvParts DEF SemTypeOK

\* The lists of waiters and what they say of the processes are the same.
LEMMA SameWaiters ==
  ASSUME KInv, SemTypeOK', sems'.waiters = sems.waiters,
         UNCHANGED <<state, sleepTime, parent>>
  PROVE  KInv'
BY DEF KInv, WaitersAsleep, WaitersChildless, Kids

LEMMA SemPKInv ==
  ASSUME NoParentWaits, IInv, KInv, NEW p \in Pid, NEW s \in Sem, SemP(p, s)
  PROVE  KInv'
<1> DEFINE w == IF Blocks(sems, s) THEN Append(Waiters(s), p) ELSE Waiters(s)
           v == sems.value[s] - 1
<1>1. state[p] = "RUNNING" /\ Kids(p) = {}
  BY SemCaller DEF SemP, NoParentWaits
<1>2. \A t \in Sem : NoDup(Pid, Waiters(t)) /\ p \notin Range(Waiters(t))
  BY <1>1, KInvParts DEF KInv, WaitersAsleep, Waiters
<1>3. NoDup(Pid, w)  BY <1>2, AppendNoDup
<1>4. Range(w) = IF Blocks(sems, s) THEN Range(Waiters(s)) \cup {p} ELSE Range(Waiters(s))
  BY <1>2, AppendNoDup
<1>5. v \in Int  BY KInvParts
<1>6. sems' = [sems EXCEPT !.value[s] = v, !.waiters[s] = w]  BY DEF SemP, Down, Waiters
<1> HIDE DEF v, w
<1>7. /\ SemTypeOK'
      /\ \A t \in Sem : sems'.waiters[t] = IF t = s THEN w ELSE Waiters(t)
  BY <1>3, <1>5, <1>6, WaitersTable DEF Waiters
<1>8. UNCHANGED parent /\ state \in [Pid -> States] /\ sleepTime \in [Pid -> Int]
  BY DEF SemP, Yields, family, IInv, TypeOK
<1>9. CASE Blocks(sems, s)
  <2>1. /\ state' = [state EXCEPT ![p] = "BLOCKED"]
        /\ sleepTime' = [sleepTime EXCEPT ![p] = -1]
    BY <1>9 DEF SemP, SetSleep
  <2>2. \A t \in Sem : \A q \in Range(Waiters(t)) :
           q # p /\ state[q] = "BLOCKED" /\ sleepTime[q] = -1 /\ Kids(q) = {}
    BY <1>2 DEF KInv, WaitersAsleep, WaitersChildless, Waiters
  <2>3. \A t \in Sem : \A q \in Range(sems'.waiters[t]) :
           /\ state'[q] = "BLOCKED" /\ sleepTime'[q] = -1 /\ Kids(q)' = {}
    BY <1>1, <1>4, <1>7, <1>8, <1>9, <2>1, <2>2 DEF Kids
  <2>4. \A t \in Sem : \A q \in Range(sems'.waiters[t]) :
           \A u \in Sem \ {t} : q \notin Range(sems'.waiters[u])
    BY <1>2, <1>4, <1>7, <1>9 DEF KInv, WaitersAsleep, Waiters
  <2>5. \A t \in Sem : IsInjective(sems'.waiters[t])  BY <1>2, <1>3, <1>7 DEF NoDup
  <2> QED BY <1>7, <2>3, <2>4, <2>5 DEF KInv, WaitersAsleep, WaitersChildless
<1>10. CASE ~Blocks(sems, s)
  <2>1. UNCHANGED <<state, sleepTime>>  BY <1>10 DEF SemP, task
  <2>2. \A t \in Sem : sems'.waiters[t] = sems.waiters[t]  BY <1>7, <1>10 DEF w, Waiters
  <2> QED BY <1>7, <1>8, <2>1, <2>2
      DEF KInv, WaitersAsleep, WaitersChildless, Kids
<1> QED BY <1>9, <1>10

LEMMA SemVKInv ==
  ASSUME IInv, KInv, NEW p \in Pid, NEW s \in Sem, SemV(p, s)
  PROVE  KInv'
<1> DEFINE k == Woken(sems, s)
           w == IF Wakes(sems, s) THEN RemoveFirst(Waiters(s), k) ELSE Waiters(s)
           v == sems.value[s] + 1
<1>1. \A t \in Sem : NoDup(Pid, Waiters(t))  BY KInvParts
<1>2. Wakes(sems, s) => k \in Range(Waiters(s))  BY WokenWaiter
<1>3. NoDup(Pid, w)  BY <1>1, <1>2, RemoveFirstNoDup
<1>4. Range(w) = IF Wakes(sems, s) THEN Range(Waiters(s)) \ {k} ELSE Range(Waiters(s))
  BY <1>1, <1>2, RemoveFirstNoDup
<1>5. v \in Int  BY KInvParts
<1>6. sems' = [sems EXCEPT !.value[s] = v, !.waiters[s] = w]  BY DEF SemV, Up, Waiters
<1> HIDE DEF v, w, k
<1>7. /\ SemTypeOK'
      /\ \A t \in Sem : sems'.waiters[t] = IF t = s THEN w ELSE Waiters(t)
  BY <1>3, <1>5, <1>6, WaitersTable DEF Waiters
<1>8. UNCHANGED parent /\ state \in [Pid -> States] /\ sleepTime \in [Pid -> Int]
  BY DEF SemV, Returns, family, IInv, TypeOK
<1>9. CASE Wakes(sems, s)
  <2>1. /\ state' = [state EXCEPT ![k] = "RUNNABLE"]
        /\ sleepTime' = [sleepTime EXCEPT ![k] = 0]
    BY <1>9 DEF SemV, Awake, k
  <2>2. \A t \in Sem : \A q \in Range(Waiters(t)) :
           /\ state[q] = "BLOCKED" /\ sleepTime[q] = -1 /\ Kids(q) = {}
           /\ \A u \in Sem \ {t} : q \notin Range(Waiters(u))
    BY DEF KInv, WaitersAsleep, WaitersChildless, Waiters
  <2>3. \A t \in Sem : \A q \in Range(sems'.waiters[t]) : q \in Range(Waiters(t)) /\ q # k
    BY <1>2, <1>4, <1>7, <1>9, <2>2
  <2>4. \A t \in Sem : \A q \in Range(sems'.waiters[t]) :
           /\ state'[q] = "BLOCKED" /\ sleepTime'[q] = -1 /\ Kids(q)' = {}
    BY <1>8, <2>1, <2>2, <2>3 DEF Kids
  <2>5. \A t \in Sem : \A q \in Range(sems'.waiters[t]) :
           \A u \in Sem \ {t} : q \notin Range(sems'.waiters[u])
    BY <1>4, <1>7, <1>9, <2>2, <2>3
  <2>6. \A t \in Sem : IsInjective(sems'.waiters[t])  BY <1>1, <1>3, <1>7 DEF NoDup
  <2> QED BY <1>7, <2>4, <2>5, <2>6 DEF KInv, WaitersAsleep, WaitersChildless
<1>10. CASE ~Wakes(sems, s)
  <2>1. UNCHANGED <<state, sleepTime>>  BY <1>10 DEF SemV, task
  <2>2. \A t \in Sem : sems'.waiters[t] = sems.waiters[t]  BY <1>7, <1>10 DEF w, Waiters
  <2> QED BY <1>7, <1>8, <2>1, <2>2
      DEF KInv, WaitersAsleep, WaitersChildless, Kids
<1> QED BY <1>9, <1>10

LEMMA SemCallKInv ==
  ASSUME NoParentWaits, IInv, KInv, NEW p \in Pid, SemCall(p)
  PROVE  KInv'
<1> USE DEF Returns, task, family
<1>1. CASE SemInit(p)  BY <1>1, InitTable, SameWaiters DEF SemInit
<1>2. ASSUME NEW s \in Sem, SemP(p, s) PROVE KInv'  BY <1>2, SemPKInv
<1>3. ASSUME NEW s \in Sem, SemV(p, s) PROVE KInv'  BY <1>3, SemVKInv
<1>4. ASSUME NEW s \in Sem, SemDestroy(p, s) PROVE KInv'
  BY <1>4, DestroyTable, SameWaiters DEF SemDestroy
<1> QED BY <1>1, <1>2, <1>3, <1>4 DEF SemCall

LEMMA KNextInv ==
  ASSUME OwnThreadsOnly, NoParentWaits, IInv, KInv, [KNext]_kvars
  PROVE  IInv' /\ KInv'
<1>1. CASE Next /\ UNCHANGED sems  BY <1>1, NextIInv, NextKInv
<1>2. ASSUME NEW p \in Pid, SemCall(p) PROVE IInv' /\ KInv'
  BY <1>2, SemCallIInv, SemCallKInv
<1>3. CASE UNCHANGED kvars
  <2>1. IInv'  BY <1>3, SameIInv DEF kvars
  <2>2. UNCHANGED <<state, sleepTime, parent, sems>>  BY <1>3 DEF kvars, vars, task, family
  <2> QED BY <2>1, <2>2
      DEF KInv, SemTypeOK, WaitersAsleep, WaitersChildless, Kids
<1> QED BY <1>1, <1>2, <1>3 DEF KNext

\* The inductive invariant of the process manager with the semaphores.
THEOREM KInvariance ==
  ASSUME OwnThreadsOnly, NoParentWaits
  PROVE  KSpec => [](IInv /\ KInv)
<1>1. KInit => IInv /\ KInv  BY KInitKInv
<1>2. (IInv /\ KInv) /\ [KNext]_kvars => (IInv /\ KInv)'  BY KNextInv
<1> QED BY <1>1, <1>2, PTL DEF KSpec

\* With the semaphores too, every free_proc takes a slot out of the pool it is
\* in: awake in do_sem_signal finds the waiter in slp, however sem_destroy and
\* posts to semaphores that are not in use are mixed with the calls of others,
\* unless a process with children waits: its child's exit takes it out of slp.
THEOREM SemPoolsValid ==
  ASSUME OwnThreadsOnly, NoParentWaits
  PROVE  KSpec => []PoolInv
<1>1. IInv => PoolInv  BY DEF IInv
<1> QED BY <1>1, KInvariance, PTL

\* Whoever is in a list of waiters is BLOCKED, in that list only, and once; no
\* clock tick and no exit of another process wakes it.
THEOREM SemWaitersAsleep ==
  ASSUME OwnThreadsOnly, NoParentWaits
  PROVE  KSpec => []WaitersAsleep
<1>1. KInv => WaitersAsleep  BY DEF KInv
<1> QED BY <1>1, KInvariance, PTL
-----------------------------------------------------------------------------
\* Programs that use semaphores while they have them, and no parent that waits.
CarefulPrograms == Careless = {}

RefInv == IInv /\ KInv /\ ValueCounts

\* In a semaphore that is in use: no waiter at a value of zero or more.
LEMMA CountedParts ==
  ASSUME KInv, ValueCounts, NEW s \in Sem
  PROVE  /\ sems.value[s] \in Int /\ Waiters(s) \in Seq(Pid) /\ Len(Waiters(s)) \in Nat
         /\ s \in Live /\ sems.value[s] < 0 => Len(Waiters(s)) = -sems.value[s]
         /\ ~(s \in Live /\ sems.value[s] < 0) => Waiters(s) = << >>
<1>1. sems.value[s] \in Int /\ Waiters(s) \in Seq(Pid)  BY KInvParts DEF Waiters
<1>2. Len(Waiters(s)) = IF s \in Live /\ sems.value[s] < 0 THEN -sems.value[s] ELSE 0
  BY DEF ValueCounts, Waiters
<1> QED BY <1>1, <1>2

\* Taking the first waiter out of its list leaves the others in order.
LEMMA RemoveHead ==
  ASSUME NEW S, NEW s, NoDup(S, s), s # << >>
  PROVE  RemoveFirst(s, Head(s)) = Tail(s)
<1>1. s \in Seq(S) /\ IsInjective(s) /\ 1 \in 1 .. Len(s) /\ Head(s) = s[1]  BY DEF NoDup
<1> DEFINE r == RemoveAt(s, 1)
           t == Tail(s)
<1>2. RemoveFirst(s, Head(s)) = r  BY <1>1, RemoveFirstIsRemoveAt
<1>3. /\ r \in Seq(S) /\ Len(r) = Len(s) - 1
      /\ \A i \in 1 .. Len(s) - 1 : r[i] = IF i < 1 THEN s[i] ELSE s[i + 1]
  BY <1>1, RemoveAtElements
<1>4. /\ t \in Seq(S) /\ Len(t) = Len(s) - 1
      /\ \A i \in 1 .. Len(t) : t[i] = s[i + 1]
  BY <1>1, HeadTailProperties
<1> HIDE DEF r, t
<1>5. \A i \in 1 .. Len(r) : r[i] = t[i]  BY <1>1, <1>3, <1>4
<1>6. r = t  BY <1>3, <1>4, <1>5, SeqEqual
<1> QED BY <1>2, <1>6 DEF t

\* The four calls on the table: the fields of the table after the call.
LEMMA InitFields ==
  ASSUME KInv, NEW p \in Pid, SemInit(p)
  PROVE  \E s \in Sem, v \in Nat :
            /\ s \notin Live /\ Live' = Live \cup {s}
            /\ sems'.value = [sems.value EXCEPT ![s] = v]
            /\ sems'.waiters = sems.waiters
<1>1. sems.avail # << >> /\ NoDup(Sem, sems.avail) /\ sems.avail \in Seq(Sem)
  BY KInvParts DEF SemInit, NoDup
<1>2. PICK v \in InitValues : sems' = Allot(sems, v)  BY DEF SemInit
<1>3. v \in Nat  BY SemAssumption
<1> DEFINE h == Head(sems.avail)
<1>4. h \in Sem /\ h \in Range(sems.avail) /\ Range(Tail(sems.avail)) = Range(sems.avail) \ {h}
  BY <1>1, TailNoDup
<1>5. /\ sems'.value = [sems.value EXCEPT ![h] = v] /\ sems'.waiters = sems.waiters
      /\ sems'.avail = Tail(sems.avail)
  BY <1>2, KInvParts DEF Allot
<1> HIDE DEF h
<1>6. h \notin Live /\ Live' = Live \cup {h}  BY <1>4, <1>5 DEF Live
<1> QED BY <1>3, <1>4, <1>5, <1>6

LEMMA DestroyFields ==
  ASSUME CarefulPrograms, KInv, NEW p \in Pid, NEW s \in Sem, SemDestroy(p, s)
  PROVE  /\ s \in Live /\ Waiters(s) = << >> /\ Live' = Live \ {s}
         /\ sems'.value = [sems.value EXCEPT ![s] = 0]
         /\ sems'.waiters = sems.waiters
<1>1. s \in Live /\ Waiters(s) = << >> /\ sems' = Discard(sems, s)
  BY DEF SemDestroy, CarefulPrograms, Waiters
<1>2. s \notin Range(sems.avail) /\ sems.avail \in Seq(Sem)  BY <1>1, KInvParts DEF Live
<1>3. RemoveFirst(sems.avail, s) = sems.avail  BY <1>2, RemoveFirstAbsent
<1>4. /\ sems'.value = [sems.value EXCEPT ![s] = 0] /\ sems'.waiters = sems.waiters
      /\ sems'.avail = <<s>> \o sems.avail
  BY <1>1, <1>3, KInvParts DEF Discard
<1>5. Range(<<s>> \o sems.avail) = {s} \cup Range(sems.avail)
  <2> DEFINE a == sems.avail
             t == <<s>> \o a
  <2>1. /\ Len(t) = Len(a) + 1 /\ Len(a) \in Nat /\ t \in Seq(Sem)
        /\ \A i \in 1 .. Len(a) + 1 : t[i] = IF i <= 1 THEN s ELSE a[i - 1]
    BY <1>2
  <2>2. DOMAIN t = 1 .. Len(a) + 1 /\ DOMAIN a = 1 .. Len(a)  BY <1>2, <2>1
  <2> HIDE DEF t
  <2>3. \A i \in 1 .. Len(a) + 1 : t[i] \in {s} \cup Range(a)
    BY <2>1, <2>2, \A i \in 1 .. Len(a) + 1 : i <= 1 \/ i - 1 \in 1 .. Len(a) DEF Range
  <2>4. \A i \in 1 .. Len(a) : a[i] = t[i + 1] /\ i + 1 \in 1 .. Len(a) + 1  BY <2>1
  <2>5. s = t[1] /\ 1 \in 1 .. Len(a) + 1  BY <2>1
  <2>6. Range(t) = {s} \cup Range(a)  BY <2>2, <2>3, <2>4, <2>5 DEF Range
  <2> QED BY <2>6 DEF t
<1>6. Live' = Live \ {s}  BY <1>4, <1>5 DEF Live
<1> QED BY <1>1, <1>4, <1>6

LEMMA WaitFields ==
  ASSUME CarefulPrograms, KInv, NEW p \in Pid, NEW s \in Sem, SemP(p, s)
  PROVE  /\ s \in Live /\ Live' = Live
         /\ sems'.value = [sems.value EXCEPT ![s] = @ - 1]
         /\ sems'.waiters = IF sems.value[s] <= 0
                            THEN [sems.waiters EXCEPT ![s] = Append(@, p)]
                            ELSE sems.waiters
<1>1. s \in Live /\ sems' = Down(sems, s, p)  BY DEF SemP, Usable, CarefulPrograms
<1> QED BY <1>1, KInvParts DEF Down, Blocks, Live

LEMMA PostFields ==
  ASSUME CarefulPrograms, KInv, ValueCounts, NEW p \in Pid, NEW s \in Sem, SemV(p, s)
  PROVE  /\ s \in Live /\ Live' = Live
         /\ sems'.value = [sems.value EXCEPT ![s] = @ + 1]
         /\ Wakes(sems, s) <=> sems.value[s] < 0
         /\ Wakes(sems, s) <=> Waiters(s) # << >>
         /\ sems'.waiters = IF Wakes(sems, s)
                            THEN [sems.waiters EXCEPT ![s] = Tail(@)]
                            ELSE sems.waiters
<1>1. s \in Live /\ sems' = Up(sems, s)  BY DEF SemV, Usable, CarefulPrograms
<1>2. Wakes(sems, s) <=> sems.value[s] < 0 /\ Waiters(s) # << >>
  BY CountedParts DEF Wakes, Waiters
<1>3. /\ sems.value[s] < 0 => Waiters(s) # << >>
      /\ Waiters(s) # << >> => sems.value[s] < 0
  BY <1>1, CountedParts
<1>4. Wakes(sems, s) => RemoveFirst(Waiters(s), Woken(sems, s)) = Tail(Waiters(s))
  BY <1>2, KInvParts, RemoveHead DEF Woken, Waiters
<1>5. Live' = Live /\ sems'.value = [sems.value EXCEPT ![s] = @ + 1]
  BY <1>1, KInvParts DEF Up, Live
<1>6. CASE Wakes(sems, s)
  BY <1>1, <1>2, <1>3, <1>4, <1>5, <1>6, KInvParts DEF Up, Waiters
<1>7. CASE ~Wakes(sems, s)
  <2>1. sems'.waiters = [sems.waiters EXCEPT ![s] = @]  BY <1>1, <1>7 DEF Up
  <2>2. sems'.waiters = sems.waiters  BY <2>1, KInvParts
  <2> QED BY <1>1, <1>2, <1>3, <1>5, <1>7, <2>2
<1> QED BY <1>6, <1>7
-----------------------------------------------------------------------------
LEMMA InitCounts == KInit => ValueCounts
<1> SUFFICES ASSUME KInit PROVE ValueCounts  OBVIOUS
<1>1. \A s \in Sem : sems.value[s] = 0 /\ sems.waiters[s] = << >>
  BY DEF KInit, FreshTable, Sem
<1> QED BY <1>1 DEF ValueCounts

LEMMA SemCallCounts ==
  ASSUME CarefulPrograms, KInv, ValueCounts, NEW p \in Pid, SemCall(p)
  PROVE  ValueCounts'
<1> SUFFICES ASSUME NEW t \in Sem
             PROVE  Len(sems'.waiters[t]) =
                      IF t \in Live' /\ sems'.value[t] < 0 THEN -sems'.value[t] ELSE 0
  BY DEF ValueCounts
<1> USE DEF Waiters
<1>1. /\ sems.value \in [Sem -> Int] /\ sems.waiters \in [Sem -> Seq(Pid)]
      /\ Len(sems.waiters[t]) = IF t \in Live /\ sems.value[t] < 0 THEN -sems.value[t] ELSE 0
  BY KInvParts DEF ValueCounts
<1>2. CASE SemInit(p)
  <2>1. PICK s \in Sem, v \in Nat :
            /\ s \notin Live /\ Live' = Live \cup {s}
            /\ sems'.value = [sems.value EXCEPT ![s] = v]
            /\ sems'.waiters = sems.waiters
    BY <1>2, InitFields
  <2> QED BY <1>1, <2>1
<1>3. ASSUME NEW s \in Sem, SemP(p, s)
      PROVE  Len(sems'.waiters[t]) =
               IF t \in Live' /\ sems'.value[t] < 0 THEN -sems'.value[t] ELSE 0
  <2>1. /\ s \in Live /\ Live' = Live
        /\ sems'.value[t] = IF t = s THEN sems.value[t] - 1 ELSE sems.value[t]
        /\ sems'.waiters[t] = IF t = s /\ sems.value[s] <= 0
                              THEN Append(sems.waiters[t], p) ELSE sems.waiters[t]
    <3>1. /\ s \in Live /\ Live' = Live
          /\ sems'.value = [sems.value EXCEPT ![s] = @ - 1]
          /\ sems'.waiters = IF sems.value[s] <= 0
                             THEN [sems.waiters EXCEPT ![s] = Append(@, p)]
                             ELSE sems.waiters
      BY <1>3, WaitFields
    <3> QED BY <1>1, <3>1
  <2>2. Len(Append(sems.waiters[t], p)) = Len(sems.waiters[t]) + 1  BY <1>1
  <2> QED BY <1>1, <2>1, <2>2
<1>4. ASSUME NEW s \in Sem, SemV(p, s)
      PROVE  Len(sems'.waiters[t]) =
               IF t \in Live' /\ sems'.value[t] < 0 THEN -sems'.value[t] ELSE 0
  <2>1. /\ s \in Live /\ Live' = Live
        /\ sems'.value[t] = IF t = s THEN sems.value[t] + 1 ELSE sems.value[t]
        /\ sems'.waiters[t] = IF t = s /\ sems.value[s] < 0
                              THEN Tail(sems.waiters[t]) ELSE sems.waiters[t]
        /\ sems.value[s] < 0 => sems.waiters[s] # << >>
    BY <1>1, <1>4, PostFields
  <2>2. sems.waiters[t] # << >> => Len(Tail(sems.waiters[t])) = Len(sems.waiters[t]) - 1
    BY <1>1, HeadTailProperties
  <2> QED BY <1>1, <2>1, <2>2
<1>5. ASSUME NEW s \in Sem, SemDestroy(p, s)
      PROVE  Len(sems'.waiters[t]) =
               IF t \in Live' /\ sems'.value[t] < 0 THEN -sems'.value[t] ELSE 0
  <2>1. /\ s \in Live /\ sems.waiters[s] = << >> /\ Live' = Live \ {s}
        /\ sems'.value[t] = IF t = s THEN 0 ELSE sems.value[t]
        /\ sems'.waiters = sems.waiters
    BY <1>1, <1>5, DestroyFields
  <2>2. Len(<< >>) = 0  OBVIOUS
  <2> QED BY <1>1, <2>1, <2>2
<1> QED BY <1>2, <1>3, <1>4, <1>5 DEF SemCall

LEMMA KNextRefInv ==
  ASSUME OwnThreadsOnly, CarefulPrograms, RefInv, [KNext]_kvars
  PROVE  RefInv'
<1>1. NoParentWaits  BY DEF CarefulPrograms, NoParentWaits
<1>2. IInv' /\ KInv'  BY <1>1, KNextInv DEF RefInv
<1>3. CASE UNCHANGED sems  BY <1>2, <1>3 DEF RefInv, ValueCounts, Live
<1>4. ASSUME NEW p \in Pid, SemCall(p) PROVE ValueCounts'
  BY <1>4, SemCallCounts DEF RefInv
<1> QED BY <1>2, <1>3, <1>4 DEF RefInv, KNext, kvars, ValueCounts, Live

\* A negative value is the number of processes that wait, so that no post is
\* lost and sem_init hands out a semaphore nobody waits for.
THEOREM CountsRight ==
  ASSUME OwnThreadsOnly, CarefulPrograms
  PROVE  KSpec => []ValueCounts
<1>1. KInit => RefInv  BY KInitKInv, InitCounts DEF RefInv
<1>2. RefInv /\ [KNext]_kvars => RefInv'  BY KNextRefInv
<1>3. RefInv => ValueCounts  BY DEF RefInv
<1> QED BY <1>1, <1>2, <1>3, PTL DEF KSpec
-----------------------------------------------------------------------------
Tokens == [s \in Sem |-> IF sems.value[s] > 0 THEN sems.value[s] ELSE 0]

LEMMA TokensExcept ==
  ASSUME NEW s \in Sem, NEW n,
         \A t \in Sem : Tokens'[t] = IF t = s THEN n ELSE Tokens[t]
  PROVE  Tokens' = [Tokens EXCEPT ![s] = n]
BY DEF Tokens

LEMMA MapStep ==
  ASSUME OwnThreadsOnly, CarefulPrograms, RefInv, [KNext]_kvars
  PROVE  [A!Next]_(A!avars)
<1> USE DEF Waiters
<1>1. RefInv'  BY KNextRefInv
<1>2. /\ sems.value \in [Sem -> Int] /\ sems.waiters \in [Sem -> Seq(Pid)]
      /\ \A s \in Sem : NoDup(Pid, sems.waiters[s])
  BY KInvParts DEF RefInv
<1>3. /\ Asleep = UNION {Range(sems.waiters[s]) : s \in Sem}
      /\ Asleep' = UNION {Range(sems'.waiters[s]) : s \in Sem}
  BY <1>1 DEF RefInv, KInv, WaitersAsleep, Asleep
<1>4. CASE UNCHANGED sems
  <2>1. Asleep' = Asleep /\ Live' = Live  BY <1>3, <1>4 DEF Live
  <2> QED BY <1>4, <2>1 DEF A!avars
<1>5. ASSUME NEW p \in Pid, SemInit(p) PROVE A!Next
  <2>1. PICK s \in Sem, v \in Nat :
            /\ s \notin Live /\ Live' = Live \cup {s}
            /\ sems'.value = [sems.value EXCEPT ![s] = v]
            /\ sems'.waiters = sems.waiters
    BY <1>5, InitFields DEF RefInv
  <2>2. Tokens' \in [Sem -> Nat]  BY <1>2, <2>1 DEF Tokens
  <2>3. \A t \in Sem \ {s} : Tokens'[t] = Tokens[t]  BY <1>2, <2>1 DEF Tokens
  <2>4. Asleep' = Asleep  BY <1>3, <2>1
  <2>5. A!Create(s)  BY <2>1, <2>2, <2>3, <2>4 DEF A!Create, Tokens
  <2> QED BY <2>5 DEF A!Next
<1>6. ASSUME NEW p \in Pid, NEW s \in Sem, SemP(p, s) PROVE A!Next
  <2>1. /\ s \in Live /\ Live' = Live
        /\ sems'.value = [sems.value EXCEPT ![s] = @ - 1]
        /\ sems'.waiters = IF sems.value[s] <= 0
                           THEN [sems.waiters EXCEPT ![s] = Append(@, p)]
                           ELSE sems.waiters
    BY <1>6, WaitFields DEF RefInv
  <2>2. CASE sems.value[s] > 0
    <3>1. sems'.waiters = sems.waiters /\ Asleep' = Asleep  BY <1>2, <1>3, <2>1, <2>2
    <3>2. Tokens[s] > 0 /\ Tokens' = [Tokens EXCEPT ![s] = @ - 1]
      <4>1. \A t \in Sem : Tokens'[t] = IF t = s THEN Tokens[s] - 1 ELSE Tokens[t]
        BY <1>2, <2>1, <2>2 DEF Tokens
      <4>2. Tokens[s] > 0  BY <1>2, <2>2 DEF Tokens
      <4> QED BY <4>1, <4>2, TokensExcept
    <3>3. A!Take(s)  BY <2>1, <3>1, <3>2 DEF A!Take, Tokens
    <3> QED BY <3>3 DEF A!Next
  <2>3. CASE sems.value[s] <= 0
    <3>1. Tokens[s] = 0 /\ Tokens' = Tokens  BY <1>2, <2>1, <2>3 DEF Tokens
    <3>2. p \notin Asleep
      <4>1. state[p] = "RUNNING"  BY <1>6, SemCaller DEF SemP, RefInv
      <4> QED BY <4>1 DEF Asleep
    <3>3. sems'.waiters = [sems.waiters EXCEPT ![s] = Append(@, p)]  BY <2>1, <2>3
    <3>4. Asleep' = Asleep \cup {p}
      <4>1. p \notin Range(sems.waiters[s])  BY <1>3, <3>2
      <4>2. Range(Append(sems.waiters[s], p)) = Range(sems.waiters[s]) \cup {p}
        BY <1>2, <4>1, AppendNoDup
      <4>3. \A t \in Sem : Range(sems'.waiters[t]) = IF t = s THEN Range(sems.waiters[t]) \cup {p}
                                                      ELSE Range(sems.waiters[t])
        BY <1>2, <3>3, <4>2
      <4> QED BY <1>3, <4>3
    <3>5. A!Sleep(p, s)  BY <2>1, <3>1, <3>2, <3>3, <3>4 DEF A!Sleep, Tokens
    <3> QED BY <3>5 DEF A!Next
  <2> QED BY <1>2, <2>2, <2>3
<1>7. ASSUME NEW p \in Pid, NEW s \in Sem, SemV(p, s) PROVE A!Next
  <2> DEFINE w == sems.waiters[s]
  <2>1. /\ s \in Live /\ Live' = Live
        /\ sems'.value = [sems.value EXCEPT ![s] = @ + 1]
        /\ w # << >> <=> sems.value[s] < 0
        /\ w # << >> => sems'.waiters = [sems.waiters EXCEPT ![s] = Tail(@)]
        /\ w = << >> => sems'.waiters = sems.waiters
    BY <1>7, PostFields DEF RefInv
  <2>2. CASE w = << >>
    <3>1. sems'.waiters = sems.waiters /\ Asleep' = Asleep  BY <1>3, <2>1, <2>2
    <3>2. Tokens' = [Tokens EXCEPT ![s] = @ + 1]
      <4>1. \A t \in Sem : Tokens'[t] = IF t = s THEN Tokens[s] + 1 ELSE Tokens[t]
        BY <1>2, <2>1, <2>2 DEF Tokens
      <4> QED BY <4>1, TokensExcept
    <3>3. A!Put(s)  BY <2>1, <2>2, <3>1, <3>2 DEF A!Put, Tokens
    <3> QED BY <3>3 DEF A!Next
  <2>3. CASE w # << >>
    <3>1. Tokens' = Tokens  BY <1>2, <2>1, <2>3 DEF Tokens
    <3>2. Head(w) = w[1] /\ w[1] \in Range(w) /\ Range(Tail(w)) = Range(w) \ {w[1]}
      BY <1>2, <2>3, TailNoDup DEF NoDup
    <3>3. Asleep' = Asleep \ {Head(w)}
      <4>1. \A t \in Sem : Range(sems'.waiters[t]) = IF t = s THEN Range(w) \ {Head(w)}
                                                      ELSE Range(sems.waiters[t])
        BY <1>2, <2>1, <2>3, <3>2
      <4>2. \A t \in Sem \ {s} : Head(w) \notin Range(sems.waiters[t])
        BY <3>2 DEF RefInv, KInv, WaitersAsleep
      <4> HIDE DEF w
      <4>3. w = sems.waiters[s]  BY DEF w
      <4> QED BY <1>3, <4>1, <4>2, <4>3
    <3>4. A!HandOver(s)  BY <2>1, <2>3, <3>1, <3>3 DEF A!HandOver, Tokens
    <3> QED BY <3>4 DEF A!Next
  <2> QED BY <2>2, <2>3
<1>8. ASSUME NEW p \in Pid, NEW s \in Sem, SemDestroy(p, s) PROVE A!Next
  <2>1. /\ s \in Live /\ sems.waiters[s] = << >> /\ Live' = Live \ {s}
        /\ sems'.value = [sems.value EXCEPT ![s] = 0]
        /\ sems'.waiters = sems.waiters
    BY <1>8, DestroyFields DEF RefInv
  <2>2. Tokens' = [Tokens EXCEPT ![s] = 0]  BY <1>2, <2>1 DEF Tokens
  <2>3. Asleep' = Asleep  BY <1>3, <2>1
  <2>4. A!Destroy(s)  BY <2>1, <2>2, <2>3 DEF A!Destroy, Tokens
  <2> QED BY <2>4 DEF A!Next
<1> QED BY <1>4, <1>5, <1>6, <1>7, <1>8 DEF KNext, SemCall, kvars

LEMMA MapInit == KInit => A!Init
<1> SUFFICES ASSUME KInit PROVE A!Init  OBVIOUS
<1> DEFINE a == [i \in 1 .. MAX_SEMAPHORE |-> i - 1]
<1>1. sems = [value |-> [s \in Sem |-> 0], waiters |-> [s \in Sem |-> << >>], avail |-> a]
  BY DEF KInit, FreshTable, Sem
<1>2. Range(a) = Sem
  <2>1. \A s \in Sem : a[s + 1] = s /\ s + 1 \in 1 .. MAX_SEMAPHORE
    BY SemAssumption DEF Sem
  <2>2. \A i \in 1 .. MAX_SEMAPHORE : a[i] \in Sem  BY SemAssumption DEF Sem
  <2>3. DOMAIN a = 1 .. MAX_SEMAPHORE  OBVIOUS
  <2> HIDE DEF a
  <2> QED BY <2>1, <2>2, <2>3 DEF Range
<1> HIDE DEF a
<1>3. Live = {}  BY <1>1, <1>2 DEF Live
<1>4. Tokens = [s \in Sem |-> 0]  BY <1>1 DEF Tokens
<1>5. Asleep = {}  BY <1>1 DEF Asleep, Range
<1> QED BY <1>1, <1>3, <1>4, <1>5 DEF A!Init, Tokens

\* The semaphores of the kernel implement those of AbsSemaphore: no token is
\* lost or made, who finds none sleeps until one is handed over, in order, and
\* neither a clock tick nor another process of the kernel interferes.
THEOREM ImplementsAbsSemaphore ==
  ASSUME OwnThreadsOnly, CarefulPrograms
  PROVE  KSpec => AbsSpec
<1>1. KInit => RefInv  BY KInitKInv, InitCounts DEF RefInv
<1>2. RefInv /\ [KNext]_kvars => RefInv'  BY KNextRefInv
<1>3. RefInv /\ [KNext]_kvars => [A!Next]_(A!avars)  BY MapStep
<1>4. KInit => A!Init  BY MapInit
<1> QED BY <1>1, <1>2, <1>3, <1>4, PTL DEF KSpec, AbsSpec, A!Spec
=============================================================================
