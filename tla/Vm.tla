--------------------------------- MODULE Vm ---------------------------------
(***************************************************************************)
(* The memory of the processes: the page frames of kernel/kernel/page.c,   *)
(* and what fork, thread_create, exec, exit, wait and thread_join do with  *)
(* them.  Addresses are counted in pages from pa_to_va(0), where programs  *)
(* begin, and a program has one page table: its 4 MB are more than any     *)
(* file holds.  An address space is a page frame (the directory) whose     *)
(* entry leads to another (the table), whose entries lead to the pages.    *)
(*                                                                         *)
(* All of these calls but exec work inside pushoff ... popoff, which makes *)
(* each a step.  What is in the pages, and when a process runs (module     *)
(* Process), is left out; a thread that has not been started counts as     *)
(* LIVE.                                                                   *)
(***************************************************************************)
EXTENDS Integers, FiniteSets, Sequences, Functions

CONSTANTS
    MAX_PCB_NUM,   \* slots, slot 0 being the idle process
    Frames,        \* number of page frames
    StackPages,    \* pages of a stack, 2 in the code
    Images,        \* lengths of programs, in pages
    MaxPage,       \* bound: no program needs a page beyond this one
    MaxMade,       \* bound: processes and threads made, and execs, in a run
    Careless       \* what the programs may do, see below

ASSUME VmAssumption ==
    /\ MAX_PCB_NUM \in Nat /\ MAX_PCB_NUM >= 2
    /\ Frames \in Nat /\ StackPages \in Nat \ {0} /\ MaxPage \in Nat /\ MaxMade \in Nat
    /\ Images \subseteq Nat \ {0} /\ Images # {}
ASSUME CarelessAssumption == Careless \subseteq {"threads", "busyExec", "longer"}

Pid == 1 .. MAX_PCB_NUM - 1
Frame == 0 .. Frames - 1
Page == 0 .. MaxPage
None == -1

VARIABLES
    state, parent,    \* pcb[p].state: LIVE for all that are not ZOMBIE or DEAD
    pde,              \* the directory of a process
    sz, ustacktop,    \* its length without a stack, and the end of its stack
    pagemap,          \* the frames in use
    dir,              \* a frame as a directory: the table it leads to
    pte,              \* a frame as a table: the frame of each page
    exec,             \* the place of a process in an exec that takes frames
    stopped,          \* an Assert has stopped the machine
    lost,             \* (history) the frames a shorter program has put out of reach
    made              \* (bound) processes and threads made, and execs, so far

procs == <<state, parent, pde, sz, ustacktop>>
memory == <<pagemap, dir, pte>>
vars == <<procs, memory, exec, stopped, lost, made>>

NoExec == [image |-> 0, va |-> 0, frame |-> None]

-----------------------------------------------------------------------------
\* What kalloc returns in a row: the frames not in use, lowest first.
FreeFrames ==
    LET F == Frame \ pagemap
    IN  [i \in 1 .. Cardinality(F) |-> CHOOSE f \in F : Cardinality({g \in F : g < f}) = i - 1]

\* Every kfree toggles a bit, and so does every kalloc.
Toggled(F) == (pagemap \ F) \cup (F \ pagemap)

Present(p, v) == dir[pde[p]] # None /\ pte[dir[pde[p]]][v] # None

\* A new space of n pages made of frames F, in the order of the kallocs: the
\* directory, a page, the table that mappages needs for it, the other pages.
Built(F, n) ==
    /\ pagemap' = Toggled(Range(F))
    /\ dir' = [dir EXCEPT ![F[1]] = F[3]]
    /\ pte' = [pte EXCEPT ![F[3]] =
                 [v \in Page |-> IF v = 0 THEN F[2] ELSE IF v < n THEN F[v + 3] ELSE None]]

\* alloc_umem: a frame for every page from lo to hi - 1, none of which is
\* present.
Grown(p, lo, hi) ==
    /\ pagemap' = Toggled({FreeFrames[v - lo + 1] : v \in lo .. hi - 1})
    /\ pte' = [pte EXCEPT ![dir[pde[p]]] =
                 [v \in Page |-> IF v \in lo .. hi - 1 THEN FreeFrames[v - lo + 1] ELSE @[v]]]
    /\ UNCHANGED dir

\* Mutant: the entries of freed pages stay.
ShrunkKept(d, lo, hi) ==
    /\ pagemap' = Toggled({pte[dir[d]][v] : v \in lo .. hi - 1} \ {None})
    /\ UNCHANGED <<dir, pte>>

\* deallocuvm
Shrunk(d, lo, hi) ==
    /\ pagemap' = Toggled({pte[dir[d]][v] : v \in lo .. hi - 1} \ {None})
    /\ pte' = [pte EXCEPT ![dir[d]] = [v \in Page |-> IF v \in lo .. hi - 1 THEN None ELSE @[v]]]
    /\ UNCHANGED dir

\* Mutant: the table is not freed.
FreedTableKept(i) ==
    LET t == dir[pde[i]]
    IN  /\ pagemap' = Toggled(({pte[t][v] : v \in 0 .. ustacktop[i] - 1} \cup {pde[i]}) \ {None})
        /\ dir' = [dir EXCEPT ![pde[i]] = None]
        /\ pte' = [pte EXCEPT ![t] = [v \in Page |-> None]]

\* freevm: the pages up to the stack, the table and the directory.
Freed(i) ==
    LET t == dir[pde[i]]
    IN  /\ pagemap' = Toggled(({pte[t][v] : v \in 0 .. ustacktop[i] - 1} \cup {t, pde[i]}) \ {None})
        /\ dir' = [dir EXCEPT ![pde[i]] = None]
        /\ pte' = [pte EXCEPT ![t] = [v \in Page |-> None]]

Stop == stopped' = TRUE /\ UNCHANGED <<procs, memory, exec, lost, made>>
-----------------------------------------------------------------------------
\* initProc gives process 1 a space of its own, in the order of a fork.
Init ==
    \E n \in Images :
       /\ state = [p \in Pid |-> IF p = 1 THEN "LIVE" ELSE "DEAD"]
       /\ parent = [p \in Pid |-> None]
       /\ pde = [p \in Pid |-> IF p = 1 THEN 0 ELSE None]
       /\ sz = [p \in Pid |-> IF p = 1 THEN n ELSE 0]
       /\ ustacktop = [p \in Pid |-> IF p = 1 THEN n + StackPages ELSE 0]
       /\ pagemap = 0 .. n + StackPages + 1
       /\ dir = [f \in Frame |-> IF f = 0 THEN 2 ELSE None]
       /\ pte = [f \in Frame |-> [v \in Page |->
                   IF f # 2 \/ v >= n + StackPages THEN None ELSE IF v = 0 THEN 1 ELSE v + 2]]
       /\ exec = [p \in Pid |-> NoExec]
       /\ stopped = FALSE
       /\ lost = {}
       /\ made = 0

Runs(p) == ~stopped /\ state[p] = "LIVE" /\ exec[p] = NoExec

Vacant == {p \in Pid : state[p] = "DEAD"}
Kids(p) == {k \in Pid : parent[k] = p}

\* The test of sys_exec for a thread: it has the directory of its parent.  So
\* has a process whose own thread lives in the slot of its late parent.
IsThread(p) == parent[p] # None /\ pde[p] = pde[parent[p]]

\* The threads a process has made and not joined.
Threads(p) ==
    {k \in Kids(p) : state[k] # "DEAD" /\ pde[k] = pde[p] /\ ustacktop[k] > ustacktop[p]}

\* Nothing is mapped above the stack of p: no thread's stack, and no page that
\* an exec of a shorter program has left there.
Bare(p) == \A v \in Page : v >= ustacktop[p] => ~Present(p, v)

\* What programs keep to.  A process joins a thread before it makes another
\* one, waits or exits.  It may replace its program by a shorter one, as the
\* shell does with autoqed.elf, but makes no thread and runs no longer program
\* after that; and it replaces none if it was forked by a thread (its length is
\* then that of the last occupant of the thread's slot).  While it grows, no
\* other one takes frames.
MayTake(p) == (\A q \in Pid \ {p} : exec[q] = NoExec) \/ "busyExec" \in Careless
MayThread(p) == (Threads(p) = {} /\ Bare(p)) \/ "threads" \in Careless
MayLeave(p) == Threads(p) = {}
MayExec(p, n) ==
    /\ Threads(p) = {}
    /\ n <= sz[p] \/ Bare(p) \/ "longer" \in Careless
    /\ n + StackPages <= MaxPage + 1 /\ ustacktop[p] = sz[p] + StackPages
-----------------------------------------------------------------------------
\* sys_fork for a process: copyuvm.  When frames run out in the middle the code
\* frees address -1 or leaves the child without a directory, and faults.
Fork(p, a) ==
    LET n == ustacktop[p]
    IN  /\ Runs(p) /\ a \in Vacant /\ made < MaxMade /\ MayTake(p)
        /\ IF (\E v \in 0 .. n - 1 : ~Present(p, v)) \/ Len(FreeFrames) < n + 2
           THEN Stop
           ELSE /\ Built(SubSeq(FreeFrames, 1, n + 2), n)
                /\ state' = [state EXCEPT ![a] = "LIVE"]
                /\ parent' = [parent EXCEPT ![a] = p]
                /\ pde' = [pde EXCEPT ![a] = FreeFrames[1]]
                /\ sz' = [sz EXCEPT ![a] = sz[p]]
                /\ ustacktop' = [ustacktop EXCEPT ![a] = n]
                /\ made' = made + 1
                /\ UNCHANGED <<exec, stopped, lost>>

\* sys_fork for a thread: its stack is above the one of its creator.  mappages
\* asserts that nothing is there.
ThreadCreate(p, a) ==
    LET lo == ustacktop[p]
        hi == ustacktop[p] + StackPages
    IN  /\ Runs(p) /\ a \in Vacant /\ made < MaxMade
        /\ MayTake(p) /\ MayThread(p) /\ hi <= MaxPage + 1
        /\ IF (\E v \in lo .. hi - 1 : Present(p, v)) \/ Len(FreeFrames) < StackPages
           THEN Stop
           ELSE /\ Grown(p, lo, hi)
                /\ state' = [state EXCEPT ![a] = "LIVE"]
                /\ parent' = [parent EXCEPT ![a] = p]
                /\ pde' = [pde EXCEPT ![a] = pde[p]]
                /\ ustacktop' = [ustacktop EXCEPT ![a] = hi]
                /\ made' = made + 1
                /\ UNCHANGED <<sz, exec, stopped, lost>>

\* sys_exec of a program that is not longer: the pages stay as they are.  Those
\* above the new stack are out of the reach of the freevm of an exit.
ExecInPlace(p, n) ==
    /\ Runs(p) /\ ~IsThread(p) /\ MayExec(p, n) /\ n <= sz[p] /\ made < MaxMade
    /\ sz' = [sz EXCEPT ![p] = n]
    /\ ustacktop' = [ustacktop EXCEPT ![p] = n + StackPages]
    /\ lost' = lost \cup {pte[dir[pde[p]]][v] : v \in n + StackPages .. ustacktop[p] - 1}
    /\ made' = made + 1
    /\ UNCHANGED <<state, parent, pde, memory, exec, stopped>>

\* sys_exec of a longer one: alloc_umem with interrupts on.  kalloc tests a bit
\* and toggles it in two steps; nobody else touches the table of p.
ExecBegin(p, n) ==
    /\ Runs(p) /\ ~IsThread(p) /\ MayExec(p, n) /\ n > sz[p]
    /\ MayTake(p) /\ made < MaxMade
    /\ exec' = [exec EXCEPT ![p] = [image |-> n, va |-> sz[p] + StackPages, frame |-> None]]
    /\ made' = made + 1
    /\ UNCHANGED <<procs, memory, stopped, lost>>

InExec(p) == ~stopped /\ exec[p] # NoExec

ExecPeek(p) ==
    /\ InExec(p) /\ exec[p].frame = None
    /\ IF FreeFrames = << >>
       THEN Stop
       ELSE /\ exec' = [exec EXCEPT ![p].frame = FreeFrames[1]]
            /\ UNCHANGED <<procs, memory, stopped, lost, made>>

ExecToggle(p) ==
    LET e == exec[p]
    IN  /\ InExec(p) /\ e.frame # None
        /\ IF Present(p, e.va)
           THEN Stop
           ELSE /\ pagemap' = Toggled({e.frame})
                /\ pte' = [pte EXCEPT ![dir[pde[p]]][e.va] = e.frame]
                /\ \/ /\ e.va + 1 < e.image + StackPages
                      /\ exec' = [exec EXCEPT ![p].va = @ + 1, ![p].frame = None]
                      /\ UNCHANGED <<sz, ustacktop>>
                   \/ /\ e.va + 1 = e.image + StackPages
                      /\ exec' = [exec EXCEPT ![p] = NoExec]
                      /\ sz' = [sz EXCEPT ![p] = e.image]
                      /\ ustacktop' = [ustacktop EXCEPT ![p] = e.image + StackPages]
                /\ UNCHANGED <<state, parent, pde, dir, stopped, lost, made>>
-----------------------------------------------------------------------------
\* A slot that is free again.  The code leaves pde, sz and ustacktop in it,
\* which nobody reads before the next occupant has them set; the sz a thread
\* does not get is read by the exec of a process it forked (MayExec).
Vacate(i) ==
    /\ state' = [state EXCEPT ![i] = "DEAD"]
    /\ parent' = [parent EXCEPT ![i] = None]
    /\ pde' = [pde EXCEPT ![i] = None]
    /\ sz' = [sz EXCEPT ![i] = 0]
    /\ ustacktop' = [ustacktop EXCEPT ![i] = 0]

\* sys_exit: without a parent kill_zombie at once.
Exit(p) ==
    /\ Runs(p) /\ MayLeave(p)
    /\ \/ parent[p] = None /\ Freed(p) /\ Vacate(p)
       \/ /\ parent[p] # None
          /\ state' = [state EXCEPT ![p] = "ZOMBIE"]
          /\ UNCHANGED <<parent, pde, sz, ustacktop, memory>>
    /\ UNCHANGED <<exec, stopped, lost, made>>

\* sys_wait(-1), with a child to collect: the one in the lowest slot.
WaitReap(p, i) ==
    /\ Runs(p) /\ MayLeave(p)
    /\ i \in Kids(p) /\ state[i] = "ZOMBIE"
    /\ \A k \in Kids(p) : state[k] = "ZOMBIE" => i <= k
    /\ Freed(i) /\ Vacate(i)
    /\ UNCHANGED <<exec, stopped, lost, made>>

\* Mutant: the pages freed begin one too low.
StackBelow(t) == ustacktop[t] - StackPages - 1

\* sys_wait(t), thread_join: the pages of the thread's stack.
StackOf(t) == ustacktop[t] - StackPages
Join(p, t) ==
    /\ Runs(p)
    /\ t \in Threads(p) /\ state[t] = "ZOMBIE"
    /\ Shrunk(pde[t], StackOf(t), ustacktop[t]) /\ Vacate(t)
    /\ UNCHANGED <<exec, stopped, lost, made>>
-----------------------------------------------------------------------------
Next ==
    \/ \E p, a \in Pid : Fork(p, a) \/ ThreadCreate(p, a) \/ WaitReap(p, a) \/ Join(p, a)
    \/ \E p \in Pid, n \in Images : ExecInPlace(p, n) \/ ExecBegin(p, n)
    \/ \E p \in Pid : ExecPeek(p) \/ ExecToggle(p) \/ Exit(p)

Spec == Init /\ [][Next]_vars
-----------------------------------------------------------------------------
Alive == {p \in Pid : state[p] # "DEAD"}
Spaces == {pde[p] : p \in Alive}

\* The places that hold a frame: directories, tables, and entries of tables.
Cells ==
    (Spaces \X {"directory", "table"} \X {0})
    \cup {<<d, "page", v>> : d \in Spaces, v \in Page}
Held(c) ==
    CASE c[2] = "directory" -> c[1]
      [] c[2] = "table"     -> dir[c[1]]
      [] c[2] = "page"      -> IF dir[c[1]] = None THEN None ELSE pte[dir[c[1]]][c[3]]
Used == {c \in Cells : Held(c) # None}

\* No frame is in two places, and none of them is free for kalloc: processes
\* share no memory, in whatever order they come and go, and two that share a
\* space, a process and its threads, have stacks of their own.
OwnFrames ==
    /\ \A c \in Used : Held(c) \in pagemap
    /\ \A c, e \in Used : Held(c) = Held(e) => c = e
    /\ \A p, q \in Alive : p # q /\ pde[p] = pde[q] => ustacktop[p] # ustacktop[q]

\* Every frame in use is in a space, but for those that an exec of a shorter
\* program put out of reach (deallocuvm frees the pages below ustacktop): these
\* are never used again, and nothing else that exits, is collected or joined
\* leaves a frame behind.
NoLeak ==
    /\ pagemap \ lost \subseteq {Held(c) : c \in Used}
    /\ lost \subseteq pagemap

\* The asserts of mappages and copyuvm hold: a page that is mapped is new, and
\* a page that is copied is there.
NeverStopped == ~stopped

\* A process keeps its pages, in their frames, while others come and go.
PagesStay ==
    [][\A p \in Pid : \A v \in 0 .. ustacktop[p] - 1 :
         state[p] = "LIVE" /\ state'[p] = "LIVE"
            => pte'[dir'[pde'[p]]][v] = pte[dir[pde[p]]][v]]_vars
=============================================================================
