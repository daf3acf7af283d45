------------------------------ MODULE Semaphore ------------------------------
(***************************************************************************)
(* The table of semaphores of kernel/kernel/semaphore.c, as operators on   *)
(* one value: the counters, the list of waiting processes of each, and the *)
(* list of semaphores nobody has.  The state field of a semaphore, the     *)
(* list of those in use and the counts in the two list heads are written   *)
(* and never read; they are left out.                                      *)
(***************************************************************************)
EXTENDS Integers, SequencesExt

SemTables(S, P) == [value : [S -> Int], waiters : [S -> Seq(P)], avail : Seq(S)]

\* init_sem: all are available, in the order of the table.
FreshTable(n) ==
    [value   |-> [s \in 0 .. n - 1 |-> 0],
     waiters |-> [s \in 0 .. n - 1 |-> << >>],
     avail   |-> [i \in 1 .. n |-> i - 1]]

\* sys_sem_init with one available: pick_sem takes the first.  The list of
\* waiting processes is left as it is.
Allot(T, v) == [T EXCEPT !.value[Head(T.avail)] = v, !.avail = Tail(@)]

\* do_sem_wait and do_sem_signal, but for the process table.
Blocks(T, s) == T.value[s] <= 0
Down(T, s, p) ==
    [T EXCEPT !.value[s] = @ - 1,
              !.waiters[s] = IF Blocks(T, s) THEN Append(@, p) ELSE @]

\* Mutants: a waiter is woken only at zero; the last one is woken first.
WakesAtZero(T, s) == T.value[s] + 1 = 0 /\ T.waiters[s] # << >>
WokenLast(T, s) == Last(T.waiters[s])

Wakes(T, s) == T.value[s] + 1 <= 0 /\ T.waiters[s] # << >>
Woken(T, s) == Head(T.waiters[s])

\* Mutant: the woken process stays in the list.
UpKeeps(T, s) == [T EXCEPT !.value[s] = @ + 1]

Up(T, s) ==
    [T EXCEPT !.value[s] = @ + 1,
              !.waiters[s] = IF Wakes(T, s) THEN RemoveFirst(@, Woken(T, s)) ELSE @]

\* sys_sem_destroy: available again, in front; whoever waits still does.
Discard(T, s) ==
    [T EXCEPT !.value[s] = 0, !.avail = <<s>> \o RemoveFirst(@, s)]
=============================================================================
