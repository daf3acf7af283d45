------------------------------ MODULE SemLinks ------------------------------
(***************************************************************************)
(* The table of semaphores as it is in memory: circular doubly linked lists *)
(* of kernel/include/common/list.h, from the nodes embedded in sem[] and    *)
(* pcb[].  A node is the name of the field and the index of its owner.      *)
(***************************************************************************)
EXTENDS Semaphore, FiniteSets

Process(s) == <<"process", s>>     \* sem[s].process, the head of its waiters
Link(p) == <<"link", p>>           \* pcb[p].link
Member(s) == <<"list", s>>         \* sem[s].list
Available == <<"available", 0>>    \* sem_available.list
Busy == <<"busy", 0>>              \* sem_busy.list

ListInit(L, h) == [next |-> [L.next EXCEPT ![h] = h], last |-> [L.last EXCEPT ![h] = h]]
ListEmpty(L, h) == L.next[h] = h

\* __list_add and __list_del, assignment by assignment: nodes may coincide.
Insert(L, last, next, new) ==
    [next |-> [L.next EXCEPT ![new] = next, ![last] = new],
     last |-> [L.last EXCEPT ![next] = new, ![new] = last]]
Bypass(L, last, next) ==
    [next |-> [L.next EXCEPT ![last] = next], last |-> [L.last EXCEPT ![next] = last]]

ListAdd(L, new, head) == Insert(L, head, L.next[head], new)

ListAddTail(L, new, head) == Insert(L, L.last[head], head, new)
ListDelInit(L, e) == ListInit(Bypass(L, L.last[e], L.next[e]), e)

\* sem_init and push_sem.  A process made by fork has the link of its parent,
\* who is in no list: it points to a link of another.
Fresh(n, P, parent) ==
    LET Nodes == {Process(s) : s \in 0 .. n - 1} \cup {Member(s) : s \in 0 .. n - 1}
                 \cup {Link(p) : p \in P} \cup {Available, Busy}
        self  == [x \in Nodes |-> IF x[1] = "link" THEN Link(parent) ELSE x]
        pushed[k \in 0 .. n] ==
            IF k = 0 THEN [next |-> self, last |-> self]
            ELSE ListAddTail(pushed[k - 1], Member(k - 1), Available)
    IN  [value |-> [s \in 0 .. n - 1 |-> 0], links |-> pushed[n]]

\* sys_sem_init, with one available: pick_sem, then push_sem.
Pick(T, v) ==
    LET first == T.links.next[Available]
    IN  [value |-> [T.value EXCEPT ![first[2]] = v],
         links |-> ListAddTail(ListDelInit(T.links, first), first, Busy)]

\* A call of sys_sem_init for each of these values, in order.
Picked(T, initial) ==
    LET picked[k \in 0 .. Len(initial)] ==
            IF k = 0 THEN T ELSE Pick(picked[k - 1], initial[k])
    IN  picked[Len(initial)]

\* Mutant: the newest waiter in front.
LinkDownInFront(T, s, p) ==
    [value |-> [T.value EXCEPT ![s] = @ - 1],
     links |-> IF T.value[s] - 1 < 0 THEN ListAdd(T.links, Link(p), Process(s)) ELSE T.links]

\* do_sem_wait and do_sem_signal.
LinkDown(T, s, p) ==
    [value |-> [T.value EXCEPT ![s] = @ - 1],
     links |-> IF T.value[s] - 1 < 0 THEN ListAddTail(T.links, Link(p), Process(s)) ELSE T.links]

LinkWakes(T, s) == T.value[s] + 1 <= 0 /\ ~ListEmpty(T.links, Process(s))
ListHead(L, h) == L.next[h]
LinkUp(T, s) ==
    [value |-> [T.value EXCEPT ![s] = @ + 1],
     links |-> IF LinkWakes(T, s) THEN ListDelInit(T.links, ListHead(T.links, Process(s)))
                                  ELSE T.links]

\* Mutant: it is added without being taken out of its list.
LinkDiscardKept(T, s) ==
    [value |-> [T.value EXCEPT ![s] = 0], links |-> ListAdd(T.links, Member(s), Available)]

\* sys_sem_destroy: list_del_init, then list_add to those available.
LinkDiscard(T, s) ==
    [value |-> [T.value EXCEPT ![s] = 0],
     links |-> ListAdd(ListDelInit(T.links, Member(s)), Member(s), Available)]
-----------------------------------------------------------------------------
\* The nodes from next[h] to the one before h, or as many as there are if the
\* list does not come back to h.
Ring(L, h) ==
    LET n == Cardinality(DOMAIN L.next)
        node[i \in 0 .. n + 1] == IF i = 0 THEN h ELSE L.next[node[i - 1]]
        Ends(k) == node[k + 1] = h \/ k = n
    IN  [i \in 1 .. CHOOSE k \in 0 .. n : Ends(k) /\ \A j \in 0 .. k - 1 : ~Ends(j) |-> node[i]]

\* The table the lists stand for: the owners of the nodes.
Owners(L, h) == LET ring == Ring(L, h) IN [i \in DOMAIN ring |-> ring[i][2]]
View(T) ==
    [value   |-> T.value,
     waiters |-> [s \in DOMAIN T.value |-> Owners(T.links, Process(s))],
     avail   |-> Owners(T.links, Available)]
=============================================================================
