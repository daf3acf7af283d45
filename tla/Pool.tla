-------------------------------- MODULE Pool --------------------------------
(***************************************************************************)
(* The process pools of kernel/include/common/pool.h: doubly linked lists  *)
(* of process nodes between two sentinels, each with a size field.         *)
(*                                                                         *)
(* A node is a process identifier, pcb_pts[p] being the node of slot p;    *)
(* the chain between the sentinels is a sequence.  All four pools form one *)
(* value, because a node carries one pair of links whatever the pool:      *)
(* free_proc(l, p) takes p out of the list it is really in, and decrements *)
(* the size of the pool it is told.  The size therefore is state of its    *)
(* own, and not the length of the list.                                    *)
(***************************************************************************)
EXTENDS Integers, SequencesExt

PoolNames == {"busy", "avai", "slp", "zombie"}

Pools(P) == [list : [PoolNames -> Seq(P)], size : [PoolNames -> Int]]

\* The macro head(l) is NULL exactly when the size field is zero.
IsEmptyPool(P, l) == P.size[l] = 0
HeadOf(P, l) == P.list[l][1]

\* insert_tail, and push_proc which does the same.
InsertTail(P, l, p) ==
    [list |-> [P.list EXCEPT ![l] = Append(@, p)],
     size |-> [P.size EXCEPT ![l] = @ + 1]]

\* Callers read HeadOf first: pick_head returns the node it takes out.
PickHead(P, l) ==
    [list |-> [P.list EXCEPT ![l] = Tail(@)],
     size |-> [P.size EXCEPT ![l] = @ - 1]]

FreeProc(P, l, p) ==
    [list |-> [m \in PoolNames |-> RemoveFirst(P.list[m], p)],
     size |-> [P.size EXCEPT ![l] = @ - 1]]

\* free_proc(from, p) followed by insert_tail(to, p).
Move(P, from, to, p) == InsertTail(FreeProc(P, from, p), to, p)

\* insert_tail(l, pick_head(l))
Rotate(P, l) == InsertTail(PickHead(P, l), l, HeadOf(P, l))
=============================================================================
