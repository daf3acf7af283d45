------------------------------ MODULE AbsStdin ------------------------------
(***************************************************************************)
(* What getc promises: the characters typed are read in the order they were *)
(* typed, each once; a process that finds none sleeps until one is typed,   *)
(* and while it does, getc returns -1 to everybody else.                    *)
(***************************************************************************)
EXTENDS Integers, Sequences

CONSTANTS Reader, Char, NoChar

VARIABLES
    typed,     \* the characters nobody has read
    asleep,    \* the processes that wait for one
    got        \* what the last read of a process returned, NoChar for -1

avars == <<typed, asleep, got>>

Init ==
    /\ typed = << >>
    /\ asleep = {}
    /\ got = [p \in Reader |-> NoChar]

Press(c) ==
    /\ typed' = Append(typed, c)
    /\ asleep' = {}
    /\ UNCHANGED got

Read(p) ==
    /\ p \notin asleep /\ typed # << >>
    /\ got' = [got EXCEPT ![p] = Head(typed)]
    /\ typed' = Tail(typed)
    /\ UNCHANGED asleep

Sleep(p) ==
    /\ typed = << >> /\ asleep = {}
    /\ asleep' = {p}
    /\ UNCHANGED <<typed, got>>

Refuse(p) ==
    /\ asleep # {}
    /\ got' = [got EXCEPT ![p] = NoChar]
    /\ UNCHANGED <<typed, asleep>>

Next ==
    \/ \E c \in Char : Press(c)
    \/ \E p \in Reader : Read(p) \/ Sleep(p) \/ Refuse(p)

Spec == Init /\ [][Next]_avars
=============================================================================
