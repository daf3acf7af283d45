-------------------------------- MODULE Chars --------------------------------
(***************************************************************************)
(* Strings of the user library, and those functions of lib/znrlib.c that    *)
(* compare them.  A string is the sequence of its characters without the 0  *)
(* that ends it, a character is its code, a pointer into a string is an     *)
(* index from 0 and the null pointer is -1.                                 *)
(***************************************************************************)
EXTENDS Integers, SequencesExt

NUL == 0
NULL == -1
At(s, i) == IF i < Len(s) THEN s[i + 1] ELSE NUL     \* *(s + i)

\* The string a pointer into memory points at.
CString(mem, i) == SubSeq(mem, i + 1, Min({j \in i .. Len(mem) : At(mem, j) = NUL}))

\* The place where the loops of strcmp and strncmp stop: n counts down.
GoesOn(a, b, i, n) == At(a, i) # NUL /\ At(b, i) # NUL /\ n # i /\ At(a, i) = At(b, i)
Differ(a, b, n) == Min({i \in 0 .. Len(a) : ~GoesOn(a, b, i, n)})
\* Mutant: a string that ends first is equal to the other one.
CompareShort(a, b, n) ==
    LET i == Differ(a, b, n)
    IN  IF At(a, i) # NUL /\ At(b, i) # NUL THEN At(a, i) - At(b, i) ELSE 0
Compare(a, b, n) ==
    LET i == Differ(a, b, n)
        x == At(a, i)
        y == At(b, i)
    IN  IF x # NUL /\ y # NUL /\ n # i THEN x - y
        ELSE IF x # NUL \/ y # NUL THEN 1 ELSE 0
strcmp(a, b) == Compare(a, b, -1)
strncmp(a, b, n) == Compare(a, b, n)
=============================================================================
