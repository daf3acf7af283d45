------------------------------- MODULE Strings -------------------------------
(***************************************************************************)
(* The string functions of the user library that search and move            *)
(* (lib/znrlib.c), loop by loop, on the strings of Chars.  A loop that does *)
(* no more than go on to the next character stops at the least index at     *)
(* which its condition fails.                                               *)
(***************************************************************************)
EXTENDS Chars

\* memmove on a memory that is a sequence: len cells from src to dest, upwards
\* when dest is below src, downwards otherwise; Kth is the k-th cell moved.
MoveCell(mem, dest, src) == [mem EXCEPT ![dest] = mem[src]]
\* Mutant: the cells always go upwards.
KthUp(dest, src, len, k) == k - 1
Kth(dest, src, len, k) == IF dest < src THEN k - 1 ELSE len - k
memmove(mem, dest, src, len) ==
    LET moved[k \in 0 .. len] ==
          IF k = 0 THEN mem
          ELSE MoveCell(moved[k - 1], dest + Kth(dest, src, len, k), src + Kth(dest, src, len, k))
    IN  moved[len]

\* strStr.  next[i] is the length of the longest border of the first i
\* characters of the needle; Fall is the inner loop, Advance one round of either
\* loop around it.
\* Mutant: a mismatch starts again from the first character of the needle.
FallToStart(needle, next, j, c) == IF j > 0 /\ At(needle, j) # c THEN 0 ELSE j
Fall(needle, next, j, c) ==
    LET fall[k \in 0 .. j] == IF k > 0 /\ At(needle, k) # c THEN fall[next[k]] ELSE k
    IN  fall[j]
Advance(needle, next, j, c) ==
    LET k == Fall(needle, next, j, c) IN IF At(needle, k) = c THEN k + 1 ELSE k
Borders(needle) ==
    LET next[i \in 1 .. Len(needle)] ==
          IF i = 1 THEN <<0>>
          ELSE Append(next[i - 1], Advance(needle, next[i - 1], Last(next[i - 1]), needle[i]))
    IN  next[Len(needle)]
\* Matched[i] characters of the needle end at the first i of the haystack.
Scan(haystack, needle, next) ==
    LET matched[i \in 0 .. Len(haystack)] ==
          IF i = 0 THEN 0 ELSE Advance(needle, next, matched[i - 1], haystack[i])
        found == {i \in 1 .. Len(haystack) : matched[i] = Len(needle)}
    IN  IF found = {} THEN -1 ELSE Min(found) - Len(needle)
strStr(haystack, needle) ==
    IF needle = << >> THEN 0 ELSE Scan(haystack, needle, Borders(needle))

\* strchr goes one further when it stops at the end, then steps back and looks at
\* the character there, which for the first one is the byte before the string.
strchr(before, str, c) ==
    LET stop == Min({i \in 0 .. Len(str) : At(str, i) \in {c, NUL}})
        i == IF At(str, stop) = c THEN stop - 1 ELSE stop
    IN  IF (IF i < 0 THEN before ELSE At(str, i)) = NUL THEN NULL ELSE i + 1

\* strrchr goes back from the end, and tests the first character apart.
strrchr(str, c) ==
    LET i == Max({i \in 1 .. Len(str) : At(str, i) = c} \cup {0})
    IN  IF i = 0 /\ At(str, 0) # c THEN NULL ELSE i

strcspn(str1, str2) ==
    Min({i \in 0 .. Len(str1) : i = Len(str1) \/ Contains(str2, At(str1, i))})
\* For a str2 that is not empty: the loop runs past the end of an empty one.
strspn(str1, str2) ==
    Min({i \in 0 .. Len(str1) : i = Len(str1) \/ ~Contains(str2, At(str1, i))})

\* strtok, on a memory that holds the string and its 0: the token returned, what
\* is left in memory and s_mem.
DelimAt(mem, delimiters, i) == Contains(delimiters, At(mem, i))
SkipDelims(mem, delimiters, from) == Min({i \in from .. Len(mem) : ~DelimAt(mem, delimiters, i)})
TokenEnd(mem, delimiters, start) ==
    Min({i \in start .. Len(mem) : At(mem, i) = NUL \/ DelimAt(mem, delimiters, i)})
\* Mutant: the next call starts at the delimiter and not after it.
TokenKept(mem, delimiters, from) ==
    LET start == SkipDelims(mem, delimiters, from)
        end == TokenEnd(mem, delimiters, start)
    IN  IF At(mem, end) # NUL
        THEN [at |-> start, mem |-> [mem EXCEPT ![end + 1] = NUL], s_mem |-> end]
        ELSE [at |-> start, mem |-> mem, s_mem |-> NULL]
Token(mem, delimiters, from) ==
    LET start == SkipDelims(mem, delimiters, from)
        end == TokenEnd(mem, delimiters, start)
    IN  IF At(mem, end) # NUL
        THEN [at |-> start, mem |-> [mem EXCEPT ![end + 1] = NUL], s_mem |-> end + 1]
        ELSE [at |-> start, mem |-> mem, s_mem |-> NULL]
=============================================================================
