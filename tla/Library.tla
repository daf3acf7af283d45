------------------------------- MODULE Library -------------------------------
(***************************************************************************)
(* A program that calls the functions of the user library (and print of    *)
(* the kernel) one after the other, on every input of some bounded sets,    *)
(* and what each call must return.  Only strtok keeps something from one    *)
(* call to the next: s_mem.                                                 *)
(***************************************************************************)
EXTENDS Formats

CONSTANTS
    Chars, MaxLen,        \* the strings: up to MaxLen of these characters
    Numbers,              \* the numbers turned into text and back
    Pieces, MaxPieces,    \* what is printed: sequences of records, see Printed
    Fields, MaxFields,    \* what is scanned: sequences of records, see Typed
    Separators            \* what may stand between two fields: format and typed text

\* The 0 that ends a string is none of its characters; itoa is for numbers that are
\* not negative.
ASSUME LibraryAssumption ==
    /\ Chars \subseteq Int \ {NUL}
    /\ MaxLen \in Nat
    /\ Numbers \subseteq Nat

VARIABLES
    call,      \* the function called last and its arguments
    result,    \* what it returned
    mem, s_mem,            \* strtok: the string being cut and where it goes on
    line, tokens           \* the string before it was cut, the tokens returned
vars == <<call, result, mem, s_mem, line, tokens>>

Strs(n) == BoundedSeq(Chars, n)
Tuples(S, n) == BoundedSeq(S, n) \ {<< >>}
Delimiters == Strs(2) \ {<< >>}

Init ==
    /\ call = [fn |-> "none"] /\ result = 0
    /\ mem = << >> /\ s_mem = NULL /\ line = << >> /\ tokens = << >>

\* No string is half cut when another function is called: it would change nothing.
Idle == call.fn = "none" /\ tokens = << >>
Calls(c, r) == call' = c /\ result' = r /\ UNCHANGED <<mem, s_mem, line, tokens>>
Return ==
    /\ call.fn # "none"
    /\ call' = [fn |-> "none"] /\ result' = 0
    /\ UNCHANGED <<mem, s_mem, line, tokens>>

CallCompare == \E a, b \in Strs(MaxLen), n \in 0 .. MaxLen :
    Calls([fn |-> "strncmp", a |-> a, b |-> b, n |-> n],
          [all |-> strcmp(a, b), first |-> strncmp(a, b, n)])
CallMove == \E len \in 0 .. MaxLen, dest, src \in 1 .. MaxLen :
    LET before == [i \in 1 .. 2 * MaxLen |-> i]
    IN  Calls([fn |-> "memmove", before |-> before, dest |-> dest, src |-> src, len |-> len],
              memmove(before, dest, src, len))
CallFind == \E haystack \in Strs(MaxLen + 2), needle \in Strs(MaxLen) :
    Calls([fn |-> "strStr", haystack |-> haystack, needle |-> needle], strStr(haystack, needle))
CallChar == \E str \in Strs(MaxLen), c \in Chars \cup {NUL}, before \in Chars :
    Calls([fn |-> "strchr", str |-> str, c |-> c],
          [first |-> strchr(before, str, c), last |-> strrchr(str, c)])
CallSpan == \E str1 \in Strs(MaxLen), str2 \in Strs(2) \ {<< >>} :
    Calls([fn |-> "strspn", str1 |-> str1, str2 |-> str2],
          [spn |-> strspn(str1, str2), cspn |-> strcspn(str1, str2)])

\* strtok(str, delimiters) and then strtok(NULL, delimiters) until it returns
\* the null pointer; the delimiters may differ from call to call.
Cut(m, delimiters, from) ==
    LET t == Token(m, delimiters, from)
    IN  /\ mem' = t.mem /\ s_mem' = t.s_mem
        /\ tokens' = Append(tokens, [at |-> t.at, text |-> CString(t.mem, t.at),
                                     delimiters |-> delimiters])
        /\ UNCHANGED <<call, result>>
CallStrtok ==
    \E str \in Strs(MaxLen), d \in Delimiters : Cut(str, d, 0) /\ line' = str
CallStrtokAgain ==
    /\ s_mem # NULL
    /\ \E d \in Delimiters : Cut(mem, d, s_mem) /\ UNCHANGED line
Forget ==
    /\ tokens # << >> /\ s_mem = NULL
    /\ tokens' = << >> /\ line' = << >> /\ mem' = << >>
    /\ UNCHANGED <<call, result, s_mem>>

CallNumber == \E n \in Numbers :
    Calls([fn |-> "atoi", n |-> n],
          [decimal |-> atoi(Decimal(n), 10), hex |-> atoi(Hexadecimal(n), 16),
           itoa |-> atoi(itoa(n, 10), 10)])

\* A piece of a format: fmt, the arguments it takes and the text it stands for.
Parts(pieces, field) == FlattenSeq([i \in DOMAIN pieces |-> pieces[i][field]])
CallPrint == \E pieces \in Tuples(Pieces, MaxPieces) :
    LET format == Parts(pieces, "fmt")
        args == Parts(pieces, "args")
    IN  Calls([fn |-> "printf", text |-> Parts(pieces, "text"), last |-> Last(pieces)],
              [user |-> printf(format, args), kernel |-> print(format, args)])

\* A line typed for a format: fields that mean a value, with separators between
\* them; a separator may end the line.  A blank in front of the end of the line
\* ("trails") must be left to a directive: text of the format does not skip it.
Joined(parts, seps) ==
    FlattenSeq([i \in 1 .. Len(parts) + Len(seps) |->
                  IF i % 2 = 1 THEN parts[(i + 1) \div 2] ELSE seps[i \div 2]])
NEWLINE == 10
Lines(text) ==
    LET ends == <<0>> \o SelectSeq([i \in DOMAIN text |-> i], LAMBDA i : text[i] = NEWLINE)
                      \o <<Len(text) + 1>>
    IN  [k \in 1 .. Len(ends) - 1 |-> SubSeq(text, ends[k] + 1, ends[k + 1] - 1)]
CallScan == \E fields \in Tuples(Fields, MaxFields) :
    \E seps \in [1 .. Len(fields) - 1 -> Separators] :
        LET format == Joined([i \in DOMAIN fields |-> fields[i].fmt],
                             [i \in DOMAIN seps |-> seps[i].fmt])
            typed == Joined([i \in DOMAIN fields |-> fields[i].typed],
                            [i \in DOMAIN seps |-> seps[i].typed])
        IN  /\ \A i \in DOMAIN seps :
                /\ fields[i].ends => Head(seps[i].typed) = NEWLINE
                /\ seps[i].trails => Head(fields[i + 1].fmt) = PCT
            /\ Calls([fn |-> "scanf", values |-> [i \in DOMAIN fields |-> fields[i].value]],
                     scanf(format, Lines(typed)))

Next ==
    \/ Return
    \/ CallStrtokAgain
    \/ Forget
    \/ Idle /\ \/ CallCompare \/ CallMove \/ CallFind \/ CallChar \/ CallSpan
               \/ CallStrtok \/ CallNumber \/ CallPrint \/ CallScan

Spec == Init /\ [][Next]_vars

-----------------------------------------------------------------------------
Occurs(haystack, needle, i) ==
    i + Len(needle) <= Len(haystack) /\ needle = SubSeq(haystack, i + 1, i + Len(needle))
\* The least and the greatest index of a set, or the null pointer.
Least(S) == IF S = {} THEN NULL ELSE Min(S)
Greatest(S) == IF S = {} THEN NULL ELSE Max(S)

\* strStr finds the first place where the needle stands, strchr the first and
\* strrchr the last place of a character (for strchr, when the byte in front of
\* the string is not 0), strspn and strcspn the first character not in the set
\* and in the set.
SearchFindsFirst ==
    /\ call.fn = "strStr" =>
        result = Least({i \in 0 .. Len(call.haystack) : Occurs(call.haystack, call.needle, i)})
    /\ call.fn = "strchr" =>
        LET places == {i \in 0 .. Len(call.str) : At(call.str, i) = call.c}
        IN  result = [first |-> Least(places), last |-> Greatest(places)]
    /\ call.fn = "strspn" =>
        LET first(in) == Min({i \in 0 .. Len(call.str1) : i = Len(call.str1)
                                \/ (At(call.str1, i) \in Range(call.str2)) = in})
        IN  result = [spn |-> first(FALSE), cspn |-> first(TRUE)]

\* strcmp and strncmp say 0 only for strings that agree (so far as they are
\* compared), strcmp for all of them, and have the sign of the first difference.
CompareOrders ==
    call.fn = "strncmp" =>
        /\ (result.all = 0) = (call.a = call.b)
        /\ result.first = 0 => \A i \in 0 .. call.n - 1 : At(call.a, i) = At(call.b, i)
        /\ \A i \in 0 .. Len(call.a) - 1 :
            (/\ i < Len(call.b)
             /\ \A j \in 0 .. i - 1 : At(call.a, j) = At(call.b, j)
             /\ At(call.a, i) # At(call.b, i)) =>
                (result.all < 0) = (At(call.a, i) < At(call.b, i))

\* memmove moves the cells as they were before the call, also when the two
\* regions overlap, and leaves the other cells alone.
MoveKeepsSource ==
    call.fn = "memmove" =>
        result = [i \in DOMAIN call.before |->
                    IF i \in call.dest .. call.dest + call.len - 1
                    THEN call.before[i - call.dest + call.src] ELSE call.before[i]]

\* No token strtok returns contains a delimiter of its call, and with the same
\* delimiters all along the tokens that are not empty are the words of the
\* string, whole, in order and once each, and no word is left out.
TokenPlace(k) == tokens[k].at + 1 .. tokens[k].at + Len(tokens[k].text)
TokensAreWords ==
    LET delimiters == tokens[1].delimiters
        Inside(i) == i \in DOMAIN line /\ ~Contains(delimiters, line[i])
    IN  /\ \A k \in DOMAIN tokens, c \in Chars :
               Contains(tokens[k].delimiters, c) => ~Contains(tokens[k].text, c)
        /\ (/\ tokens # << >> /\ s_mem = NULL
            /\ \A k \in DOMAIN tokens : tokens[k].delimiters = delimiters) =>
               /\ \A k \in DOMAIN tokens :
                     /\ tokens[k].text = SubSeq(line, tokens[k].at + 1, tokens[k].at + Len(tokens[k].text))
                     /\ ~Inside(tokens[k].at) /\ ~Inside(tokens[k].at + Len(tokens[k].text) + 1)
               /\ \A j, k \in DOMAIN tokens :
                     j < k => tokens[j].at + Len(tokens[j].text) < tokens[k].at
               /\ \A i \in DOMAIN line : Inside(i) <=> \E k \in DOMAIN tokens : i \in TokenPlace(k)

\* A number printed with %d or %x, or by itoa, and read back by atoi is the same
\* number, and all its characters are used.
NumbersReadBack ==
    call.fn = "atoi" =>
        /\ result.decimal = <<call.n, Len(Decimal(call.n))>>
        /\ result.hex = <<call.n, Len(Hexadecimal(call.n))>>
        /\ result.itoa[1] = call.n

\* printf and print write the text of the format, when the text is shorter than
\* their buffer and no format ends in %% (the user's) or in anything but plain
\* text (the kernel's, whose formats all end in a newline).
PrintsFormat ==
    (call.fn = "printf" /\ Len(call.text) < MAX_BUFFER_SIZE) =>
        /\ ~call.last.percent => result.user.out = call.text
        /\ call.last.plain => result.kernel.out = call.text

\* What is typed for a format is what scanf stores, over as many lines and with
\* as many blanks between the fields as one likes.
ScansBack ==
    call.fn = "scanf" =>
        /\ result.values = call.values
        /\ result.ret = Len(call.values)
=============================================================================
