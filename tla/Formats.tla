------------------------------- MODULE Formats -------------------------------
(***************************************************************************)
(* Formatted text: printf, scanf, atoi and itoa of the user library and     *)
(* print of the kernel, which is printf but for the end of a number or of a *)
(* string.  A format is a sequence of character codes.                      *)
(*                                                                          *)
(* The buffer is exact as long as the text is shorter than it: puts of a    *)
(* full one reads on behind its end, here it stops there.                   *)
(***************************************************************************)
EXTENDS Strings

CONSTANT MAX_BUFFER_SIZE

ASSUME FormatAssumption == MAX_BUFFER_SIZE \in Nat /\ MAX_BUFFER_SIZE >= 4

PCT == 37
MINUS == 45
ZERO == 48
NINE == 57
BLANK == 32
TAB == 9
\* 'a', 'c', 'd', 's', 'x' and 'X'
Ca == 97
Cc == 99
Cd == 100
Cs == 115
Cx == 120
CX == 88

-----------------------------------------------------------------------------
\* Numbers in characters.  Division is C's, towards zero.
Quotient(n) == IF n < 0 THEN (n + 9) \div 10 ELSE n \div 10
DecDigits[n \in Int] ==
    LET q == Quotient(n)
        digit == IF n < 0 THEN q * 10 - n ELSE n - q * 10
    IN  (IF q = 0 THEN << >> ELSE DecDigits[q]) \o <<ZERO + digit>>
HexDigits[n \in Nat] ==
    (IF n < 16 THEN << >> ELSE HexDigits[n \div 16])
        \o <<IF n % 16 < 10 THEN ZERO + (n % 16) ELSE Ca + (n % 16) - 10>>
\* The number is unsigned: a negative n stands for 2^32 + n.
Hexadecimal(n) ==
    IF n >= 0 THEN HexDigits[n]
    ELSE HexDigits[(n \div 16) + 2^28] \o <<Last(HexDigits[n % 16])>>
Decimal(n) == (IF n < 0 THEN <<MINUS>> ELSE << >>) \o DecDigits[n]

\* The digits of itoa come out backwards and are turned around in place.  For a
\* negative number they are characters below '0', which is left out.
Remainders(number, radix) ==
    LET digits[n \in Nat] ==
          IF n = 0 THEN << >> ELSE <<ZERO + (n % radix)>> \o digits[n \div radix]
    IN  digits[number]
\* Mutant: they are not turned around.
ItoaBackwards(number, radix) == Remainders(number, radix)
itoa(number, radix) == Reverse(Remainders(number, radix))

\* atoi: the value and the number of characters used.  To base 16 every
\* character up to '9' counts as a digit.
DigitValue(c, base) == IF base = 16 /\ c > NINE THEN c - Ca + 10 ELSE c - ZERO
IsDigit(c, base) ==
    /\ c # NUL
    /\ IF base = 16 THEN c <= NINE \/ DigitValue(c, base) \in 10 .. 15
                    ELSE DigitValue(c, base) \in 0 .. 9
atoi(a, base) ==
    LET len == Min({i \in 0 .. Len(a) : ~IsDigit(At(a, i), base)})
        value[i \in 0 .. len] ==
          IF i = 0 THEN 0 ELSE value[i - 1] * base + DigitValue(a[i], base)
    IN  <<value[len], len>>

-----------------------------------------------------------------------------
\* printf and print: the buffer, where it is, the state of the format, the
\* arguments left, what was written and what is returned.
Start(args) ==
    [buffer |-> [i \in 1 .. MAX_BUFFER_SIZE |-> NUL], count |-> 0, state |-> 0,
     args |-> args, out |-> << >>, ret |-> 0]
Append1(st, c) == [st EXCEPT !.buffer[st.count + 1] = c, !.count = @ + 1]
puts(st) == [st EXCEPT !.out = @ \o CString(st.buffer, 0)]
Emit(st, c) ==
    LET s == Append1(st, c)
    IN  IF s.count = MAX_BUFFER_SIZE THEN [puts(s) EXCEPT !.count = 0] ELSE s
\* The text of an argument over the two characters of its directive.
Insert(st, text) == FoldLeft(Emit, [st EXCEPT !.count = @ - 2], text)
\* Mutant: a short text leaves the letter of its directive behind, as in print.
CloseNone(st, before) == st
Close(st, before) ==
    IF st.count - before < 2 THEN [st EXCEPT !.buffer[st.count + 1] = NUL] ELSE st

Text(c, arg) == CASE c = Cd -> Decimal(arg) [] c = Cx -> Hexadecimal(arg) [] c = Cs -> arg
Directive(st, c, user) ==
    CASE c = PCT -> [st EXCEPT !.buffer[st.count + 1] = NUL, !.count = @ - 1, !.state = 0]
      [] c \in {Cd, Cx, Cs} ->
            LET s == Insert(st, Text(c, Head(st.args)))
            IN  [(IF user THEN Close(s, st.count) ELSE s)
                    EXCEPT !.args = Tail(@), !.state = 0]
      [] c = Cc -> [st EXCEPT !.buffer[st.count] = NUL, !.buffer[st.count - 1] = Head(st.args),
                              !.count = @ - 1, !.args = Tail(@), !.state = 0]
      [] OTHER -> [st EXCEPT !.state = 2]
Step(st, c, user) ==
    LET s == Append1(st, c)
    IN  CASE st.ret # 0 -> st
          [] st.ret = 0 /\ st.state = 0 -> [s EXCEPT !.state = IF c = PCT THEN 1 ELSE 0]
          [] st.ret = 0 /\ st.state = 1 -> Directive(s, c, user)
          [] st.ret = 0 /\ st.state = 2 -> [s EXCEPT !.ret = -2]
Run(format, args, user) ==
    LET st == FoldLeft(LAMBDA s, c : Step(s, c, user), Start(args), format)
    IN  IF st.ret = 0 /\ st.count # 0 THEN puts(st) ELSE st
printf(format, args) == Run(format, args, TRUE)
print(format, args) == Run(format, args, FALSE)

-----------------------------------------------------------------------------
\* scanf, on the lines getStr returns: what is left of the format, of the
\* line and of the lines, the state, the values stored and what is returned.  Lines that are used
\* up leave it waiting.
isspace(c) == c \in {BLANK, TAB}
Skip(s) == SubSeq(s, Min({i \in 0 .. Len(s) : ~isspace(At(s, i))}) + 1, Len(s))
Word(buf, stop) ==
    SubSeq(buf, 1, Min({i \in 0 .. Len(buf) :
                          i = Len(buf) \/ isspace(At(buf, i)) \/ At(buf, i) = stop}))
Waiting == -1

Store(s, value, len) == [s EXCEPT !.values = Append(@, value), !.ret = @ + 1, !.state = 0,
                                  !.buf = SubSeq(@, len + 1, Len(@))]
Fails(s) == [s EXCEPT !.failed = TRUE, !.ret = Len(s.line) - Len(s.buf) + 1]
Convert(st, c) ==      \* st.format is what follows the directive c
    CASE c = Cd -> LET n == atoi(st.buf, 10) IN Store(st, n[1], n[2])
      [] c = Cx -> IF At(st.buf, 0) = ZERO /\ At(st.buf, 1) \in {Cx, CX}
                   THEN LET n == atoi(SubSeq(st.buf, 3, Len(st.buf)), 16)
                        IN  Store(st, n[1], n[2] + 2)
                   ELSE IF At(st.buf, 0) = ZERO THEN Fails([st EXCEPT !.buf = Tail(@)])
                   ELSE Fails(st)
      [] c = Cs -> LET w == Word(st.buf, At(st.format, 0)) IN Store(st, w, Len(w))
      [] c = Cc -> Store(st, At(st.buf, 0), 1)
      [] OTHER -> Fails(st)
Match(st) ==
    LET s == [st EXCEPT !.buf = Skip(@), !.format = Skip(@)]
    IN  IF s.state = 1 THEN Convert([s EXCEPT !.format = Skip(Tail(@))], At(s.format, 0))
        ELSE IF At(s.format, 0) = At(s.buf, 0)
             THEN [s EXCEPT !.format = Tail(@), !.buf = Tail(@)]
        ELSE IF At(s.format, 0) = PCT THEN [s EXCEPT !.format = Tail(@), !.state = 1]
        ELSE Fails(s)
\* Mutant: a new line starts with the format matched as text.
NextLineAfresh(st) ==
    [st EXCEPT !.line = Head(st.lines), !.buf = Head(st.lines), !.lines = Tail(@), !.state = 0]
NextLine(st) == [st EXCEPT !.line = Head(st.lines), !.buf = Head(st.lines), !.lines = Tail(@)]
Round(st) ==
    IF st.failed \/ st.format = << >> THEN st
    ELSE IF st.buf # << >> THEN Match(st)
    ELSE IF st.lines = << >> THEN [st EXCEPT !.failed = TRUE, !.ret = Waiting]
    ELSE NextLine(st)
\* It reads a line before it looks at the format.  Every round uses up a line or a
\* character of the format, or is the last one.
scanf(format, lines) ==
    LET parsed[k \in 0 .. Len(format) + Len(lines)] ==
          IF k = 0
          THEN NextLine([format |-> format, buf |-> << >>, line |-> << >>, state |-> 0,
                         values |-> << >>, ret |-> 0, failed |-> FALSE, lines |-> lines])
          ELSE Round(parsed[k - 1])
    IN  parsed[Len(format) + Len(lines)]
=============================================================================
