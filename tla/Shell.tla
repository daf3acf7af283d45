-------------------------------- MODULE Shell --------------------------------
(***************************************************************************)
(* The shell, xqcl of app/main.c.  The parent prompts, reads a word the     *)
(* user types (scanf and getStr) and sends it through a socket; the child   *)
(* receives it and prints it, or runs the command of that name in a process *)
(* of its own, until the word is "exit".  A semaphore, dollar, lets only    *)
(* one of them use the terminal.  A putc is one system call: without the    *)
(* semaphore the characters would mix.                                      *)
(*                                                                          *)
(* The socket is a queue: fewer words are sent than its ring holds.  The    *)
(* four commands are one that prints a line.  The user types no blanks.     *)
(* printf and scanf do what module Library shows of them.                   *)
(***************************************************************************)
EXTENDS Console, Chars, Semaphore

CONSTANTS
    Letters,       \* the characters of words that the user types
    MaxLine,       \* bound: the characters of a typed line
    MaxKeys        \* bound: the keys the user presses

PROMPT == <<62, 32>>
ExitWord == <<120>>      \* "exit", as one letter
CommandWord == <<99>>    \* "forktest", as one letter
Output == <<111>>        \* what the command prints
ASSUME LineAssumption == MaxLine \in Nat /\ MaxLine + Len(PROMPT) < SCR_WIDTH
\* The printable characters but the blank and '%'.  At the beginning of a word a
\* '%' would match the '%' of "%s", which scanf compares with the input before it
\* looks for a directive, and scanf would store nothing.
ASSUME LettersAssumption == Letters \subseteq (33 .. 126) \ {37}

Parent == "parent"
Child == "child"
Command == "command"
Proc == {Parent, Child, Command}
Dollar == 0

VARIABLES
    screen,
    pc, pending,      \* where each program is and the text it still has to put
    dollar,           \* the semaphores
    queue,            \* the packets at port2
    str, index,       \* getStr: its buffer and the place in it
    buf,              \* the word scanf has found
    keys,             \* the keys pressed so far
    log, typed,       \* history: the lines the user should see, the one being edited,
    entered, answered \* the words entered and those the child has received
input == <<str, index, buf, keys>>
history == <<log, typed, entered, answered>>
vars == <<screen, pc, pending, dollar, queue, input, history>>

Init ==
    /\ screen = Empty
    /\ pc = [p \in Proc |-> IF p = Command THEN "none" ELSE "wait"]
    /\ pending = [p \in Proc |-> << >>]
    /\ dollar = Allot(FreshTable(1), 1)
    /\ queue = << >>
    /\ str = [i \in 1 .. MaxLine + 1 |-> NUL] /\ index = 0
    /\ buf = << >> /\ keys = 0
    /\ log = << << >> >> /\ typed = << >> /\ entered = << >> /\ answered = << >>

Ready(p, l) == pc[p] = l /\ pending[p] = << >>
Goto(p, l) == pc' = [pc EXCEPT ![p] = l]
Prints(p, text) == pending' = [pending EXCEPT ![p] = text]
\* The history of the terminal: as many lines as the screen has.
Shown(rows) == IF Len(rows) > SCR_HEIGHT THEN Tail(rows) ELSE rows
OnLast(text) == [log EXCEPT ![Len(log)] = @ \o text]

Putc(p) ==
    /\ pending[p] # << >>
    /\ screen' = put(screen, Head(pending[p]))
    /\ Prints(p, Tail(pending[p]))
    /\ UNCHANGED <<pc, dollar, queue, input, history>>

Granted(p) == IF p = Parent THEN "prompt" ELSE "recv"
SemWait(p) ==
    /\ Ready(p, "wait")
    /\ dollar' = Down(dollar, Dollar, p)
    /\ Goto(p, IF Blocks(dollar, Dollar) THEN "asleep" ELSE Granted(p))
    /\ UNCHANGED <<screen, pending, queue, input, history>>

IsExit(word) == strcmp(word, ExitWord) = 0
SemPost(p) ==
    /\ Ready(p, "post")
    /\ dollar' = Up(dollar, Dollar)
    /\ pc' = [q \in Proc |->
                CASE q = p -> IF p = Parent /\ IsExit(buf) THEN "join" ELSE "wait"
                  [] q # p -> IF Wakes(dollar, Dollar) /\ Woken(dollar, Dollar) = q
                              THEN Granted(q) ELSE pc[q]]
    /\ UNCHANGED <<screen, pending, queue, input, history>>

-----------------------------------------------------------------------------
\* The parent.
Prompt ==
    /\ Ready(Parent, "prompt")
    /\ Prints(Parent, PROMPT)
    /\ Goto(Parent, "getc")
    /\ buf' = << >> /\ index' = 0
    /\ log' = OnLast(PROMPT)
    /\ UNCHANGED <<screen, dollar, queue, str, keys, typed, entered, answered>>

\* getStr gets a key and echoes it.
Pressed ==
    /\ Ready(Parent, "getc") /\ keys < MaxKeys
    /\ keys' = keys + 1
    /\ UNCHANGED <<screen, dollar, queue, buf, entered, answered>>
Press(c) ==
    /\ Len(typed) < MaxLine
    /\ Pressed
    /\ Prints(Parent, <<c>>)
    /\ str' = [str EXCEPT ![index + 1] = c] /\ index' = index + 1
    /\ typed' = Append(typed, c)
    /\ UNCHANGED <<pc, log>>
\* Mutant: an empty line is not tested.
BackspaceAlways ==
    /\ Pressed
    /\ Prints(Parent, <<BS, SPACE, BS>>)
    /\ str' = [str EXCEPT ![index + 1] = NUL] /\ index' = index - 1
    /\ typed' = SubSeq(typed, 1, Len(typed) - 1)
    /\ UNCHANGED <<pc, log>>
Backspace ==
    /\ Pressed
    /\ IF index > 0
       THEN /\ Prints(Parent, <<BS, SPACE, BS>>)
            /\ str' = [str EXCEPT ![index + 1] = NUL] /\ index' = index - 1
       ELSE UNCHANGED <<pending, str, index>>
    /\ typed' = SubSeq(typed, 1, Len(typed) - 1)
    /\ UNCHANGED <<pc, log>>
Newline ==
    /\ Pressed
    /\ Prints(Parent, <<LF>>)
    /\ Goto(Parent, "line")
    /\ log' = Shown(Append(OnLast(typed), << >>))
    /\ UNCHANGED <<str, index, typed>>

\* The end of getStr.  scanf wants another line when it has found no word; an
\* empty one leaves it where it was in its format.
Scanned(string) ==
    /\ Ready(Parent, "line")
    /\ str' = string
    /\ index' = 0 /\ typed' = << >>
    /\ IF At(string, 0) = NUL
       THEN Goto(Parent, "getc") /\ UNCHANGED <<buf, entered>>
       ELSE /\ Goto(Parent, "send")
            /\ buf' = CString(string, 0)
            /\ entered' = Append(entered, typed)
    /\ UNCHANGED <<screen, pending, dollar, queue, keys, log, answered>>
\* Mutant: the line is not ended.
EndLineOpen == Scanned(str)
EndLine == Scanned([str EXCEPT ![index + 1] = NUL])

\* Mutant: the last word is sent without sem_post.
SendLeaves ==
    /\ Ready(Parent, "send")
    /\ queue' = Append(queue, buf)
    /\ Goto(Parent, IF IsExit(buf) THEN "join" ELSE "post")
    /\ UNCHANGED <<screen, pending, dollar, input, history>>
Send ==
    /\ Ready(Parent, "send")
    /\ queue' = Append(queue, buf)
    /\ Goto(Parent, "post")
    /\ UNCHANGED <<screen, pending, dollar, input, history>>

Join ==
    /\ Ready(Parent, "join") /\ Ready(Child, "done")
    /\ Goto(Parent, "done")
    /\ UNCHANGED <<screen, pending, dollar, queue, input, history>>

-----------------------------------------------------------------------------
\* The child.  It ends with the semaphore still taken.
\* Mutant: it keeps the semaphore when there is nothing to receive.
RecvNothingKeeps ==
    /\ Ready(Child, "recv") /\ queue = << >>
    /\ Goto(Child, "wait")
    /\ UNCHANGED <<screen, pending, dollar, queue, input, history>>
RecvNothing ==
    /\ Ready(Child, "recv") /\ queue = << >>
    /\ Goto(Child, "post")
    /\ UNCHANGED <<screen, pending, dollar, queue, input, history>>
\* What the child, or the command, prints is a line of its own.
PrintsLine(p, text) ==
    /\ Prints(p, Append(text, LF))
    /\ log' = Shown(Append(OnLast(text), << >>))
Recv ==
    /\ Ready(Child, "recv") /\ queue # << >>
    /\ queue' = Tail(queue)
    /\ answered' = Append(answered, Head(queue))
    /\ \/ /\ IsExit(Head(queue))
          /\ Goto(Child, "done") /\ UNCHANGED <<pending, log>>
       \/ /\ ~IsExit(Head(queue)) /\ strcmp(Head(queue), CommandWord) = 0
          /\ Goto(Child, "fork") /\ UNCHANGED <<pending, log>>
       \/ /\ ~IsExit(Head(queue)) /\ strcmp(Head(queue), CommandWord) # 0
          /\ Goto(Child, "post") /\ PrintsLine(Child, Head(queue))
    /\ UNCHANGED <<screen, dollar, input, typed, entered>>

\* func_wrapper.  Without a free slot fork returns -1, and nothing is run.
Fork ==
    /\ Ready(Child, "fork")
    /\ \/ /\ pc' = [pc EXCEPT ![Child] = "collect", ![Command] = "exit"]
          /\ PrintsLine(Command, Output)
       \/ Goto(Child, "post") /\ UNCHANGED <<pending, log>>
    /\ UNCHANGED <<screen, dollar, queue, input, typed, entered, answered>>
Exit ==
    /\ Ready(Command, "exit")
    /\ Goto(Command, "zombie")
    /\ UNCHANGED <<screen, pending, dollar, queue, input, history>>
\* Mutant: the command is not waited for.
CollectNone ==
    /\ Ready(Child, "collect")
    /\ Goto(Child, "post")
    /\ UNCHANGED <<screen, pending, dollar, queue, input, history>>
Collect ==
    /\ Ready(Child, "collect") /\ pc[Command] = "zombie"
    /\ pc' = [pc EXCEPT ![Child] = "post", ![Command] = "none"]
    /\ UNCHANGED <<screen, pending, dollar, queue, input, history>>

Terminal(p) == Putc(p) \/ SemWait(p) \/ SemPost(p)
ParentStep == Terminal(Parent) \/ Prompt \/ EndLine \/ Send \/ Join
ChildStep == Terminal(Child) \/ RecvNothing \/ Recv \/ Fork \/ Collect
CommandStep == Putc(Command) \/ Exit
User == Backspace \/ Newline \/ \E c \in Letters : Press(c)

Next == ParentStep \/ ChildStep \/ CommandStep \/ User

\* The scheduler runs each program again and again; the user need not type.
Spec ==
    /\ Init /\ [][Next]_vars
    /\ WF_vars(ParentStep) /\ WF_vars(ChildStep) /\ WF_vars(CommandStep)

-----------------------------------------------------------------------------
\* The place in the line and the cursor stay where they belong: an erased empty
\* line does not move either in front of its beginning.
TypeOK ==
    /\ screen.row \in Rows /\ screen.col \in Cols
    /\ pc[Parent] \in {"wait", "asleep", "prompt", "getc", "line", "send", "post", "join", "done"}
    /\ pc[Child] \in {"wait", "asleep", "recv", "fork", "collect", "post", "done"}
    /\ pc[Command] \in {"none", "exit", "zombie"}
    /\ index \in 0 .. MaxLine
    /\ dollar \in [value : [{Dollar} -> -1 .. 1], waiters : [{Dollar} -> Seq(Proc)],
                   avail : {<< >>}]

\* Whenever no text is on its way the screen shows the end of the session: each
\* prompt with what was typed after it, as edited, and each word the child
\* printed on a line of its own, with the cursor at the end.
Written(row) == row \o [i \in 1 .. SCR_WIDTH - Len(row) |-> SPACE]
Glyphs(row) == [i \in DOMAIN row |-> IF row[i] = NUL THEN SPACE ELSE row[i]]
ShowsText ==
    (\A p \in Proc : pending[p] = << >>) =>
        LET rows == OnLast(IF pc[Parent] = "getc" THEN typed ELSE << >>)
        IN  /\ \A r \in 1 .. SCR_HEIGHT :
                Glyphs(screen.cell[r]) = Written(IF r <= Len(rows) THEN rows[r] ELSE << >>)
            /\ screen.row = Len(rows) - 1 /\ screen.col = Len(Last(rows))

\* The words the user has entered, as edited, are those the child has received,
\* those in the socket and the one the parent is about to send, in order.
WordsArrive ==
    entered = answered \o queue \o (IF pc[Parent] = "send" THEN <<buf>> ELSE << >>)

\* A parent that waits for the terminal gets it, however often the child asks.
PromptComes == pc[Parent] \in {"wait", "asleep"} ~> pc[Parent] = "getc"

\* Once the user has entered "exit" both programs come to their end, whatever
\* commands are still to be run.
SessionEnds == pc[Parent] = "join" ~> pc[Parent] = "done"
=============================================================================
