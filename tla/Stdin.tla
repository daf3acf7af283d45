-------------------------------- MODULE Stdin --------------------------------
(***************************************************************************)
(* Keyboard input: the interrupt handler puts keys into the ring keyBuffer  *)
(* and posts the semaphore of the device stdin; sys_read takes them out.    *)
(*                                                                          *)
(* The handler runs with interrupts off, and do_sem_wait is atomic; in      *)
(* between the keyboard may interrupt sys_read_stdin before any access to   *)
(* the ring.  The scheduler is the one of module Process, abstracted to     *)
(* the readers that are not asleep taking steps in any order.               *)
(***************************************************************************)
EXTENDS Semaphore, Keyboard

CONSTANTS
    Reader,               \* the processes that read
    MAX_KEYBUFFER_SIZE,
    NoChar

ASSUME BufferAssumption == MAX_KEYBUFFER_SIZE \in Nat /\ MAX_KEYBUFFER_SIZE >= 1

Normal == Letter \X {"L", "U"}
Key == [type : {"NORMAL"}, code : Normal]
       \cup {[type |-> t, code |-> <<t, "scan">>] : t \in {"BACKSPACE", "NEWLINE"}}
Blank == [type |-> "NORMAL", code |-> NoChar]   \* a slot never written
Char == Normal \cup {<<"BACKSPACE", "0x7f">>, <<"NEWLINE", "\\n">>}
Slot == 0 .. MAX_KEYBUFFER_SIZE - 1
stdin == "stdin"

VARIABLES
    keyBuffer, bufferHead, bufferTail,
    dev,       \* the semaphore of the device
    pc,        \* where the sys_read of a process is, "user" outside
    type,      \* the type of the key sys_read has looked at
    got        \* what the last read returned, NoChar for -1

vars == <<keyBuffer, bufferHead, bufferTail, dev, pc, type, got, kbvars>>

Init ==
    /\ KbInit
    /\ keyBuffer = [i \in Slot |-> Blank]
    /\ bufferHead = 0 /\ bufferTail = 0
    /\ dev = [value |-> [d \in {stdin} |-> 0], waiters |-> [d \in {stdin} |-> << >>],
              avail |-> << >>]
    /\ pc = [p \in Reader |-> "user"]
    /\ type = [p \in Reader |-> "NORMAL"]
    /\ got = [p \in Reader |-> NoChar]

Goto(p, l) == pc' = [pc EXCEPT ![p] = l]
At(p, l) == pc[p] = l

\* Readers past do_sem_wait that have not moved bufferHead; the keys nobody has read.
Claiming == {p \in Reader : pc[p] \in {"type", "code"}}
Unread == dev.value[stdin] + Len(dev.waiters[stdin]) + Cardinality(Claiming)

\* KeyboardHandle, for a key with a character.  Nothing stops it when the ring
\* is full; here the user waits for the program then.
Pressed(c) == IF c \in Letter THEN [type |-> "NORMAL", code |-> GetChar(c)]
                              ELSE [type |-> c, code |-> <<c, "scan">>]
Press(c) ==
    /\ Unread < MAX_KEYBUFFER_SIZE
    /\ keyBuffer' = [keyBuffer EXCEPT ![bufferTail] = Pressed(c)]
    /\ bufferTail' = (bufferTail + 1) % MAX_KEYBUFFER_SIZE
    /\ dev' = Up(dev, stdin)
    /\ IF Wakes(dev, stdin) THEN Goto(Woken(dev, stdin), "type") ELSE UNCHANGED pc
    /\ UNCHANGED <<bufferHead, type, got, kbvars>>

\* KeyboardHandle for a key without a character.  (A key with one that goes up
\* changes nothing.)
Modify(key, press) ==
    /\ Sends(key, press)
    /\ GetKeyCode(key, press)
    /\ UNCHANGED <<keyBuffer, bufferHead, bufferTail, dev, pc, type, got>>

\* Mutant: a second reader waits as well.
RefuseNone(p) ==
    /\ Goto(p, "wait")
    /\ UNCHANGED got

\* The test before do_sem_wait: somebody waits already.
Refuse(p) ==
    IF dev.value[stdin] < 0
    THEN got' = [got EXCEPT ![p] = NoChar] /\ UNCHANGED pc
    ELSE Goto(p, "wait") /\ UNCHANGED got

\* sys_read_stdin.  Programs read one at a time, but for those that sleep.
Read(p) ==
    /\ At(p, "user")
    /\ \A q \in Reader : pc[q] \in {"user", "asleep"}
    /\ Refuse(p)
    /\ UNCHANGED <<keyBuffer, bufferHead, bufferTail, dev, type, kbvars>>

Wait(p) ==
    /\ At(p, "wait")
    /\ dev' = Down(dev, stdin, p)
    /\ Goto(p, IF Blocks(dev, stdin) THEN "asleep" ELSE "type")
    /\ UNCHANGED <<keyBuffer, bufferHead, bufferTail, type, got, kbvars>>

ReadType(p) ==
    /\ At(p, "type")
    /\ type' = [type EXCEPT ![p] = keyBuffer[bufferHead].type]
    /\ Goto(p, "code")
    /\ UNCHANGED <<keyBuffer, bufferHead, bufferTail, dev, got, kbvars>>

CharOf(t, code) == CASE t = "NORMAL"    -> code
                     [] t = "BACKSPACE" -> <<t, "0x7f">>
                     [] t = "NEWLINE"   -> <<t, "\\n">>

ReadCode(p) ==
    /\ At(p, "code")
    /\ got' = [got EXCEPT ![p] = CharOf(type[p], keyBuffer[bufferHead].code)]
    /\ bufferHead' = bufferHead + 1
    /\ Goto(p, "wrap")
    /\ UNCHANGED <<keyBuffer, bufferTail, dev, type, kbvars>>

\* Mutant: the index wraps one too late.
WrapLate(p) ==
    /\ At(p, "wrap")
    /\ bufferHead' = IF bufferHead > MAX_KEYBUFFER_SIZE THEN 0 ELSE bufferHead
    /\ Goto(p, "user")
    /\ type' = [type EXCEPT ![p] = "NORMAL"]
    /\ UNCHANGED <<keyBuffer, bufferTail, dev, got, kbvars>>

Wrap(p) ==
    /\ At(p, "wrap")
    /\ bufferHead' = bufferHead % MAX_KEYBUFFER_SIZE
    /\ Goto(p, "user")
    /\ type' = [type EXCEPT ![p] = "NORMAL"]
    /\ UNCHANGED <<keyBuffer, bufferTail, dev, got, kbvars>>

Step(p) == Wait(p) \/ ReadType(p) \/ ReadCode(p) \/ Wrap(p)

Next ==
    \/ \E c \in Letter \cup {"BACKSPACE", "NEWLINE"} : Press(c)
    \/ \E key \in Modifiers, press \in BOOLEAN : Modify(key, press)
    \/ \E p \in Reader : Read(p) \/ Step(p)

Spec == Init /\ [][Next]_vars
-----------------------------------------------------------------------------
\* bufferHead is out of the ring only inside one read.
TypeOK ==
    /\ KbTypeOK
    /\ keyBuffer \in [Slot -> Key \cup {Blank}]
    /\ bufferHead \in Slot \/ (bufferHead = MAX_KEYBUFFER_SIZE /\ \E p \in Reader : At(p, "wrap"))
    /\ bufferTail \in Slot
    /\ dev \in SemTables({stdin}, Reader)
    /\ pc \in [Reader -> {"user", "wait", "asleep", "type", "code", "wrap"}]
    /\ type \in [Reader -> {"NORMAL", "BACKSPACE", "NEWLINE"}]
    /\ got \in [Reader -> Char \cup {NoChar}]

\* The mapping to the abstract input: the unread keys are those from bufferHead
\* on, as many as the semaphore and its users account for.
S == INSTANCE AbsStdin WITH
       typed  <- [i \in 1 .. Unread |->
                    LET k == keyBuffer[(bufferHead + i - 1) % MAX_KEYBUFFER_SIZE]
                    IN  CharOf(k.type, k.code)],
       asleep <- {p \in Reader : pc[p] = "asleep"}

\* Keys are read in order, once, even with a full ring, where head and tail
\* are the same as in an empty one: only the semaphore tells them apart.
InputInOrder == S!Spec
=============================================================================
