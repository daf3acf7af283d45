# Verification of the oslab kernel

TLA+ models of the teaching kernel in `src/`, the TLC configurations that check
them, and TLAPS proofs about them. Paths are relative to the repository.

## 1. Inventory

One i386 processor, a monolithic kernel, user programs that enter it by
`int $0x80`. There is no locking but turning interrupts off: `pushoff` and
`popoff` (`kernel/kernel/off.c`) nest, and count in the table entry of the
*current* process.

| component | source | state | operations |
|---|---|---|---|
| process pools | `kernel/include/common/pool.h` | four doubly linked lists with a size each | insert_head, insert_tail, push_proc, pick_head, free_proc |
| process manager | `kernel/kernel/irqHandle.c`, `kernel/include/x86/pcb.h`, `kernel/kernel/kvm.c` (initProc) | `pcb[]`, `current`, the pools | clock handler, schedule, fork, thread_create, thread_start, sleep, exit, wait, thread_join |
| exec | `irqHandle.c` (sys_exec), `kvm.c` (loadelf) | the program image of a process | exec |
| interrupt nesting | `kernel/kernel/off.c` | `pcb[].ncli`, `pcb[].intena`, IF | pushoff, popoff |
| semaphores | `kernel/kernel/semaphore.c`, `kernel/include/semaphore.h`, `irqHandle.c` (sys_sem_*) | `sem[]` with a value and a list of waiters, the free list | init, P, V, destroy |
| kernel lists | `kernel/include/common/list.h` | circular lists of waiters and of semaphores | add, add_tail, del_init, head; not called: move, splice |
| sockets | `kernel/kernel/socket.c`, `kernel/include/common/queue.h` | `sockets[]`, a ring of messages each | new, destroy, send, recv |
| keyboard and stdin | `kernel/kernel/keyboard.c`, `irqHandle.c` (KeyboardHandle, sys_read_stdin) | scan-code state, the key ring, the device semaphore | key interrupt, read |
| console | `irqHandle.c` (sys_write_stdout), `kernel/kernel/vga.c` | cursor, screen | write, scroll |
| memory | `kernel/kernel/page.c`, `kvm.c` | page tables, the free page list | kalloc, kfree, map, copyuvm, deallocuvm, freevm |
| boot, disk, ELF | `bootloader/`, `kvm.c`, `kernel/kernel/disk.c` | none after boot | load |
| serial, VGA, font, palette | `kernel/kernel/` | device registers | output |
| user library | `lib/` | formatting buffers, `s_mem` of strtok | printf, scanf, getStr, string functions, call stubs |
| shell | `app/main.c` (xqcl) | `dollar`, the ports, the word read | prompt, getStr, send; receive, print or run a command |
| semaphore programs | `app/main.c` (sem_test) | semaphores | father and child, philosophers, producers and consumers |
| other applications | `app/main.c`, `autoqed/` | none | fork test, ping_pong, socket demonstration |

How they interact. Every program step is a system call on the kernel stack of the
caller; the clock (vector 0x20) and the keyboard (0x21) interrupt it wherever
IF is on. A call that must wait puts its own process to sleep and executes
`int $0x20`, entering the clock handler, whose `schedule` switches stacks. The
process manager owns `pcb[].state` and the pools; semaphores, the keyboard and
exit all wake processes by moving them from `slp` to `busy` themselves.

What is hard. (a) A system call is a sequence of atomic sections with the clock
between them. (b) `free_proc` trusts its caller to name the right pool. (c) A
slot number in `parent` outlives the process. (d) `fork` copies the whole table
entry, its nesting count included, so that a forked process runs its calls with
interrupts off, while the first program and a thread in a used slot do not.
(e) Waking is by state only: whoever is `BLOCKED` is woken, whatever for.

What makes them correct: the pools partition the slots according to their
states; the running process is the head of `busy`; nobody's sleep is cut short
but by the event it waits for; every sleeper is woken; every zombie is collected
by its parent, once; a semaphore hands its tokens on in order; a channel and the
keyboard lose nothing and keep the order; a frame belongs to one address space and is
freed once; the programs in user mode, which rely on all of that, come to their end,
and the user sees and sends what was typed.

## 2. Plan

Done, in this order: `Pool`, `Process` and their proofs; `Semaphore` against an
abstract semaphore, and `Kernel`, which composes it with the process manager,
with the proof of the refinement; `Socket` against an abstract channel and `Keyboard`
with `Stdin` against an ordered input, both with the proofs of the refinements; `Vm`, with the
proof that frames are neither shared nor lost; the semaphore programs, on the
lists pointer by pointer, with the proof that these implement the sequences; the functions of the
user library, with proofs of those that search, compare, move, cut and read numbers; the console, and the shell on top of all of these, with the proof that the screen
shows the session.

Next:

1. `Off`, pushoff and popoff instruction by instruction; the lists of `pool.h` pointer
   by pointer, as `SemLinks` is for those of `list.h`.
2. Erasing across a wrapped line in `Shell` (`Console` has it), and commands that read
   the keyboard themselves.
3. Proofs: `printf` and `scanf`. Their states are records of a buffer, a place in it and what is left, folded
   over the format; what one round does has to be proved for every directive first.

## 3. Modules

### Pool
The four lists as sequences of slots, and their `size` fields as separate
state: `free_proc(l, p)` takes `p` out of the list it is *in* and decrements the
size of the list it is *told*, which is how the code fails when they differ.

### Process
State: `current`; `state`, `parent`, `timeCount`, `sleepTime` as in `pcb[]`;
`pools`. The control state is explicit: `pc[p]` is the place of `p` between two
atomic sections of its call, `arg[p]` the slot the call is about, `intr[p]` the
IF flag of its context, `uif[p]` the flag in user mode, `nested[p]` whether
`ncli` is positive in user mode. `iter` is the position of the clock handler in
its walk over the sleepers (0: not in the handler). `halted` is a failed
`Assert`. `orphan` is a history variable used by one property.

Actions: `Tick` (the clock interrupts the current process where its IF is on),
`Int20` (`int $0x20` in the kernel), `WalkStep` and `TickEnd` (timerHandle and
schedule), `SysSleep`, `SysFork` then `ForkActivate` or `ThreadActivate`,
`ThStartCheck` then `ThStart`, `ExitKill` then `ExitNotify`, `WaitScan`,
`JoinCheck` then `JoinFree` or `JoinSleep`. Each is one section between
pushoff and popoff, or code between two sections whose effect is visible to
nobody else before the next.

`Calls` says which system calls the programs make. `"start"` is a program that
starts threads it made, `"startAny"` one that names any slot. Either has its
interrupts off in thread_start (`Quiet`): `sys_th_start` moves the thread from
`slp` to `busy` without pushoff (`irqHandle.c:364-368`), so that in the first program,
which a popoff leaves with interrupts on, the clock may come between the stores of
`insert_tail` (`pool.h:51-52`), rotate `busy`, and the next store then loses a process.
A forked program has them off, and only for such programs is the step `ThStart` one step
and are the pools valid. Everything `proc_thread`, `join_lost` and the theorems
say of programs that start threads is said of those.

Left out: register contents, exit codes and memory; the Assert of
`mappages` (`page.c:75`) which stops the machine when one process creates a
second thread, so that the model has more behaviours than the machine; thread_start
in a program with interrupts on (above).

### Semaphore, Kernel, AbsSemaphore
`Semaphore` is the table `sem[]` as one value: `value`, the list of `waiters` of
each, and the list `avail`. `Down` and `Up` are do_sem_wait and do_sem_signal
but for the process table. `Kernel` EXTENDS `Process` and adds `sems`; each of
`SemInit`, `SemP`, `SemV`, `SemDestroy` is one section inside pushoff ... popoff
and joins the change of the table with `SetSleep` or `Awake` of `Process`. A
sem_wait always ends in `int $0x20`, whether it blocked or not.

`Careless` widens what programs do: `"parentWaits"` lets a process with children
wait (`kern_parent`), `"anySem"` lets semaphores be used that are not in use (only
in the proofs, which allow it). `AbsSemaphore`
says what a program may rely on; `Kernel!AbsSpec` maps a positive `value` to
tokens and the waiters that are BLOCKED to those asleep.

### Programs, SemLinks, LinkedPrograms, LinkedProofs
`Programs`: processes that run once through a sequence of semaphore calls, on the
operators of `Semaphore`, in any order. `SemLinks` is the same table as it is in
memory: `next` and `last` of the nodes embedded in `sem[]` and `pcb[]`, changed
assignment by assignment as `__list_add` and `__list_del` do; `View` reads the
sequences back, along `next` from each head (`Ring`). `Picked` is the calls of sem_init
a test begins with, from the table the kernel sets up (`Fresh`); `Programs!Created` is what they come to. `LinkedPrograms` runs the three parts of `sem_test` on it and
implements `Programs` (`Sequences`). Processes are the forked children; their
parent only waits for them. The links of a child are those of its parent at first,
as fork copies the entry. Sleeps are left out but for those of the father, whose
posts come seconds after each other: with `Patient` such a sleep ends when nobody
else can go on.

### Socket, AbsChannel, SocketProofs
`in_use` and the ring of each port; a step is one access to the table, since no
socket call turns interrupts off. `pc[p]` is the place in the call, `port[p]`,
`msg[p]`, `slot[p]` what the call keeps. Programs open and close ports one at a
time (`MayOpen`) and have one sender and one receiver per port; `Careless =
{"senders"}` drops the one sender. In the mapping to `AbsChannel` a packet
enters when `end` moves and leaves when `begin` does.

### Keyboard, Stdin, AbsStdin, StdinProofs
`Keyboard` has `keyTable` and `keyboardState`, and the keys that are down
(`held`), which stand for the device; `GetKeyCode` is getKeyCode for a modifier. `Stdin`
extends it: a character is a letter and the table in use when it was typed.
`keyBuffer`, `bufferHead`, `bufferTail` and the device semaphore. `Press` and
`Modify` are the whole handler, for a key with a character and for a modifier; `Read`, `Wait`, `ReadType`, `ReadCode`, `Wrap` cut sys_read_stdin
where the handler can see a difference. The scheduler is abstracted to readers
that take turns. Bounds: the user types no key into a full ring, and one
process at a time is between `sem_wait` and its return (`Read`).

### Vm, VmProofs
`pagemap` is the set of frames in use, `dir[f]` and `pte[f]` a frame read as a
directory and as a table (one entry of a directory is enough: programs begin at
128 MB and end within the first table). `FreeFrames` is what kalloc returns call
after call, so that `Built` and `Grown` allot the same frames in the same order as
copyuvm and alloc_umem; kfree toggles, as in the code. `Fork`, `ThreadCreate`, `Exit`,
`WaitReap` and `Join` are the memory part of the calls in `Process`, each in one
section; exec has a step for each test and each toggle of kalloc. Programs join a thread before
they make another one, wait or exit. They may exec a shorter program (`ExecInPlace`), as the shell
does, and `lost` collects the frames that no later call frees; after that they make no thread and
exec no longer program. No other process takes frames while one grows. `Careless` lifts these rules.

### Chars, Strings, Formats, Library, MCLibrary, LibraryProofs
`Chars` (`strcmp` and `strncmp`, which the shell uses as well), `Strings` (the rest of `lib/znrlib.c`) and `Formats` (`lib/syscall.c`, and `print` of
`kernel/kernel/serial.c`) are operators, one for each function,
with its loops as recursive functions or, where they only search, as a least index: a string is the
sequence of its characters, and what is behind it is 0. `printf` keeps the
buffer, `count` and the flushes, because a number is inserted over its directive
in a buffer that may be full; `scanf` is given the lines that getStr would read, and
keeps its place in the format and in the line. `Library` is a program that calls
them one after the other, with every input of the sets in `MCLibrary`; only `strtok`
remembers something (`s_mem`), so only its calls are steps that depend on each other.

The domains are those of the properties. Outside them the code does other things, which
a caller has to know:
a format that ends in `%%` prints two percent signs, and an empty string for a `%s`
leaves the `s`; the kernel's `print` leaves the `d` of a `%d` at the end; a text as long as the
buffer makes printf read behind it; `atoi` knows no sign, and to base 16 no end below '0';
`itoa(0)` is empty; `strncmp` of equal first characters is not 0 when both strings go
on; `strcmp` has no defined sign when one string is the beginning of the other; `strchr`
misses the first character behind a 0 byte; `strspn` of an empty set runs past the end; a blank at
the end of a line, in front of plain text of the format, makes scanf fail, and with a
blank at the end of the format it runs past both; a string that ends in delimiters has
one more, empty, token.

### Console, Shell, ShellProofs
`Console` is what one character does to the screen (`put`, `update_row`, `update_col`,
`scrollScreen`). `Shell` is `xqcl`: `pending[p]` is the text a program still has to put,
one `putc`, that is one system call, at a time, so that the parent, the child and a
command could mix their text. The parent's loop is `Prompt`, then getStr (`Press`,
`Backspace`, `Newline`, `EndLine`), `Send` and the post; the child's is `Recv` or
`RecvNothing`, and `Fork` and `Collect` (func_wrapper) around a command. Semaphore calls are those of
`Semaphore`. The history `log` is what the user should see; `entered` and `answered` are the words
typed and received. printf and scanf appear as the text and the word they are for,
which `Library` justifies: the shell's formats are inside the domains above. Left out:
blanks and `%` in the typed line (an empty line is in), lines longer than a row, more words than the ring
of the socket holds, and four of the five command names.

## 4. Runs

| run | question |
|---|---|
| `proc_fork` (Process) | Programs that fork, sleep, exit and wait, on four slots, with a fair clock: the pools stay valid, the running process is the head of busy, wait(-1) never misses a child, only the clock or a child ends a sleep, and every ready process runs, every timed sleep ends and every wait with a child to collect returns. Properties: `TypeOK`, `PoolInv`, `NeverHalted`, `RunningIsHead`, `ExitIsFinal`, `WaitIsWoken`, `SleepKept`, `ReadyRuns`, `SleepEnds`, `WaitReturns`. |
| `proc_thread` (Process) | Programs that also create, start and join threads, those they made, and start them with interrupts off, as forked programs do (Quiet): the invariant the proofs use holds, and with it the pools stay valid. Properties: `IInv`. |
| `join_lost` (Process, violation) | thread_join tests for a zombie and goes to sleep in two steps: the thread that exits between them wakes nobody. A forked program joins the thread it started. Properties: `JoinIsWoken`. |
| `foreign_reap` (Process, violation) | A process exits without collecting its children: the next occupant of its slot collects them. Properties: `CollectedByCreator`. |
| `kern_abs` (Kernel) | The semaphore calls interleaved with fork, sleep, exit and wait, on two semaphores: a waiter sleeps in one list, once, and nobody but a post can wake it, a negative value is the number of waiters, and the kernel implements the abstract semaphore. Properties: `KInv`, `ValueCounts`, `AbsSpec`. |
| `kern_parent` (Kernel, violation) | A process with a child waits for a semaphore, and the exit of the child wakes it: it stays in the list of waiters, and the next post takes it out of a pool it is not in. Properties: `PoolInv`. |
| `programs` (LinkedPrograms) | The three parts of sem_test on the lists as they are in memory: the lists stay lists and implement the sequences of Programs, five neighbouring philosophers never eat together, no more is consumed than was produced, and every part comes to its end. Properties: `Linked`, `NeighboursApart`, `BufferSafe`, `Sequences`, `AllFinish`. |
| `sockets` (MCSocket) | Two ports, one of them with packets and a ring of four: new, destroy, sends and receives interleaved access by access implement channels of three messages; a port is handed to one program at a time, and a closed port starts empty. Properties: `TypeOK`, `Channels`. |
| `stdin_keys` (Stdin) | Keys typed at any moment while processes read: every key is read once, in order, also when the ring of two is full and head and tail are equal; a second reader gets -1; shift and caps lock, pressed in any order and held over other keys, leave the right table in use. Properties: `TypeOK`, `TableInStep`, `InputInOrder`. |
| `vm` (Vm) | Three processes that fork, create and join threads, exec, exit and wait: no frame is in two address spaces or both used and free, none is lost but those an exec of a shorter program puts out of reach, the asserts on the page tables hold, and a process keeps its pages. Properties: `OwnFrames`, `NoLeak`, `NeverStopped`, `PagesStay`. |
| `library` (MCLibrary) | The functions of the user library called on every input of some bounded sets: searches find the first place, memmove keeps overlapping regions, strtok returns the words of a line, printed numbers read back, printf and the kernel's print write the text of their format, and scanf stores what was typed over any number of lines. Properties: `SearchFindsFirst`, `CompareOrders`, `MoveKeepsSource`, `TokensAreWords`, `NumbersReadBack`, `PrintsFormat`, `ScansBack`. |
| `shell` (Shell) | The shell on a screen of three short lines: a user who types, erases and enters words, a child that prints them or runs a command, one putc at a time. The screen shows the session as edited, words arrive as edited and in order, the prompt always comes again, and exit ends both. Properties: `TypeOK`, `ShowsText`, `WordsArrive`, `PromptComes`, `SessionEnds`. |

The runs of `Process` and `Kernel` use four slots (idle, and three processes:
enough for a process, its parent and its grandparent, and for a slot to be
reused while the others live). Slices of one tick make every tick end a slice,
which is the densest interleaving. Sleeps of two ticks (`proc_fork`) are counted
down twice, so that the walk over the sleepers meets one it wakes and one it does
not. `kern_abs` has two semaphores and values up to 1: three processes suffice
for two waiters in one list, whose order the refinement checks. `sockets` has two
ports, so that get_socket has a choice and a search that fails, and rings of four slots, which
hold three packets: enough for order and for both indices to wrap at different times.
Packets go to one of the ports (`Traffic`); processes and messages are interchangeable,
hence the symmetry. `stdin_keys` has a ring of two, which is full, empty and wraps, and
one letter, which two tables tell apart. `vm` has three processes, stacks of one
page, and programs of one and three pages, so that an exec takes two frames and can
be interrupted four times, and one back to the shorter program loses the two frames above
its stack; five processes, threads or execs made in a run (`MaxMade`) are
enough for a slot and frames to be used again after an exec in either direction, and in 20 frames
memory does not run out.

`programs` has the five philosophers of the code, and one producer with two consumers
instead of two with four: the ratio, and so the balance of the buffer, is that of the
code. Four rounds instead of eight give a producer that is ahead, and consumers that both sleep.
`library` has strings of up to four of two characters (six where one is searched),
enough for borders that overlap and for words between delimiters; a buffer of 20, so that
texts of three pieces come up to its end, where flushes and insertions meet; three
fields with every separator. `shell` has a screen of three rows of five columns, which
scrolls at the third line, a word of up to two letters, one letter that stands for
`exit` and one for a command, and seven keys: an erase, an empty line and two
words fit in one session.

Nothing ever deadlocks where deadlock is checked. It is not in `programs`, `shell` and `vm`: the
programs end, the user stops typing, every program has exited.

The violation runs each show one disagreement between the code and what the
repository says of it; PROJECT.json quotes both sides. Other things the code
does that its callers have to avoid have no run; the models contain them, kept
out by constants the runs set:

- `thread_start` in a program with interrupts on may lose a process from `busy`
  (`irqHandle.c:367`, section 3): the guard `Quiet`;
- `thread_start` of any slot passes (`irqHandle.c:364`: `!=` joined by `||` is always
  true), and takes a process out of a pool it is not in: `"startAny"` in `Calls`, with `"fork"` and `"thread"`;
- a process that is preempted in the middle of its exit (`irqHandle.c:644`), which
  only the first program and a thread in a used slot can be, wakes nobody: its
  parent may sleep in wait for ever, and without a parent its slot is never freed
  (`"fork"`, `"thread"`, `"start"`, `"exit"` and `"wait"` in `Calls`);
- a thread in a slot used for the first time runs with interrupts off
  (`pcb.h:62`), and keeps the processor until it makes a call that yields;
- exec allocates pages with interrupts on (`page.c:27`), and a process that forks
  meanwhile may get the same frame: `"busyExec"` in `Vm!Careless`;
- exec of a shorter program, such as the `autoqed.elf` of the shell (`app/main.c:142`), leaves the
  pages above the new stack mapped, and `deallocuvm` never frees them (`page.c:158`). This is in
  the run: `lost` names the frames and `NoLeak` says that no others are lost. A longer exec in the
  same process, or a thread, then runs into the assertion of mappages: `"longer"` and `"threads"`;
- a held shift key that repeats switches the table with every code
  (`keyboard.c:236`): `Repeats` in `Keyboard`;
- a second thread before the first is joined is mapped over it, and runs into the same
  assertion: `"threads"` in `Vm!Careless`;
- the father of `sem_test` that destroys the semaphore while the child is still in its
  last sem_wait leaves it asleep: `Patient = FALSE` in `programs`;
- two senders to one port write the same slot (`queue.h:41`): `"senders"` in
  `Careless` of `Socket`.

Without a constant: a word that begins with `%` matches the `%` of the format `%s` before
`scanf` looks for a directive (`lib/syscall.c:104`), and nothing is stored (`Shell` has no such letter,
`LettersAssumption`); a backspace in the first column of a row that a line was wrapped to does not
erase the last character of the row above (`irqHandle.c:468`); getStr stores up to 4095 characters
(`lib/syscall.c:96`) into the 1020 of `input_buf`; and the domains of the library functions in section 3.

## 5. Fairness

`Process!Fairness`: strong fairness of `Tick` (the interrupt controller latches the
clock: an interrupt is taken even if IF is on only now and then), weak
fairness of the handler (it runs with interrupts off to its end), strong
fairness of the kernel's own steps of each process (ticks are far apart: a
process that is on the processor again and again executes an instruction).
Programs are under no fairness: they may loop for ever.

`LinkedPrograms` and `Shell` are about programs that do make their calls, because the
scheduler runs every ready process (`ReadyRuns`, checked in `proc_fork`): weak fairness
of each program of `Shell`, where one asleep has no step, and of `Next` in
`LinkedPrograms`, whose programs are finite. The user of the shell is under no
fairness: `SessionEnds` and `PromptComes` speak of what the programs owe once the
user has typed, and no key need ever come.

## 6. Proofs

The first part of `ProcessProofs` proves what the list operations do to *valid* pools: no slot twice,
sizes that count the lists. `Located(S, P, H)` says each slot is in the pool
`H` gives it and in no other; `MoveLocated`, `InsertLocated`, `PickLocated`,
`RotateLocated` say how each operation changes `H`.

The rest of it proves `Spec => []IInv` for any number of slots, any slice and
sleep times, for programs that only start their own threads (`OwnThreadsOnly`;
with `"startAny"` TLC finds it false), and, by the guard `Quiet` of `ThStartCheck`, with interrupts off. `PoolInv` alone is not inductive: a
step of a call moves a slot from the pool it was in when the call began.
`IInv` adds where a process may be in the kernel given its state
(`PositionInv`), and that a slot in the hands of a call is in no other hands
(`HoldInv`). The proof has one lemma per action; each shows that the action
changes the `Home` of at most one slot and applies the lemma about the one list
operation it makes. `SleepersKept` is an action property from the same
invariant. `WaitersWoken` proves `WaitIsWoken` for programs that make no threads
(`NoThreads`): a forked process has the nesting of the fork that made it, so that IF stays off
in its sys_exit (`ExitInv`) and nothing comes between its becoming a zombie and its look at
the parent. A thread has the nesting of the last occupant of its slot, and may lose the
processor there.

`KernelProofs` proves the same of the kernel with semaphores, for the same programs. `KInv` adds to
`IInv` that a waiter is BLOCKED with a sleep of -1, in one list, once, and
without children (`WaitersChildless`): the last part is what keeps an exit from
waking it, so that the proofs assume that no process with children waits
(`NoParentWaits`). The assumption is needed: the parent of the shell does wait for `dollar` while it has a
child, and `kern_parent` shows the pools break then. A step of the process
manager keeps `KInv` because it wakes only a sleeper whose time is up or whose
child exits (`NextWoken`, from `SleepersKept`), gives no child to a sleeper
(`ChildlessKept`) and does not change the length of its sleep
(`LastingSleepKept`). For programs that use a semaphore only while they have it
(`Careless = {}`), `ValueCounts` is inductive on top of that, and
`ImplementsAbsSemaphore` proves the refinement that `kern_abs` checks: each
call is one step of `AbsSemaphore`, each step of the process manager a stutter.

`SocketProofs` proves, for programs that have one sender to a port at a time
(`OneSender`), the indices (`TypeOK`) and the refinement that `sockets` checks
(`ImplementsChannel`), for any number of processes and ports and any size of the
rings. A call acts on what it read some steps ago, so that the invariant has to say
that this is still so: `Knows` keeps the room a sender has found, the packet a receiver
has found, and the packet in the slot it has given back, which a sender does not reach
because that would need a full ring. They are not disturbed because a port has one sender and
one receiver and is closed only when nobody uses it (`Alone`, from the protocol of the
programs in the guards `MayOpen`, `MayClose`, `MaySend` and `MayReceive`).
`PushAppends`, `PopTakesFirst` and `WriteKeeps` say what each access does to the
packets of a ring whose indices have wrapped or not.

`StdinProofs` proves, without an assumption on the programs beyond those in the guards, the indices
and the refinement of `Stdin` (`ImplementsInput`), for any number of readers and any size of
the ring. As head and tail of a full ring are those of an empty one, the invariant ties them to the
semaphore: `Unread`, its value with the sleepers and the reader past it, is the number of keys
from `bufferHead` on (`RingInv`). `TableRight` proves `TableInStep` for a typist who lets keys go before
they repeat (`NoRepeats`), which it needs: a repeated shift switches the table.

`VmProofs` proves that no frame is shared, that none is lost but to an exec of a shorter program
(`lost`), and that a process keeps its pages (`FramesOwned`, `NothingLeaks`, `PagesKeptAlways`), for any number of processes, frames, pages of a stack and programs, for programs that
keep to the protocol of `Vm` (`Careless = {}`, called `Orderly`) and a first one that fits (`Fits`). What
exit and join free depends on `ustacktop` of a process and on who else is in its space, so the
invariant `VInv` needs more than the frames: those who share a space are a process and a chain of
threads, each but the lowest with its maker still below it (`ChainInv`); the pages mapped, lost frames aside (`Mapped`), are exactly those below
the highest stack (`PagesInv`); a process in an exec that takes frames is alone and the only one, and
the frame it has found is still free (`ExecInv`); and every frame in use that is not lost is one directory, one
table or one page (`FramesInv`). `Highest`, by the least stack above a process without threads, shows that nobody
is above it, and `SharesAsThread` that it is alone unless it is a thread. `FreeFramesRight` proves by counting that what
`kalloc` returns in a row are different free frames; `FramesBuilt`, `FramesGrow`, `FramesShrink` and
`FramesDrop` say what copyuvm, alloc_umem, deallocuvm and freevm do to `FramesInv`. `StopsOnlyShort`
proves that the asserts on the page tables hold and that the machine stops only when `kalloc` finds nothing;
`NeverStops` that it does not stop at all when there is a frame for every page the processes may have
and for those lost so far (`Enough`: a directory, a table and the pages up to `MaxPage` for each, which
the 20 frames of the run `vm` are while at most two are lost; the run does not stop with more lost either). The step from one to the other counts: every frame in
use is what stands at one of the `Places` (`InUse`, from `FramesInv`), and the places that a call is
about to fill hold none yet, so that at least as many frames are free (`RoomLeft`).

`LinkedProofs` proves that the lists in memory stay lists and implement those of `Programs`
(`AlwaysLinked`, `Implements`), from `TestAssumption` only: for any number of semaphores and processes,
and any programs that name semaphores there are. The invariant says that there is for every head a
sequence of nodes (`Chains`), no node in two of them or twice in one (`Apart`), and that `next` and `last`
of each lead to its neighbours (`Chain`); whoever is in a list of waiters is asleep. One lemma for each
assignment of `list.h` says which sequences it turns these into, also where nodes coincide (a
list of one, `list_del_init` of a node in no list), and `ChainsRing` that a walk along the links reads them back, so
that `View` of the memory is the table of `Programs` (`Seen`). A semaphore destroyed twice is taken out of
the free list and put in front again. Induction over the position in a list is over a
set of numbers (`SetInduction`, by a least element), because the induction theorems of the library take an
operator. `AlwaysCounted` is about values: what a semaphore that nobody destroys was created with and was
given is what it has let through and what is left; the calls that returned are counted as finite
sets of pairs of a process and a place in its program. With the programs of the tests it follows that
`mutex` and `buffer` keep producers and consumers apart (`AlwaysBufferSafe`), for any number of them
and any number of rounds, and, as a philosopher has a fork as long as its calls say, that neighbours never
eat together (`AlwaysApart`), for any number of philosophers.

`ShellProofs` proves that the words arrive and that the screen shows the session (`AlwaysArrive`,
`AlwaysShows`), for lines that fit the screen (`LineAssumption`), any letters that are printable and neither
a blank nor `%` (`LettersAssumption`), and any screen. `Inv` has three parts. `Control`: who is where a program is when it has the
semaphore (`Lock`), and that only one program at a time has text on its way (`Turns`). `Line`: the buffer of
getStr up to `index` is the line the user sees. `Posted`: what was entered is what has been received, then what
is in the socket, then the word in `buf` if it is not sent yet (`Unsent`). `Drawing` relates the screen
to text that is still to come: putting the rest, character by character, leads to a screen that shows
the lines of the history (`Drawn`), or, for the echo of an erase, back from one that shows one character
more. Each `putc` uses up one character of it (`DrawnStep`); a step that starts a text extends the
history by the same text; and when nothing is left the screen shows it (`AlwaysShows`). The lemmas on `Console` (`ShowsPlain`,
`ShowsBack`, `ShowsLine`) say what a printable character, a backspace and the end of a line,
with and without scrolling, do to a screen that shows some lines. `StrcmpRight` proves `strcmp` for strings of every
length, and `OnlyForItsName` that no word but its name ends the shell or starts a command.

`LibraryProofs` proves five of the seven promises of `Library`, from the assumptions of the modules only:
for any set of characters other than 0, any length of string or memory and any set of natural numbers (the
run has strings of four and the C type ends at 2^31 - 1). A loop that only goes on to the next character stops at the least index at which its condition fails
(`MinOfNat`, `MinIs`, `MaxIs`), which settles `strcmp`, `strchr`, `strrchr` and `strspn`. The other loops are
recursive functions. TLA+ defines one as a `CHOOSE` of a function that satisfies an equation, so each needs a proof that there is
one: `Recursion` proves it once, for a value that depends on the value at one other argument of lower
measure, and `SetInduction` and `MeasureInduction` are the inductions, over a set of numbers instead of a
predicate.

For `strStr` a border is a beginning of the needle that is also the end of what was read. The table holds for
each beginning its longest proper border (`BordersRight`); falling back along it visits the borders
of what matched from the longest to the shortest and leaves none out (`FallRight`, from the fact that a border of a border is
one), so that one round keeps the longest border (`AdvanceRight`). `MatchedRight` says that the
scan knows after each character the longest beginning of the needle that ends there, and the first place where
that is the whole needle is the first occurrence. For `memmove`
`CellMoves` keeps that the cells still to be read are those of before the call, which is why the direction depends on which
region is lower. For numbers `Spells(s, base, n)` says that every character of `s` is a digit and
that the loop of `atoi` makes `n` of them; appending a digit multiplies and adds (`SpellsMore`), and dec2Str,
hex2Str and itoa append the remainders of dividing (`DecSpells`, `HexSpells`, `RestSpells`). For `strtok`
the invariant `TokInv` ties the memory, which is cut up call by call, to the line it was: from `s_mem` on it is
uncut (`Uncut`), every token is what its call found in the line (`FoundAt`: delimiters, then characters that are none, then a
delimiter or the end), and every character up to `s_mem` was looked at by one call (`History`). The delimiters may
change from call to call for that; with the same ones the tokens are the words (`WordsFollow`).

Only model-checked: `PrintsFormat` and `ScansBack` of `Library`, which are about sequences of directives put
together by folds over records, a long way from what the provers do alone; and the liveness properties (`AllFinish`, `PromptComes`, `SessionEnds`, `ReadyRuns`,
`SleepEnds`, `WaitReturns`), as fairness and ENABLED are out of the prover's reach. No theorem assumes a
bound of the runs: the constants are any that the ASSUMEs of their modules allow, under the hypotheses named above.

## 7. Not modelled

Boot, the disk and the ELF loader run once, before there is a second process. The descriptor
tables, the timer and the interrupt controller are set up once; what matters of them is
which vectors clear IF. Fonts, palette and the graphic mode are tables and a mode that is
not built. Of the modelled parts: register contents and exit codes; contents of pages and what follows when
memory has run out (`Vm` stops there); the read of descriptor 2 (`irqHandle.c:711`), which takes keys
without the semaphore and which no program uses; the list operations nobody calls (`list.h`); the
plain copies of `lib/znrlib.c`; the fork tests, ping_pong and the socket demonstration,
which print what they see and wait for their children.
