------------------------------- MODULE Keyboard -------------------------------
(***************************************************************************)
(* The scan codes of kernel/kernel/keyboard.c: shift and caps lock choose   *)
(* the table in which a key is looked up.  A scan code is a key and whether *)
(* it is pressed or released.  `held' is the keyboard itself: the keys that *)
(* are down.  A key of a typist who lets go of it in time sends one code    *)
(* when it goes down; with Repeats it sends more of them.                   *)
(***************************************************************************)
EXTENDS Integers, FiniteSets

CONSTANTS
    Letter,    \* keys with a character in the tables
    Repeats    \* whether a key that is held sends its code again

ASSUME RepeatsAssumption == Repeats \in BOOLEAN

Shifts == {"left shift", "right shift"}
Modifiers == Shifts \cup {"caps lock"}

VARIABLES
    keyTable,        \* the table in use, keyTableL or keyTableU
    keyboardState,   \* 0, 1: caps lock pressed, 2: caps lock pressed again
    held             \* the modifiers that are down

kbvars == <<keyTable, keyboardState, held>>

KbTypeOK ==
    /\ keyTable \in {"L", "U"}
    /\ keyboardState \in 0 .. 2
    /\ held \subseteq Modifiers

KbInit ==
    /\ keyTable = "L"
    /\ keyboardState = 0
    /\ held = {}

\* switchKeyboard
Switched == IF keyTable = "L" THEN "U" ELSE "L"

\* Mutant: only pressing a shift switches.
SwitchesWhenPressed(key, press) ==
    \/ key \in Shifts /\ press
    \/ key = "caps lock" /\ (IF press THEN keyboardState = 0 ELSE keyboardState = 2)

\* Shift switches when it goes down and when it goes up; caps lock when it
\* goes down for the first time, and when it has gone up for the second.
Switches(key, press) ==
    \/ key \in Shifts
    \/ key = "caps lock" /\ (IF press THEN keyboardState = 0 ELSE keyboardState = 2)

NextState(key, press) ==
    CASE key = "caps lock" /\ press /\ keyboardState < 2  -> keyboardState + 1
      [] key = "caps lock" /\ ~press /\ keyboardState = 2 -> 0
      [] OTHER                                            -> keyboardState

\* getKeyCode of the code of a modifier.
GetKeyCode(key, press) ==
    /\ keyTable' = IF Switches(key, press) THEN Switched ELSE keyTable
    /\ keyboardState' = NextState(key, press)

\* getChar: the character of a letter key, which depends on the table.
GetChar(c) == <<c, keyTable>>

\* What the keyboard sends.
Sends(key, press) ==
    /\ key \in held => ~press \/ Repeats
    /\ key \notin held => press
    /\ held' = IF press THEN held \cup {key} ELSE held \ {key}
-----------------------------------------------------------------------------
\* Capitals are typed with one shift down or with caps lock on, and not with
\* both: after any sequence of keys the table in use is the one the keys that
\* are down and the lock say, so that it never gets stuck on the wrong one.
\* Caps lock is on from the first time it goes down until it has gone up twice.
TableInStep ==
    (keyTable = "U") <=> ((Cardinality(held \cap Shifts) = 1) # (keyboardState # 0))
=============================================================================
