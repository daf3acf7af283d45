------------------------------- MODULE Console -------------------------------
(***************************************************************************)
(* The text console behind sys_write: what one character does to a screen, *)
(* which is the place of the cursor and the character in each cell.  The    *)
(* text mode is the one that is built (FONT_W and FONT_H are 1); colours,   *)
(* the hardware cursor and the copy on the serial port are left out.        *)
(***************************************************************************)
EXTENDS Integers, SequencesExt

CONSTANTS SCR_WIDTH, SCR_HEIGHT

ASSUME ScreenAssumption == SCR_WIDTH \in Nat \ {0} /\ SCR_HEIGHT \in Nat \ {0}

BS == 8
HT == 9
LF == 10
CR == 13
SPACE == 32
Rows == 0 .. SCR_HEIGHT - 1
Cols == 0 .. SCR_WIDTH - 1

BlankRow == [c \in 1 .. SCR_WIDTH |-> 0]
Empty == [row |-> 0, col |-> 0, cell |-> [r \in 1 .. SCR_HEIGHT |-> BlankRow]]

\* Mutant: the new last line is not cleared.
ScrollKeeps(scr) == [scr EXCEPT !.cell = Append(Tail(@), Last(@))]
scrollScreen(scr) == [scr EXCEPT !.cell = Append(Tail(@), BlankRow)]
update_row(scr, num) ==
    LET s == [scr EXCEPT !.row = @ + num]
    IN  IF s.row # SCR_HEIGHT THEN s
        ELSE [scrollScreen(s) EXCEPT !.row = SCR_HEIGHT - 1, !.col = 0]
\* A backspace in the first column goes behind the last one of the row above.
update_col(scr) ==
    CASE scr.col = SCR_WIDTH -> update_row([scr EXCEPT !.col = 0], 1)
      [] scr.col < 0 -> LET s == [scr EXCEPT !.col = SCR_WIDTH]
                        IN  IF s.row > 0 THEN update_row(s, -1) ELSE s
      [] OTHER -> scr
draw_character(scr, c) == [scr EXCEPT !.cell[scr.row + 1][scr.col + 1] = c]

Draw(scr, c) ==
    LET s == IF scr.col + 1 > SCR_WIDTH THEN update_col([scr EXCEPT !.col = SCR_WIDTH])
             ELSE scr
    IN  update_col([draw_character(s, c) EXCEPT !.col = @ + 1])
put(scr, c) ==
    CASE c = CR -> update_col([scr EXCEPT !.col = 0])
      [] c = BS -> update_col([scr EXCEPT !.col = @ - 1])
      [] c = LF -> update_row([scr EXCEPT !.col = 0], 1)
      [] c = HT -> Draw(scr, SPACE)
      [] OTHER -> Draw(scr, c)
=============================================================================
