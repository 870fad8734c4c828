-------------------------------- MODULE Grid --------------------------------
(***************************************************************************)
(* Text on a screen (lib.c): the cells, the cursor, and what a character,  *)
(* a newline, a backspace and a clear do to them.  putc_scroll and         *)
(* putc_scroll_display, shift_up and shift_up_display, differ only in      *)
(* which memory and which cursor they work on; that is module Screen's.    *)
(***************************************************************************)
EXTENDS Integers

CONSTANTS
  NUM_ROWS,  \* 25 in the code
  NUM_COLS,  \* 80 in the code
  Char,      \* printable characters
  Blank      \* the space that clear, scrolling and backspace leave

ASSUME GridAssumption ==
  /\ NUM_ROWS \in Nat /\ NUM_ROWS > 1
  /\ NUM_COLS \in Nat /\ NUM_COLS > 1

Rows == 0 .. NUM_ROWS - 1
Cols == 0 .. NUM_COLS - 1
Cell == Char \cup {Blank}
Mem == [Rows -> [Cols -> Cell]]

\* A cursor may stand at the start of the row below the screen: the next
\* character scrolls.
Cursor == [x : Cols, y : Rows] \cup {[x |-> 0, y |-> NUM_ROWS]}
At(x, y) == [x |-> x, y |-> y]

BlankMem == [r \in Rows |-> [c \in Cols |-> Blank]]

\* shift_up, shift_up_display: the last row is blank, the cursor in front of it.
Scrolled(m) == [r \in Rows |-> IF r = NUM_ROWS - 1 THEN [c \in Cols |-> Blank] ELSE m[r + 1]]

Below(p) == p.y >= NUM_ROWS

\* Printing a character: scroll if the cursor is below the screen, store it, and
\* go on to the next column or row.
Start(p) == IF Below(p) THEN At(0, NUM_ROWS - 1) ELSE p
Ground(m, p) == IF Below(p) THEN Scrolled(m) ELSE m
PutMem(m, p, c) == [Ground(m, p) EXCEPT ![Start(p).y][Start(p).x] = c]
PutCursor(p) == IF Start(p).x + 1 = NUM_COLS THEN At(0, Start(p).y + 1)
                ELSE At(Start(p).x + 1, Start(p).y)

\* Printing a newline.
NewlineMem(m, p) == IF p.y + 1 >= NUM_ROWS THEN Scrolled(m) ELSE m
NewlineCursor(p) == IF p.y + 1 >= NUM_ROWS THEN At(0, NUM_ROWS - 1) ELSE At(0, p.y + 1)

\* delete_c: back one column, or to the end of the row above.  From the top of
\* the screen that is row -1, whose store hits no cell of the screen.
AtTop(p) == p = At(0, 0)
DeleteCursor(p) == IF p.x = 0 THEN At(NUM_COLS - 1, p.y - 1) ELSE At(p.x - 1, p.y)
DeleteMem(m, p) == IF AtTop(p) THEN m
                   ELSE [m EXCEPT ![DeleteCursor(p).y][DeleteCursor(p).x] = Blank]
============================================================================
