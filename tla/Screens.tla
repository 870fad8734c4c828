------------------------------ MODULE Screens ------------------------------
(***************************************************************************)
(* What the terminals promise (buglog.txt, checkpoint 5: "Terminals are    *)
(* not independent from one another", fixed): every terminal has a screen  *)
(* and a cursor of its own.  Output of a program goes to the screen of its *)
(* terminal, keys go to the one that is shown, and showing another         *)
(* terminal changes no screen.                                             *)
(***************************************************************************)
EXTENDS Grid

CONSTANTS
  NUM_TERMINALS,  \* terminals (three in the code)
  LINE_MAX,       \* characters of a line being typed (128 in the code)
  Prompt          \* what Ctrl+L prints, taken as one character

Terminals == 0 .. NUM_TERMINALS - 1

VARIABLES
  screen,   \* the cells of each terminal's screen
  cursor,   \* its cursor
  typed,    \* the characters typed and not yet entered
  shown     \* the terminal on display

svars == <<screen, cursor, typed, shown>>

Init ==
  /\ screen \in [Terminals -> Mem]
  /\ cursor = [t \in Terminals |-> At(0, 0)]
  /\ typed = [t \in Terminals |-> 0]
  /\ shown = 0

\* t's screen becomes m and its cursor p.
Draw(t, m, p) ==
  /\ screen' = [screen EXCEPT ![t] = m]
  /\ cursor' = [cursor EXCEPT ![t] = p]

Write(t, c) ==
  /\ Draw(t, PutMem(screen[t], cursor[t], c), PutCursor(cursor[t]))
  /\ UNCHANGED <<typed, shown>>

WriteNewline(t) ==
  /\ Draw(t, NewlineMem(screen[t], cursor[t]), NewlineCursor(cursor[t]))
  /\ UNCHANGED <<typed, shown>>

Key(c) ==
  /\ typed[shown] < LINE_MAX
  /\ Draw(shown, PutMem(screen[shown], cursor[shown], c), PutCursor(cursor[shown]))
  /\ typed' = [typed EXCEPT ![shown] = @ + 1]
  /\ UNCHANGED shown

Enter ==
  /\ Draw(shown, NewlineMem(screen[shown], cursor[shown]), NewlineCursor(cursor[shown]))
  /\ typed' = [typed EXCEPT ![shown] = 0]
  /\ UNCHANGED shown

\* ENTER with ALT held enters the line and prints nothing.
AltEnter ==
  /\ typed' = [typed EXCEPT ![shown] = 0]
  /\ UNCHANGED <<screen, cursor, shown>>

Backspace ==
  /\ typed[shown] # 0
  /\ Draw(shown, DeleteMem(screen[shown], cursor[shown]), DeleteCursor(cursor[shown]))
  /\ typed' = [typed EXCEPT ![shown] = @ - 1]
  /\ UNCHANGED shown

\* clear() by the system: what was typed is not forgotten.
Clear ==
  /\ Draw(shown, BlankMem, At(0, 0))
  /\ UNCHANGED <<typed, shown>>

\* The clear() of the boot, a step at a time: the cursor, then cell after cell.
ClearPart ==
  /\ \/ /\ \/ cursor' = [cursor EXCEPT ![shown].x = 0]
           \/ cursor' = [cursor EXCEPT ![shown].y = 0]
        /\ UNCHANGED screen
     \/ /\ \E r \in Rows, c \in Cols : screen' = [screen EXCEPT ![shown][r][c] = Blank]
        /\ UNCHANGED cursor
  /\ UNCHANGED <<typed, shown>>

\* Ctrl+L.
ClearScreen ==
  /\ Draw(shown, PutMem(BlankMem, At(0, 0), Prompt), PutCursor(At(0, 0)))
  /\ typed' = [typed EXCEPT ![shown] = 0]
  /\ UNCHANGED shown

Show(t) == shown' = t /\ UNCHANGED <<screen, cursor, typed>>

Next ==
  \/ \E t \in Terminals : WriteNewline(t) \/ Show(t) \/ \E c \in Char : Write(t, c)
  \/ \E c \in Char : Key(c)
  \/ Enter \/ AltEnter \/ Backspace \/ ClearScreen \/ Clear \/ ClearPart

Spec == Init /\ [][Next]_svars
============================================================================
