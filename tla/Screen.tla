------------------------------- MODULE Screen -------------------------------
(***************************************************************************)
(* The screens as the code keeps them (lib.c): video_mem holds the screen  *)
(* of the terminal on display, terminal_mem those of the others, and       *)
(* set_disiplay_terminal exchanges them.  putc_scroll prints for the       *)
(* active terminal (the one whose program runs, set by the timer and by    *)
(* execute), putc_scroll_display for the one on display (keyboard.c).      *)
(* Printing, the keyboard handler and the timer run with interrupts off,   *)
(* so each is one step.  entry() enables interrupts before its clear()     *)
(* (kernel.c), so the model starts there: keys and ticks may come between  *)
(* the steps of that clear(), and entry() is never resumed once a shell    *)
(* has been launched over it (module Processes).                           *)
(***************************************************************************)
EXTENDS Grid

CONSTANTS
  NUM_TERMINALS, LINE_MAX, Prompt,
  Leftover   \* what the cells of the screens may hold before the first clear()

ASSUME ScreenAssumption ==
  /\ NUM_TERMINALS \in Nat \ {0}
  /\ LINE_MAX \in Nat \ {0}
  /\ LINE_MAX <= (NUM_ROWS - 1) * NUM_COLS   \* a line fits above the last row
  /\ Prompt \in Char
  /\ Leftover \subseteq Cell

Terminals == 0 .. NUM_TERMINALS - 1

VARIABLES
  video_mem,
  terminal_mem,
  screen_xy,         \* screen_x_array, screen_y_array
  cursor_ind,        \* keyboard.c: the length of the line being typed
  display_terminal,
  active_terminal,
  running,           \* the terminals that have a shell
  boot,              \* how far entry() has come, and the cell its clear() erases next
  wiped,             \* ghost: clear() came while a line was being typed
  stopped            \* a store outside of the mapped memory has stopped the machine

vars == <<video_mem, terminal_mem, screen_xy, cursor_ind, display_terminal, active_terminal,
          running, boot, wiped, stopped>>

BootState == [at : {"entry", "column", "cells", "over"}, cell : Cursor]
BootAt(s, p) == [at |-> s, cell |-> p]
BootOver == BootAt("over", At(0, 0))

Init ==
  /\ video_mem \in [Rows -> [Cols -> Leftover]]
  /\ terminal_mem \in [Terminals -> [Rows -> [Cols -> Leftover]]]
  /\ screen_xy = [t \in Terminals |-> At(0, 0)]
  /\ cursor_ind = [t \in Terminals |-> 0]
  /\ display_terminal = 0
  /\ active_terminal = 0
  /\ running = {}
  /\ boot = BootAt("entry", At(0, 0))
  /\ wiped = [t \in Terminals |-> FALSE]
  /\ stopped = FALSE

\* active_terminal == display_terminal, in putc_scroll.
OnDisplay(t) == t = display_terminal

\* putc_scroll's memory for the active terminal.
ActiveMem == IF OnDisplay(active_terminal) THEN video_mem ELSE terminal_mem[active_terminal]

DrawActive(m, p) ==
  /\ IF OnDisplay(active_terminal)
       THEN video_mem' = m /\ UNCHANGED terminal_mem
       ELSE terminal_mem' = [terminal_mem EXCEPT ![active_terminal] = m] /\ UNCHANGED video_mem
  /\ screen_xy' = [screen_xy EXCEPT ![active_terminal] = p]

DrawDisplay(m, p) ==
  /\ video_mem' = m
  /\ screen_xy' = [screen_xy EXCEPT ![display_terminal] = p]
  /\ UNCHANGED terminal_mem

\* terminal_write, puts_scroll, putc_scroll: a program of the active terminal
\* prints a character or a newline.
Write(c) ==
  LET p == screen_xy[active_terminal] IN
  /\ active_terminal \in running
  /\ DrawActive(PutMem(ActiveMem, p, c), PutCursor(p))
  /\ UNCHANGED <<cursor_ind, display_terminal, active_terminal, running, boot, wiped, stopped>>

WriteNewline ==
  LET p == screen_xy[active_terminal] IN
  /\ active_terminal \in running
  /\ DrawActive(NewlineMem(ActiveMem, p), NewlineCursor(p))
  /\ UNCHANGED <<cursor_ind, display_terminal, active_terminal, running, boot, wiped, stopped>>

RoomInLine == cursor_ind[display_terminal] < LINE_MAX

\* keyboard_handler: a character, echoed by putc_scroll_display.
Key(c) ==
  LET p == screen_xy[display_terminal] IN
  /\ RoomInLine
  /\ DrawDisplay(PutMem(video_mem, p, c), PutCursor(p))
  /\ cursor_ind' = [cursor_ind EXCEPT ![display_terminal] = @ + 1]
  /\ UNCHANGED <<display_terminal, active_terminal, running, boot, wiped, stopped>>

\* The line on display is empty again.
NewLine ==
  /\ cursor_ind' = [cursor_ind EXCEPT ![display_terminal] = 0]
  /\ wiped' = [wiped EXCEPT ![display_terminal] = FALSE]
  /\ UNCHANGED <<display_terminal, active_terminal, running, boot, stopped>>

Enter ==
  LET p == screen_xy[display_terminal] IN
  /\ DrawDisplay(NewlineMem(video_mem, p), NewlineCursor(p))
  /\ NewLine

\* ENTER with ALT held: no echo.
AltEnter == NewLine /\ UNCHANGED <<video_mem, terminal_mem, screen_xy>>

\* Mutant: BACKSPACE does not test that something was typed.
SomethingTyped_Untested == TRUE

SomethingTyped == cursor_ind[display_terminal] # 0

\* BACKSPACE: at the top of the screen delete_c stores below the video memory,
\* in a page that is not present, and the exception handler spins for ever.
Backspace ==
  LET p == screen_xy[display_terminal] IN
  /\ SomethingTyped
  /\ DrawDisplay(DeleteMem(video_mem, p), DeleteCursor(p))
  /\ cursor_ind' = [cursor_ind EXCEPT ![display_terminal] = @ - 1]
  /\ stopped' = AtTop(p)
  /\ UNCHANGED <<display_terminal, active_terminal, running, boot, wiped>>

\* Ctrl+L: clear() and the prompt.
CtrlL ==
  /\ DrawDisplay(PutMem(BlankMem, At(0, 0), Prompt), PutCursor(At(0, 0)))
  /\ NewLine

\* Mutant: the screen on display is not saved.
SavedMem_Not == terminal_mem

\* set_disiplay_terminal: the first memcpy.
SavedMem == [terminal_mem EXCEPT ![display_terminal] = video_mem]

set_disiplay_terminal(t) ==
  /\ terminal_mem' = SavedMem
  /\ video_mem' = SavedMem[t]
  /\ display_terminal' = t
  /\ UNCHANGED <<screen_xy, cursor_ind, wiped, stopped>>

\* execute_with_terminal_num("shell", t), as the screens see it.
Launch(t) ==
  /\ running' = running \cup {t}
  /\ active_terminal' = t
  /\ boot' = BootOver

\* Alt+Fn: nothing is launched for terminal 0, for a terminal that has its shell,
\* and for want of a free slot (some process runs, then).
AltFn(t) ==
  /\ set_disiplay_terminal(t)
  /\ \/ /\ t = 0 \/ running # {}
        /\ UNCHANGED <<active_terminal, running, boot>>
     \/ t # 0 /\ t \notin running /\ Launch(t)

\* clear(), at once: cursor_ind stays as it is.
clear ==
  /\ DrawDisplay(BlankMem, At(0, 0))
  /\ wiped' = [wiped EXCEPT ![display_terminal] = SomethingTyped]
  /\ UNCHANGED <<cursor_ind, display_terminal, stopped>>

\* pit_int_handler while terminal 0 has no shell: clear() of whatever is on
\* display, and the shell.  With no slot free the message of execute and the
\* switch follow (terminal_write enables interrupts): Write, set_active_terminal.
TickClear ==
  /\ 0 \notin running
  /\ clear
  /\ \/ Launch(0)
     \/ running # {} /\ UNCHANGED <<active_terminal, running, boot>>

\* The timer makes t the active terminal; execute is called in the active one.
set_active_terminal(t) ==
  /\ t \in running
  /\ active_terminal' = t
  /\ UNCHANGED <<video_mem, terminal_mem, screen_xy, cursor_ind, display_terminal, running, boot, wiped, stopped>>

\* entry(): the clear() with interrupts enabled, in steps, and the first shell.
BootHome(s, home) ==
  /\ screen_xy' = [screen_xy EXCEPT ![display_terminal] = home]
  /\ boot' = BootAt(s, At(0, 0))
  /\ wiped' = [wiped EXCEPT ![display_terminal] = SomethingTyped]
  /\ UNCHANGED <<video_mem, terminal_mem, cursor_ind, display_terminal, active_terminal, running, stopped>>

BootClear ==
  LET p == screen_xy[display_terminal] IN
  \/ boot.at = "entry" /\ BootHome("column", At(0, p.y))
  \/ boot.at = "column" /\ BootHome("cells", At(p.x, 0))

BootErase ==
  /\ boot.at = "cells" /\ ~Below(boot.cell)
  /\ video_mem' = PutMem(video_mem, boot.cell, Blank)
  /\ boot' = BootAt("cells", PutCursor(boot.cell))
  /\ UNCHANGED <<terminal_mem, screen_xy, cursor_ind, display_terminal, active_terminal, running, wiped, stopped>>

BootExecute ==
  /\ boot.at = "cells" /\ Below(boot.cell)
  /\ Launch(0)
  /\ UNCHANGED <<video_mem, terminal_mem, screen_xy, cursor_ind, display_terminal, wiped, stopped>>

Next ==
  /\ ~stopped
  /\ \/ WriteNewline \/ Enter \/ AltEnter \/ Backspace \/ CtrlL
     \/ TickClear \/ BootClear \/ BootErase \/ BootExecute
     \/ \E c \in Char : Write(c) \/ Key(c)
     \/ \E t \in Terminals : AltFn(t) \/ set_active_terminal(t)

Spec == Init /\ [][Next]_vars

----------------------------------------------------------------------------

\* Every variable stays in its range; while the machine runs every cursor stands
\* on the screen or right below it, so no character is stored outside of the
\* screen's memory, however typing, erasing, output, scrolling and clear() mix.
TypeOK ==
  /\ video_mem \in Mem
  /\ terminal_mem \in [Terminals -> Mem]
  /\ screen_xy \in [Terminals -> Cursor \cup {DeleteCursor(At(0, 0))}]
  /\ ~stopped => screen_xy \in [Terminals -> Cursor]
  /\ cursor_ind \in [Terminals -> 0 .. LINE_MAX]
  /\ display_terminal \in Terminals
  /\ active_terminal \in Terminals
  /\ running \subseteq Terminals
  /\ boot \in BootState
  /\ wiped \in [Terminals -> BOOLEAN]
  /\ stopped \in BOOLEAN

\* Unless clear() came in the middle of a line there is always room to erase what
\* was typed: the cursor is at least as many cells from the top as the line is
\* long, and BACKSPACE never stops the machine.
RoomToErase ==
  /\ \A t \in Terminals :
       ~wiped[t] => cursor_ind[t] <= screen_xy[t].y * NUM_COLS + screen_xy[t].x
  /\ stopped => wiped[display_terminal]

\* Does NOT hold: BACKSPACE deletes a character of the terminal on display, as the
\* comment of delete_c says (lib.c:59).  clear() does not reset cursor_ind
\* (lib.c:80), and a key typed before the boot's or a tick's clear() can be
\* erased after it.
DeletesOnScreen == ~stopped

\* The screen of each terminal: video memory for the one on display.
Image == [t \in Terminals |-> IF t = display_terminal THEN video_mem ELSE terminal_mem[t]]

Abs == INSTANCE Screens
         WITH screen <- Image, cursor <- screen_xy, typed <- cursor_ind, shown <- display_terminal

\* The code's exchange of memories implements independent screens: no output is
\* lost, and none reaches another terminal, when the display is switched
\* between the characters of background programs (buglog.txt, checkpoint 5).
IndependentScreens == Abs!Spec
============================================================================
