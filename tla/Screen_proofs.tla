--------------------------- MODULE Screen_proofs ---------------------------
(***************************************************************************)
(* Theorems of Screen, for every size of the screen and every number of    *)
(* terminals: the cursor stays on the screen, and the exchange of memories *)
(* implements the independent screens of module Screens.                   *)
(***************************************************************************)
EXTENDS Screen, TLAPS

IInv == TypeOK /\ RoomToErase

\* How far a cursor is from the top of the screen, in cells.
Depth(p) == p.y * NUM_COLS + p.x

\* Scrolling yields a screen.
LEMMA ScrolledType ==
  ASSUME NEW m \in Mem
  PROVE  Scrolled(m) \in Mem
  BY GridAssumption DEF Scrolled, Mem, Rows, Cell

\* Printing a character keeps memory and cursor in range and never loses depth
\* below that of a full line.
LEMMA PutFacts ==
  ASSUME NEW m \in Mem, NEW p \in Cursor, NEW c \in Cell
  PROVE  /\ PutMem(m, p, c) \in Mem
         /\ PutCursor(p) \in Cursor
         /\ Depth(PutCursor(p)) = Depth(Start(p)) + 1
         /\ Start(p) = p \/ Depth(Start(p)) >= LINE_MAX
  <1>1. Start(p) \in [x : Cols, y : Rows]
    BY GridAssumption DEF Start, Below, At, Cursor, Rows, Cols
  <1>2. Ground(m, p) \in Mem
    BY ScrolledType DEF Ground
  <1>3. PutMem(m, p, c) \in Mem
    BY <1>1, <1>2 DEF PutMem, Mem, Cell
  <1>4. PutCursor(p) \in Cursor
    BY <1>1, GridAssumption DEF PutCursor, At, Cursor, Rows, Cols
  <1>5. Depth(PutCursor(p)) = Depth(Start(p)) + 1
    <2> DEFINE s == Start(p)
    <2>0. s.x \in Nat /\ s.y \in Nat
      BY <1>1, GridAssumption DEF Rows, Cols
    <2>1. CASE s.x + 1 = NUM_COLS
      <3>1. PutCursor(p) = At(0, s.y + 1)
        BY <2>1 DEF PutCursor
      <3>2. (s.y + 1) * NUM_COLS + 0 = s.y * NUM_COLS + s.x + 1
        BY <2>0, <2>1, GridAssumption
      <3> QED BY <3>1, <3>2 DEF Depth, At
    <2>2. CASE s.x + 1 # NUM_COLS
      <3>1. PutCursor(p) = At(s.x + 1, s.y)
        BY <2>2 DEF PutCursor
      <3>2. s.y * NUM_COLS + (s.x + 1) = (s.y * NUM_COLS + s.x) + 1
        BY <2>0, GridAssumption
      <3> QED BY <3>1, <3>2 DEF Depth, At
    <2> QED BY <2>1, <2>2
  <1>6. Start(p) = p \/ Depth(Start(p)) >= LINE_MAX
    <2>1. CASE Below(p)
      <3>1. Start(p) = At(0, NUM_ROWS - 1)
        BY <2>1 DEF Start
      <3>2. (NUM_ROWS - 1) * NUM_COLS + 0 >= LINE_MAX
        BY GridAssumption, ScreenAssumption
      <3> QED BY <3>1, <3>2 DEF Depth, At
    <2>2. CASE ~Below(p)
      BY <2>2 DEF Start
    <2> QED BY <2>1, <2>2
  <1> QED BY <1>3, <1>4, <1>5, <1>6

\* So does a newline.
LEMMA NewlineFacts ==
  ASSUME NEW m \in Mem, NEW p \in Cursor
  PROVE  /\ NewlineMem(m, p) \in Mem
         /\ NewlineCursor(p) \in Cursor
         /\ Depth(NewlineCursor(p)) >= Depth(p) \/ Depth(NewlineCursor(p)) >= LINE_MAX
  <1>0. p.x \in 0 .. NUM_COLS - 1 /\ p.y \in 0 .. NUM_ROWS
    BY GridAssumption DEF Cursor, Cols, Rows
  <1>1. NewlineMem(m, p) \in Mem
    BY ScrolledType DEF NewlineMem
  <1>2. NewlineCursor(p) \in Cursor
    BY <1>0, GridAssumption DEF NewlineCursor, At, Cursor, Cols, Rows
  <1>3. CASE p.y + 1 >= NUM_ROWS
    <2>1. NewlineCursor(p) = At(0, NUM_ROWS - 1)
      BY <1>3 DEF NewlineCursor
    <2>2. (NUM_ROWS - 1) * NUM_COLS + 0 >= LINE_MAX
      BY GridAssumption, ScreenAssumption
    <2> QED BY <1>1, <1>2, <2>1, <2>2 DEF Depth, At
  <1>4. CASE ~(p.y + 1 >= NUM_ROWS)
    <2>1. NewlineCursor(p) = At(0, p.y + 1)
      BY <1>4 DEF NewlineCursor
    <2>2. (p.y + 1) * NUM_COLS + 0 >= p.y * NUM_COLS + p.x
      BY <1>0, GridAssumption
    <2> QED BY <1>1, <1>2, <2>1, <2>2 DEF Depth, At
  <1> QED BY <1>3, <1>4

\* Only the top of the screen has no cell in front of it.
LEMMA TopDepth ==
  ASSUME NEW p \in Cursor
  PROVE  /\ Depth(p) \in Nat
         /\ AtTop(p) <=> Depth(p) = 0
  <1>0. p.x \in Nat /\ p.y \in Nat /\ p = At(p.x, p.y)
    BY GridAssumption DEF Cursor, Cols, Rows, At
  <1>1. p.y * NUM_COLS \in Nat
    BY <1>0, GridAssumption
  <1>2. CASE p.y = 0
    <2>1. p.y * NUM_COLS = 0
      BY <1>2, GridAssumption
    <2> QED BY <1>0, <1>2, <2>1 DEF Depth, AtTop, At
  <1>3. CASE p.y # 0
    <2> DEFINE k == p.y - 1
    <2>1. k \in Nat /\ p.y = k + 1
      BY <1>0, <1>3
    <2> HIDE DEF k
    <2>2. (k + 1) * NUM_COLS = k * NUM_COLS + NUM_COLS /\ k * NUM_COLS \in Nat
      BY <2>1, GridAssumption
    <2>3. p.y * NUM_COLS >= 1
      BY <2>1, <2>2, GridAssumption
    <2>4. ~AtTop(p)
      BY <1>3 DEF AtTop, At
    <2> QED BY <1>0, <1>1, <2>3, <2>4 DEF Depth
  <1> QED BY <1>2, <1>3

\* Erasing where something was typed stays on the screen and goes back one cell.
LEMMA DeleteFacts ==
  ASSUME NEW m \in Mem, NEW p \in Cursor, Depth(p) >= 1
  PROVE  /\ DeleteMem(m, p) \in Mem
         /\ DeleteCursor(p) \in Cursor
         /\ Depth(DeleteCursor(p)) = Depth(p) - 1
  <1>0. p.x \in 0 .. NUM_COLS - 1 /\ p.y \in 0 .. NUM_ROWS
    BY GridAssumption DEF Cursor, Cols, Rows
  <1>1. CASE p.x = 0
    <2>1. DeleteCursor(p) = At(NUM_COLS - 1, p.y - 1)
      BY <1>1 DEF DeleteCursor
    <2>2. p.y # 0
      <3> SUFFICES ASSUME p.y = 0 PROVE FALSE
        OBVIOUS
      <3>1. 0 * NUM_COLS + 0 = 0
        BY GridAssumption
      <3> QED BY <1>1, <3>1 DEF Depth
    <2>3. DeleteCursor(p) \in [x : Cols, y : Rows]
      BY <1>0, <2>1, <2>2, GridAssumption DEF At, Cols, Rows
    <2>4. (p.y - 1) * NUM_COLS + (NUM_COLS - 1) = p.y * NUM_COLS + 0 - 1
      <3> DEFINE k == p.y - 1
      <3>1. k \in Nat /\ p.y = k + 1
        BY <1>0, <2>2, GridAssumption
      <3> HIDE DEF k
      <3>2. (k + 1) * NUM_COLS = k * NUM_COLS + NUM_COLS
        BY <3>1, GridAssumption
      <3>3. k * NUM_COLS + (NUM_COLS - 1) = p.y * NUM_COLS + 0 - 1
        BY <3>1, <3>2, GridAssumption
      <3> QED BY <3>3 DEF k
    <2>5. Depth(DeleteCursor(p)) = Depth(p) - 1
      <3>1. Depth(p) = p.y * NUM_COLS + 0
        BY <1>1 DEF Depth
      <3>2. Depth(DeleteCursor(p)) = (p.y - 1) * NUM_COLS + (NUM_COLS - 1)
        BY <2>1 DEF Depth, At
      <3> QED BY <1>0, <2>4, <3>1, <3>2, GridAssumption
    <2>6. DeleteMem(m, p) \in Mem
      BY <2>3, TopDepth DEF DeleteMem, Mem, Cell
    <2> QED BY <2>3, <2>5, <2>6, GridAssumption DEF Cursor, Rows
  <1>2. CASE p.x # 0
    <2>1. DeleteCursor(p) = At(p.x - 1, p.y)
      BY <1>2 DEF DeleteCursor
    <2>2. p.y * NUM_COLS + (p.x - 1) = (p.y * NUM_COLS + p.x) - 1
      BY <1>0, GridAssumption
    <2>3. Depth(DeleteCursor(p)) = Depth(p) - 1
      BY <2>1, <2>2 DEF Depth, At
    <2>4. DeleteCursor(p) \in [x : Cols, y : Rows]
      <3>1. p.y \in Rows
        BY <1>2 DEF Cursor
      <3> QED BY <1>0, <1>2, <2>1, <3>1, GridAssumption DEF At, Cols
    <2>5. DeleteMem(m, p) \in Mem
      BY <2>4, TopDepth DEF DeleteMem, Mem, Cell
    <2> QED BY <2>3, <2>4, <2>5 DEF Cursor
  <1> QED BY <1>1, <1>2

\* One terminal is drawn on, in the memory that holds its screen, and the machine
\* goes on: types and room are kept if the new cursor is deep enough for the line
\* being typed, or clear() came in it.
LEMMA DrawKeeps ==
  ASSUME IInv, ~stopped, NEW t \in Terminals, NEW p \in Cursor, NEW n \in 0 .. LINE_MAX,
         NEW w \in BOOLEAN, w \/ n <= Depth(p),
         video_mem' \in Mem, terminal_mem' \in [Terminals -> Mem],
         screen_xy' = [screen_xy EXCEPT ![t] = p],
         cursor_ind' = [cursor_ind EXCEPT ![t] = n],
         wiped' = [wiped EXCEPT ![t] = w],
         display_terminal' \in Terminals, active_terminal' \in Terminals,
         running' \subseteq Terminals, boot' \in BootState,
         UNCHANGED stopped
  PROVE  IInv'
  <1>1. screen_xy' \in [Terminals -> Cursor]
    BY DEF IInv, TypeOK
  <1>2. TypeOK'
    BY <1>1 DEF IInv, TypeOK
  <1>3. ASSUME NEW u \in Terminals PROVE wiped'[u] \/ cursor_ind'[u] <= Depth(screen_xy'[u])
    <2>1. CASE u = t
      BY <2>1 DEF IInv, TypeOK
    <2>2. CASE u # t
      BY <2>2 DEF IInv, TypeOK, RoomToErase, Depth
    <2> QED BY <2>1, <2>2
  <1>4. RoomToErase'
    BY <1>3 DEF RoomToErase, Depth
  <1> QED BY <1>2, <1>4 DEF IInv

\* Facts about the cursor of a terminal while the machine runs.
LEMMA HereFacts ==
  ASSUME IInv, ~stopped, NEW t \in Terminals
  PROVE  /\ screen_xy[t] \in Cursor /\ cursor_ind[t] \in 0 .. LINE_MAX /\ wiped[t] \in BOOLEAN
         /\ wiped[t] \/ cursor_ind[t] <= Depth(screen_xy[t])
         /\ Depth(screen_xy[t]) \in Nat
  <1>1. screen_xy[t] \in Cursor /\ cursor_ind[t] \in 0 .. LINE_MAX /\ wiped[t] \in BOOLEAN
    BY DEF IInv, TypeOK
  <1>2. wiped[t] \/ cursor_ind[t] <= Depth(screen_xy[t])
    BY DEF IInv, RoomToErase, Depth
  <1>3. Depth(screen_xy[t]) \in Nat
    BY <1>1, TopDepth
  <1> QED BY <1>1, <1>2, <1>3

\* The cell after a printed character is deep enough for one more typed.
LEMMA PutDepth ==
  ASSUME NEW p \in Cursor, NEW n \in 0 .. LINE_MAX, n <= Depth(p), NEW c \in Char, NEW m \in Mem
  PROVE  /\ n <= Depth(PutCursor(p))
         /\ n + 1 <= LINE_MAX => n + 1 <= Depth(PutCursor(p))
  <1>1. /\ Depth(PutCursor(p)) = Depth(Start(p)) + 1
        /\ Start(p) = p \/ Depth(Start(p)) >= LINE_MAX
    BY PutFacts DEF Cell
  <1>2. Start(p).x \in Nat /\ Start(p).y \in Nat
    BY GridAssumption DEF Start, Below, At, Cursor, Rows, Cols
  <1>3. Depth(Start(p)) \in Nat
    BY <1>2, GridAssumption DEF Depth
  <1>4. n <= Depth(Start(p))
    BY <1>1, <1>3, ScreenAssumption
  <1> QED BY <1>1, <1>3, <1>4

\* The memory that putc_scroll works on, and what it leaves.
LEMMA ActiveFacts ==
  ASSUME IInv
  PROVE  /\ ActiveMem \in Mem
         /\ \A m \in Mem : \A p : DrawActive(m, p) =>
              video_mem' \in Mem /\ terminal_mem' \in [Terminals -> Mem]
  BY DEF IInv, TypeOK, ActiveMem, DrawActive, OnDisplay

\* The blank screen with a prompt.
LEMMA ClearFacts ==
  /\ BlankMem \in Mem /\ At(0, 0) \in Cursor /\ Depth(At(0, 0)) = 0
  /\ PutMem(BlankMem, At(0, 0), Prompt) \in Mem
  /\ PutCursor(At(0, 0)) \in Cursor
  /\ 0 <= Depth(PutCursor(At(0, 0)))
  <1>1. BlankMem \in Mem
    BY DEF BlankMem, Mem, Cell
  <1>2. At(0, 0) \in Cursor
    BY GridAssumption DEF At, Cursor, Rows, Cols
  <1>3. Depth(At(0, 0)) = 0
    BY GridAssumption DEF Depth, At
  <1>4. 0 \in 0 .. LINE_MAX /\ 0 <= Depth(At(0, 0))
    BY <1>3, ScreenAssumption
  <1> QED BY <1>1, <1>2, <1>3, <1>4, PutFacts, PutDepth, ScreenAssumption DEF Cell

\* The invariant holds when entry() enables interrupts.
LEMMA InvInit == Init => IInv
  <1> SUFFICES ASSUME Init PROVE IInv
    OBVIOUS
  <1>1. 0 \in Terminals /\ 0 \in 0 .. LINE_MAX
    BY ScreenAssumption DEF Terminals
  <1>2. [Rows -> [Cols -> Leftover]] \subseteq Mem
    BY ScreenAssumption DEF Mem
  <1>3. video_mem \in Mem /\ terminal_mem \in [Terminals -> Mem]
    BY <1>2 DEF Init
  <1>4. boot \in BootState
    BY ClearFacts DEF Init, BootState, BootAt
  <1>5. TypeOK
    BY <1>1, <1>3, <1>4, ClearFacts DEF Init, TypeOK
  <1>6. RoomToErase
    BY ClearFacts DEF Init, RoomToErase, Depth
  <1> QED BY <1>5, <1>6 DEF IInv

\* Every print, key, tick and switch, and every step of the boot, keeps the invariant.
LEMMA InvStep == IInv /\ [Next]_vars => IInv'
  <1> SUFFICES ASSUME IInv, [Next]_vars PROVE IInv'
    OBVIOUS
  <1>0. CASE UNCHANGED vars
    BY <1>0 DEF vars, IInv, TypeOK, RoomToErase
  <1>n. CASE Next
    <2> DEFINE d == display_terminal
               a == active_terminal
    <2>t. /\ TypeOK /\ d \in Terminals /\ a \in Terminals /\ video_mem \in Mem
          /\ terminal_mem \in [Terminals -> Mem] /\ running \subseteq Terminals
          /\ boot \in BootState
      BY DEF IInv, TypeOK
    <2>r. ~stopped
      BY <1>n DEF Next
    <2>z. 0 \in Terminals /\ 0 \in 0 .. LINE_MAX
      BY ScreenAssumption DEF Terminals
    <2>s. /\ cursor_ind = [cursor_ind EXCEPT ![a] = cursor_ind[a]]
          /\ cursor_ind = [cursor_ind EXCEPT ![d] = cursor_ind[d]]
      BY <2>t DEF TypeOK
    <2>w. /\ wiped = [wiped EXCEPT ![a] = wiped[a]]
          /\ wiped = [wiped EXCEPT ![d] = wiped[d]]
      BY <2>t DEF TypeOK
    <2>x. screen_xy = [screen_xy EXCEPT ![d] = screen_xy[d]]
      BY <2>t DEF TypeOK
    <2>y. SomethingTyped \in BOOLEAN /\ (SomethingTyped \/ cursor_ind[d] = 0)
      BY DEF SomethingTyped
    <2>o. BootOver \in BootState
      BY ClearFacts DEF BootState, BootOver, BootAt
    <2>h. /\ screen_xy[d] \in Cursor /\ cursor_ind[d] \in 0 .. LINE_MAX /\ wiped[d] \in BOOLEAN
          /\ wiped[d] \/ cursor_ind[d] <= Depth(screen_xy[d])
          /\ Depth(screen_xy[d]) \in Nat
      BY <2>t, <2>r, HereFacts
    <2>g. /\ screen_xy[a] \in Cursor /\ cursor_ind[a] \in 0 .. LINE_MAX /\ wiped[a] \in BOOLEAN
          /\ wiped[a] \/ cursor_ind[a] <= Depth(screen_xy[a])
          /\ Depth(screen_xy[a]) \in Nat
      BY <2>t, <2>r, HereFacts
    <2>1. ASSUME NEW c \in Char, Write(c) PROVE IInv'
      <3>1. /\ PutMem(ActiveMem, screen_xy[a], c) \in Mem /\ PutCursor(screen_xy[a]) \in Cursor
            /\ wiped[a] \/ cursor_ind[a] <= Depth(PutCursor(screen_xy[a]))
        BY <2>g, ActiveFacts, PutFacts, PutDepth DEF Cell
      <3>2. /\ cursor_ind' = [cursor_ind EXCEPT ![a] = cursor_ind[a]]
            /\ wiped' = [wiped EXCEPT ![a] = wiped[a]]
        BY <2>1, <2>s, <2>w DEF Write
      <3>3. video_mem' \in Mem /\ terminal_mem' \in [Terminals -> Mem]
        BY <2>1, <3>1, ActiveFacts DEF Write
      <3>4. /\ screen_xy' = [screen_xy EXCEPT ![a] = PutCursor(screen_xy[a])]
            /\ UNCHANGED <<display_terminal, active_terminal, running, boot, stopped>>
        BY <2>1 DEF Write, DrawActive
      <3>5. /\ display_terminal' \in Terminals /\ active_terminal' \in Terminals
            /\ running' \subseteq Terminals /\ boot' \in BootState /\ UNCHANGED stopped
        BY <3>4, <2>t
      <3> HIDE DEF a
      <3> QED BY <2>t, <2>r, <2>g, <3>1, <3>2, <3>3, <3>4, <3>5, DrawKeeps
    <2>2. CASE WriteNewline
      <3>1. /\ NewlineMem(ActiveMem, screen_xy[a]) \in Mem /\ NewlineCursor(screen_xy[a]) \in Cursor
            /\ wiped[a] \/ cursor_ind[a] <= Depth(NewlineCursor(screen_xy[a]))
        <4>1. /\ NewlineMem(ActiveMem, screen_xy[a]) \in Mem /\ NewlineCursor(screen_xy[a]) \in Cursor
              /\ \/ Depth(NewlineCursor(screen_xy[a])) >= Depth(screen_xy[a])
                 \/ Depth(NewlineCursor(screen_xy[a])) >= LINE_MAX
          BY <2>g, ActiveFacts, NewlineFacts
        <4>2. Depth(NewlineCursor(screen_xy[a])) \in Nat
          BY <4>1, TopDepth
        <4> QED BY <4>1, <4>2, <2>g, ScreenAssumption
      <3>2. /\ cursor_ind' = [cursor_ind EXCEPT ![a] = cursor_ind[a]]
            /\ wiped' = [wiped EXCEPT ![a] = wiped[a]]
        BY <2>2, <2>s, <2>w DEF WriteNewline
      <3>3. video_mem' \in Mem /\ terminal_mem' \in [Terminals -> Mem]
        BY <2>2, <3>1, ActiveFacts DEF WriteNewline
      <3>4. /\ screen_xy' = [screen_xy EXCEPT ![a] = NewlineCursor(screen_xy[a])]
            /\ UNCHANGED <<display_terminal, active_terminal, running, boot, stopped>>
        BY <2>2 DEF WriteNewline, DrawActive
      <3>5. /\ display_terminal' \in Terminals /\ active_terminal' \in Terminals
            /\ running' \subseteq Terminals /\ boot' \in BootState /\ UNCHANGED stopped
        BY <3>4, <2>t
      <3> HIDE DEF a
      <3> QED BY <2>t, <2>r, <2>g, <3>1, <3>2, <3>3, <3>4, <3>5, DrawKeeps
    <2>3. ASSUME NEW c \in Char, Key(c) PROVE IInv'
      <3>1. cursor_ind[d] + 1 \in 0 .. LINE_MAX
        BY <2>3, <2>h, ScreenAssumption DEF Key, RoomInLine
      <3>2. /\ PutMem(video_mem, screen_xy[d], c) \in Mem /\ PutCursor(screen_xy[d]) \in Cursor
            /\ wiped[d] \/ cursor_ind[d] + 1 <= Depth(PutCursor(screen_xy[d]))
        <4>1. PutMem(video_mem, screen_xy[d], c) \in Mem /\ PutCursor(screen_xy[d]) \in Cursor
          BY <2>t, <2>h, PutFacts DEF Cell
        <4>2. ASSUME cursor_ind[d] <= Depth(screen_xy[d])
              PROVE  cursor_ind[d] + 1 <= Depth(PutCursor(screen_xy[d]))
          BY <4>2, <2>t, <2>h, <3>1, PutDepth
        <4> QED BY <4>1, <4>2, <2>h
      <3>3. /\ cursor_ind' = [cursor_ind EXCEPT ![d] = cursor_ind[d] + 1]
            /\ wiped' = [wiped EXCEPT ![d] = wiped[d]]
        BY <2>3, <2>w DEF Key
      <3>4. /\ video_mem' \in Mem /\ terminal_mem' \in [Terminals -> Mem]
            /\ screen_xy' = [screen_xy EXCEPT ![d] = PutCursor(screen_xy[d])]
        BY <2>3, <2>t, <3>2 DEF Key, DrawDisplay
      <3>5. /\ display_terminal' \in Terminals /\ active_terminal' \in Terminals
            /\ running' \subseteq Terminals /\ boot' \in BootState /\ UNCHANGED stopped
        BY <2>3, <2>t DEF Key
      <3> HIDE DEF d
      <3> QED BY <2>t, <2>r, <2>h, <3>1, <3>2, <3>3, <3>4, <3>5, DrawKeeps
    <2>l. ASSUME NewLine, NEW p \in Cursor, screen_xy' = [screen_xy EXCEPT ![d] = p],
                 video_mem' \in Mem, UNCHANGED terminal_mem
          PROVE  IInv'
      <3>1. /\ cursor_ind' = [cursor_ind EXCEPT ![d] = 0] /\ wiped' = [wiped EXCEPT ![d] = FALSE]
            /\ UNCHANGED <<display_terminal, active_terminal, running, boot, stopped>>
        BY <2>l DEF NewLine
      <3>2. /\ display_terminal' \in Terminals /\ active_terminal' \in Terminals
            /\ running' \subseteq Terminals /\ boot' \in BootState /\ UNCHANGED stopped
        BY <3>1, <2>t
      <3>3. 0 <= Depth(p) /\ terminal_mem' \in [Terminals -> Mem]
        BY <2>l, <2>t, TopDepth
      <3> HIDE DEF d
      <3> QED BY <2>l, <2>t, <2>r, <2>z, <3>1, <3>2, <3>3, DrawKeeps
    <2>4. CASE Enter
      <3>1. NewlineMem(video_mem, screen_xy[d]) \in Mem /\ NewlineCursor(screen_xy[d]) \in Cursor
        BY <2>t, <2>h, NewlineFacts
      <3> QED BY <2>4, <2>l, <3>1 DEF Enter, DrawDisplay
    <2>5. CASE AltEnter
      BY <2>5, <2>l, <2>t, <2>h, <2>x DEF AltEnter
    <2>6. CASE Backspace
      <3>1. cursor_ind[d] - 1 \in 0 .. LINE_MAX /\ cursor_ind[d] >= 1
        BY <2>6, <2>h, ScreenAssumption DEF Backspace, SomethingTyped
      <3>2. /\ cursor_ind' = [cursor_ind EXCEPT ![d] = cursor_ind[d] - 1]
            /\ wiped' = [wiped EXCEPT ![d] = wiped[d]]
            /\ screen_xy' = [screen_xy EXCEPT ![d] = DeleteCursor(screen_xy[d])]
            /\ terminal_mem' \in [Terminals -> Mem]
            /\ display_terminal' \in Terminals /\ active_terminal' \in Terminals
            /\ running' \subseteq Terminals /\ boot' \in BootState
            /\ stopped' = AtTop(screen_xy[d])
            /\ UNCHANGED <<wiped, display_terminal, active_terminal, running, boot>>
        BY <2>6, <2>t, <2>w DEF Backspace, DrawDisplay
      <3>3. CASE AtTop(screen_xy[d])
        <4>1. wiped[d]
          <5>1. Depth(screen_xy[d]) = 0
            BY <3>3, <2>h, TopDepth
          <5> QED BY <5>1, <3>1, <2>h
        <4>2. /\ screen_xy[d] = At(0, 0) /\ stopped' = TRUE /\ video_mem' \in Mem
          BY <3>3, <3>2, <2>6, <2>t DEF AtTop, Backspace, DrawDisplay, DeleteMem
        <4>3. screen_xy' \in [Terminals -> Cursor \cup {DeleteCursor(At(0, 0))}]
          BY <3>2, <4>2 DEF IInv, TypeOK
        <4>4. TypeOK'
          BY <3>1, <3>2, <4>2, <4>3 DEF IInv, TypeOK
        <4>5. ASSUME NEW u \in Terminals PROVE wiped'[u] \/ cursor_ind'[u] <= Depth(screen_xy'[u])
          <5>1. CASE u = d
            BY <5>1, <3>2, <4>1
          <5>2. CASE u # d
            BY <5>2, <3>2 DEF IInv, TypeOK, RoomToErase, Depth
          <5> QED BY <5>1, <5>2
        <4>6. RoomToErase'
          BY <4>1, <4>5, <3>2 DEF RoomToErase, Depth
        <4> QED BY <4>4, <4>6 DEF IInv
      <3>4. CASE ~AtTop(screen_xy[d])
        <4>1. Depth(screen_xy[d]) >= 1
          BY <3>4, <2>h, TopDepth
        <4>2. /\ DeleteMem(video_mem, screen_xy[d]) \in Mem /\ DeleteCursor(screen_xy[d]) \in Cursor
              /\ Depth(DeleteCursor(screen_xy[d])) = Depth(screen_xy[d]) - 1
          BY <2>t, <2>h, <4>1, DeleteFacts
        <4>3. wiped[d] \/ cursor_ind[d] - 1 <= Depth(DeleteCursor(screen_xy[d]))
          BY <2>h, <4>2
        <4>4. video_mem' \in Mem
          BY <2>6, <4>2 DEF Backspace, DrawDisplay
        <4>5. stopped' = FALSE /\ stopped = FALSE
          BY <2>t, <2>r, <3>4, <3>2 DEF AtTop, TypeOK
        <4> HIDE DEF d
        <4> QED BY <2>t, <2>r, <2>h, <3>1, <3>2, <4>2, <4>3, <4>4, <4>5, DrawKeeps
      <3> QED BY <3>3, <3>4
    <2>7. CASE CtrlL
      BY <2>7, <2>l, ClearFacts DEF CtrlL, DrawDisplay
    <2>8. ASSUME NEW t \in Terminals, AltFn(t) PROVE IInv'
      <3>1. /\ running' \subseteq Terminals /\ boot' \in BootState /\ active_terminal' \in Terminals
        BY <2>8, <2>t, <2>o DEF AltFn, Launch
      <3>2. /\ video_mem' \in Mem /\ terminal_mem' \in [Terminals -> Mem] /\ display_terminal' \in Terminals
            /\ UNCHANGED <<screen_xy, cursor_ind, wiped, stopped>>
        BY <2>8, <2>t DEF AltFn, set_disiplay_terminal, SavedMem
      <3> QED BY <2>r, <3>1, <3>2 DEF IInv, TypeOK, RoomToErase
    <2>9. ASSUME NEW t \in Terminals, set_active_terminal(t) PROVE IInv'
      BY <2>9 DEF set_active_terminal, IInv, TypeOK, RoomToErase
    <2>10. CASE TickClear
      <3>1. /\ running' \subseteq Terminals /\ boot' \in BootState /\ active_terminal' \in Terminals
        BY <2>10, <2>t, <2>o, <2>z DEF TickClear, Launch
      <3>2. /\ video_mem' = BlankMem /\ UNCHANGED terminal_mem
            /\ screen_xy' = [screen_xy EXCEPT ![d] = At(0, 0)]
            /\ wiped' = [wiped EXCEPT ![d] = SomethingTyped]
            /\ UNCHANGED <<cursor_ind, display_terminal, stopped>>
        BY <2>10 DEF TickClear, clear, DrawDisplay
      <3>3. SomethingTyped \/ cursor_ind[d] <= Depth(At(0, 0))
        BY <2>y, ClearFacts
      <3>4. /\ cursor_ind' = [cursor_ind EXCEPT ![d] = cursor_ind[d]]
            /\ display_terminal' \in Terminals
            /\ video_mem' \in Mem /\ terminal_mem' \in [Terminals -> Mem]
        BY <3>2, <2>s, <2>t, ClearFacts
      <3> HIDE DEF d
      <3> QED BY <2>t, <2>r, <2>h, <2>y, <3>1, <3>2, <3>3, <3>4, ClearFacts, DrawKeeps
    <2>11. CASE BootClear
      <3>1. ASSUME NEW s \in {"column", "cells"}, NEW p \in Cursor, BootHome(s, p),
                   SomethingTyped \/ cursor_ind[d] <= Depth(p)
            PROVE  IInv'
        <4>1. BootAt(s, At(0, 0)) \in BootState
          BY ClearFacts DEF BootState, BootAt
        <4>2. /\ boot' \in BootState
              /\ screen_xy' = [screen_xy EXCEPT ![d] = p]
              /\ wiped' = [wiped EXCEPT ![d] = SomethingTyped]
              /\ cursor_ind' = [cursor_ind EXCEPT ![d] = cursor_ind[d]]
              /\ video_mem' \in Mem /\ terminal_mem' \in [Terminals -> Mem]
              /\ display_terminal' \in Terminals /\ active_terminal' \in Terminals
              /\ running' \subseteq Terminals /\ UNCHANGED stopped
          BY <3>1, <4>1, <2>t, <2>s DEF BootHome
        <4> HIDE DEF d
        <4> QED BY <2>t, <2>r, <2>h, <2>y, <3>1, <4>2, DrawKeeps
      <3>2. At(0, screen_xy[d].y) \in Cursor /\ At(screen_xy[d].x, 0) \in Cursor
        BY <2>h, GridAssumption DEF At, Cursor, Rows, Cols
      <3>3. /\ SomethingTyped \/ cursor_ind[d] <= Depth(At(0, screen_xy[d].y))
            /\ SomethingTyped \/ cursor_ind[d] <= Depth(At(screen_xy[d].x, 0))
        <4>1. Depth(At(0, screen_xy[d].y)) \in Nat /\ Depth(At(screen_xy[d].x, 0)) \in Nat
          BY <3>2, TopDepth
        <4> QED BY <4>1, <2>y
      <3> QED BY <2>11, <3>1, <3>2, <3>3 DEF BootClear
    <2>12. CASE BootErase
      <3>1. boot.cell \in Cursor
        BY <2>t DEF BootState
      <3>2. PutMem(video_mem, boot.cell, Blank) \in Mem /\ PutCursor(boot.cell) \in Cursor
        BY <2>t, <3>1, PutFacts DEF Cell
      <3>3. BootAt("cells", PutCursor(boot.cell)) \in BootState
        BY <3>2 DEF BootState, BootAt
      <3> QED BY <2>12, <3>2, <3>3 DEF BootErase, IInv, TypeOK, RoomToErase
    <2>13. CASE BootExecute
      BY <2>13, <2>o, <2>z DEF BootExecute, Launch, IInv, TypeOK, RoomToErase
    <2> QED
      BY <1>n, <2>1, <2>2, <2>3, <2>4, <2>5, <2>6, <2>7, <2>8, <2>9, <2>10, <2>11, <2>12, <2>13 DEF Next
  <1> QED BY <1>0, <1>n

\* From the sti of entry() on, with keys and ticks before, in and after the boot's
\* clear(): every cursor stays on the screen, for every size of it, there is room
\* to erase what was typed unless clear() came in the middle of a line, and
\* BACKSPACE stops the machine in that case only.
THEOREM CursorCorrect == Spec => [](TypeOK /\ RoomToErase)
  <1>1. IInv <=> TypeOK /\ RoomToErase
    BY DEF IInv
  <1> QED BY <1>1, InvInit, InvStep, PTL DEF Spec

----------------------------------------------------------------------------

\* The abstract specification has its own copy of the operators of module Grid.
LEMMA SameGrid ==
  /\ Abs!Terminals = Terminals /\ Abs!BlankMem = BlankMem /\ Abs!Mem = Mem
  /\ Abs!Rows = Rows /\ Abs!Cols = Cols
  /\ \A x, y : Abs!At(x, y) = At(x, y)
  /\ \A m, p, c : Abs!PutMem(m, p, c) = PutMem(m, p, c)
  /\ \A p : Abs!PutCursor(p) = PutCursor(p)
  /\ \A m, p : Abs!NewlineMem(m, p) = NewlineMem(m, p)
  /\ \A p : Abs!NewlineCursor(p) = NewlineCursor(p)
  /\ \A m, p : Abs!DeleteMem(m, p) = DeleteMem(m, p)
  /\ \A p : Abs!DeleteCursor(p) = DeleteCursor(p)
  <1>1. Abs!Terminals = Terminals /\ Abs!BlankMem = BlankMem
    BY DEF Abs!Terminals, Terminals, Abs!BlankMem, BlankMem, Abs!Rows, Rows, Abs!Cols, Cols
  <1>1a. Abs!Rows = Rows /\ Abs!Cols = Cols /\ Abs!Mem = Mem
    BY DEF Abs!Rows, Rows, Abs!Cols, Cols, Abs!Mem, Mem, Abs!Cell, Cell
  <1>2. \A x, y : Abs!At(x, y) = At(x, y)
    BY DEF Abs!At, At
  <1>3. \A m : Abs!Scrolled(m) = Scrolled(m)
    BY DEF Abs!Scrolled, Scrolled, Abs!Rows, Rows, Abs!Cols, Cols
  <1>4. \A p : Abs!Below(p) = Below(p) /\ Abs!Start(p) = Start(p)
    BY DEF Abs!Below, Below, Abs!Start, Start, Abs!At, At
  <1>5. \A m, p : Abs!Ground(m, p) = Ground(m, p)
    BY <1>3 DEF Abs!Ground, Ground, Abs!Below, Below
  <1>6. \A m, p, c : Abs!PutMem(m, p, c) = PutMem(m, p, c)
    BY <1>4, <1>5 DEF Abs!PutMem, PutMem
  <1>7. \A p : Abs!PutCursor(p) = PutCursor(p)
    BY <1>2, <1>4 DEF Abs!PutCursor, PutCursor
  <1>8. \A m, p : Abs!NewlineMem(m, p) = NewlineMem(m, p)
    BY <1>3 DEF Abs!NewlineMem, NewlineMem
  <1>9. \A p : Abs!NewlineCursor(p) = NewlineCursor(p)
    BY <1>2 DEF Abs!NewlineCursor, NewlineCursor
  <1>10. \A p : Abs!DeleteCursor(p) = DeleteCursor(p)
    BY <1>2 DEF Abs!DeleteCursor, DeleteCursor
  <1>11. \A m, p : Abs!DeleteMem(m, p) = DeleteMem(m, p)
    BY <1>2, <1>10 DEF Abs!DeleteMem, DeleteMem, Abs!AtTop, AtTop
  <1> QED BY <1>1, <1>1a, <1>2, <1>6, <1>7, <1>8, <1>9, <1>10, <1>11

\* Drawing for the active terminal changes its screen, and only it, whichever
\* memory holds it.
LEMMA DrawActiveImage ==
  ASSUME TypeOK, NEW m, NEW p, DrawActive(m, p), UNCHANGED display_terminal
  PROVE  /\ Image' = [Image EXCEPT ![active_terminal] = m]
         /\ screen_xy' = [screen_xy EXCEPT ![active_terminal] = p]
         /\ ActiveMem = Image[active_terminal]
  <1>1. CASE OnDisplay(active_terminal)
    BY <1>1 DEF TypeOK, DrawActive, OnDisplay, Image, ActiveMem
  <1>2. CASE ~OnDisplay(active_terminal)
    BY <1>2 DEF TypeOK, DrawActive, OnDisplay, Image, ActiveMem
  <1> QED BY <1>1, <1>2

\* Drawing for the terminal on display changes its screen, and only it.
LEMMA DrawDisplayImage ==
  ASSUME TypeOK, NEW m, NEW p, DrawDisplay(m, p), UNCHANGED display_terminal
  PROVE  /\ Image' = [Image EXCEPT ![display_terminal] = m]
         /\ screen_xy' = [screen_xy EXCEPT ![display_terminal] = p]
         /\ video_mem = Image[display_terminal]
  BY DEF TypeOK, DrawDisplay, Image

\* The start of the code is a start of the abstract specification.
LEMMA RefInit == Init => Abs!Init
  <1> SUFFICES ASSUME Init PROVE Abs!Init
    OBVIOUS
  <1>1. Image \in [Terminals -> Mem]
    BY InvInit DEF IInv, TypeOK, Image
  <1> QED BY <1>1, SameGrid DEF Init, Abs!Init

\* Every step of the code is a step of the abstract specification, or one that
\* changes none of the screens.
LEMMA RefStep == TypeOK /\ [Next]_vars => [Abs!Next]_(Abs!svars)
  <1> SUFFICES ASSUME TypeOK, [Next]_vars PROVE Abs!Next \/ UNCHANGED Abs!svars
    OBVIOUS
  <1> DEFINE d == display_terminal
             a == active_terminal
  <1>t. d \in Terminals /\ a \in Terminals
    BY DEF TypeOK
  <1>1. ASSUME NEW c \in Char, Write(c) PROVE Abs!Write(a, c)
    BY <1>1, DrawActiveImage, SameGrid DEF Write, Abs!Write, Abs!Draw
  <1>2. ASSUME WriteNewline PROVE Abs!WriteNewline(a)
    BY <1>2, DrawActiveImage, SameGrid DEF WriteNewline, Abs!WriteNewline, Abs!Draw
  <1>3. ASSUME NEW c \in Char, Key(c) PROVE Abs!Key(c)
    BY <1>3, DrawDisplayImage, SameGrid DEF Key, RoomInLine, Abs!Key, Abs!Draw
  <1>4. ASSUME Enter PROVE Abs!Enter
    BY <1>4, DrawDisplayImage, SameGrid DEF Enter, NewLine, Abs!Enter, Abs!Draw
  <1>5. ASSUME AltEnter PROVE Abs!AltEnter
    BY <1>5 DEF AltEnter, NewLine, Abs!AltEnter, Image
  <1>6. ASSUME Backspace PROVE Abs!Backspace
    BY <1>6, DrawDisplayImage, SameGrid DEF Backspace, SomethingTyped, Abs!Backspace, Abs!Draw
  <1>7. ASSUME CtrlL PROVE Abs!ClearScreen
    BY <1>7, DrawDisplayImage, SameGrid DEF CtrlL, NewLine, Abs!ClearScreen, Abs!Draw
  <1>8. ASSUME NEW t \in Terminals, AltFn(t) PROVE Abs!Show(t)
    <2>1. Image' = Image
      BY <1>8 DEF AltFn, set_disiplay_terminal, SavedMem, Image, TypeOK
    <2> QED BY <1>8, <2>1 DEF AltFn, set_disiplay_terminal, Abs!Show
  <1>9. ASSUME NEW t \in Terminals, set_active_terminal(t) PROVE UNCHANGED Abs!svars
    BY <1>9 DEF set_active_terminal, Abs!svars, Image
  <1>10. ASSUME TickClear PROVE Abs!Clear
    BY <1>10, DrawDisplayImage, SameGrid DEF TickClear, clear, Abs!Clear, Abs!Draw
  <1>11. ASSUME BootClear PROVE Abs!ClearPart
    <2>1. screen_xy[d] = At(screen_xy[d].x, screen_xy[d].y)
      <3>1. screen_xy[d] \in Cursor \/ screen_xy[d] = DeleteCursor(At(0, 0))
        BY <1>t DEF TypeOK
      <3> QED BY <3>1 DEF Cursor, DeleteCursor, At
    <2>2. /\ Image' = Image /\ UNCHANGED <<cursor_ind, display_terminal>>
          /\ \/ screen_xy' = [screen_xy EXCEPT ![d] = At(0, screen_xy[d].y)]
             \/ screen_xy' = [screen_xy EXCEPT ![d] = At(screen_xy[d].x, 0)]
      BY <1>11 DEF BootClear, BootHome, Image
    <2>3. /\ At(0, screen_xy[d].y) = [screen_xy[d] EXCEPT !.x = 0]
          /\ At(screen_xy[d].x, 0) = [screen_xy[d] EXCEPT !.y = 0]
      BY <2>1 DEF At
    <2> QED BY <2>2, <2>3 DEF Abs!ClearPart
  <1>12. ASSUME BootErase PROVE Abs!ClearPart
    <2> DEFINE r == boot.cell.y
               c == boot.cell.x
    <2>1. boot.cell \in Cursor /\ ~Below(boot.cell)
      BY <1>12 DEF BootErase, TypeOK, BootState
    <2>2. r \in Rows /\ c \in Cols
      BY <2>1, GridAssumption DEF Cursor, Below
    <2>3. PutMem(video_mem, boot.cell, Blank) = [video_mem EXCEPT ![r][c] = Blank]
      BY <2>1 DEF PutMem, Ground, Start
    <2>4. /\ video_mem' = [video_mem EXCEPT ![r][c] = Blank]
          /\ UNCHANGED <<terminal_mem, screen_xy, cursor_ind, display_terminal>>
      BY <1>12, <2>3 DEF BootErase
    <2>5. Image' = [Image EXCEPT ![d][r][c] = Blank]
      <3> HIDE DEF r, c
      <3>1. Image[d] = video_mem
        BY <1>t DEF Image
      <3>2. Image' = [Image EXCEPT ![d] = [video_mem EXCEPT ![r][c] = Blank]]
        BY <1>t, <2>4 DEF Image
      <3> QED BY <3>1, <3>2
    <2>6. r \in Abs!Rows /\ c \in Abs!Cols
      BY <2>2, SameGrid
    <2> HIDE DEF r, c
    <2> QED BY <2>4, <2>5, <2>6 DEF Abs!ClearPart
  <1>13. ASSUME BootExecute PROVE UNCHANGED Abs!svars
    BY <1>13 DEF BootExecute, Abs!svars, Image
  <1>14. ASSUME UNCHANGED vars PROVE UNCHANGED Abs!svars
    BY <1>14 DEF vars, Abs!svars, Image
  <1> QED
    BY <1>t, <1>1, <1>2, <1>3, <1>4, <1>5, <1>6, <1>7, <1>8, <1>9, <1>10, <1>11, <1>12, <1>13, <1>14, SameGrid
    DEF Next, Abs!Next

\* The exchange of memories on Alt+Fn and the two print routines implement
\* independent screens, for every number of terminals and every size.
THEOREM ScreensRefined == Spec => IndependentScreens
  <1>1. Spec => []TypeOK
    BY CursorCorrect, PTL
  <1> QED BY <1>1, RefInit, RefStep, PTL DEF Spec, IndependentScreens, Abs!Spec
============================================================================
