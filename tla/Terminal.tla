------------------------------ MODULE Terminal ------------------------------
(***************************************************************************)
(* The line discipline of the terminals: keyboard_handler, terminal_read   *)
(* and terminal_write (keyboard.c), between the keyboard interrupt and the *)
(* foreground program of each terminal.                                    *)
(*                                                                         *)
(* Keys go to the terminal on display; a program reads and writes in its   *)
(* own, which is the active terminal whenever it runs (MachineFollowsCurr  *)
(* of module Processes).  The handler runs with interrupts off;            *)
(* terminal_read runs with interrupts on, so a key or another program can  *)
(* come between any two bytes of its copy of the line, and between the     *)
(* copy and its reset of terminal_read_ready.  Lines and output share      *)
(* print_buffer.                                                           *)
(*                                                                         *)
(* The buffers are modelled byte by byte, and a byte by where it comes     *)
(* from: a key pressed, or a program that writes, while terminal t is      *)
(* meant; the terminating 0; or memory behind the buffers.  The copies     *)
(* check no bound: print_buffer is three arrays in a row, and what runs    *)
(* over the end of one goes on in the next.                                *)
(***************************************************************************)
EXTENDS Integers, Sequences

CONSTANTS
  NUM_TERMINALS,  \* terminals (three in the code)
  LINE_MAX,       \* MAX_KEY_IND + 1, characters of a line (128 in the code)
  PRINT_LIM,      \* bytes of a print_buffer (2050 in the code)
  WriteCounts,    \* counts programs pass to write
  ReadCounts      \* counts programs pass to read

ASSUME TerminalAssumption ==
  /\ NUM_TERMINALS \in Nat \ {0}
  /\ LINE_MAX \in Nat \ {0}
  /\ PRINT_LIM \in Nat /\ LINE_MAX < PRINT_LIM
  /\ WriteCounts \subseteq Nat /\ ReadCounts \subseteq Nat

Terminals == 0 .. NUM_TERMINALS - 1
Index == 1 .. PRINT_LIM
Char == [from : {"key", "program"}, term : Terminals]
KeyOf(t) == [from |-> "key", term |-> t]
OutputOf(t) == [from |-> "program", term |-> t]
Nul == [from |-> "nul", term |-> -1]
Outside == [from |-> "outside", term |-> -1]
Byte == Char \cup {Nul}

VARIABLES
  keyboard_buffer,      \* the line being typed; cursor_ind is its length
  print_buffer,         \* the line entered, or the last output
  terminal_read_ready,  \* a line has been entered
  display_terminal,
  pc,                   \* the program of each terminal: "run", "wait" or "copy"
  count,                \* the parameter of its read
  buf,                  \* what the read has copied so far
  line,                 \* history: the last line entered since the last read ended
  entered               \* history: what the program did then: "none", "run", "wait", ...

vars == <<keyboard_buffer, print_buffer, terminal_read_ready, display_terminal,
          pc, count, buf, line, entered>>

Init ==
  /\ keyboard_buffer = [t \in Terminals |-> << >>]
  /\ print_buffer = [t \in Terminals |-> [k \in Index |-> Nul]]
  /\ terminal_read_ready = [t \in Terminals |-> 0]
  /\ display_terminal = 0
  /\ pc = [t \in Terminals |-> "run"]
  /\ count = [t \in Terminals |-> 0]
  /\ buf = [t \in Terminals |-> << >>]
  /\ line = [t \in Terminals |-> << >>]
  /\ entered = [t \in Terminals |-> "none"]

\* A character key, or ENTER: stored unless the line is full.
Typed(t) == IF Len(keyboard_buffer[t]) >= LINE_MAX THEN keyboard_buffer[t]
            ELSE Append(keyboard_buffer[t], KeyOf(t))

Key ==
  /\ keyboard_buffer' = [keyboard_buffer EXCEPT ![display_terminal] = Typed(display_terminal)]
  /\ UNCHANGED <<print_buffer, terminal_read_ready, display_terminal, pc, count, buf, line, entered>>

\* BACKSPACE.
Backspace ==
  LET s == keyboard_buffer[display_terminal] IN
  /\ s # << >>
  /\ keyboard_buffer' = [keyboard_buffer EXCEPT ![display_terminal] = SubSeq(s, 1, Len(s) - 1)]
  /\ UNCHANGED <<print_buffer, terminal_read_ready, display_terminal, pc, count, buf, line, entered>>

\* Ctrl+L drops the line being typed.
CtrlL ==
  /\ keyboard_buffer' = [keyboard_buffer EXCEPT ![display_terminal] = << >>]
  /\ UNCHANGED <<print_buffer, terminal_read_ready, display_terminal, pc, count, buf, line, entered>>

\* Mutant: the flag is not set.
Announced_Not(t) == terminal_read_ready

\* ENTER sets the flag of the terminal on display.
Announced(t) == [terminal_read_ready EXCEPT ![t] = 1]

\* A line with zeros behind it, as the memset and the memcpy of ENTER leave it.
Padded(s) == [k \in Index |-> IF k <= Len(s) THEN s[k] ELSE Nul]

\* ENTER: the line, with its newline unless ALT is held, becomes readable.
Enter(alt) ==
  LET t == display_terminal
      s == IF alt THEN keyboard_buffer[t] ELSE Typed(t)
  IN
  /\ print_buffer' = [print_buffer EXCEPT ![t] = Padded(s)]
  /\ keyboard_buffer' = [keyboard_buffer EXCEPT ![t] = << >>]
  /\ terminal_read_ready' = Announced(t)
  /\ line' = [line EXCEPT ![t] = s]
  /\ entered' = [entered EXCEPT ![t] = pc[t]]
  /\ UNCHANGED <<display_terminal, pc, count, buf>>

\* Alt+Fn shows terminal t.
AltFn(t) ==
  /\ display_terminal' = t
  /\ UNCHANGED <<keyboard_buffer, print_buffer, terminal_read_ready, pc, count, buf, line, entered>>

\* Mutant: the output goes through the buffer of the terminal on display.
WriteIdx_Display(t) == display_terminal

\* get_active_terminal() when the program of t runs.
WriteIdx(t) == t

\* The bytes of terminal u's buffer after lim bytes and a 0 have been put into
\* that of terminal v: for lim = PRINT_LIM the 0 is the next buffer's first byte.
Put(u, v, lim, c) ==
  [k \in Index |->
     IF u = v /\ k <= lim THEN c
     ELSE IF u * PRINT_LIM + k = v * PRINT_LIM + lim + 1 THEN Nul
     ELSE print_buffer[u][k]]

\* terminal_write of n bytes.
Write(t, n) ==
  LET lim == IF n < PRINT_LIM THEN n ELSE PRINT_LIM IN
  /\ pc[t] = "run"
  /\ print_buffer' = [u \in Terminals |-> Put(u, WriteIdx(t), lim, OutputOf(t))]
  /\ UNCHANGED <<keyboard_buffer, terminal_read_ready, display_terminal, pc, count, buf, line, entered>>

\* terminal_read is called.
ReadCall(t, n) ==
  /\ pc[t] = "run"
  /\ pc' = [pc EXCEPT ![t] = "wait"]
  /\ count' = [count EXCEPT ![t] = n]
  /\ UNCHANGED <<keyboard_buffer, print_buffer, terminal_read_ready, display_terminal, buf, line, entered>>

\* Its loop ends.
ReadReady(t) ==
  /\ pc[t] = "wait" /\ terminal_read_ready[t] = 1
  /\ pc' = [pc EXCEPT ![t] = "copy"]
  /\ UNCHANGED <<keyboard_buffer, print_buffer, terminal_read_ready, display_terminal, count, buf, line, entered>>

\* Byte k from the start of terminal t's buffer on, in the buffers behind it too.
ByteAt(t, k) ==
  LET u == t + ((k - 1) \div PRINT_LIM) IN
  IF u \in Terminals THEN print_buffer[u][((k - 1) % PRINT_LIM) + 1] ELSE Outside

\* The memcpy, one byte at a time.
ReadCopy(t) ==
  /\ pc[t] = "copy" /\ Len(buf[t]) < count[t]
  /\ buf' = [buf EXCEPT ![t] = Append(@, ByteAt(t, Len(@) + 1))]
  /\ UNCHANGED <<keyboard_buffer, print_buffer, terminal_read_ready, display_terminal, pc, count, line, entered>>

\* The flag is reset; what has been read is the program's now.
ReadDone(t) ==
  /\ pc[t] = "copy" /\ Len(buf[t]) >= count[t]
  /\ pc' = [pc EXCEPT ![t] = "run"]
  /\ terminal_read_ready' = [terminal_read_ready EXCEPT ![t] = 0]
  /\ count' = [count EXCEPT ![t] = 0]
  /\ buf' = [buf EXCEPT ![t] = << >>]
  /\ line' = [line EXCEPT ![t] = << >>]
  /\ entered' = [entered EXCEPT ![t] = "none"]
  /\ UNCHANGED <<keyboard_buffer, print_buffer, display_terminal>>

Reading(t) == ReadReady(t) \/ ReadCopy(t) \/ ReadDone(t)

Next ==
  \/ Key \/ Backspace \/ CtrlL
  \/ \E alt \in BOOLEAN : Enter(alt)
  \/ \E t \in Terminals :
       \/ AltFn(t) \/ Reading(t)
       \/ \E n \in WriteCounts : Write(t, n)
       \/ \E n \in ReadCounts : ReadCall(t, n)

Spec == Init /\ [][Next]_vars

\* Fairness: every program is given the CPU again and again (RoundRobin of
\* module Processes), so a read that can go on goes on.  Nobody has to type.
FairSpec == Spec /\ \A t \in Terminals : WF_vars(Reading(t))

----------------------------------------------------------------------------

\* Every variable stays in its range; no line outgrows keyboard_buffer.
TypeOK ==
  /\ keyboard_buffer \in [Terminals -> Seq(Char)]
  /\ \A t \in Terminals : Len(keyboard_buffer[t]) <= LINE_MAX
  /\ print_buffer \in [Terminals -> [Index -> Byte]]
  /\ terminal_read_ready \in [Terminals -> {0, 1}]
  /\ display_terminal \in Terminals
  /\ pc \in [Terminals -> {"run", "wait", "copy"}]
  /\ count \in [Terminals -> Nat]
  /\ buf \in [Terminals -> Seq(Byte \cup {Outside})]
  /\ line \in [Terminals -> Seq(Char)]
  /\ entered \in [Terminals -> {"none", "run", "wait", "copy"}]

\* A byte of terminal t, or a 0.
Own(t, b) == b = Nul \/ (b \in Char /\ b.term = t)

\* What is typed while a terminal is shown, and what its program writes, is never
\* in another terminal's buffer, and a read of at most PRINT_LIM bytes gets
\* nothing else, whatever Alt+Fn, the other keyboards and the other programs do
\* between two bytes of its copy.  A read of more gets the buffers behind its
\* own too: only its first PRINT_LIM bytes are its terminal's (keyboard_handler,
\* terminal_write, terminal_read).
TerminalsApart ==
  \A t \in Terminals :
    /\ \A k \in 1 .. Len(keyboard_buffer[t]) : Own(t, keyboard_buffer[t][k])
    /\ \A k \in Index : Own(t, print_buffer[t][k])
    /\ \A k \in 1 .. Len(buf[t]) : k <= PRINT_LIM => Own(t, buf[t][k])

\* A write of PRINT_LIM bytes in the terminal before may have emptied the line.
Emptied(t, k) == t # 0 /\ k = 1 /\ \E n \in WriteCounts : n >= PRINT_LIM

\* A line entered while the program waits for it is what the program copies, byte
\* by byte and with the zeros behind it, as far as its own buffer goes: neither
\* output nor keys replace it before the last byte (terminal_read, ENTER).  Only a
\* write of PRINT_LIM bytes in the terminal before can set its first byte to 0.
WaitedLineKept ==
  \A t \in Terminals :
    pc[t] # "run" /\ entered[t] = "wait" =>
      \A k \in Index :
        /\ \/ print_buffer[t][k] = Padded(line[t])[k]
           \/ Emptied(t, k) /\ print_buffer[t][k] = Nul
        /\ k <= Len(buf[t]) =>
             \/ buf[t][k] = Padded(line[t])[k]
             \/ Emptied(t, k) /\ buf[t][k] = Nul

\* A read never copies what no ENTER has announced: what it copies is the last
\* line entered, or output that came after it (terminal_read's loop).
ReadWasAnnounced ==
  \A t \in Terminals : pc[t] = "copy" => entered[t] # "none"

\* A program that waits when its line is entered gets on (terminal_read).
WaitEnds ==
  \A t \in Terminals : (pc[t] = "wait" /\ entered[t] = "wait") ~> pc[t] = "run"
============================================================================
