------------------------------ MODULE Console ------------------------------
(***************************************************************************)
(* A command from the keyboard to its program: what keyboard_handler makes *)
(* of the keys (module Keys), the line terminal_read hands to the shell    *)
(* (ece391shell.c), execute's verify_file, which splits the command and    *)
(* keeps the arguments, and getargs, with which the program fetches them   *)
(* (syscall.c).                                                            *)
(*                                                                         *)
(* argBuf is one buffer for all terminals.  verify_file runs with          *)
(* interrupts off; getargs runs with interrupts on, so the program of      *)
(* another terminal may execute between the test of its loop, a copied     *)
(* byte and the next test.                                                 *)
(*                                                                         *)
(* Keys are typed at terminal 0 while its shell reads (what is typed ahead *)
(* and output in print_buffer are the subject of module Terminal); the     *)
(* shell of terminal 1 is given commands of the set Commands.              *)
(***************************************************************************)
EXTENDS Keys, CLib, FiniteSets

CONSTANTS
  Files,      \* names of executables
  Commands,   \* what is entered at terminal 1
  TypedKeys,  \* character keys that are pressed
  Callers,    \* bound: terminals whose programs call getargs
  Requests,   \* the numbers of bytes programs ask getargs for
  LINE_MAX,   \* MAX_KEY_IND + 1, characters of a line (128 in the code)
  MAX_HELD    \* bound: modifier keys held at once

ASSUME ConsoleAssumption ==
  /\ Files \subseteq Seq(1 .. 255) /\ Commands \subseteq Seq(1 .. 255)
  /\ TypedKeys \subseteq 1 .. 127 /\ Callers \subseteq {0, 1}
  /\ Requests \subseteq Nat
  /\ LINE_MAX \in Nat \ {0} /\ MAX_HELD \in Nat

Blank == 32
NewLine == 10
Terminals == {0, 1}

VARIABLES
  line,     \* keyboard_buffer of terminal 0; cursor_ind is its length
  argBuf,   \* the arguments, up to the first 0
  argSize,
  pc,       \* what runs in each terminal: its shell, or a program in and around getargs
  command,  \* the command the shell is about to execute
  nbytes,   \* getargs: the number of bytes asked for
  i, buf,   \* getargs: the index and what has been copied
  own,      \* history: the command that started the program
  quiet     \* history: no other execute has come since then

console == <<line, argBuf, argSize, pc, command, nbytes, i, buf, own, quiet>>
all == <<keys, console>>

ConsoleInit ==
  /\ KeysInit
  /\ line = << >> /\ argBuf = << >> /\ argSize = 0
  /\ pc = [t \in Terminals |-> "shell"]
  /\ command = [t \in Terminals |-> << >>]
  /\ nbytes = [t \in Terminals |-> 0]
  /\ i = [t \in Terminals |-> 0]
  /\ buf = [t \in Terminals |-> << >>]
  /\ own = [t \in Terminals |-> << >>]
  /\ quiet = [t \in Terminals |-> FALSE]

----------------------------------------------------------------------------
\* The keyboard.

\* A character is stored unless the line is full.
Stored(ch) == IF Len(line) >= LINE_MAX THEN line ELSE Append(line, ch)

TypeKey(k) ==
  /\ pc[0] = "shell" /\ ~Deaf
  /\ \E ch \in char_match(k) : line' = Stored(ch)
  /\ UNCHANGED <<keys, argBuf, argSize, pc, command, nbytes, i, buf, own, quiet>>

\* What a C string is: the bytes before the first 0.
UpTo0(s) == String(Append(s, 0))

\* The shell drops the newline of what it has read, if there is one.
Command(s) ==
  LET r == UpTo0(s) IN IF r # << >> /\ r[Len(r)] = NewLine THEN SubSeq(r, 1, Len(r) - 1) ELSE r

\* ENTER: the line, with its newline unless Alt is marked, is what terminal_read
\* returns; the shell goes on with it, or prompts again when it is empty.
EnterKey ==
  LET cmd == Command(IF Deaf THEN line ELSE Stored(NewLine)) IN
  /\ pc[0] = "shell"
  /\ line' = << >>
  /\ command' = [command EXCEPT ![0] = cmd]
  /\ pc' = [pc EXCEPT ![0] = IF cmd = << >> THEN "shell" ELSE "entered"]
  /\ UNCHANGED <<keys, argBuf, argSize, nbytes, i, buf, own, quiet>>

\* A command entered at terminal 1.
CommandAt1 ==
  /\ pc[1] = "shell"
  /\ \E cmd \in Commands : command' = [command EXCEPT ![1] = cmd]
  /\ pc' = [pc EXCEPT ![1] = "entered"]
  /\ UNCHANGED <<keys, line, argBuf, argSize, nbytes, i, buf, own, quiet>>

Modifier(k) ==
  /\ \/ Cardinality(held \cup {k}) <= MAX_HELD /\ ModifierDown(k)
     \/ ModifierUp(k)
  /\ UNCHANGED console

Caps == CapsLock /\ UNCHANGED console

----------------------------------------------------------------------------
\* execute and getargs.

\* Where the name of a command ends.
NameEnd(cmd) == SelectInSeq(Append(cmd, Blank), LAMBDA ch : ch = Blank) - 1
InFile(cmd) == SubSeq(cmd, 1, NameEnd(cmd))

\* A string without its spaces, character by character.
Keep(q, ch) == IF ch = Blank THEN q ELSE Append(q, ch)
NoBlanks(s) ==
  LET kept[n \in 0 .. Len(s)] == IF n = 0 THEN << >> ELSE Keep(kept[n - 1], s[n])
  IN kept[Len(s)]

\* Mutant: argSize is not reset, so the bytes land behind a 0.
Arguments_Behind(cmd) ==
  IF argSize > 0 THEN << >>
  ELSE NoBlanks(SubSeq(cmd, NameEnd(cmd) + 1, Len(cmd)))

\* What verify_file leaves in argBuf: everything behind the name but the spaces.
Arguments(cmd) == NoBlanks(SubSeq(cmd, NameEnd(cmd) + 1, Len(cmd)))

\* execute, up to the program's first instruction.  argBuf is overwritten before
\* the name is looked up.  It returns to the shell when there is no such
\* executable, or no free process.
Execute(t) ==
  LET cmd == command[t] IN
  /\ pc[t] = "entered"
  /\ argBuf' = Arguments(cmd)
  /\ argSize' = Len(Arguments(cmd))
  /\ command' = [command EXCEPT ![t] = << >>]
  /\ \/ /\ InFile(cmd) \in Files
        /\ pc' = [pc EXCEPT ![t] = "program"]
        /\ own' = [own EXCEPT ![t] = cmd]
        /\ quiet' = [u \in Terminals |-> u = t]
     \/ /\ pc' = [pc EXCEPT ![t] = "shell"]
        /\ quiet' = [u \in Terminals |-> FALSE]
        /\ UNCHANGED own
  /\ UNCHANGED <<keys, line, nbytes, i, buf>>

\* getargs, called once or again.  It looks at no number of bytes.
GetargsCall(t, n) ==
  /\ t \in Callers /\ pc[t] \in {"program", "got", "none"}
  /\ nbytes' = [nbytes EXCEPT ![t] = n]
  /\ pc' = [pc EXCEPT ![t] = IF argSize = 0 THEN "none" ELSE "test"]
  /\ i' = [i EXCEPT ![t] = 0]
  /\ buf' = [buf EXCEPT ![t] = << >>]
  /\ UNCHANGED <<keys, line, argBuf, argSize, command, own, quiet>>

\* Mutant: the loop ends at the length, not at or behind it.
More_Differs(t) == i[t] # Len(argBuf)

\* i < strlen(argBuf)
More(t) == i[t] < Len(argBuf)

GetargsTest(t) ==
  /\ pc[t] = "test"
  /\ pc' = [pc EXCEPT ![t] = IF More(t) THEN "copy" ELSE "got"]
  /\ UNCHANGED <<keys, line, argBuf, argSize, command, nbytes, i, buf, own, quiet>>

\* The byte is the 0 behind the arguments when these have become shorter.  The
\* index stays below the size of argBuf, here LINE_MAX.
GetargsCopy(t) ==
  /\ pc[t] = "copy"
  /\ pc' = [pc EXCEPT ![t] = "test"]
  /\ buf' = [buf EXCEPT ![t] = IF Len(@) = LINE_MAX THEN @
                               ELSE Append(@, IF i[t] < Len(argBuf) THEN argBuf[i[t] + 1] ELSE 0)]
  /\ i' = [i EXCEPT ![t] = IF @ = LINE_MAX THEN @ ELSE @ + 1]
  /\ UNCHANGED <<keys, line, argBuf, argSize, command, nbytes, own, quiet>>

\* The program halts, and its shell prompts again.
Ends(t) ==
  /\ pc[t] \in {"program", "got", "none"}
  /\ pc' = [pc EXCEPT ![t] = "shell"]
  /\ nbytes' = [nbytes EXCEPT ![t] = 0]
  /\ i' = [i EXCEPT ![t] = 0]
  /\ buf' = [buf EXCEPT ![t] = << >>]
  /\ own' = [own EXCEPT ![t] = << >>]
  /\ quiet' = [quiet EXCEPT ![t] = FALSE]
  /\ UNCHANGED <<keys, line, argBuf, argSize, command>>

ConsoleNext ==
  \/ \E k \in TypedKeys : TypeKey(k)
  \/ EnterKey \/ CommandAt1 \/ Caps
  \/ \E k \in Modifiers : Modifier(k)
  \/ \E t \in Terminals :
       \/ Execute(t) \/ GetargsTest(t) \/ GetargsCopy(t) \/ Ends(t)
       \/ \E n \in Requests : GetargsCall(t, n)

\* Fairness: every program is given the CPU again and again (RoundRobin of
\* module Processes), so a loop in the kernel goes on.  Nobody has to type, and
\* no program has to end.
ConsoleSpec ==
  ConsoleInit /\ [][ConsoleNext]_all
    /\ \A t \in Terminals : WF_all(GetargsTest(t)) /\ WF_all(GetargsCopy(t)) /\ WF_all(Execute(t))

----------------------------------------------------------------------------

\* As long as no other execute comes, getargs, called again too, gives a program the
\* arguments of the command that started it, all of them however many bytes it
\* asks for: name and arguments together are the command without its spaces, and
\* it fails exactly for a command of one word.  So nothing an earlier command left
\* is seen, failed commands included (verify_file, getargs, the shell).
ArgsOwn ==
  \A t \in Terminals :
    quiet[t] =>
      /\ pc[t] = "got" => InFile(own[t]) \o UpTo0(buf[t]) = NoBlanks(own[t])
      /\ pc[t] = "none" => InFile(own[t]) = NoBlanks(own[t])

\* Does NOT hold, though insufficient_bytes_test of tests.c expects it: getargs
\* fails when more bytes are asked for than the program's arguments have.
MoreThanAvailableFails ==
  \A t \in Terminals : quiet[t] /\ pc[t] = "got" => nbytes[t] <= Len(UpTo0(buf[t]))

\* getargs returns, although other terminals may keep replacing argBuf by shorter
\* and longer arguments between its test and its copy (getargs' loop).
GetargsEnds ==
  \A t \in Terminals : pc[t] \in {"test", "copy"} ~> pc[t] \in {"got", "none"}

\* What the console and the kernel rely on in the library: for every alignment and
\* length, memcpy copies the bytes asked for and memset fills them, and no byte
\* before, behind or between the aligned words is changed or left; strrev reverses
\* strings of even and odd length and keeps their end; itoa writes the number
\* without leading zeros.  It speaks of no variable, and is evaluated when the
\* console starts.
LibraryRight ==
  ConsoleInit => NumbersRight /\ \A n \in 0 .. MEM : AreasRight(n) /\ StringsRight(n)
============================================================================
