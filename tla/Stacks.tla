------------------------------- MODULE Stacks -------------------------------
(***************************************************************************)
(* What execute, halt, the scheduler and the keyboard promise the user of  *)
(* the terminals: every terminal holds a stack of programs, of which the   *)
(* one on top runs and each of the others waits for the one above it.      *)
(* Module Processes is shown to implement this.                            *)
(*                                                                         *)
(* The promise ends with the machine: at an exception, at a switch between *)
(* two terminals that loads a stack pointer at which nobody waits, and at  *)
(* the halt of a stray, a bottom shell in another slot than the shell it   *)
(* was started to replace.                                                 *)
(***************************************************************************)
EXTENDS Integers

CONSTANTS
  Pid,       \* what names a program: its slot
  Terminal,
  None       \* no program: not in Pid

VARIABLES
  top,     \* the program on top of each terminal, or None
  under,   \* for every program there is, the one that waits under it, or None
  strays,  \* the bottom shells in another slot than their predecessor
  run,     \* the program that has the CPU, or None
  up       \* the machine runs

stacks == <<top, under, strays, run, up>>

Init ==
  /\ top = [t \in Terminal |-> None]
  /\ under = [p \in {} |-> None]
  /\ strays = {}
  /\ run = None
  /\ up = TRUE

Programs == DOMAIN under

\* The program on top of t has the CPU.
Runs(t) == up /\ run # None /\ top[t] = run

\* The programs of S stay, and p is put on top of b.
PutOn(S, p, b) == [q \in S \cup {p} |-> IF q = p THEN b ELSE under[q]]

\* The first shell of a terminal.
Launch(t, p) ==
  /\ up /\ top[t] = None /\ p \notin Programs
  /\ top' = [top EXCEPT ![t] = p]
  /\ under' = PutOn(Programs, p, None)
  /\ run' = p
  /\ UNCHANGED <<strays, up>>

\* The running program starts another one, and waits for it.
Begin(t, p) ==
  /\ Runs(t) /\ p \notin Programs
  /\ top' = [top EXCEPT ![t] = p]
  /\ under' = PutOn(Programs, p, run)
  /\ run' = p
  /\ UNCHANGED <<strays, up>>

\* The running program ends, and the one under it goes on.
Return(t) ==
  /\ Runs(t) /\ under[run] # None
  /\ top' = [top EXCEPT ![t] = under[run]]
  /\ under' = [q \in Programs \ {run} |-> under[q]]
  /\ run' = under[run]
  /\ UNCHANGED <<strays, up>>

\* A bottom shell ends, and a new one is started in its place.
Replace(t, p) ==
  /\ Runs(t) /\ under[run] = None
  /\ run \notin strays /\ p \notin Programs \ {run}
  /\ top' = [top EXCEPT ![t] = p]
  /\ under' = PutOn(Programs \ {run}, p, None)
  /\ strays' = IF p = run THEN strays ELSE strays \cup {p}
  /\ run' = p
  /\ UNCHANGED up

\* The CPU is given to the program on top of another terminal.
Switch(t) ==
  /\ up /\ top[t] \notin {None, run}
  /\ run' = top[t]
  /\ UNCHANGED <<top, under, strays, up>>

Exception == up /\ run # None /\ up' = FALSE /\ UNCHANGED <<top, under, strays, run>>

\* A switch that goes wrong: two terminals are in use.
WildSwitch(t) ==
  /\ up /\ top[t] \notin {None, run}
  /\ up' = FALSE
  /\ UNCHANGED <<top, under, strays, run>>

\* The halt of a stray: nothing is promised of the tables.
WildHalt == up /\ run \in strays /\ up' = FALSE

Next ==
  \/ \E t \in Terminal :
       \/ \E p \in Pid : Launch(t, p) \/ Begin(t, p) \/ Replace(t, p)
       \/ Return(t) \/ Switch(t) \/ WildSwitch(t)
  \/ Exception \/ WildHalt

Spec == Init /\ [][Next]_stacks
=============================================================================
