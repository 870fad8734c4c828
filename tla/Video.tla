------------------------------- MODULE Video -------------------------------
(***************************************************************************)
(* Paging (paging.c), and who changes it: execute, halt, the tick, vidmap  *)
(* and the keys Alt+F1..F3.  What a program can reach is its own 4 MB      *)
(* frame at 128 MB and, at 132 MB, one 4 KB page that shows the screen     *)
(* while its terminal is on display and is physical page 0 otherwise.      *)
(*                                                                         *)
(* Processes are here what decides the mapping: who runs, and in which     *)
(* terminal.  Stacks and the order of steps inside a handler are those of  *)
(* module Processes; every action here runs under cli, but for vidmap.     *)
(***************************************************************************)
EXTENDS Integers

CONSTANTS
  PROC_NUM,      \* process slots (6 in the code)
  NUM_TERMINALS  \* terminals (3 in the code)

ASSUME VideoAssumption ==
  /\ PROC_NUM \in Nat \ {0}
  /\ NUM_TERMINALS \in Nat \ {0}

Pid == 0 .. PROC_NUM - 1
Terminal == 0 .. NUM_TERMINALS - 1
None == -1

\* The entries of the page directory that are ever present: the first 4 MB
\* (kept as 4 KB pages), the kernel, the program and the program's video page.
LOW == 0
KERNEL == 1
PROGRAM == 32
VIDEO == 33
PT_VIDEO == 184

\* pid_page_map: the 4 MB frame of slot p, ((pid * 4MB) + 8MB) >> 22.
Frame(p) == (p * 4 + 8) \div 4

VARIABLES
  page_directory,  \* the entries above
  vidMem,          \* vidMem_table[0]: present and page_addr
  display,         \* display_terminal
  active,          \* active_terminal
  live,            \* slots in use
  t_curr,          \* the process on top of each terminal
  p_pid,           \* the parent in a slot's PCB
  curr,            \* the running process; None in the boot context
  fresh            \* history: since the last switch, no Alt+Fn, vidmap or first shell

vars == <<page_directory, vidMem, display, active, live, t_curr, p_pid, curr, fresh>>

Entry == [present : BOOLEAN, us : BOOLEAN, kb : BOOLEAN, base : Nat]

\* pdt_init_kb, pdt_init_mb.
NoTable == [present |-> FALSE, us |-> FALSE, kb |-> TRUE, base |-> 0]
NoFrame(i) == [present |-> FALSE, us |-> FALSE, kb |-> FALSE, base |-> i]

\* paging_init.  (Where the page tables themselves are is left out: base 0.)
paging_init ==
  [i \in {LOW, KERNEL, PROGRAM, VIDEO} |->
     CASE i = LOW    -> [NoTable EXCEPT !.present = TRUE]
       [] i = KERNEL -> [NoFrame(1) EXCEPT !.present = TRUE]
       [] OTHER      -> NoFrame(i)]

Init ==
  /\ page_directory = paging_init
  /\ vidMem = [present |-> FALSE, addr |-> 0]
  /\ display = 0 /\ active = 0
  /\ live = {} /\ t_curr = [t \in Terminal |-> None]
  /\ p_pid = [p \in Pid |-> 0] /\ curr = None
  /\ fresh = FALSE

get_pid(used, p) == p \notin used /\ \A q \in Pid : q < p => q \in used

\* pid_page_map.
ProgramEntry(p) == [present |-> TRUE, us |-> TRUE, kb |-> FALSE, base |-> Frame(p)]
pid_page_map(pd, p) == [pd EXCEPT ![PROGRAM] = ProgramEntry(p)]

\* Mutants: the screen whatever terminal runs; never the screen.
Shown_Always(t, d) == PT_VIDEO
Shown_Never(t, d) == 0

\* The page terminal t gets at 132 MB while d is on display.
Shown(t, d) == IF t = d THEN PT_VIDEO ELSE 0

\* vidMem_page_map(132 MB, t), which has read d as the terminal on display.
VideoEntry == [NoTable EXCEPT !.present = TRUE, !.us = TRUE]
vidMem_page_map(pd, t, d) ==
  /\ page_directory' = [pd EXCEPT ![VIDEO] = VideoEntry]
  /\ vidMem' = [present |-> TRUE, addr |-> Shown(t, d)]

(***************************************************************************)
(* execute_with_terminal_num in terminal t, from a table where used are    *)
(* the slots in use.  set_active_terminal_paging writes what is there.     *)
(***************************************************************************)
execute(t, used) ==
  \E p \in Pid :
    /\ get_pid(used, p)
    /\ live' = used \cup {p}
    /\ p_pid' = [p_pid EXCEPT ![p] = IF t_curr[t] = None THEN p ELSE curr]
    /\ t_curr' = [t_curr EXCEPT ![t] = p]
    /\ curr' = p
    /\ page_directory' = pid_page_map(page_directory, p)
    /\ active' = t

\* The first shell: entry(), or a tick that finds terminal 0 without process.
LaunchFirst ==
  /\ t_curr[0] = None
  /\ execute(0, live)
  /\ fresh' = FALSE
  /\ UNCHANGED <<vidMem, display>>

\* The system call execute.
Execute ==
  /\ curr # None
  /\ execute(active, live)
  /\ UNCHANGED <<vidMem, display, fresh>>

\* Mutant: halt leaves the program page of the process that ends.
HaltPage_Kept(p) == page_directory

\* halt: the parent's program page.
HaltPage(p) == pid_page_map(page_directory, p_pid[p])

\* halt of the bottom-most process: a new shell.
HaltRoot ==
  /\ curr # None /\ p_pid[curr] = curr
  /\ execute(active, live \ {curr})
  /\ UNCHANGED <<vidMem, display, fresh>>

\* halt of any other process whose parent lives (module Processes says what
\* the halt of a shell restarted in another slot does).
HaltChild ==
  /\ curr # None /\ p_pid[curr] # curr /\ p_pid[curr] \in live
  /\ live' = live \ {curr}
  /\ t_curr' = [t_curr EXCEPT ![active] = p_pid[curr]]
  /\ curr' = p_pid[curr]
  /\ page_directory' = HaltPage(curr)
  /\ UNCHANGED <<vidMem, display, active, p_pid, fresh>>

\* The next terminal after t, cyclically, that runs a process.
Distance(t, n) == IF n > t THEN n - t ELSE n - t + NUM_TERMINALS
NextTerminal(t, n) ==
  /\ t_curr[n] # None
  /\ \A m \in Terminal : Distance(t, m) < Distance(t, n) => t_curr[m] = None

\* pit_int_handler, for the process of terminal n.
PitSwitch ==
  /\ curr # None
  /\ t_curr[0] # None \/ live = Pid
  /\ \E n \in Terminal :
       /\ NextTerminal(active, n)
       /\ vidMem_page_map(pid_page_map(page_directory, t_curr[n]), n, display)
       /\ curr' = t_curr[n]
       /\ active' = n
  /\ fresh' = TRUE
  /\ UNCHANGED <<display, live, t_curr, p_pid>>

\* vidmap asks for the terminal on display, whoever calls.  It reads
\* display_terminal, vidMem_page_map reads it again, and interrupts are
\* enabled: ticks and Alt+Fn may have come before and between the reads, so
\* asked and seen are any two terminals.  The step is the last assignment.
vidmap ==
  /\ curr # None
  /\ \E asked, seen \in Terminal : vidMem_page_map(page_directory, asked, seen)
  /\ fresh' = FALSE
  /\ UNCHANGED <<display, active, live, t_curr, p_pid, curr>>

\* keyboard_handler: Alt+Fn shows terminal t and, the first time there is a
\* slot, starts its shell.  The video page is left to the next tick.
AltFn(t) ==
  /\ display' = t
  /\ fresh' = FALSE
  /\ UNCHANGED vidMem
  /\ \/ /\ t = 0 \/ t_curr[t] # None \/ live = Pid
        /\ UNCHANGED <<page_directory, active, live, t_curr, p_pid, curr>>
     \/ t # 0 /\ t_curr[t] = None /\ execute(t, live)

Tick == PitSwitch \/ LaunchFirst

Next ==
  \/ LaunchFirst \/ Execute \/ HaltRoot \/ HaltChild \/ PitSwitch \/ vidmap
  \/ \E t \in Terminal : AltFn(t)

Spec == Init /\ [][Next]_vars

\* The timer ticks for ever; nothing is assumed of programs and keys.
FairSpec == Spec /\ WF_vars(Tick)

----------------------------------------------------------------------------

\* Every variable stays in its range.
TypeOK ==
  /\ page_directory \in [{LOW, KERNEL, PROGRAM, VIDEO} -> Entry]
  /\ vidMem \in [present : BOOLEAN, addr : {0, PT_VIDEO}]
  /\ display \in Terminal /\ active \in Terminal
  /\ live \subseteq Pid
  /\ t_curr \in [Terminal -> Pid \cup {None}]
  /\ p_pid \in [Pid -> Pid]
  /\ curr \in Pid \cup {None}
  /\ fresh \in BOOLEAN

\* The 4 MB frames that user code can reach.
UserFrames ==
  {page_directory[i].base : i \in {j \in DOMAIN page_directory :
     page_directory[j].present /\ page_directory[j].us /\ ~page_directory[j].kb}}

\* Whatever executes, halts, ticks and key presses came before, user code
\* reaches the frame of the process that runs, and neither the kernel's frame
\* nor one of another live process (pid_page_map in execute, halt and the
\* tick).  Before the first execute it reaches none.
OwnFrameOnly ==
  /\ UserFrames = IF curr = None THEN {} ELSE {Frame(curr)}
  /\ UserFrames \cap {LOW, KERNEL} = {}
  /\ \A q \in live \ {curr} : Frame(q) \notin UserFrames

\* The video page does not suit the running terminal: a program in the
\* background would draw on the screen, or one on display would not.
Mismatch == vidMem.present /\ (vidMem.addr = PT_VIDEO) # (active = display)

\* Until an Alt+Fn, a vidmap or the launch of terminal 0's shell, the page the
\* last tick mapped stays right through executes and halts, which do not map
\* it again (vidMem_page_map, pit_int_handler).
TickMapsRight == fresh => ~Mismatch

\* What an Alt+Fn or a vidmap from the background upset, a tick puts right.
MismatchEnds == Mismatch ~> ~Mismatch

\* What makes OwnFrameOnly and TickMapsRight inductive.
MapInv ==
  /\ page_directory[LOW] = paging_init[LOW]
  /\ page_directory[KERNEL] = paging_init[KERNEL]
  /\ page_directory[PROGRAM] = IF curr = None THEN paging_init[PROGRAM]
                               ELSE ProgramEntry(curr)
  /\ page_directory[VIDEO] \in {paging_init[VIDEO], VideoEntry}
IInv == TypeOK /\ MapInv /\ TickMapsRight
============================================================================
