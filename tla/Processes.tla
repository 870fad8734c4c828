----------------------------- MODULE Processes -----------------------------
(***************************************************************************)
(* Processes, kernel stacks and the scheduler: execute and halt            *)
(* (syscall.c), the timer interrupt that switches between the terminals    *)
(* (timer.c), the keyboard's Alt+Fn launch of a shell (keyboard.c), the    *)
(* boot sequence (kernel.c) and the page mappings they install (paging.c). *)
(*                                                                         *)
(* An action is a stretch of kernel code that no interrupt can enter: the  *)
(* code between cli and sti, or a stretch of user code.  Where a handler   *)
(* executes sti BEFORE it has left its stack, the rest of it is an action  *)
(* of its own, and interrupts can come in between.                         *)
(*                                                                         *)
(* A saved ebp is a place on a kernel stack.  The layout of an interrupt   *)
(* frame is the same for every IRQ (pusha, pushfl, call, push ebp), so the *)
(* place is determined by the stack, by the depth at which the kernel was  *)
(* entered, and by what the interrupted code was doing: a Loc.             *)
(***************************************************************************)
EXTENDS Integers, Sequences

CONSTANTS
  PROC_NUM,       \* process slots (six in the code)
  NUM_TERMINALS,  \* terminals (three in the code)
  MAX_DEPTH,      \* bound: execute frames left under tss.esp0 on one stack
  MAX_NEST        \* bound: timer ticks nested in the window of another one

ASSUME ConstantsAssumption ==
  /\ PROC_NUM \in Nat \ {0}
  /\ NUM_TERMINALS \in Nat \ {0}
  /\ MAX_DEPTH \in Nat
  /\ MAX_NEST \in Nat

Pid == 0 .. PROC_NUM - 1
Terminal == 0 .. NUM_TERMINALS - 1
None == -1
Boot == -1   \* the context of entry() in kernel.c, which is no process

(***************************************************************************)
(* Kinds of place:                                                         *)
(*   boot   in entry(), before the first execute                           *)
(*   user   in user mode: an interrupt's frame goes right under tss.esp0   *)
(*   sys    in a system call (a trap gate: interrupts stay enabled)        *)
(*   exec   in the frame of execute, called as a system call               *)
(*   rexec  in the frame of execute, called by halt for a new shell        *)
(*   iexec  in the frame of execute, called by an interrupt handler or boot*)
(*   halt   in the frame of halt, after its sti                            *)
(*   tick   in pit_int_handler, interrupted after its sti                  *)
(*   init   GET_ESP(pid), the value pcb_init stores: no frame is there     *)
(*   none   (ghost) not suspended;  lost  (ghost) the frame is destroyed   *)
(***************************************************************************)
ExecKind == {"exec", "rexec", "iexec"}
Kind == {"boot", "user", "sys", "halt", "tick", "init", "none", "lost"} \cup ExecKind
Loc == [stk : Pid, base : Nat, kind : Kind]
LocAt(s, b, k) == [stk |-> s, base |-> b, kind |-> k]
NoLoc == LocAt(0, 0, "none")
LostLoc == LocAt(0, 0, "lost")

PCB == [p_pid : Pid, terminal : Terminal, parent : Loc]

VARIABLES
  proc_state,  \* proc_state[p] = 1: slot p is in use
  t_curr,      \* the process on top of each terminal, or None
  pcb,         \* the process control blocks; parent is parent_ebp and parent_esp
  saved,       \* their current_ebp and current_esp
  curr,        \* the global curr
  page,        \* the process whose program page is mapped at 128 MB
  active,      \* active_terminal
  running,     \* terminal_2_running, terminal_3_running
  esp0,        \* tss.esp0: a stack and a depth on it
  pt,          \* where an interrupt's handler frame goes (or went, while win # << >>)
  win,         \* the timer handlers that have executed sti and not yet switched stacks
  me,          \* ghost: the process the CPU is executing for
  susp,        \* ghost: where each process really is suspended
  stop         \* why the model stops: "none" while the machine runs

vars == <<proc_state, t_curr, pcb, saved, curr, page, active, running,
          esp0, pt, win, me, susp, stop>>

Init ==
  /\ proc_state = [p \in Pid |-> 0]
  /\ t_curr = [t \in Terminal |-> None]
  /\ pcb = [p \in Pid |-> [p_pid |-> 0, terminal |-> 0, parent |-> NoLoc]]
  /\ saved = [p \in Pid |-> NoLoc]
  /\ curr = 0 /\ page = 0 /\ active = 0
  /\ running = [t \in Terminal |-> FALSE]
  /\ esp0 = [stk |-> 0, base |-> 0]
  /\ pt = LocAt(0, 0, "boot")   \* boot.S: the boot stack is the page of process 0's stack
  /\ win = << >>
  /\ me = Boot
  /\ susp = [p \in Pid |-> NoLoc]
  /\ stop = "none"

Live(p) == proc_state[p] = 1

Full(ps) == \A p \in Pid : ps[p] = 1

\* Mutant: a full table gives slot 0 and not -1.
get_pid_FullGivesFirst(ps, p) ==
  IF Full(ps) THEN p = 0 ELSE ps[p] = 0 /\ \A q \in Pid : q < p => ps[q] = 1

\* get_pid: the lowest slot not in use.
get_pid(ps, p) == ps[p] = 0 /\ \A q \in Pid : q < p => ps[q] = 1

\* Mutant: the search starts at terminal 0 and not after t.
NextTerminal_FromZero(t, n) ==
  /\ t_curr[n] # None
  /\ \A m \in Terminal : m < n => t_curr[m] = None

\* The next terminal after t, cyclically, that runs a process.
Dist(t, n) == IF n > t THEN n - t ELSE n - t + NUM_TERMINALS
NextTerminal(t, n) ==
  /\ t_curr[n] # None
  /\ \A m \in Terminal : Dist(t, m) < Dist(t, n) => t_curr[m] = None

(***************************************************************************)
(* Contexts of other processes left on the stack of q are overwritten once *)
(* q runs on it; how far down depends on what q does, so any of them may   *)
(* be destroyed.  One left in halt's frame is always destroyed when the    *)
(* slot is given away, since pcb_init overwrites the PCB it goes on to use.*)
(***************************************************************************)
Foreign(s, q) == {r \in Pid : r # q /\ s[r].kind \notin {"none", "lost"} /\ s[r].stk = q}
Clobbered(s, q, S) == [r \in Pid |-> IF r \in S THEN LostLoc
                                     ELSE IF r = q THEN NoLoc ELSE s[r]]
Clobber(s, q) ==
  \E S \in SUBSET Foreign(s, q) :
    /\ \A r \in Foreign(s, q) : s[r].kind = "halt" => r \in S
    /\ susp' = Clobbered(s, q, S)

\* The process the CPU leaves, if any, is suspended at place l.
Suspend(l) == IF me = Boot THEN susp ELSE [susp EXCEPT ![me] = l]

(***************************************************************************)
(* execute_with_terminal_num once verify_file has accepted the command and *)
(* a slot is free, up to its sti.  ps, tc: proc_state and t_curr when it   *)
(* is called; parent: curr then; k: who calls it; s: susp as the caller    *)
(* leaves it.  A command verify_file rejects, and a full table, change     *)
(* nothing in this module (they return to the caller).                     *)
(***************************************************************************)
execute(p, t, ps, tc, parent, k, s) ==
  LET frame == LocAt(pt.stk, pt.base, k) IN
  /\ get_pid(ps, p)
  /\ proc_state' = [ps EXCEPT ![p] = 1]
  /\ pcb' = [pcb EXCEPT ![p] = [p_pid |-> IF tc[t] = None THEN p ELSE parent,
                                terminal |-> t,
                                parent |-> frame]]
  /\ saved' = [saved EXCEPT ![p] = LocAt(p, 0, "init")]
  /\ t_curr' = [tc EXCEPT ![t] = p]
  /\ curr' = p
  /\ page' = p
  /\ active' = t
  /\ esp0' = [stk |-> p, base |-> 0]
  /\ pt' = frame
  /\ win' = << >>
  /\ me' = p
  /\ Clobber(s, p)

InUser == stop = "none" /\ win = << >> /\ pt.kind = "user"

\* kernel.c: entry() starts the first shell.
BootExecute ==
  /\ stop = "none" /\ pt.kind = "boot"
  /\ \E p \in Pid : execute(p, 0, proc_state, t_curr, curr, "iexec", susp)
  /\ UNCHANGED <<running, stop>>

\* System call execute of a valid program: the caller waits in execute's frame.
ExecuteSyscall ==
  /\ InUser
  /\ pt.base < MAX_DEPTH
  /\ \E p \in Pid : execute(p, pcb[curr].terminal, proc_state, t_curr, curr, "exec",
                            Suspend(LocAt(pt.stk, pt.base, "exec")))
  /\ UNCHANGED <<running, stop>>

\* The end of execute: iret to the new program's first instruction.
ExecuteIret ==
  /\ stop = "none" /\ win = << >> /\ pt.kind \in ExecKind
  /\ pt' = LocAt(esp0.stk, esp0.base, "user")
  /\ UNCHANGED <<proc_state, t_curr, pcb, saved, curr, page, active, running, esp0, win, me, susp, stop>>

\* Mutant: the parent's slot is freed in place of the caller's.
Freed_Parent(c) == [proc_state EXCEPT ![pcb[c].p_pid] = 0]

\* proc_state once c has halted.
Freed(c) == [proc_state EXCEPT ![c] = 0]

\* Mutant: the terminal table keeps the halted process.
Popped_Forgotten(c) == t_curr

\* t_curr once c has halted: its parent is on top of its terminal.
Popped(c) == [t_curr EXCEPT ![pcb[c].terminal] = pcb[c].p_pid]

\* Mutant: the program page of the halted process stays mapped.
ParentPage_Forgotten(c) == c

\* pid_page_map(par_pcb->pid).
ParentPage(c) == pcb[c].p_pid

\* tss.esp0 = parent_esp: kernel entries go under the parent's execute frame.
ParentEsp(c) == [stk |-> pcb[c].parent.stk, base |-> pcb[c].parent.base + 1]

(***************************************************************************)
(* halt up to its sti.  A process that is its own parent is replaced by a  *)
(* new shell in the slot get_pid finds; any other one hands the CPU to its *)
(* parent, whose program page is mapped and whose execute frame becomes    *)
(* the new tss.esp0.  If the parent is not waiting in that frame, the      *)
(* stack pointer is loaded with a place that holds no frame of it, and the *)
(* model stops there: stop = "halt".                                       *)
(***************************************************************************)
HaltRoot ==
  /\ InUser
  /\ pcb[curr].p_pid = curr
  /\ \E p \in Pid : execute(p, pcb[curr].terminal, Freed(curr), Popped(curr), curr,
                            "rexec", [susp EXCEPT ![curr] = NoLoc])
  /\ UNCHANGED <<running, stop>>

ParentWaits(c) ==
  /\ pcb[c].parent.kind = "exec"
  /\ Live(pcb[c].p_pid)
  /\ susp[pcb[c].p_pid] = pcb[c].parent

HaltChild ==
  /\ InUser
  /\ pcb[curr].p_pid # curr
  /\ proc_state' = Freed(curr)
  /\ t_curr' = Popped(curr)
  /\ curr' = pcb[curr].p_pid
  /\ page' = ParentPage(curr)
  /\ esp0' = ParentEsp(curr)
  /\ pt' = LocAt(pt.stk, pt.base, "halt")
  /\ me' = pcb[curr].p_pid
  /\ susp' = [susp EXCEPT ![pcb[curr].p_pid] = NoLoc]
  /\ stop' = IF ParentWaits(curr) THEN "none" ELSE "halt"
  /\ UNCHANGED <<pcb, saved, active, running, win>>

\* The end of halt: the parent's esp and ebp are loaded from the halted
\* process' PCB and its execute returns, in the kernel, to its own caller.
HaltReturn ==
  /\ stop = "none" /\ win = << >> /\ pt.kind = "halt"
  /\ pt' = LocAt(pcb[pt.stk].parent.stk, pcb[pt.stk].parent.base, "sys")
  /\ UNCHANGED <<proc_state, t_curr, pcb, saved, curr, page, active, running, esp0, win, me, susp, stop>>

\* The other system calls, as the scheduler sees them: time spent in the kernel.
SyscallEnter ==
  /\ InUser
  /\ pt' = LocAt(pt.stk, pt.base, "sys")
  /\ UNCHANGED <<proc_state, t_curr, pcb, saved, curr, page, active, running, esp0, win, me, susp, stop>>

SyscallLeave ==
  /\ stop = "none" /\ win = << >> /\ pt.kind = "sys"
  /\ pt' = LocAt(esp0.stk, esp0.base, "user")
  /\ UNCHANGED <<proc_state, t_curr, pcb, saved, curr, page, active, running, esp0, win, me, susp, stop>>

(***************************************************************************)
(* pit_int_handler.  While terminal 0 has no process the handler launches  *)
(* its shell itself (from the boot context, or from a shell that Alt+Fn    *)
(* launched during the boot).                                              *)
(***************************************************************************)
PitLaunch ==
  /\ stop = "none" /\ Len(win) <= MAX_NEST
  /\ t_curr[0] = None
  /\ \E p \in Pid : execute(p, 0, proc_state, t_curr, curr, "iexec", Suspend(pt))
  /\ UNCHANGED <<running, stop>>

\* Otherwise it selects the next terminal's process and enables interrupts.
PitSelect ==
  /\ stop = "none" /\ Len(win) <= MAX_NEST
  /\ t_curr[0] # None \/ Full(proc_state)
  /\ \E n \in Terminal :
       LET nxt == t_curr[n] IN
       /\ NextTerminal(pcb[curr].terminal, n)
       /\ page' = nxt
       /\ esp0' = [stk |-> nxt, base |-> 0]
       /\ curr' = nxt
       /\ active' = pcb[nxt].terminal
       /\ win' = Append(win, [cur |-> curr, nxt |-> nxt])
  /\ UNCHANGED <<proc_state, t_curr, pcb, saved, running, pt, me, susp, stop>>

\* Where the running code goes on once its interrupt returns.
Continue(l) == IF l.kind = "user" THEN LocAt(esp0.stk, esp0.base, "user") ELSE l

\* The frame of the handler that switches: the place the interrupt found the
\* CPU at, or one inside the timer handler that it interrupted.
HandlerFrame == IF Len(win) = 1 THEN pt ELSE LocAt(pt.stk, pt.base, "tick")
Newest == win[Len(win)]

\* The handler saves its frame and loads it again: it returns to what it interrupted.
PitSwitchSelf ==
  /\ stop = "none" /\ win # << >>
  /\ Newest.nxt = Newest.cur
  /\ saved' = [saved EXCEPT ![Newest.cur] = HandlerFrame]
  /\ win' = SubSeq(win, 1, Len(win) - 1)
  /\ pt' = IF Len(win) = 1 THEN Continue(pt) ELSE pt
  /\ UNCHANGED <<proc_state, t_curr, pcb, curr, page, active, running, esp0, me, susp, stop>>

(***************************************************************************)
(* It saves its frame in the PCB of the process it found in curr and loads *)
(* the one saved for the next process, which resumes that process only if  *)
(* it is the place where that process is suspended.                        *)
(***************************************************************************)
PitSwitchNext ==
  /\ stop = "none" /\ win # << >>
  /\ Newest.nxt # Newest.cur
  /\ saved' = [saved EXCEPT ![Newest.cur] = HandlerFrame]
  /\ IF saved[Newest.nxt] = Suspend(pt)[Newest.nxt]
       THEN /\ pt' = Continue(saved[Newest.nxt])
            /\ me' = Newest.nxt
            /\ win' = << >>
            /\ Clobber(Suspend(pt), Newest.nxt)
            /\ UNCHANGED stop
       ELSE /\ stop' = "tick"
            /\ UNCHANGED <<pt, me, win, susp>>
  /\ UNCHANGED <<proc_state, t_curr, pcb, curr, page, active, running, esp0>>

\* Mutant: the flag that the shell is running is not tested.
MayLaunch_Unflagged(t) == t # 0

\* terminal_2_running, terminal_3_running: the shell of t has not been launched.
MayLaunch(t) == t # 0 /\ ~running[t]

\* keyboard_handler: Alt+F2, Alt+F3 launch the shell of terminal t the first time
\* there is a free slot.  (What the keys show on the screen is module Screen's.)
AltFnLaunch(t) ==
  /\ stop = "none"
  /\ MayLaunch(t)
  /\ running' = [running EXCEPT ![t] = TRUE]
  /\ \E p \in Pid : execute(p, t, proc_state, t_curr, curr, "iexec", Suspend(pt))
  /\ UNCHANGED stop

\* A processor exception in user code: the handlers of idt.c execute cli and spin.
Exception ==
  /\ InUser
  /\ stop' = "exception"
  /\ UNCHANGED <<proc_state, t_curr, pcb, saved, curr, page, active, running, esp0, pt, win, me, susp>>

Tick == PitLaunch \/ PitSelect
PitSwitch == PitSwitchSelf \/ PitSwitchNext

Next ==
  \/ BootExecute \/ ExecuteSyscall \/ ExecuteIret
  \/ HaltRoot \/ HaltChild \/ HaltReturn
  \/ SyscallEnter \/ SyscallLeave
  \/ Tick \/ PitSwitch
  \/ \E t \in Terminal : AltFnLaunch(t)
  \/ Exception

Spec == Init /\ [][Next]_vars

(***************************************************************************)
(* Fairness: the timer ticks for ever while interrupts are enabled, and    *)
(* the CPU finishes the handler (its window is a few instructions long).   *)
(* Nothing is assumed of user programs, of halts or of the keyboard.       *)
(***************************************************************************)
FairSpec == Spec /\ WF_vars(Tick) /\ WF_vars(PitSwitch)

----------------------------------------------------------------------------
(* What the code promises.  A step that loads a stack pointer which is not *)
(* where the process is suspended leaves the C program's semantics; the    *)
(* invariants speak of the states before that.                             *)

\* Every variable stays in its range: tables, PCBs, places and ghosts.
TypeOK ==
  /\ proc_state \in [Pid -> {0, 1}]
  /\ t_curr \in [Terminal -> Pid \cup {None}]
  /\ pcb \in [Pid -> PCB]
  /\ saved \in [Pid -> Loc]
  /\ curr \in Pid /\ page \in Pid /\ active \in Terminal
  /\ running \in [Terminal -> BOOLEAN]
  /\ esp0 \in [stk : Pid, base : Nat]
  /\ pt \in Loc
  /\ win \in Seq([cur : Pid, nxt : Pid])
  /\ me \in Pid \cup {Boot}
  /\ susp \in [Pid -> Loc]
  /\ stop \in {"none", "tick", "halt", "exception"}

Booted == me # Boot
Top(p) == t_curr[pcb[p].terminal] = p
ChildOf(c, p) == Live(c) /\ pcb[c].parent.kind = "exec" /\ pcb[c].p_pid = p

\* t_curr names live processes of their own terminal, and the process in
\* curr is the one on top of its terminal, whatever execute, halt, the timer
\* and the keyboard did in which order (pcb_init, halt, pit_int_handler).
TopOfTerminal ==
  stop # "halt" =>
    /\ \A t \in Terminal : t_curr[t] # None => Live(t_curr[t]) /\ pcb[t_curr[t]].terminal = t
    /\ Booted => Live(curr) /\ Top(curr)

\* A program started by execute has a live parent, in the same terminal, below
\* the top, suspended in the very execute frame the child's halt will load,
\* and it is the only child of that parent (execute, halt).
WaitingChain ==
  stop # "halt" =>
    \A c, p \in Pid : ChildOf(c, p) =>
      /\ Live(p) /\ ~Top(p) /\ c # p
      /\ pcb[c].terminal = pcb[p].terminal
      /\ pcb[c].parent.stk = p
      /\ susp[p] = pcb[c].parent
      /\ \A d \in Pid : ChildOf(d, p) => d = c

\* Between any two actions, in the windows behind a tick's or execute's sti too,
\* the mapped program page, the active terminal and the stack of tss.esp0 are
\* those of the process in curr (execute, halt, pit_int_handler).
MachineFollowsCurr ==
  Booted /\ stop # "halt" =>
    /\ page = curr
    /\ active = pcb[curr].terminal
    /\ esp0.stk = curr

\* A terminal never has two bottom-most shells (one started by boot, by the
\* keyboard, by the timer or by halt in place of another one).
OneBottom ==
  stop # "halt" => \A p, q \in Pid :
    /\ Live(p) /\ Live(q) /\ pcb[p].terminal = pcb[q].terminal
    /\ pcb[p].parent.kind # "exec" /\ pcb[q].parent.kind # "exec"
    => p = q

\* A set of processes with the top of every terminal and, with a program, its parent.
FoundFromTop(S) ==
  /\ \A t \in Terminal : t_curr[t] # None => t_curr[t] \in S
  /\ \A c \in S : Live(c) /\ pcb[c].parent.kind = "exec" => pcb[c].p_pid \in S

\* No live process is stranded: each one is found from the top of a terminal
\* along p_pid, so successive halts come back to it.  That is, it is in every
\* set that has the tops and is closed under p_pid (execute, halt).
NoneStranded ==
  stop # "halt" => \A S \in SUBSET Pid : FoundFromTop(S) => \A p \in Pid : Live(p) => p \in S

(***************************************************************************)
(* The inductive invariant.  Beside the properties above it says who the   *)
(* CPU works for (me, win), where a terminal is still unused, and on whose *)
(* stack every context lies.                                               *)
(***************************************************************************)
\* entry() runs until the first execute, and before it no process exists.
BootInv ==
  /\ pt.kind = "boot" <=> me = Boot
  /\ me = Boot => /\ \A p \in Pid : ~Live(p)
                  /\ \A t \in Terminal : t_curr[t] = None
                  /\ win = << >>

\* A terminal without a process has none below the top either, and one whose
\* shell was never launched is empty.
UnusedInv ==
  /\ \A p \in Pid : Live(p) => t_curr[pcb[p].terminal] # None
  /\ \A t \in Terminal : t # 0 /\ ~running[t] => t_curr[t] = None

\* The ticks in their windows form a chain from the process the CPU works for to curr.
WinInv ==
  /\ Booted => Live(me) /\ Top(me)
  /\ Booted /\ win = << >> => me = curr
  /\ win # << >> => win[1].cur = me /\ curr = win[Len(win)].nxt
  /\ \A i \in 1 .. Len(win) :
       /\ Live(win[i].nxt) /\ Top(win[i].nxt)
       /\ i # 1 => win[i].cur = win[i - 1].nxt

\* Every context lies on the stack of the process it belongs to, but for a halt's.
PlaceInv ==
  /\ pt.kind \in {"user", "sys"} => pt.stk = me
  /\ pt.kind = "halt" => pcb[pt.stk].parent.stk = me
  /\ \A n \in Pid :
       /\ susp[n].kind # "boot"
       /\ susp[n].kind \in {"user", "sys"} => susp[n].stk = n
       /\ susp[n].kind = "halt" => pcb[susp[n].stk].parent.stk = n

IInv ==
  /\ TypeOK
  /\ TopOfTerminal /\ WaitingChain /\ MachineFollowsCurr /\ OneBottom
  /\ stop # "halt" => BootInv /\ UnusedInv /\ WinInv /\ PlaceInv

\* The PCB of a live process is given to another one only by its own halt:
\* get_pid never hands out a slot in use.
SlotsNotReused ==
  [][\A p \in Pid : Live(p) /\ p # curr =>
       /\ pcb'[p].terminal = pcb[p].terminal
       /\ pcb'[p].p_pid = pcb[p].p_pid
       /\ pcb'[p].parent = pcb[p].parent]_vars

\* Round robin: the process on top of every terminal gets the CPU again and
\* again, as long as the machine has not been stopped by an exception or by
\* a wrong stack pointer (pit_int_handler).
RoundRobin ==
  \A t \in Terminal :
    t_curr[t] # None ~> (stop # "none" \/ (win = << >> /\ me = t_curr[t]))

\* "Load in next process's ebp and esp to start running it" (timer.c:101): the
\* place a tick loads is the one where that process was suspended.
NoWildTick == stop # "tick"

\* Until a shell has been launched from the keyboard, every tick and every halt
\* loads a stack pointer at which the resumed process really waits, in the
\* windows after the sti of pit_int_handler, execute and halt too.
SoundUntilLaunch ==
  stop \in {"tick", "halt"} => \E t \in Terminal : running[t]

\* What makes it inductive: as long as terminal 0 is the only one in use, its
\* processes fill the lowest slots in the order they were started in, each the
\* parent of the next one, and every tick selects the process it interrupted.
OneStack ==
  (\A t \in Terminal : ~running[t]) =>
    /\ stop \notin {"tick", "halt"}
    /\ Booted => \A p \in Pid : Live(p) <=> p <= curr
    /\ \A p \in Pid : Live(p) =>
         /\ pcb[p].p_pid = IF p = 0 THEN 0 ELSE p - 1
         /\ pcb[p].parent.kind = "exec" <=> p # 0
    /\ \A i \in 1 .. Len(win) : win[i].nxt = win[i].cur
(***************************************************************************)
(* The stack of programs of every terminal: t_curr is its top, a program   *)
(* that execute started as a system call stands on its p_pid, and a shell  *)
(* that is not its own parent took the place of one in another slot.       *)
(***************************************************************************)
Under == [p \in {q \in Pid : Live(q)} |->
            IF pcb[p].parent.kind = "exec" THEN pcb[p].p_pid ELSE None]
Strays == {p \in Pid : Live(p) /\ pcb[p].parent.kind # "exec" /\ pcb[p].p_pid # p}

OnStacks == INSTANCE Stacks
  WITH top <- t_curr, under <- Under, strays <- Strays, run <- me, up <- stop = "none"

\* The tables, the scheduler and the keyboard implement stacks of programs: an
\* execute puts a program on the stack of its caller's terminal and on no other,
\* a halt goes back to the program that waits right under the one that ends, a
\* tick changes no stack, nested ticks and Alt+Fn inside of a window included,
\* and a halt goes wrong only for a shell in another slot than its predecessor
\* (execute, halt, pit_int_handler, keyboard_handler).
ImplementsStacks == OnStacks!Spec
============================================================================
