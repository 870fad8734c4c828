------------------------------ MODULE FileDesc ------------------------------
(***************************************************************************)
(* The file descriptor tables in the process control blocks: pcb_init,     *)
(* open, close, the checks of read and write, and the closing of files in  *)
(* halt (syscall.c).                                                       *)
(*                                                                         *)
(* The code keeps two marks for a descriptor: file_array[fd].flag, which   *)
(* read, close and halt test, and bitmap[fd], which open and write test.   *)
(* pcb_init resets the flags only, so a slot of the process table starts   *)
(* with the bitmap its previous process, or the memory at boot, left.      *)
(*                                                                         *)
(* A process that has executed another one waits for it; which of the      *)
(* processes that do not wait makes the next call is the scheduler's       *)
(* choice (module Processes).                                              *)
(***************************************************************************)
EXTENDS Integers

CONSTANTS
  PROC_NUM,    \* process slots (six in the code)
  FDESC_SIZE,  \* descriptors of a process (eight in the code)
  FLAG_WORD,   \* the word of the bitmap at file_array[FDESC_SIZE].flag (six in the code)
  MAX_FD,      \* bound: the largest number a program passes to close
  BOOT_WORDS   \* what a word of a bitmap may hold before its first use

MIN_FILES == 2

ASSUME TableAssumption ==
  /\ PROC_NUM \in Nat \ {0}
  /\ FDESC_SIZE \in Nat /\ FDESC_SIZE > MIN_FILES
  /\ FLAG_WORD \in MIN_FILES .. FDESC_SIZE - 1
  /\ MAX_FD \in Nat
  /\ BOOT_WORDS \subseteq {0, 1}

Pid == 0 .. PROC_NUM - 1
Fd == 0 .. FDESC_SIZE - 1
FileFd == MIN_FILES .. FDESC_SIZE - 1   \* the descriptors open gives out

VARIABLES
  proc_state,  \* proc_state[p] = 1: slot p is in use
  p_pid,       \* the parent, or the process itself at the bottom of a terminal
  flag,        \* file_array[fd].flag of each slot
  bitmap,      \* bitmap[fd] of each slot
  child,       \* the process each one waits for in execute, or itself
  held,        \* ghost: how often (0, 1, more) a program holds a descriptor
  beyond       \* ghost: the program has closed FDESC_SIZE

vars == <<proc_state, p_pid, flag, bitmap, child, held, beyond>>

Init ==
  /\ proc_state = [p \in Pid |-> 0]
  /\ p_pid = [p \in Pid |-> p]
  /\ flag = [p \in Pid |-> [fd \in Fd |-> 0]]
  /\ bitmap \in [Pid -> [Fd -> BOOT_WORDS]]
  /\ child = [p \in Pid |-> p]
  /\ held = [p \in Pid |-> [fd \in Fd |-> 0]]
  /\ beyond = [p \in Pid |-> FALSE]

Live(p) == proc_state[p] = 1
Calls(p) == Live(p) /\ child[p] = p

\* get_pid: the lowest slot not in use.
get_pid(ps, p) == ps[p] = 0 /\ \A q \in Pid : q < p => ps[q] = 1

\* pcb_init(pid): stdin and stdout are opened, the other flags reset.
FreshFlags == [fd \in Fd |-> IF fd < MIN_FILES THEN 1 ELSE 0]
FreshBitmap(b) == [b EXCEPT ![0] = 1, ![1] = 1]
NoneHeld == [fd \in Fd |-> 0]

\* Alt+Fn, boot or the timer starts a shell at the bottom of a terminal.
StartShell(p) ==
  /\ get_pid(proc_state, p)
  /\ proc_state' = [proc_state EXCEPT ![p] = 1]
  /\ p_pid' = [p_pid EXCEPT ![p] = p]
  /\ flag' = [flag EXCEPT ![p] = FreshFlags]
  /\ bitmap' = [bitmap EXCEPT ![p] = FreshBitmap(@)]
  /\ child' = [child EXCEPT ![p] = p]
  /\ held' = [held EXCEPT ![p] = NoneHeld]
  /\ beyond' = [beyond EXCEPT ![p] = FALSE]

\* Process c executes a program in slot p.
execute(c, p) ==
  /\ Calls(c)
  /\ get_pid(proc_state, p)
  /\ proc_state' = [proc_state EXCEPT ![p] = 1]
  /\ p_pid' = [p_pid EXCEPT ![p] = c]
  /\ flag' = [flag EXCEPT ![p] = FreshFlags]
  /\ bitmap' = [bitmap EXCEPT ![p] = FreshBitmap(@)]
  /\ child' = [child EXCEPT ![c] = p, ![p] = p]
  /\ held' = [held EXCEPT ![p] = NoneHeld]
  /\ beyond' = [beyond EXCEPT ![p] = FALSE]

\* Mutant: the first descriptor is given out without testing it.
Lowest_First(p, fd) == fd = MIN_FILES

\* open: the lowest descriptor whose bitmap word is 0; none: it returns -1.
Lowest(p, fd) == bitmap[p][fd] = 0 /\ \A g \in FileFd : g < fd => bitmap[p][g] = 1

\* open of a file that exists.
open(p) ==
  /\ Calls(p)
  /\ \E fd \in FileFd :
       /\ Lowest(p, fd)
       /\ bitmap' = [bitmap EXCEPT ![p][fd] = 1]
       /\ flag' = [flag EXCEPT ![p][fd] = 1]
       /\ held' = [held EXCEPT ![p][fd] = IF @ = 0 THEN 1 ELSE 2]
  /\ UNCHANGED <<proc_state, p_pid, child, beyond>>

(***************************************************************************)
(* close(fd) lets fd = FDESC_SIZE through.  file_array[FDESC_SIZE] is the  *)
(* memory of the bitmap, its flag one of the words; bitmap[FDESC_SIZE] is  *)
(* behind the PCB, at the foot of the kernel stack, where nothing is kept. *)
(***************************************************************************)
InRange(fd) == fd <= FDESC_SIZE /\ fd >= MIN_FILES

closeFd(p, fd) ==
  /\ Calls(p)
  /\ InRange(fd) /\ fd < FDESC_SIZE
  /\ flag[p][fd] # 0
  /\ flag' = [flag EXCEPT ![p][fd] = 0]
  /\ bitmap' = [bitmap EXCEPT ![p][fd] = 0]
  /\ held' = [held EXCEPT ![p][fd] = 0]
  /\ UNCHANGED <<proc_state, p_pid, child, beyond>>

closeBeyond(p, fd) ==
  /\ Calls(p)
  /\ InRange(fd) /\ fd = FDESC_SIZE
  /\ bitmap[p][FLAG_WORD] # 0
  /\ bitmap' = [bitmap EXCEPT ![p][FLAG_WORD] = 0]
  /\ beyond' = [beyond EXCEPT ![p] = TRUE]
  /\ UNCHANGED <<proc_state, p_pid, flag, child, held>>

close(p, fd) == closeFd(p, fd) \/ closeBeyond(p, fd)

\* Mutants: halt closes after it has made the parent the current process;
\* halt resets the flags and does not call close.
ClosedBits_Parent(p) ==
  [bitmap EXCEPT ![p_pid[p]] = [fd \in Fd |-> IF fd \in FileFd /\ flag[p][fd] = 1 THEN 0 ELSE @[fd]]]
ClosedBits_Skipped(p) == bitmap

\* halt: close(fd) for every descriptor whose flag is set.
ClosedBits(p) ==
  [bitmap EXCEPT ![p] = [fd \in Fd |-> IF fd \in FileFd /\ flag[p][fd] = 1 THEN 0 ELSE @[fd]]]

Reset(f, p) == [f EXCEPT ![p] = [fd \in Fd |-> 0]]

\* A process halts whose parent waits for it.  (A halt into a parent that does
\* not wait is outside this module: see HaltReturn of module Processes.)
haltChild(p) ==
  /\ Calls(p) /\ p_pid[p] # p
  /\ Live(p_pid[p]) /\ child[p_pid[p]] = p
  /\ proc_state' = [proc_state EXCEPT ![p] = 0]
  /\ flag' = Reset(flag, p)
  /\ bitmap' = ClosedBits(p)
  /\ child' = [child EXCEPT ![p_pid[p]] = p_pid[p]]
  /\ held' = Reset(held, p)
  /\ UNCHANGED <<p_pid, beyond>>

\* The bottom-most process halts: a new shell starts in the lowest free slot n
\* with the parent pcb_init gives it, the slot of the halted one.
haltRoot(p, n) ==
  LET freed == [proc_state EXCEPT ![p] = 0] IN
  /\ Calls(p) /\ p_pid[p] = p
  /\ get_pid(freed, n)
  /\ proc_state' = [freed EXCEPT ![n] = 1]
  /\ p_pid' = [p_pid EXCEPT ![n] = p]
  /\ flag' = [Reset(flag, p) EXCEPT ![n] = FreshFlags]
  /\ bitmap' = [ClosedBits(p) EXCEPT ![n] = FreshBitmap(@)]
  /\ child' = [child EXCEPT ![n] = n]
  /\ held' = [Reset(held, p) EXCEPT ![n] = NoneHeld]
  /\ beyond' = [beyond EXCEPT ![n] = FALSE]

Next ==
  \E p \in Pid :
    \/ StartShell(p)
    \/ \E c \in Pid : execute(c, p)
    \/ open(p)
    \/ \E fd \in 0 .. MAX_FD : close(p, fd)
    \/ haltChild(p)
    \/ \E n \in Pid : haltRoot(p, n)

Spec == Init /\ [][Next]_vars

\* The checks of read and of write on a descriptor in range.
ReadAllowed(p, fd) == flag[p][fd] # 0
WriteAllowed(p, fd) == bitmap[p][fd] # 0

----------------------------------------------------------------------------

\* Every variable stays in its range.
TypeOK ==
  /\ proc_state \in [Pid -> {0, 1}]
  /\ p_pid \in [Pid -> Pid]
  /\ flag \in [Pid -> [Fd -> {0, 1}]]
  /\ bitmap \in [Pid -> [Fd -> {0, 1}]]
  /\ child \in [Pid -> Pid]
  /\ held \in [Pid -> [Fd -> 0 .. 2]]
  /\ beyond \in [Pid -> BOOLEAN]

\* "Ensure file to write to has been opened" (syscall.c:416): a descriptor
\* that write lets through is one that read and close know as open too.
WriteNeedsOpen ==
  \A p \in Pid, fd \in FileFd : Live(p) /\ WriteAllowed(p, fd) => ReadAllowed(p, fd)

\* A process that ends leaves all the descriptors of its slot free for the
\* next one, although pcb_init does not reset the bitmap (halt, pcb_init).
CleanSlot ==
  \A p \in Pid, fd \in FileFd : ~Live(p) => bitmap[p][fd] = 0

\* The kernel's two marks and the program agree: for a program that has not
\* closed FDESC_SIZE itself, whatever the others do, a descriptor is readable
\* and writable exactly when the program holds it, and it holds it once.  So
\* open fails only when the program holds every descriptor, and a parent
\* finds its files open when its child has halted (open, close, halt).
HeldIsOpen ==
  \A p \in Pid, fd \in FileFd : Live(p) /\ ~beyond[p] =>
    /\ held[p][fd] > 0 <=> ReadAllowed(p, fd)
    /\ held[p][fd] > 0 <=> WriteAllowed(p, fd)
    /\ held[p][fd] <= 1
============================================================================
