------------------------------- MODULE SysErr -------------------------------
(***************************************************************************)
(* The error tests of ece391syserr.c, run against the descriptor tables of *)
(* module FileDesc: what the system calls answer to descriptors and call   *)
(* numbers they have to refuse.  A test is a function of the table of the  *)
(* process that runs it; err_open is about names (module Directory).       *)
(***************************************************************************)
EXTENDS FileDesc, FiniteSets

BIG == 1073741823   \* BIG_FD, BIG_NUM; NEG_FD, NEG_NUM are its negatives
SYSCALL_NUM == 9
_4MB_ == 4194304

Table(p) == [flag |-> flag[p], bitmap |-> bitmap[p]]

\* When read, write and close return -1 (their buffer is never null here).
\* stdin and stdout have terminal_wrong for the other direction.
OutOfTable(fd) == fd >= FDESC_SIZE \/ fd < 0
ReadFails(t, fd) == OutOfTable(fd) \/ t.flag[fd] = 0 \/ fd = 1
WriteFails(t, fd) == OutOfTable(fd) \/ t.bitmap[fd] = 0 \/ fd = 0
CloseFails(t, fd) == ~InRange(fd) \/ (IF fd = FDESC_SIZE THEN t.bitmap[FLAG_WORD] ELSE t.flag[fd]) = 0

\* syscall_asm: the call number is compared as an unsigned number.
CallFails(n) == n < 0 \/ n >= SYSCALL_NUM \/ n = 0

\* vidmap refuses two addresses.
VidmapFails(addr) == addr \in {0, _4MB_}

err_neg_fd(t) == ReadFails(t, -BIG) /\ WriteFails(t, -BIG) /\ CloseFails(t, -BIG)
err_big_fd(t) == ReadFails(t, BIG) /\ WriteFails(t, BIG) /\ CloseFails(t, BIG)

\* One open more than there are descriptors: exactly one fails.
FreeFds(t) == {fd \in FileFd : t.bitmap[fd] = 0}
err_open_lots(t) == FDESC_SIZE - 1 - Cardinality(FreeFds(t)) = 1

\* The table it leaves: what was free has been opened, all of it is closed.
AfterLots(t) ==
  LET Open(fd) == fd \in FreeFds(t) \/ t.flag[fd] # 0
  IN [flag |-> [fd \in Fd |-> IF fd \in FileFd THEN 0 ELSE t.flag[fd]],
      bitmap |-> [fd \in Fd |-> IF fd \in FileFd /\ Open(fd) THEN 0 ELSE t.bitmap[fd]]]

err_unopened(t) ==
  /\ \A fd \in Fd : CloseFails(t, fd)
  /\ \A fd \in FileFd : ReadFails(t, fd) /\ WriteFails(t, fd)

err_vidmap == VidmapFails(0) /\ VidmapFails(_4MB_)
err_stdin_out(t) == WriteFails(t, 0) /\ ReadFails(t, 1)
err_syscall_num == CallFails(BIG) /\ CallFails(-BIG) /\ CallFails(0)

\* main, choice 0: the tests one after the other.
AllTests(t) ==
  /\ err_neg_fd(t) /\ err_big_fd(t) /\ err_open_lots(t)
  /\ err_unopened(AfterLots(t)) /\ err_vidmap
  /\ err_stdin_out(AfterLots(t)) /\ err_syscall_num

----------------------------------------------------------------------------

\* syserr prints "Overall Tests: PASS" whenever it is run by a process that has
\* opened nothing, in whichever slot of the process table and whatever the
\* programs before it, the other terminals and its own children did with their
\* descriptors: the tables it starts from are never left over (pcb_init, halt,
\* open, close, read, write, syscall_asm).
SysErrPasses ==
  \A p \in Pid : Live(p) /\ ~beyond[p] /\ held[p] = NoneHeld => AllTests(Table(p))
============================================================================
