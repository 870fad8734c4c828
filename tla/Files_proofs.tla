--------------------------- MODULE Files_proofs ---------------------------
(***************************************************************************)
(* Proofs about the calls on files.  Of FileDesc and SysErr, for every     *)
(* number of slots and of descriptors (Clean, HeldIsOpen and SysErrPasses  *)
(* need that the memory of the bitmaps is zero at boot); of Directory, for *)
(* any number of programs and entries and any length of names.             *)
(***************************************************************************)
EXTENDS SysErr, Directory, FiniteSetTheorems, WellFoundedInduction, TLAPS

\* The part of the invariant that holds whatever programs pass to close.
Clean == WriteNeedsOpen /\ CleanSlot

\* The descriptors of files are descriptors, and neither stdin nor stdout.
LEMMA FdFacts ==
  /\ FileFd \subseteq Fd /\ 0 \in Fd /\ 1 \in Fd /\ FLAG_WORD \in FileFd
  /\ \A fd \in FileFd : fd # 0 /\ fd # 1 /\ ~(fd < MIN_FILES)
  BY TableAssumption DEF FileFd, Fd, MIN_FILES

\* What pcb_init makes of a descriptor table.
LEMMA FreshFacts ==
  ASSUME NEW b \in [Fd -> {0, 1}]
  PROVE  /\ FreshFlags \in [Fd -> {0, 1}]
         /\ FreshBitmap(b) \in [Fd -> {0, 1}]
         /\ NoneHeld \in [Fd -> 0 .. 2]
         /\ \A fd \in FileFd : FreshFlags[fd] = 0 /\ FreshBitmap(b)[fd] = b[fd] /\ NoneHeld[fd] = 0
  BY FdFacts DEF FreshFlags, FreshBitmap, NoneHeld

\* What halt makes of the tables: only those of the process that halts change.
LEMMA ClosedFacts ==
  ASSUME TypeOK, NEW p \in Pid
  PROVE  /\ ClosedBits(p) \in [Pid -> [Fd -> {0, 1}]]
         /\ Reset(flag, p) \in [Pid -> [Fd -> {0, 1}]]
         /\ Reset(held, p) \in [Pid -> [Fd -> 0 .. 2]]
         /\ \A q \in Pid : q # p => /\ ClosedBits(p)[q] = bitmap[q]
                                   /\ Reset(flag, p)[q] = flag[q]
                                   /\ Reset(held, p)[q] = held[q]
         /\ \A fd \in FileFd : /\ ClosedBits(p)[p][fd] = IF flag[p][fd] = 1 THEN 0 ELSE bitmap[p][fd]
                               /\ Reset(flag, p)[p][fd] = 0
                               /\ Reset(held, p)[p][fd] = 0
  <1>1. [fd \in Fd |-> IF fd \in FileFd /\ flag[p][fd] = 1 THEN 0 ELSE bitmap[p][fd]] \in [Fd -> {0, 1}]
    BY DEF TypeOK
  <1>2. [fd \in Fd |-> 0] \in [Fd -> {0, 1}] /\ [fd \in Fd |-> 0] \in [Fd -> 0 .. 2]
    OBVIOUS
  <1> QED BY <1>1, <1>2, FdFacts DEF ClosedBits, Reset, TypeOK

\* Every action keeps the types.
LEMMA TypeStep == TypeOK /\ [Next]_vars => TypeOK'
  <1> SUFFICES ASSUME TypeOK, [Next]_vars PROVE TypeOK'
    OBVIOUS
  <1>1. ASSUME NEW p \in Pid, StartShell(p) PROVE TypeOK'
    BY <1>1, FreshFacts DEF StartShell, TypeOK
  <1>2. ASSUME NEW p \in Pid, NEW c \in Pid, execute(c, p) PROVE TypeOK'
    BY <1>2, FreshFacts DEF execute, TypeOK
  <1>3. ASSUME NEW p \in Pid, open(p) PROVE TypeOK'
    BY <1>3, FdFacts DEF open, TypeOK
  <1>4. ASSUME NEW p \in Pid, NEW fd \in 0 .. MAX_FD, close(p, fd) PROVE TypeOK'
    <2>1. CASE closeFd(p, fd)
      <3>1. fd \in FileFd
        BY <2>1, TableAssumption DEF closeFd, InRange, FileFd, MIN_FILES
      <3> QED BY <2>1, <3>1, FdFacts DEF closeFd, TypeOK
    <2>2. CASE closeBeyond(p, fd)
      BY <2>2, FdFacts DEF closeBeyond, TypeOK
    <2> QED BY <1>4, <2>1, <2>2 DEF close
  <1>5. ASSUME NEW p \in Pid, haltChild(p) PROVE TypeOK'
    BY <1>5, ClosedFacts DEF haltChild, TypeOK
  <1>6. ASSUME NEW p \in Pid, NEW n \in Pid, haltRoot(p, n) PROVE TypeOK'
    <2> DEFINE cb == ClosedBits(p)[n]
    <2>1. cb \in [Fd -> {0, 1}]
      BY ClosedFacts
    <2>2. /\ FreshFlags \in [Fd -> {0, 1}] /\ FreshBitmap(cb) \in [Fd -> {0, 1}]
          /\ NoneHeld \in [Fd -> 0 .. 2]
      BY <2>1, FreshFacts
    <2>3. proc_state' \in [Pid -> {0, 1}] /\ p_pid' \in [Pid -> Pid] /\ child' \in [Pid -> Pid]
      BY <1>6 DEF haltRoot, TypeOK
    <2>4. /\ flag' \in [Pid -> [Fd -> {0, 1}]] /\ held' \in [Pid -> [Fd -> 0 .. 2]]
          /\ bitmap' \in [Pid -> [Fd -> {0, 1}]]
      BY <1>6, <2>2, ClosedFacts DEF haltRoot
    <2>5. beyond' \in [Pid -> BOOLEAN]
      BY <1>6 DEF haltRoot, TypeOK
    <2> QED BY <2>3, <2>4, <2>5 DEF TypeOK
  <1>7. CASE UNCHANGED vars
    BY <1>7 DEF vars, TypeOK
  <1> QED BY <1>1, <1>2, <1>3, <1>4, <1>5, <1>6, <1>7 DEF Next

\* Type correctness of the descriptor tables.
THEOREM TypeCorrect == Spec => []TypeOK
  <1>1. Init => TypeOK
    <2> SUFFICES ASSUME Init PROVE TypeOK
      OBVIOUS
    <2>1. \A p \in Pid : bitmap[p] \in [Fd -> {0, 1}]
      BY TableAssumption DEF Init
    <2>2. bitmap \in [Pid -> [Fd -> {0, 1}]]
      BY <2>1 DEF Init
    <2> QED BY <2>2 DEF Init, TypeOK
  <1> QED BY <1>1, TypeStep, PTL DEF Spec

\* Every action keeps a slot's bitmap below its flags, and empty when free.
LEMMA CleanStep == TypeOK /\ Clean /\ [Next]_vars => Clean'
  <1> SUFFICES ASSUME TypeOK, Clean, [Next]_vars PROVE Clean'
    OBVIOUS
  <1> USE DEF Clean, WriteNeedsOpen, CleanSlot, WriteAllowed, ReadAllowed, Live
  <1>1. ASSUME NEW p \in Pid, StartShell(p) PROVE Clean'
    BY <1>1, FdFacts DEF StartShell, TypeOK, FreshFlags, FreshBitmap, get_pid
  <1>2. ASSUME NEW p \in Pid, NEW c \in Pid, execute(c, p) PROVE Clean'
    BY <1>2, FdFacts DEF execute, TypeOK, FreshFlags, FreshBitmap, get_pid
  <1>3. ASSUME NEW p \in Pid, open(p) PROVE Clean'
    BY <1>3, FdFacts DEF open, TypeOK, Calls
  <1>4. ASSUME NEW p \in Pid, NEW fd \in 0 .. MAX_FD, close(p, fd) PROVE Clean'
    <2>1. CASE closeFd(p, fd)
      <3>1. fd \in FileFd
        BY <2>1, TableAssumption DEF closeFd, InRange, FileFd, MIN_FILES
      <3> QED BY <2>1, <3>1, FdFacts DEF closeFd, TypeOK
    <2>2. CASE closeBeyond(p, fd)
      BY <2>2, FdFacts DEF closeBeyond, TypeOK
    <2> QED BY <1>4, <2>1, <2>2 DEF close
  <1>5. ASSUME NEW p \in Pid, haltChild(p) PROVE Clean'
    BY <1>5, FdFacts DEF haltChild, TypeOK, Calls, Reset, ClosedBits
  <1>6. ASSUME NEW p \in Pid, NEW n \in Pid, haltRoot(p, n) PROVE Clean'
    <2> DEFINE cb == ClosedBits(p)
    <2>a. /\ cb \in [Pid -> [Fd -> {0, 1}]]
          /\ \A q \in Pid : q # p => cb[q] = bitmap[q]
          /\ \A fd \in FileFd : cb[p][fd] = 0
      BY <1>6, ClosedFacts, FdFacts DEF haltRoot, Calls, TypeOK
    <2>b. \A fd \in FileFd : cb[n][fd] = 0
      BY <1>6, <2>a DEF haltRoot, get_pid, TypeOK
    <2>c. \A fd \in FileFd : bitmap'[n][fd] = 0
      BY <1>6, <2>a, <2>b, FreshFacts DEF haltRoot
    <2>d. \A q \in Pid : q # n => bitmap'[q] = cb[q]
      BY <1>6, <2>a DEF haltRoot
    <2>1. ASSUME NEW q \in Pid, NEW fd \in FileFd, proc_state'[q] # 1
          PROVE  bitmap'[q][fd] = 0
      <3>1. CASE q = n
        BY <2>c, <3>1
      <3>2. CASE q # n /\ q = p
        BY <2>a, <2>d, <3>2
      <3>3. CASE q # n /\ q # p
        <4>1. proc_state[q] # 1
          BY <1>6, <2>1, <3>3 DEF haltRoot, TypeOK
        <4> QED BY <4>1, <2>a, <2>d, <3>3
      <3> QED BY <3>1, <3>2, <3>3
    <2>2. ASSUME NEW q \in Pid, NEW fd \in FileFd, proc_state'[q] = 1, bitmap'[q][fd] # 0
          PROVE  flag'[q][fd] # 0
      <3>1. CASE q = n
        BY <2>2, <3>1, <2>c
      <3>2. CASE q # n
        <4>1. q # p
          BY <2>2, <3>2, <2>a, <2>d
        <4>2. bitmap'[q] = bitmap[q] /\ flag'[q] = flag[q] /\ proc_state[q] = 1
          BY <1>6, <2>2, <3>2, <4>1, <2>a, <2>d, ClosedFacts DEF haltRoot, TypeOK
        <4> QED BY <2>2, <4>2
      <3> QED BY <3>1, <3>2
    <2> QED BY <2>1, <2>2
  <1>7. CASE UNCHANGED vars
    BY <1>7 DEF vars
  <1> QED BY <1>1, <1>2, <1>3, <1>4, <1>5, <1>6, <1>7 DEF Next

\* With memory that is zero at boot, and whatever programs pass to close, a
\* descriptor that write accepts is open, and a process that ends leaves no
\* descriptor of its slot taken.
THEOREM CleanCorrect ==
  ASSUME BOOT_WORDS = {0}
  PROVE  Spec => [](WriteNeedsOpen /\ CleanSlot)
  <1>1. Init => TypeOK /\ Clean
    BY TableAssumption, FdFacts DEF Init, TypeOK, Clean, WriteNeedsOpen, CleanSlot, Live
  <1>2. Clean <=> WriteNeedsOpen /\ CleanSlot
    BY DEF Clean
  <1> QED BY <1>1, <1>2, TypeStep, CleanStep, PTL DEF Spec

\* Every action keeps the program's view and the kernel's two marks equal.
LEMMA AgreeStep == TypeOK /\ Clean /\ HeldIsOpen /\ [Next]_vars => HeldIsOpen'
  <1> SUFFICES ASSUME TypeOK, Clean, HeldIsOpen, [Next]_vars PROVE HeldIsOpen'
    OBVIOUS
  <1> USE DEF HeldIsOpen, WriteAllowed, ReadAllowed, Live
  <1>1. ASSUME NEW p \in Pid, StartShell(p) PROVE HeldIsOpen'
    BY <1>1, FdFacts DEF StartShell, TypeOK, FreshFlags, FreshBitmap, NoneHeld, get_pid, Clean, CleanSlot
  <1>2. ASSUME NEW p \in Pid, NEW c \in Pid, execute(c, p) PROVE HeldIsOpen'
    BY <1>2, FdFacts DEF execute, TypeOK, FreshFlags, FreshBitmap, NoneHeld, get_pid, Clean, CleanSlot
  <1>3. ASSUME NEW p \in Pid, open(p) PROVE HeldIsOpen'
    BY <1>3, FdFacts DEF open, TypeOK, Calls, Lowest
  <1>4. ASSUME NEW p \in Pid, NEW fd \in 0 .. MAX_FD, close(p, fd) PROVE HeldIsOpen'
    <2>1. CASE closeFd(p, fd)
      <3>1. fd \in FileFd
        BY <2>1, TableAssumption DEF closeFd, InRange, FileFd, MIN_FILES
      <3> QED BY <2>1, <3>1, FdFacts DEF closeFd, TypeOK
    <2>2. CASE closeBeyond(p, fd)
      BY <2>2, FdFacts DEF closeBeyond, TypeOK
    <2> QED BY <1>4, <2>1, <2>2 DEF close
  <1>5. ASSUME NEW p \in Pid, haltChild(p) PROVE HeldIsOpen'
    BY <1>5, FdFacts DEF haltChild, TypeOK, Calls, Reset, ClosedBits
  <1>6. ASSUME NEW p \in Pid, NEW n \in Pid, haltRoot(p, n) PROVE HeldIsOpen'
    <2>1. ASSUME NEW q \in Pid, NEW fd \in FileFd, q = n
          PROVE  flag'[q][fd] = 0 /\ bitmap'[q][fd] = 0 /\ held'[q][fd] = 0
      <3>1. ClosedBits(p) \in [Pid -> [Fd -> {0, 1}]] /\ ClosedBits(p)[n] \in [Fd -> {0, 1}]
        BY ClosedFacts
      <3>2. ClosedBits(p)[n][fd] = 0
        <4>1. CASE n = p
          BY <1>6, <4>1, ClosedFacts, FdFacts DEF haltRoot, Calls, TypeOK, Clean, WriteNeedsOpen
        <4>2. CASE n # p
          BY <1>6, <4>2, ClosedFacts DEF haltRoot, get_pid, TypeOK, Clean, CleanSlot
        <4> QED BY <4>1, <4>2
      <3>3. FreshBitmap(ClosedBits(p)[n])[fd] = 0 /\ FreshFlags[fd] = 0 /\ NoneHeld[fd] = 0
        BY <3>1, <3>2, FreshFacts
      <3>4. bitmap'[n] = FreshBitmap(ClosedBits(p)[n])
        BY <1>6, <3>1 DEF haltRoot
      <3>5. flag'[n] = FreshFlags /\ held'[n] = NoneHeld
        BY <1>6, ClosedFacts DEF haltRoot
      <3> QED BY <2>1, <3>3, <3>4, <3>5
    <2>2. ASSUME NEW q \in Pid, NEW fd \in FileFd, q = p, q # n
          PROVE  proc_state'[q] = 0 /\ held'[q][fd] = 0
      BY <1>6, <2>2, FdFacts DEF haltRoot, TypeOK, Reset
    <2>3. ASSUME NEW q \in Pid, NEW fd \in FileFd, q # p, q # n
          PROVE  /\ flag'[q] = flag[q] /\ bitmap'[q] = bitmap[q] /\ held'[q] = held[q]
                 /\ proc_state'[q] = proc_state[q] /\ beyond'[q] = beyond[q]
      BY <1>6, <2>3 DEF haltRoot, TypeOK, Reset, ClosedBits
    <2> QED BY <2>1, <2>2, <2>3
  <1>7. CASE UNCHANGED vars
    BY <1>7 DEF vars
  <1> QED BY <1>1, <1>2, <1>3, <1>4, <1>5, <1>6, <1>7 DEF Next

\* With memory that is zero at boot, a program that has not closed FDESC_SIZE
\* itself holds exactly the descriptors the kernel takes for open, once each,
\* whatever the programs in the other slots, and before it in its own, did.
THEOREM AgreeCorrect ==
  ASSUME BOOT_WORDS = {0}
  PROVE  Spec => []HeldIsOpen
  <1>1. Init => TypeOK /\ Clean /\ HeldIsOpen
    BY TableAssumption, FdFacts
       DEF Init, TypeOK, Clean, WriteNeedsOpen, CleanSlot, HeldIsOpen, Live
  <1> QED BY <1>1, TypeStep, CleanStep, AgreeStep, PTL DEF Spec

----------------------------------------------------------------------------
\* A process that has opened nothing: its files' flags and bitmap words are 0.
LEMMA NothingOpen ==
  ASSUME TypeOK, HeldIsOpen, NEW p \in Pid, Live(p), ~beyond[p], held[p] = NoneHeld
  PROVE  /\ \A fd \in FileFd : flag[p][fd] = 0 /\ bitmap[p][fd] = 0
         /\ FreeFds(Table(p)) = FileFd
<1>1. ASSUME NEW fd \in FileFd PROVE flag[p][fd] = 0 /\ bitmap[p][fd] = 0
  <2>1. fd \in Fd /\ held[p][fd] = 0
    BY FdFacts DEF NoneHeld
  <2>2. ~ReadAllowed(p, fd) /\ ~WriteAllowed(p, fd)
    BY <2>1 DEF HeldIsOpen
  <2> QED BY <2>2 DEF ReadAllowed, WriteAllowed
<1> QED BY <1>1 DEF FreeFds, Table

\* What err_open_lots leaves of such a table: the same marks for every file.
LEMMA LotsFacts ==
  ASSUME NEW t, FreeFds(t) = FileFd
  PROVE  \A fd \in FileFd : AfterLots(t).flag[fd] = 0 /\ AfterLots(t).bitmap[fd] = 0
  BY FdFacts DEF AfterLots

\* The number of descriptors that open can give out.
LEMMA FileFdCount == Cardinality(FileFd) = FDESC_SIZE - 2
<1>1. FDESC_SIZE - 1 \in Int /\ 2 \in Int /\ 2 <= FDESC_SIZE - 1
  BY TableAssumption DEF MIN_FILES
<1>2. Cardinality(2 .. FDESC_SIZE - 1) = FDESC_SIZE - 1 - 2 + 1
  BY <1>1, FS_Interval
<1>3. FDESC_SIZE - 1 - 2 + 1 = FDESC_SIZE - 2
  BY TableAssumption
<1> QED BY <1>2, <1>3 DEF FileFd, MIN_FILES

\* With memory that is zero at boot, every test of ece391syserr.c passes whenever
\* a process runs it that has opened nothing, for any number of slots and of
\* descriptors up to BIG_FD.
THEOREM SysErrCorrect ==
  ASSUME BOOT_WORDS = {0}, FDESC_SIZE <= BIG
  PROVE  Spec => []SysErrPasses
<1>1. ASSUME TypeOK, HeldIsOpen PROVE SysErrPasses
  <2> SUFFICES ASSUME NEW p \in Pid, Live(p), ~beyond[p], held[p] = NoneHeld
               PROVE  AllTests(Table(p))
    BY DEF SysErrPasses
  <2> DEFINE t == Table(p)
             u == AfterLots(t)
  <2>0. FDESC_SIZE \in Nat /\ FDESC_SIZE > 2 /\ BIG \in Nat
    BY TableAssumption DEF MIN_FILES, BIG
  <2>1. FreeFds(t) = FileFd
    BY <1>1, NothingOpen
  <2>2. \A fd \in FileFd : u.flag[fd] = 0 /\ u.bitmap[fd] = 0
    BY <2>1, LotsFacts
  <2> HIDE DEF t, u
  <2>3. err_neg_fd(t) /\ err_big_fd(t)
    <3>1. OutOfTable(-BIG) /\ OutOfTable(BIG)
      BY <2>0 DEF OutOfTable
    <3>2. ~InRange(-BIG) /\ (InRange(BIG) => BIG = FDESC_SIZE)
      BY <2>0 DEF InRange, MIN_FILES
    <3>3. t.bitmap[FLAG_WORD] = 0
      BY <1>1, NothingOpen, FdFacts DEF t, Table
    <3> QED
      BY <2>0, <3>1, <3>2, <3>3
      DEF err_neg_fd, err_big_fd, ReadFails, WriteFails, CloseFails
  <2>4. err_open_lots(t)
    BY <2>0, <2>1, FileFdCount DEF err_open_lots
  <2>5. err_unopened(u)
    <3>1. ASSUME NEW fd \in Fd PROVE CloseFails(u, fd)
      BY <2>0, <2>2 DEF CloseFails, InRange, Fd, FileFd, MIN_FILES
    <3> QED
      BY <2>2, <3>1 DEF err_unopened, ReadFails, WriteFails
  <2>6. err_vidmap /\ err_stdin_out(u) /\ err_syscall_num
    BY <2>0 DEF err_vidmap, err_stdin_out, err_syscall_num, VidmapFails, WriteFails, ReadFails,
                CallFails, SYSCALL_NUM, BIG
  <2> QED
    BY <2>3, <2>4, <2>5, <2>6 DEF AllTests, t, u
<1> QED BY <1>1, TypeCorrect, AgreeCorrect, PTL

----------------------------------------------------------------------------
\* Directory.

\* A program that reads alone is the only one that reads.
LEMMA AloneIsOnly ==
  ASSUME IInv, NEW p \in Procs, NEW q \in Procs, q # p,
         pc[p] \in Reading, alone[q]
  PROVE  pc[q] = "idle"
  BY DEF IInv, DirTypeOK, AloneInv, Others

LEMMA InitIInv == DirInit => IInv
  BY DirectoryAssumption DEF DirInit, IInv, DirTypeOK, SoloExact, AloneInv, Reading, Int32

LEMMA OpenStep ==
  ASSUME IInv, NEW p \in Procs, OpenDir(p)
  PROVE  IInv'
<1>1. DirTypeOK'
  <2>1. alone' \in [Procs -> BOOLEAN]
    BY ZenonT(30) DEF IInv, DirTypeOK, OpenDir
  <2>2. read_dir_index' \in Int32
    BY DirectoryAssumption DEF IInv, DirTypeOK, OpenDir, OpenedIndex, Int32
  <2>3. got' \in [Procs -> Seq(Entry)]
    BY DEF IInv, DirTypeOK, OpenDir
  <2> QED
    BY <2>1, <2>2, <2>3 DEF IInv, DirTypeOK, OpenDir, Reading
<1>2. SoloExact'
  BY DirectoryAssumption DEF IInv, DirTypeOK, SoloExact, OpenDir
<1>3. AloneInv'
  <2>1. ASSUME NEW q \in Procs, alone'[q], pc'[q] \in Reading
        PROVE  q = p /\ Others(p) = {}
    BY <2>1 DEF IInv, DirTypeOK, OpenDir, Reading
  <2>2. /\ pc'[p] = "check" /\ got'[p] = << >> /\ ret'[p] = "none"
        /\ read_dir_index' = 0
        /\ \A q \in Procs \ {p} : pc'[q] = pc[q]
    BY DEF IInv, DirTypeOK, OpenDir, OpenedIndex
  <2>3. Others(p) = {} => Others(p)' = {}
    BY <2>2 DEF Others
  <2> QED
    BY <2>1, <2>2, <2>3, DirectoryAssumption DEF AloneInv, Reading
<1> QED
  BY <1>1, <1>2, <1>3 DEF IInv

LEMMA EndsStep ==
  ASSUME IInv, NEW p \in Procs, pc[p] \in Reading,
         NEW r \in {"end", "fail"}, Ends(p, r),
         alone[p] => r = "end" /\ Len(got[p]) = num_dentry
  PROVE  IInv'
<1>1. DirTypeOK'
  BY DEF IInv, DirTypeOK, Ends, Reading
<1>2. SoloExact'
  BY DEF IInv, DirTypeOK, SoloExact, Ends
<1>3. AloneInv'
  BY DEF IInv, DirTypeOK, AloneInv, Ends, Others, Reading
<1> QED
  BY <1>1, <1>2, <1>3 DEF IInv

LEMMA CheckStep ==
  ASSUME IInv, NEW p \in Procs, ReadDirCheck(p)
  PROVE  IInv'
<1>0. pc[p] \in Reading
  BY DEF ReadDirCheck, Reading
<1>1. CASE read_dir_index > num_dentry /\ Ends(p, "fail")
  <2>1. ~alone[p]
    BY <1>0, <1>1, DirectoryAssumption DEF IInv, DirTypeOK, AloneInv, ReadDirCheck, Int32
  <2> QED
    BY <1>0, <1>1, <2>1, EndsStep
<1>2. CASE Goes(p, "lookup") /\ UNCHANGED <<read_dir_index, tmp, got>>
  <2>1. DirTypeOK'
    BY <1>2 DEF IInv, DirTypeOK, Goes, Reading
  <2>2. SoloExact'
    BY <1>2 DEF IInv, DirTypeOK, SoloExact, Goes
  <2>3. AloneInv'
    BY <1>0, <1>2 DEF IInv, DirTypeOK, AloneInv, Goes, Others, Reading, ReadDirCheck
  <2> QED
    BY <2>1, <2>2, <2>3 DEF IInv
<1> QED
  BY <1>1, <1>2 DEF ReadDirCheck

LEMMA LookupStep ==
  ASSUME IInv, NEW p \in Procs, ReadDirLookup(p)
  PROVE  IInv'
<1>0. pc[p] = "lookup" /\ pc[p] \in Reading
  BY DEF ReadDirLookup, Reading
<1>1. CASE ~Valid(read_dir_index) /\ Ends(p, "end")
  <2>1. alone[p] => Len(got[p]) = num_dentry
    BY <1>0, <1>1, DirectoryAssumption DEF IInv, DirTypeOK, AloneInv, Valid, Int32
  <2> QED
    BY <1>0, <1>1, <2>1, EndsStep
<1>2. CASE /\ Valid(read_dir_index) /\ Goes(p, "load")
           /\ got' = [got EXCEPT ![p] = Recorded(@, read_dir_index)]
           /\ UNCHANGED <<read_dir_index, tmp>>
  <2>1. /\ read_dir_index \in Entry /\ got[p] \in Seq(Entry)
        /\ got'[p] = Recorded(got[p], read_dir_index)
        /\ \A q \in Procs \ {p} : got'[q] = got[q] /\ pc'[q] = pc[q]
        /\ pc'[p] = "load"
    BY <1>2, DirectoryAssumption DEF IInv, DirTypeOK, Valid, Entry, Goes, Int32
  <2>2. Recorded(got[p], read_dir_index) \in Seq(Entry)
    BY <2>1 DEF Recorded
  <2>3. alone[p] =>
          /\ Len(got[p]) = read_dir_index /\ ret[p] = "none"
          /\ got'[p] = Append(got[p], read_dir_index)
    BY <1>0, <2>1, DirectoryAssumption DEF IInv, AloneInv, Recorded, Entry
  <2>4. DirTypeOK'
    BY <1>2, <2>2 DEF IInv, DirTypeOK, Goes, Reading
  <2>5. SoloExact'
    <3>1. ASSUME alone[p]
          PROVE  \A k \in 1 .. Len(got'[p]) : got'[p][k] = k - 1
      BY <2>1, <2>3, <3>1 DEF IInv, SoloExact
    <3>2. alone' = alone /\ ret' = ret
      BY <1>2 DEF Goes
    <3>3. ASSUME NEW q \in Procs \ {p}, alone[q]
          PROVE  /\ \A k \in 1 .. Len(got'[q]) : got'[q][k] = k - 1
                 /\ ret[q] = "end" => Len(got'[q]) = num_dentry
                 /\ ret[q] # "fail"
      BY <2>1, <3>3 DEF IInv, SoloExact
    <3> QED
      BY <2>3, <3>1, <3>2, <3>3 DEF SoloExact
  <2>6. AloneInv'
    <3>1. ASSUME NEW q \in Procs, alone[q], pc'[q] \in Reading, q # p
          PROVE  FALSE
      BY <1>0, <2>1, <3>1, AloneIsOnly DEF Reading
    <3>2. alone[p] =>
            /\ Len(got'[p]) = read_dir_index + 1 /\ Len(got'[p]) <= num_dentry
      BY <2>1, <2>3, DirectoryAssumption DEF Entry
    <3>3. alone[p] => Others(p)' = {}
      BY <1>0, <2>1 DEF IInv, AloneInv, Others
    <3> QED
      BY <1>2, <2>1, <2>3, <3>1, <3>2, <3>3, DirectoryAssumption
         DEF IInv, DirTypeOK, AloneInv, Goes
  <2> QED
    BY <2>4, <2>5, <2>6 DEF IInv
<1> QED
  BY <1>1, <1>2 DEF ReadDirLookup

LEMMA LoadStep ==
  ASSUME IInv, NEW p \in Procs, ReadDirLoad(p)
  PROVE  IInv'
<1>1. DirTypeOK'
  BY DEF IInv, DirTypeOK, ReadDirLoad, Goes, Reading
<1>2. SoloExact'
  BY DEF IInv, DirTypeOK, SoloExact, ReadDirLoad, Goes
<1>3. AloneInv'
  BY DEF IInv, DirTypeOK, AloneInv, ReadDirLoad, Goes, Others, Reading
<1> QED
  BY <1>1, <1>2, <1>3 DEF IInv

LEMMA StoreStep ==
  ASSUME IInv, NEW p \in Procs, ReadDirStore(p)
  PROVE  IInv'
<1>0. \A k \in Int32 : Advanced(k) \in Int32
  BY DirectoryAssumption DEF Advanced, Int32
<1>1. DirTypeOK'
  <2>1. read_dir_index' \in Int32 /\ 0 \in Int32
    BY <1>0, DirectoryAssumption DEF IInv, DirTypeOK, ReadDirStore, Int32
  <2> QED
    BY <2>1 DEF IInv, DirTypeOK, ReadDirStore, Goes, Reading
<1>2. SoloExact'
  BY DEF IInv, DirTypeOK, SoloExact, ReadDirStore, Goes
<1>3. AloneInv'
  <2>1. ASSUME NEW q \in Procs, alone[q], pc'[q] \in Reading, q # p
        PROVE  FALSE
    BY <2>1, AloneIsOnly DEF ReadDirStore, Goes, Reading, IInv, DirTypeOK
  <2>2. alone[p] => /\ read_dir_index' = Len(got[p]) /\ Others(p)' = {}
                    /\ ret[p] = "none" /\ Len(got[p]) <= num_dentry
    BY DirectoryAssumption
       DEF IInv, DirTypeOK, AloneInv, ReadDirStore, Goes, Others, Reading, Advanced, Int32
  <2> QED
    BY <2>1, <2>2 DEF IInv, DirTypeOK, AloneInv, ReadDirStore, Goes
<1> QED
  BY <1>1, <1>2, <1>3 DEF IInv

LEMMA NextIInv == IInv /\ [DirNext]_dirVars => IInv'
<1> SUFFICES ASSUME IInv, [DirNext]_dirVars PROVE IInv'
  OBVIOUS
<1>1. CASE UNCHANGED dirVars
  BY <1>1 DEF dirVars, IInv, DirTypeOK, SoloExact, AloneInv, Others
<1>2. ASSUME NEW p \in Procs, OpenDir(p) PROVE IInv'
  BY <1>2, OpenStep
<1>3. ASSUME NEW p \in Procs, Read(p) PROVE IInv'
  BY <1>3, CheckStep, LookupStep, LoadStep, StoreStep DEF Read
<1> QED
  BY <1>1, <1>2, <1>3 DEF DirNext

\* No listing, however many overlap, delivers an entry out of the table.
THEOREM DirTypeCorrect == DirSpec => []DirTypeOK
<1>1. IInv => DirTypeOK
  BY DEF IInv
<1> QED
  BY <1>1, InitIInv, NextIInv, PTL DEF DirSpec

\* A listing that no other one overlaps delivers every entry once, in order,
\* for any number of entries, of programs and of earlier listings.
THEOREM SoloCorrect == DirSpec => []SoloExact
<1>1. IInv => SoloExact
  BY DEF IInv
<1> QED
  BY <1>1, InitIInv, NextIInv, PTL DEF DirSpec

\* Every set of natural numbers that is not empty has a least element.
LEMMA LeastNatural ==
  ASSUME NEW T, T \subseteq Nat, T # {}
  PROVE  \E m \in T : \A k \in T : m <= k
<1> DEFINE R == {ss \in Nat \X Nat : ss[1] < ss[2]}
<1>1. IsWellFoundedOn(R, Nat)
  BY NatLessThanWellFounded DEF OpToRel
<1>2. \A x, y \in Nat : <<y, x>> \in R <=> y < x
  OBVIOUS
<1> HIDE DEF R
<1>3. PICK m \in T : \A y \in T : ~(<<y, m>> \in R)
  BY <1>1, WFMin
<1>4. ASSUME NEW k \in T PROVE m <= k
  <2>1. m \in Nat /\ k \in Nat
    OBVIOUS
  <2>2. ~(k < m)
    BY <1>2, <1>3, <2>1
  <2> QED BY <2>1, <2>2
<1> QED BY <1>4

\* strncmp finds no difference exactly when there is none in any of the bytes,
\* although it stops at the end of the string: behind its end both are 0.
LEMMA ComparesAll ==
  ASSUME NEW s \in Names, NEW f \in Fname
  PROVE  strncmp(s, f, FNAME_SIZE) <=> \A i \in 1 .. FNAME_SIZE : f[i] = StrByte(s, i)
<1>0. FNAME_SIZE \in Nat
  BY DirectoryAssumption
<1>1. /\ \A i, j \in 1 .. FNAME_SIZE : i < j /\ f[i] = 0 => f[j] = 0
      /\ \A i, j \in 1 .. FNAME_SIZE : i < j /\ StrByte(s, i) = 0 => StrByte(s, j) = 0
  <2>1. PICK n \in 0 .. FNAME_SIZE + 1 : s \in [1 .. n -> Char]
    BY DEF Names
  <2>2. Len(s) = n /\ n \in Nat
    BY <1>0, <2>1
  <2>3. \A i \in 1 .. FNAME_SIZE : StrByte(s, i) = 0 <=> i > n
    BY <1>0, <2>1, <2>2, DirectoryAssumption DEF StrByte
  <2> QED BY <1>0, <2>2, <2>3 DEF Fname
<1>2. ASSUME strncmp(s, f, FNAME_SIZE), NEW i \in 1 .. FNAME_SIZE, f[i] # StrByte(s, i)
      PROVE  FALSE
  <2> DEFINE T == {j \in 1 .. FNAME_SIZE : f[j] # StrByte(s, j)}
  <2>1. T \subseteq Nat /\ T # {}
    BY <1>0, <1>2
  <2>2. PICK m \in T : \A k \in T : m <= k
    BY <2>1, LeastNatural
  <2>3. \A j \in 1 .. m - 1 : StrByte(s, j) = f[j]
    BY <1>0, <2>2
  <2>4. \A j \in 1 .. m - 1 : f[j] # 0
    BY <1>0, <1>1, <2>2, <2>3
  <2> QED BY <1>0, <1>2, <2>2, <2>3, <2>4 DEF strncmp
<1> QED BY <1>2 DEF strncmp

\* Names with the same bytes are the same.
LEMMA SameName ==
  ASSUME NEW f \in Fname, NEW g \in Fname, \A i \in 1 .. FNAME_SIZE : f[i] = g[i]
  PROVE  f = g
<1> DEFINE S == 1 .. FNAME_SIZE
           T == Char \cup {0}
<1>1. f \in [S -> T] /\ g \in [S -> T] /\ \A i \in S : f[i] = g[i]
  BY DEF Fname
<1> HIDE DEF S, T
<1> QED BY <1>1

\* The names of the directory, which no program changes, stay distinct.
DistinctNames == dentry \in [Entry -> Fname] /\ \A i, j \in Entry : dentry[i] = dentry[j] => i = j

\* A name that fits entry e is found there, and only such a name.
LEMMA LookupFacts ==
  ASSUME DistinctNames
  PROVE  LookupExact
<1> SUFFICES ASSUME NEW s \in Names, NEW e \in Entry
             PROVE  read_dentry_by_name(s, e) <=>
                      \A i \in 1 .. FNAME_SIZE : dentry[e][i] = StrByte(s, i)
  BY DEF LookupExact
<1> DEFINE Fits(d) == \A i \in 1 .. FNAME_SIZE : dentry[d][i] = StrByte(s, i)
<1>1. \A d \in Entry : strncmp(s, dentry[d], Compared(s)) <=> Fits(d)
  BY ComparesAll DEF DistinctNames, Compared
<1>2. ASSUME NEW d \in Entry, Fits(d), Fits(e) PROVE d = e
  <2>1. dentry[d] \in Fname /\ dentry[e] \in Fname
    BY DEF DistinctNames
  <2>2. \A i \in 1 .. FNAME_SIZE : dentry[d][i] = dentry[e][i]
    BY <1>2
  <2>3. dentry[d] = dentry[e]
    BY <2>1, <2>2, SameName
  <2> QED BY <2>3 DEF DistinctNames
<1>3. \A d \in Entry : d < e => d # e
  BY DEF Entry
<1> QED BY <1>1, <1>2, <1>3 DEF read_dentry_by_name

\* In every state of the listings the look-up by name is exact: an entry is found
\* by its own name and by no prefix or extension of it, for any length of names.
THEOREM LookupCorrect == DirSpec => []LookupExact
<1>1. DirInit => DistinctNames
  BY DEF DirInit, DistinctNames
<1>2. DistinctNames /\ [DirNext]_dirVars => DistinctNames'
  BY DEF DistinctNames, DirNext, OpenDir, Read, ReadDirCheck, ReadDirLookup, ReadDirLoad,
         ReadDirStore, Ends, Goes, dirVars
<1> QED BY <1>1, <1>2, LookupFacts, PTL DEF DirSpec
============================================================================
