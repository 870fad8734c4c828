-------------------------- MODULE Processes_proofs --------------------------
(***************************************************************************)
(* Proofs about module Processes, for any number of slots, terminals,      *)
(* nested execute frames and nested ticks.                                 *)
(***************************************************************************)
EXTENDS Processes, SequenceTheorems, TLAPS

\* There is a first slot and a first terminal.
LEMMA ZeroSlots == 0 \in Pid /\ 0 \in Terminal
  BY ConstantsAssumption DEF Pid, Terminal

\* The marks for no process and for the boot are no slots.
LEMMA NoneIsNoPid == None \notin Pid /\ Boot \notin Pid
  BY ConstantsAssumption DEF Pid, None, Boot

\* A sequence without its last element.
LEMMA FrontFacts ==
  ASSUME NEW S, NEW s \in Seq(S), s # << >>
  PROVE  /\ SubSeq(s, 1, Len(s) - 1) \in Seq(S)
         /\ Len(SubSeq(s, 1, Len(s) - 1)) = Len(s) - 1
         /\ \A i \in 1 .. Len(s) - 1 : SubSeq(s, 1, Len(s) - 1)[i] = s[i]
         /\ Len(s) \in Nat \ {0}
         /\ s[Len(s)] \in S
<1>1. Len(s) \in Nat /\ Len(s) > 0
  OBVIOUS
<1>2. s[Len(s)] \in S /\ \A i \in 1 .. Len(s) - 1 : s[i] \in S
  BY <1>1
<1>3. SubSeq(s, 1, Len(s) - 1) \in Seq(S)
  BY <1>1, <1>2, SubSeqProperties
<1>4. \A i \in 1 .. Len(s) - 1 : SubSeq(s, 1, Len(s) - 1)[i] = s[i]
  BY <1>1, <1>2, SubSeqProperties
<1>5. Len(SubSeq(s, 1, Len(s) - 1)) = Len(s) - 1
  <2> DEFINE n == Len(s) - 1
  <2>1. n \in Nat /\ \A i \in 1 .. n : s[i] \in S
    BY <1>1
  <2> HIDE DEF n
  <2>2. Len(SubSeq(s, 1, n)) = IF 1 <= n THEN n - 1 + 1 ELSE 0
    BY <2>1, SubSeqProperties
  <2>3. Len(SubSeq(s, 1, n)) = n
    BY <2>1, <2>2
  <2> QED
    BY <2>3 DEF n
<1> QED
  BY <1>1, <1>2, <1>3, <1>4, <1>5

\* What execute does to the variables stays in their ranges.
LEMMA ExecuteType ==
  ASSUME TypeOK, NEW p \in Pid, NEW t \in Terminal,
         NEW ps \in [Pid -> {0, 1}], NEW tc \in [Terminal -> Pid \cup {None}],
         NEW parent \in Pid, NEW k \in ExecKind, NEW s \in [Pid -> Loc],
         execute(p, t, ps, tc, parent, k, s),
         running' \in [Terminal -> BOOLEAN],
         stop' \in {"none", "tick", "halt", "exception"}
  PROVE  TypeOK'
<1>1. LocAt(pt.stk, pt.base, k) \in Loc /\ LocAt(p, 0, "init") \in Loc
  BY DEF TypeOK, Loc, LocAt, Kind, ExecKind
<1>2. pcb' \in [Pid -> PCB]
  BY <1>1 DEF TypeOK, PCB, execute
<1>3. susp' \in [Pid -> Loc] /\ saved' \in [Pid -> Loc]
  BY <1>1, ZeroSlots DEF TypeOK, execute, Clobber, Clobbered, NoLoc, LostLoc, Loc, LocAt, Kind
<1>4. win' \in Seq([cur : Pid, nxt : Pid])
  BY DEF execute
<1>5. esp0' \in [stk : Pid, base : Nat]
  BY DEF execute
<1>6. proc_state' \in [Pid -> {0, 1}] /\ t_curr' \in [Terminal -> Pid \cup {None}]
  BY DEF execute
<1> QED
  BY <1>1, <1>2, <1>3, <1>4, <1>5, <1>6 DEF TypeOK, execute

\* Suspending the running process keeps the places in range.
LEMMA SuspendType ==
  ASSUME TypeOK, NEW l \in Loc
  PROVE  Suspend(l) \in [Pid -> Loc]
BY DEF TypeOK, Suspend

\* Every action keeps the variables in their ranges.
LEMMA TypeStep == TypeOK /\ [Next]_vars => TypeOK'
<1> SUFFICES ASSUME TypeOK, [Next]_vars PROVE TypeOK'
  OBVIOUS
<1>0. /\ pt \in Loc /\ pcb[curr] \in PCB /\ NoLoc \in Loc
      /\ susp \in [Pid -> Loc] /\ t_curr \in [Terminal -> Pid \cup {None}]
      /\ proc_state \in [Pid -> {0, 1}] /\ curr \in Pid
      /\ pcb[curr].terminal \in Terminal /\ pcb[curr].p_pid \in Pid
      /\ running \in [Terminal -> BOOLEAN]
  BY ZeroSlots DEF TypeOK, PCB, NoLoc, LocAt, Loc, Kind
<1>1. CASE BootExecute
  BY <1>0, <1>1, ExecuteType, ZeroSlots DEF BootExecute, TypeOK, ExecKind
<1>2. CASE ExecuteSyscall
  <2>1. LocAt(pt.stk, pt.base, "exec") \in Loc
    BY <1>0 DEF Loc, LocAt, Kind, ExecKind
  <2> QED
    BY <1>0, <1>2, <2>1, ExecuteType, SuspendType DEF ExecuteSyscall, TypeOK, ExecKind
<1>3. CASE ExecuteIret
  BY <1>3 DEF ExecuteIret, TypeOK, Loc, LocAt, Kind
<1>4. CASE HaltRoot
  <2>1. Freed(curr) \in [Pid -> {0, 1}] /\ Popped(curr) \in [Terminal -> Pid \cup {None}]
    BY <1>0 DEF Freed, Popped
  <2>2. [susp EXCEPT ![curr] = NoLoc] \in [Pid -> Loc]
    BY <1>0
  <2> QED
    BY <1>0, <1>4, <2>1, <2>2, ExecuteType DEF HaltRoot, TypeOK, ExecKind
<1>5. CASE HaltChild
  <2>1. Freed(curr) \in [Pid -> {0, 1}] /\ Popped(curr) \in [Terminal -> Pid \cup {None}]
    BY <1>0 DEF Freed, Popped
  <2>2. LocAt(pt.stk, pt.base, "halt") \in Loc
    BY <1>0 DEF Loc, LocAt, Kind
  <2>3. ParentPage(curr) \in Pid /\ ParentEsp(curr) \in [stk : Pid, base : Nat]
    BY <1>0 DEF ParentPage, ParentEsp, PCB, Loc
  <2>4. [susp EXCEPT ![pcb[curr].p_pid] = NoLoc] \in [Pid -> Loc]
    BY <1>0
  <2> QED
    BY <1>0, <1>5, <2>1, <2>2, <2>3, <2>4 DEF HaltChild, TypeOK
<1>6. CASE HaltReturn
  BY <1>0, <1>6 DEF HaltReturn, TypeOK, Loc, LocAt, PCB, Kind
<1>7. CASE SyscallEnter
  BY <1>0, <1>7 DEF SyscallEnter, TypeOK, Loc, LocAt, Kind
<1>8. CASE SyscallLeave
  BY <1>0, <1>8 DEF SyscallLeave, TypeOK, Loc, LocAt, Kind
<1>9. CASE PitLaunch
  BY <1>0, <1>9, ExecuteType, SuspendType, ZeroSlots DEF PitLaunch, TypeOK, ExecKind
<1>10. CASE PitSelect
  <2>1. PICK n \in Terminal :
          /\ NextTerminal(pcb[curr].terminal, n)
          /\ page' = t_curr[n]
          /\ esp0' = [stk |-> t_curr[n], base |-> 0]
          /\ curr' = t_curr[n]
          /\ active' = pcb[t_curr[n]].terminal
          /\ win' = Append(win, [cur |-> curr, nxt |-> t_curr[n]])
    BY <1>10 DEF PitSelect
  <2>2. t_curr[n] \in Pid
    BY <1>0, <2>1 DEF NextTerminal
  <2>3. pcb[t_curr[n]].terminal \in Terminal
    BY <2>2 DEF TypeOK, PCB
  <2>4. win' \in Seq([cur : Pid, nxt : Pid])
    BY <1>0, <2>1, <2>2 DEF TypeOK
  <2> QED
    BY <1>10, <2>1, <2>2, <2>3, <2>4 DEF PitSelect, TypeOK
<1>11. CASE PitSwitchSelf
  <2>1. win' \in Seq([cur : Pid, nxt : Pid])
    BY <1>11, FrontFacts DEF PitSwitchSelf, TypeOK
  <2>2. HandlerFrame \in Loc /\ Continue(pt) \in Loc
    BY <1>0 DEF TypeOK, HandlerFrame, Continue, Loc, LocAt, Kind
  <2>3. saved' \in [Pid -> Loc]
    BY <1>11, <2>2 DEF PitSwitchSelf, TypeOK
  <2> QED
    BY <1>11, <2>1, <2>2, <2>3 DEF PitSwitchSelf, TypeOK
<1>12. CASE PitSwitchNext
  <2>1. Newest \in [cur : Pid, nxt : Pid]
    BY <1>12, FrontFacts DEF PitSwitchNext, TypeOK, Newest
  <2>2. HandlerFrame \in Loc /\ Continue(saved[Newest.nxt]) \in Loc
    BY <1>0, <2>1 DEF TypeOK, HandlerFrame, Continue, Loc, LocAt, Kind
  <2>3. saved' \in [Pid -> Loc]
    BY <1>12, <2>2 DEF PitSwitchNext, TypeOK
  <2>4. Suspend(pt) \in [Pid -> Loc]
    BY <1>0, SuspendType
  <2>5. susp' \in [Pid -> Loc]
    BY <1>0, <1>12, <2>1, <2>4, ZeroSlots
    DEF PitSwitchNext, Clobber, Clobbered, NoLoc, LostLoc, Loc, LocAt, Kind
  <2> QED
    <3>1. CASE saved[Newest.nxt] = Suspend(pt)[Newest.nxt]
      <4>1. win' \in Seq([cur : Pid, nxt : Pid])
        BY <1>12, <3>1 DEF PitSwitchNext
      <4> QED
        BY <1>12, <2>1, <2>2, <2>3, <2>5, <3>1, <4>1 DEF PitSwitchNext, TypeOK
    <3>2. CASE saved[Newest.nxt] # Suspend(pt)[Newest.nxt]
      BY <1>12, <2>3, <2>5, <3>2 DEF PitSwitchNext, TypeOK
    <3> QED
      BY <3>1, <3>2
<1>13. CASE \E t \in Terminal : AltFnLaunch(t)
  BY <1>0, <1>13, ExecuteType, SuspendType DEF AltFnLaunch, TypeOK, ExecKind
<1>14. CASE Exception
  BY <1>14 DEF Exception, TypeOK
<1>15. CASE UNCHANGED vars
  BY <1>15 DEF vars, TypeOK
<1> QED
  BY <1>1, <1>2, <1>3, <1>4, <1>5, <1>6, <1>7, <1>8, <1>9, <1>10, <1>11, <1>12, <1>13,
     <1>14, <1>15 DEF Next, Tick, PitSwitch

-----------------------------------------------------------------------------
\* Clobber touches nothing but q's entry and contexts of others on q's stack.
LEMMA ClobberFacts ==
  ASSUME NEW s \in [Pid -> Loc], NEW q \in Pid, Clobber(s, q)
  PROVE  /\ susp'[q] = NoLoc
         /\ \A r \in Pid \ {q} :
              /\ susp'[r] = s[r] \/ susp'[r] = LostLoc
              /\ s[r].stk # q => susp'[r] = s[r]
              /\ s[r].kind = "halt" /\ s[r].stk = q => susp'[r] = LostLoc
<1>1. PICK S \in SUBSET Foreign(s, q) :
        /\ \A r \in Foreign(s, q) : s[r].kind = "halt" => r \in S
        /\ susp' = Clobbered(s, q, S)
  BY DEF Clobber
<1> QED
  BY <1>1 DEF Foreign, Clobbered

\* The state after execute, field by field.
LEMMA ExecuteFacts ==
  ASSUME TypeOK, NEW p \in Pid, NEW t \in Terminal,
         NEW ps \in [Pid -> {0, 1}], NEW tc \in [Terminal -> Pid \cup {None}],
         NEW parent \in Pid, NEW k \in ExecKind, NEW s \in [Pid -> Loc],
         execute(p, t, ps, tc, parent, k, s)
  PROVE  /\ ps[p] = 0 /\ proc_state'[p] = 1
         /\ \A q \in Pid \ {p} : proc_state'[q] = ps[q] /\ pcb'[q] = pcb[q]
         /\ pcb'[p].p_pid = IF tc[t] = None THEN p ELSE parent
         /\ pcb'[p].terminal = t
         /\ pcb'[p].parent = LocAt(pt.stk, pt.base, k)
         /\ t_curr'[t] = p
         /\ \A u \in Terminal \ {t} : t_curr'[u] = tc[u]
         /\ curr' = p /\ page' = p /\ active' = t /\ me' = p
         /\ esp0'.stk = p
         /\ pt' = LocAt(pt.stk, pt.base, k)
         /\ win' = << >>
         /\ susp'[p] = NoLoc
         /\ \A r \in Pid \ {p} :
              /\ susp'[r] = s[r] \/ susp'[r] = LostLoc
              /\ s[r].stk # p => susp'[r] = s[r]
              /\ s[r].kind = "halt" /\ s[r].stk = p => susp'[r] = LostLoc
<1>1. Clobber(s, p)
  BY DEF execute
<1> QED
  BY <1>1, ClobberFacts DEF execute, TypeOK, get_pid

\* The part of PlaceInv that speaks of suspended processes, for any table s.
SuspOK(s) ==
  \A n \in Pid :
    /\ s[n].kind # "boot"
    /\ s[n].kind \in {"user", "sys"} => s[n].stk = n
    /\ s[n].kind = "halt" => pcb[s[n].stk].parent.stk = n

\* Suspending the running process keeps every context on its own stack.
LEMMA SuspendOK ==
  ASSUME TypeOK, BootInv, PlaceInv
  PROVE  SuspOK(Suspend(pt))
<1>1. CASE me = Boot
  BY <1>1 DEF Suspend, SuspOK, PlaceInv
<1>2. CASE me # Boot
  <2>1. me \in Pid /\ Suspend(pt) = [susp EXCEPT ![me] = pt]
    BY <1>2 DEF Suspend, TypeOK
  <2>2. pt.kind # "boot"
    BY <1>2 DEF BootInv
  <2> QED
    BY <2>1, <2>2 DEF SuspOK, PlaceInv, TypeOK
<1> QED
  BY <1>1, <1>2

\* execute keeps every context on its own stack.
LEMMA ExecutePlace ==
  ASSUME TypeOK, NEW p \in Pid, NEW t \in Terminal,
         NEW ps \in [Pid -> {0, 1}], NEW tc \in [Terminal -> Pid \cup {None}],
         NEW parent \in Pid, NEW k \in ExecKind, NEW s \in [Pid -> Loc],
         execute(p, t, ps, tc, parent, k, s), SuspOK(s)
  PROVE  PlaceInv'
<1>1. /\ pt' = LocAt(pt.stk, pt.base, k)
      /\ susp'[p] = NoLoc
      /\ \A q \in Pid \ {p} : pcb'[q] = pcb[q]
      /\ \A r \in Pid \ {p} :
           /\ susp'[r] = s[r] \/ susp'[r] = LostLoc
           /\ s[r].kind = "halt" /\ s[r].stk = p => susp'[r] = LostLoc
  BY ExecuteFacts
<1>2. pt'.kind \notin {"user", "sys", "halt"}
  BY <1>1 DEF LocAt, ExecKind
<1>3. ASSUME NEW n \in Pid
      PROVE  /\ susp'[n].kind # "boot"
             /\ susp'[n].kind \in {"user", "sys"} => susp'[n].stk = n
             /\ susp'[n].kind = "halt" => pcb'[susp'[n].stk].parent.stk = n
  <2>1. CASE n = p \/ susp'[n] = LostLoc
    BY <1>1, <2>1 DEF NoLoc, LostLoc, LocAt
  <2>2. CASE n # p /\ susp'[n] # LostLoc
    <3>1. susp'[n] = s[n] /\ s[n].stk \in Pid
      BY <1>1, <2>2 DEF Loc
    <3>2. s[n].kind = "halt" => s[n].stk # p
      BY <1>1, <2>2
    <3> QED
      BY <1>1, <3>1, <3>2 DEF SuspOK
  <2> QED
    BY <2>1, <2>2
<1> QED
  BY <1>2, <1>3 DEF PlaceInv

-----------------------------------------------------------------------------
\* A shell launched by boot, the timer or the keyboard in an unused terminal.
LEMMA LaunchStep ==
  ASSUME IInv, stop = "none", NEW p \in Pid, NEW t \in Terminal, t_curr[t] = None,
         execute(p, t, proc_state, t_curr, curr, "iexec", Suspend(pt)),
         stop' = stop, running' \in [Terminal -> BOOLEAN],
         \A u \in Terminal : u # 0 /\ ~running'[u] => ~running[u] /\ u # t
  PROVE  IInv'
<1>0. TypeOK /\ BootInv /\ UnusedInv /\ WinInv /\ PlaceInv
  BY DEF IInv
<1>1. /\ Suspend(pt) \in [Pid -> Loc]
      /\ proc_state \in [Pid -> {0, 1}] /\ t_curr \in [Terminal -> Pid \cup {None}]
      /\ pcb \in [Pid -> PCB] /\ curr \in Pid /\ "iexec" \in ExecKind
      /\ stop \in {"none", "tick", "halt", "exception"}
  BY <1>0, SuspendType DEF TypeOK, ExecKind
<1>2. TypeOK'
  BY <1>0, <1>1, ExecuteType
<1>3. /\ ~Live(p) /\ Live(p)'
      /\ \A q \in Pid \ {p} : (Live(q)' <=> Live(q)) /\ pcb'[q] = pcb[q]
      /\ pcb'[p].p_pid = p /\ pcb'[p].terminal = t /\ pcb'[p].parent.kind = "iexec"
      /\ t_curr'[t] = p
      /\ \A u \in Terminal \ {t} : t_curr'[u] = t_curr[u]
      /\ curr' = p /\ page' = p /\ active' = t /\ me' = p
      /\ esp0'.stk = p
      /\ pt'.kind = "iexec"
      /\ win' = << >>
      /\ \A r \in Pid \ {p} : Suspend(pt)[r].stk # p => susp'[r] = Suspend(pt)[r]
  <2>1. /\ proc_state[p] = 0 /\ proc_state'[p] = 1
        /\ \A q \in Pid \ {p} : proc_state'[q] = proc_state[q] /\ pcb'[q] = pcb[q]
        /\ pcb'[p].p_pid = IF t_curr[t] = None THEN p ELSE curr
        /\ pcb'[p].terminal = t
        /\ pcb'[p].parent = LocAt(pt.stk, pt.base, "iexec")
        /\ t_curr'[t] = p
        /\ \A u \in Terminal \ {t} : t_curr'[u] = t_curr[u]
        /\ curr' = p /\ page' = p /\ active' = t /\ me' = p
        /\ esp0'.stk = p
        /\ pt' = LocAt(pt.stk, pt.base, "iexec")
        /\ win' = << >>
        /\ \A r \in Pid \ {p} : Suspend(pt)[r].stk # p => susp'[r] = Suspend(pt)[r]
    BY <1>0, <1>1, ExecuteFacts
  <2> QED
    BY <2>1 DEF Live, LocAt
<1>4. \A q \in Pid : Live(q) => q # p /\ pcb[q].terminal # t /\ pcb[q].terminal \in Terminal
  BY <1>0, <1>1, <1>3 DEF UnusedInv, PCB
<1>5. TopOfTerminal'
  BY <1>1, <1>3, <1>4 DEF IInv, TopOfTerminal, Top, Booted
<1>6. WaitingChain'
  <2>1. \A c, q \in Pid : ChildOf(c, q)' <=> ChildOf(c, q)
    BY <1>3, <1>4 DEF ChildOf
  <2>2. ASSUME NEW c \in Pid, NEW q \in Pid, ChildOf(c, q)
        PROVE  /\ Live(q)' /\ ~Top(q)' /\ c # q
               /\ pcb'[c].terminal = pcb'[q].terminal
               /\ pcb'[c].parent.stk = q
               /\ susp'[q] = pcb'[c].parent
               /\ \A d \in Pid : ChildOf(d, q) => d = c
    <3>1. /\ Live(c) /\ Live(q) /\ ~Top(q) /\ c # q
          /\ pcb[c].terminal = pcb[q].terminal
          /\ pcb[c].parent.stk = q
          /\ susp[q] = pcb[c].parent
          /\ \A d \in Pid : ChildOf(d, q) => d = c
      BY <2>2 DEF IInv, WaitingChain, ChildOf
    <3>2. Suspend(pt)[q] = susp[q]
      BY <1>0, <3>1 DEF WinInv, Booted, Suspend, TypeOK
    <3>3. q # p /\ c # p
      BY <1>4, <3>1
    <3> QED
      BY <1>3, <1>4, <3>1, <3>2, <3>3 DEF Top
  <2> QED
    BY <2>1, <2>2 DEF WaitingChain
<1>7. MachineFollowsCurr'
  BY <1>3 DEF MachineFollowsCurr
<1>8. OneBottom'
  BY <1>3, <1>4 DEF IInv, OneBottom
<1>9. BootInv'
  BY <1>3, NoneIsNoPid DEF BootInv
<1>10. UnusedInv'
  BY <1>0, <1>1, <1>3, <1>4, NoneIsNoPid DEF UnusedInv
<1>11. WinInv'
  BY <1>3 DEF WinInv, Booted, Top
<1>12. PlaceInv'
  BY <1>0, <1>1, SuspendOK, ExecutePlace
<1> QED
  BY <1>2, <1>5, <1>6, <1>7, <1>8, <1>9, <1>10, <1>11, <1>12 DEF IInv

\* In user mode the CPU works for curr, on the top of its terminal and stack.
LEMMA InUserFacts ==
  ASSUME IInv, InUser
  PROVE  /\ TypeOK /\ BootInv /\ UnusedInv /\ WinInv /\ PlaceInv
         /\ Booted /\ me = curr /\ curr \in Pid /\ pt.stk = curr
         /\ Live(curr) /\ Top(curr)
         /\ pcb[curr].terminal \in Terminal /\ pcb[curr].p_pid \in Pid
         /\ t_curr[pcb[curr].terminal] = curr
<1>1. /\ TypeOK /\ BootInv /\ UnusedInv /\ WinInv /\ PlaceInv
      /\ win = << >> /\ pt.kind = "user"
  BY DEF IInv, InUser
<1>2. Booted
  BY <1>1 DEF Booted, BootInv
<1> QED
  BY <1>1, <1>2 DEF WinInv, PlaceInv, TypeOK, PCB, Top

\* The system call execute.
LEMMA ExecuteStep ==
  ASSUME IInv, ExecuteSyscall
  PROVE  IInv'
<1> DEFINE t == pcb[curr].terminal
           F == LocAt(pt.stk, pt.base, "exec")
<1>0. /\ TypeOK /\ BootInv /\ UnusedInv /\ WinInv /\ PlaceInv
      /\ Booted /\ me = curr /\ curr \in Pid /\ pt.stk = curr
      /\ Live(curr) /\ Top(curr) /\ t \in Terminal
      /\ t_curr[t] = curr /\ stop = "none"
  BY InUserFacts DEF ExecuteSyscall, InUser
<1>p. PICK p \in Pid : execute(p, t, proc_state, t_curr, curr, "exec", Suspend(F))
  BY DEF ExecuteSyscall
<1>1. /\ F \in Loc /\ F.stk = curr /\ F.kind = "exec"
      /\ Suspend(F) \in [Pid -> Loc] /\ Suspend(F) = [susp EXCEPT ![curr] = F]
  <2>1. F \in Loc /\ F.stk = curr /\ F.kind = "exec"
    BY <1>0 DEF TypeOK, Loc, LocAt, Kind, ExecKind
  <2> QED
    BY <1>0, <2>1, SuspendType DEF Suspend, Booted
<1>2. /\ proc_state \in [Pid -> {0, 1}] /\ t_curr \in [Terminal -> Pid \cup {None}]
      /\ pcb \in [Pid -> PCB] /\ susp \in [Pid -> Loc] /\ "exec" \in ExecKind
      /\ running' \in [Terminal -> BOOLEAN] /\ stop' = "none" /\ running' = running
  BY <1>0 DEF TypeOK, ExecKind, ExecuteSyscall
<1>3. TypeOK'
  BY <1>0, <1>p, <1>1, <1>2, ExecuteType
<1>4. /\ ~Live(p) /\ Live(p)' /\ p # curr
      /\ \A q \in Pid \ {p} : (Live(q)' <=> Live(q)) /\ pcb'[q] = pcb[q]
      /\ pcb'[p].p_pid = curr /\ pcb'[p].terminal = t /\ pcb'[p].parent = F
      /\ t_curr'[t] = p
      /\ \A u \in Terminal \ {t} : t_curr'[u] = t_curr[u]
      /\ curr' = p /\ page' = p /\ active' = t /\ me' = p
      /\ esp0'.stk = p
      /\ pt' = F
      /\ win' = << >>
      /\ \A r \in Pid \ {p} : Suspend(F)[r].stk # p => susp'[r] = Suspend(F)[r]
  <2>1. /\ proc_state[p] = 0 /\ proc_state'[p] = 1
        /\ \A q \in Pid \ {p} : proc_state'[q] = proc_state[q] /\ pcb'[q] = pcb[q]
        /\ pcb'[p].p_pid = IF t_curr[t] = None THEN p ELSE curr
        /\ pcb'[p].terminal = t
        /\ pcb'[p].parent = F
        /\ t_curr'[t] = p
        /\ \A u \in Terminal \ {t} : t_curr'[u] = t_curr[u]
        /\ curr' = p /\ page' = p /\ active' = t /\ me' = p
        /\ esp0'.stk = p
        /\ pt' = F
        /\ win' = << >>
        /\ \A r \in Pid \ {p} : Suspend(F)[r].stk # p => susp'[r] = Suspend(F)[r]
    <3>1. execute(p, t, proc_state, t_curr, curr, "exec", Suspend(F))
      BY <1>p
    <3>2. /\ TypeOK /\ t \in Terminal /\ proc_state \in [Pid -> {0, 1}]
          /\ t_curr \in [Terminal -> Pid \cup {None}] /\ curr \in Pid
          /\ "exec" \in ExecKind /\ Suspend(F) \in [Pid -> Loc]
      BY <1>0, <1>1, <1>2
    <3> HIDE DEF t
    <3> QED
      BY ONLY p \in Pid, <3>1, <3>2, ExecuteFacts
  <2> HIDE DEF F, t
  <2> QED
    BY <1>0, <2>1, NoneIsNoPid DEF Live
<1> HIDE DEF F
<1>5. \A q \in Pid : Live(q) => q # p /\ pcb[q].terminal \in Terminal
  BY <1>2, <1>4 DEF PCB
<1>6. TopOfTerminal'
  BY <1>0, <1>2, <1>4, <1>5 DEF IInv, TopOfTerminal, Top, Booted
<1>7. WaitingChain'
  <2>1. \A c, q \in Pid : ChildOf(c, q)' <=> (ChildOf(c, q) \/ (c = p /\ q = curr))
    BY <1>1, <1>4, <1>5 DEF ChildOf
  <2>2. \A c \in Pid : ~ChildOf(c, curr)
    BY <1>0 DEF IInv, WaitingChain
  <2>3. ASSUME NEW c \in Pid, NEW q \in Pid, ChildOf(c, q)'
        PROVE  /\ Live(q)' /\ ~Top(q)' /\ c # q
               /\ pcb'[c].terminal = pcb'[q].terminal
               /\ pcb'[c].parent.stk = q
               /\ susp'[q] = pcb'[c].parent
               /\ \A d \in Pid : ChildOf(d, q)' => d = c
    <3>1. CASE c = p /\ q = curr
      BY <1>0, <1>1, <1>2, <1>4, <2>1, <2>2, <3>1 DEF Top
    <3>2. CASE ChildOf(c, q)
      <4>1. /\ Live(c) /\ Live(q) /\ ~Top(q) /\ c # q
            /\ pcb[c].terminal = pcb[q].terminal
            /\ pcb[c].parent.stk = q
            /\ susp[q] = pcb[c].parent
            /\ \A d \in Pid : ChildOf(d, q) => d = c
        BY <1>0, <3>2 DEF IInv, WaitingChain, ChildOf
      <4>2. q # curr /\ q # p /\ c # p
        BY <1>0, <1>5, <4>1
      <4>3. Suspend(F)[q] = susp[q]
        BY <1>1, <1>2, <4>2
      <4>4. ~Top(q)'
        BY <1>4, <1>5, <4>1, <4>2 DEF Top
      <4> QED
        BY <1>4, <2>1, <4>1, <4>2, <4>3, <4>4
    <3> QED
      BY <2>1, <2>3, <3>1, <3>2
  <2> QED
    BY <2>3 DEF WaitingChain
<1>8. MachineFollowsCurr'
  BY <1>4 DEF MachineFollowsCurr
<1>9. OneBottom'
  BY <1>0, <1>1, <1>4, <1>5 DEF IInv, OneBottom
<1>10. BootInv'
  BY <1>1, <1>4, NoneIsNoPid DEF BootInv
<1>11. UnusedInv'
  BY <1>0, <1>2, <1>4, <1>5, NoneIsNoPid DEF UnusedInv
<1>12. WinInv'
  BY <1>4 DEF WinInv, Booted, Top
<1>13. PlaceInv'
  <2>1. SuspOK(Suspend(F))
    BY <1>0, <1>1, <1>2 DEF SuspOK, PlaceInv
  <2> QED
    BY <1>0, <1>p, <1>1, <1>2, <2>1, ExecutePlace
<1> QED
  BY <1>3, <1>6, <1>7, <1>8, <1>9, <1>10, <1>11, <1>12, <1>13 DEF IInv

\* halt of a process that is its own parent: a new shell in its terminal.
LEMMA HaltRootStep ==
  ASSUME IInv, HaltRoot
  PROVE  IInv'
<1> DEFINE t == pcb[curr].terminal
           S == [susp EXCEPT ![curr] = NoLoc]
<1>0. /\ TypeOK /\ BootInv /\ UnusedInv /\ WinInv /\ PlaceInv
      /\ Booted /\ me = curr /\ curr \in Pid /\ pt.stk = curr
      /\ Live(curr) /\ Top(curr) /\ t \in Terminal
      /\ t_curr[t] = curr /\ stop = "none" /\ pcb[curr].p_pid = curr
  BY InUserFacts DEF HaltRoot, InUser
<1>p. PICK p \in Pid : execute(p, t, Freed(curr), Popped(curr), curr, "rexec", S)
  BY DEF HaltRoot
<1>1. /\ Freed(curr) = [proc_state EXCEPT ![curr] = 0] /\ Popped(curr) = t_curr
      /\ Freed(curr) \in [Pid -> {0, 1}] /\ S \in [Pid -> Loc]
  <2>1. NoLoc \in Loc
    BY ZeroSlots DEF NoLoc, LocAt, Loc, Kind
  <2> QED
    BY <1>0, <2>1 DEF Freed, Popped, TypeOK
<1>2. /\ proc_state \in [Pid -> {0, 1}] /\ t_curr \in [Terminal -> Pid \cup {None}]
      /\ pcb \in [Pid -> PCB] /\ susp \in [Pid -> Loc] /\ "rexec" \in ExecKind
      /\ running' \in [Terminal -> BOOLEAN] /\ stop' = "none" /\ running' = running
  BY <1>0 DEF TypeOK, ExecKind, HaltRoot
<1>3. TypeOK'
  BY <1>0, <1>p, <1>1, <1>2, ExecuteType
<1>4. /\ (p = curr \/ ~Live(p)) /\ Live(p)'
      /\ \A q \in Pid \ {p} : (Live(q)' <=> (Live(q) /\ q # curr)) /\ pcb'[q] = pcb[q]
      /\ pcb'[p].terminal = t /\ pcb'[p].parent.kind = "rexec"
      /\ t_curr'[t] = p
      /\ \A u \in Terminal \ {t} : t_curr'[u] = t_curr[u]
      /\ curr' = p /\ page' = p /\ active' = t /\ me' = p
      /\ esp0'.stk = p
      /\ pt'.kind = "rexec"
      /\ win' = << >>
      /\ \A r \in Pid \ {p} : S[r].stk # p => susp'[r] = S[r]
  <2>1. /\ Freed(curr)[p] = 0 /\ proc_state'[p] = 1
        /\ \A q \in Pid \ {p} : proc_state'[q] = Freed(curr)[q] /\ pcb'[q] = pcb[q]
        /\ pcb'[p].terminal = t
        /\ pcb'[p].parent = LocAt(pt.stk, pt.base, "rexec")
        /\ t_curr'[t] = p
        /\ \A u \in Terminal \ {t} : t_curr'[u] = t_curr[u]
        /\ curr' = p /\ page' = p /\ active' = t /\ me' = p
        /\ esp0'.stk = p
        /\ pt' = LocAt(pt.stk, pt.base, "rexec")
        /\ win' = << >>
        /\ \A r \in Pid \ {p} : S[r].stk # p => susp'[r] = S[r]
    <3>1. execute(p, t, Freed(curr), t_curr, curr, "rexec", S)
      BY <1>p, <1>1
    <3>2. /\ TypeOK /\ t \in Terminal /\ Freed(curr) \in [Pid -> {0, 1}]
          /\ t_curr \in [Terminal -> Pid \cup {None}] /\ curr \in Pid
          /\ "rexec" \in ExecKind /\ S \in [Pid -> Loc]
      BY <1>0, <1>1, <1>2
    <3> HIDE DEF S, t
    <3> QED
      BY ONLY p \in Pid, <3>1, <3>2, ExecuteFacts
  <2> HIDE DEF S, t
  <2> QED
    BY <1>0, <1>1, <1>2, <2>1 DEF Live, LocAt
<1>5. \A q \in Pid : Live(q) /\ q # curr => q # p /\ pcb[q].terminal \in Terminal
  BY <1>2, <1>4 DEF PCB
<1>6. pcb[curr].parent.kind # "exec" /\ \A c \in Pid : ~ChildOf(c, curr)
  BY <1>0 DEF IInv, WaitingChain, ChildOf
<1>7. TopOfTerminal'
  <2>1. ASSUME NEW u \in Terminal, t_curr'[u] # None
        PROVE  Live(t_curr[u])' /\ pcb'[t_curr'[u]].terminal = u
    <3>1. CASE u = t
      BY <1>4, <3>1 DEF Live
    <3>2. CASE u # t
      <4>1. t_curr'[u] = t_curr[u] /\ t_curr[u] \in Pid
        BY <1>2, <1>4, <2>1, <3>2
      <4>2. Live(t_curr[u]) /\ pcb[t_curr[u]].terminal = u
        BY <1>0, <2>1, <4>1 DEF IInv, TopOfTerminal
      <4>3. t_curr[u] # curr
        BY <3>2, <4>2
      <4> QED
        BY <1>4, <1>5, <4>1, <4>2, <4>3 DEF Live
    <3> QED
      BY <3>1, <3>2
  <2> QED
    BY <1>0, <1>4, <2>1 DEF TopOfTerminal, Top
<1>8. WaitingChain'
  <2>1. \A c, q \in Pid : ChildOf(c, q)' => ChildOf(c, q) /\ c # curr /\ c # p
    BY <1>4, <1>5 DEF ChildOf
  <2>2. ASSUME NEW c \in Pid, NEW q \in Pid, ChildOf(c, q)'
        PROVE  /\ Live(q)' /\ ~Top(q)' /\ c # q
               /\ pcb'[c].terminal = pcb'[q].terminal
               /\ pcb'[c].parent.stk = q
               /\ susp'[q] = pcb'[c].parent
               /\ \A d \in Pid : ChildOf(d, q)' => d = c
    <3>1. ChildOf(c, q) /\ c # curr /\ c # p
      BY <2>1, <2>2
    <3>2. /\ Live(c) /\ Live(q) /\ ~Top(q) /\ c # q
          /\ pcb[c].terminal = pcb[q].terminal
          /\ pcb[c].parent.stk = q
          /\ susp[q] = pcb[c].parent
          /\ \A d \in Pid : ChildOf(d, q) => d = c
      BY <1>0, <3>1 DEF IInv, WaitingChain, ChildOf
    <3>3. q # curr /\ q # p
      BY <1>5, <1>6, <3>1, <3>2
    <3>4. S[q] = susp[q]
      BY <1>2, <3>3
    <3>5. ~Top(q)'
      BY <1>4, <1>5, <3>2, <3>3 DEF Top
    <3> HIDE DEF S
    <3> QED
      BY <1>4, <2>1, <3>1, <3>2, <3>3, <3>4, <3>5
  <2> QED
    BY <2>2 DEF WaitingChain
<1>9. MachineFollowsCurr'
  BY <1>4 DEF MachineFollowsCurr
<1>10. OneBottom'
  BY <1>0, <1>4, <1>5, <1>6 DEF IInv, OneBottom
<1>11. BootInv'
  BY <1>4, NoneIsNoPid DEF BootInv
<1>12. UnusedInv'
  BY <1>0, <1>2, <1>4, <1>5, NoneIsNoPid DEF UnusedInv
<1>13. WinInv'
  BY <1>4 DEF WinInv, Booted, Top
<1>14. PlaceInv'
  <2>1. SuspOK(S)
    BY <1>0, <1>2 DEF SuspOK, PlaceInv, NoLoc, LocAt
  <2> QED
    BY <1>0, <1>p, <1>1, <1>2, <2>1, ExecutePlace
<1> QED
  BY <1>3, <1>7, <1>8, <1>9, <1>10, <1>11, <1>12, <1>13, <1>14 DEF IInv

\* halt of a program whose parent waits for it.
LEMMA HaltChildStep ==
  ASSUME IInv, HaltChild
  PROVE  IInv'
<1> DEFINE t == pcb[curr].terminal
           P == pcb[curr].p_pid
<1>0. /\ TypeOK /\ BootInv /\ UnusedInv /\ WinInv /\ PlaceInv
      /\ Booted /\ me = curr /\ curr \in Pid /\ pt.stk = curr
      /\ Live(curr) /\ Top(curr) /\ t \in Terminal /\ P \in Pid
      /\ t_curr[t] = curr /\ stop = "none" /\ win = << >>
  BY InUserFacts DEF HaltChild, InUser
<1>1. TypeOK'
  BY <1>0, TypeStep DEF HaltChild, Next
<1>2. CASE ~ParentWaits(curr)
  BY <1>1, <1>2
  DEF HaltChild, IInv, TopOfTerminal, WaitingChain, MachineFollowsCurr, OneBottom
<1>3. CASE ParentWaits(curr)
  <2>1. /\ ChildOf(curr, P) /\ Live(P) /\ ~Top(P) /\ P # curr
        /\ pcb[P].terminal = t
        /\ pcb[curr].parent.stk = P
        /\ \A d \in Pid : ChildOf(d, P) => d = curr
    <3>1. ChildOf(curr, P)
      BY <1>0, <1>3 DEF ParentWaits, ChildOf
    <3> QED
      BY <1>0, <3>1 DEF IInv, WaitingChain
  <2>2. /\ proc_state \in [Pid -> {0, 1}] /\ t_curr \in [Terminal -> Pid \cup {None}]
        /\ pcb \in [Pid -> PCB] /\ susp \in [Pid -> Loc]
    BY <1>0 DEF TypeOK
  <2>3. /\ \A q \in Pid : Live(q)' <=> (Live(q) /\ q # curr)
        /\ t_curr'[t] = P
        /\ \A u \in Terminal \ {t} : t_curr'[u] = t_curr[u]
        /\ curr' = P /\ page' = P /\ me' = P /\ active' = active /\ pcb' = pcb
        /\ esp0'.stk = P
        /\ pt'.stk = curr /\ pt'.kind = "halt"
        /\ win' = << >> /\ running' = running
        /\ susp'[P] = NoLoc
        /\ \A r \in Pid \ {P} : susp'[r] = susp[r]
        /\ stop' = "none"
    BY <1>0, <1>3, <2>1, <2>2
    DEF HaltChild, Freed, Popped, ParentPage, ParentEsp, Live, LocAt
  <2>4. \A q \in Pid : pcb[q].terminal \in Terminal
    BY <2>2 DEF PCB
  <2> HIDE DEF t, P
  <2>5. TopOfTerminal'
    <3>1. ASSUME NEW u \in Terminal, t_curr'[u] # None
          PROVE  Live(t_curr[u])' /\ pcb'[t_curr'[u]].terminal = u
      <4>1. CASE u = t
        BY <1>0, <2>1, <2>3, <4>1 DEF Live
      <4>2. CASE u # t
        <5>1. t_curr'[u] = t_curr[u] /\ t_curr[u] \in Pid
          BY <2>2, <2>3, <3>1, <4>2
        <5>2. Live(t_curr[u]) /\ pcb[t_curr[u]].terminal = u
          BY <1>0, <3>1, <5>1 DEF IInv, TopOfTerminal
        <5>3. t_curr[u] # curr
          BY <4>2, <5>2 DEF t
        <5> QED
          BY <2>3, <5>1, <5>2, <5>3 DEF Live
      <4> QED
        BY <4>1, <4>2
    <3> QED
      BY <1>0, <2>1, <2>3, <3>1 DEF TopOfTerminal, Top
  <2>6. WaitingChain'
    <3>1. \A c, q \in Pid : ChildOf(c, q)' <=> (ChildOf(c, q) /\ c # curr)
      BY <2>3 DEF ChildOf
    <3>2. ASSUME NEW c \in Pid, NEW q \in Pid, ChildOf(c, q), c # curr
          PROVE  /\ Live(q)' /\ ~Top(q)' /\ c # q
                 /\ pcb'[c].terminal = pcb'[q].terminal
                 /\ pcb'[c].parent.stk = q
                 /\ susp'[q] = pcb'[c].parent
                 /\ \A d \in Pid : ChildOf(d, q) => d = c
      <4>1. /\ Live(q) /\ ~Top(q) /\ c # q
            /\ pcb[c].terminal = pcb[q].terminal
            /\ pcb[c].parent.stk = q
            /\ susp[q] = pcb[c].parent
            /\ \A d \in Pid : ChildOf(d, q) => d = c
        BY <1>0, <3>2 DEF IInv, WaitingChain
      <4>2. q # curr /\ q # P
        BY <1>0, <2>1, <3>2, <4>1
      <4>3. ~Top(q)'
        BY <1>0, <2>3, <2>4, <4>1, <4>2 DEF Top
      <4> QED
        BY <2>3, <4>1, <4>2, <4>3
    <3> QED
      BY <3>1, <3>2 DEF WaitingChain
  <2>7. MachineFollowsCurr'
    BY <1>0, <2>1, <2>3 DEF IInv, MachineFollowsCurr, t
  <2>8. OneBottom'
    BY <1>0, <2>3 DEF IInv, OneBottom
  <2>9. BootInv'
    BY <1>0, <2>3, NoneIsNoPid DEF BootInv
  <2>10. UnusedInv'
    BY <1>0, <2>1, <2>3, <2>4, NoneIsNoPid DEF UnusedInv, t
  <2>11. WinInv'
    BY <1>0, <2>1, <2>3 DEF WinInv, Booted, Top
  <2>12. PlaceInv'
    BY <1>0, <2>1, <2>3 DEF PlaceInv, NoLoc, LocAt
  <2> QED
    BY <1>1, <2>5, <2>6, <2>7, <2>8, <2>9, <2>10, <2>11, <2>12 DEF IInv
<1> QED
  BY <1>2, <1>3

-----------------------------------------------------------------------------
\* A step that only moves the running process to another place on its stack.
LEMMA PlaceStep ==
  ASSUME IInv, TypeOK', stop = "none", win = << >>, pt.kind # "boot",
         UNCHANGED <<proc_state, t_curr, pcb, curr, page, active, running, esp0,
                     win, me, susp, stop>>,
         pt'.kind \in {"user", "sys"}, pt'.stk = curr
  PROVE  IInv'
<1>0. BootInv /\ UnusedInv /\ WinInv /\ PlaceInv
  BY DEF IInv
<1>1. me # Boot /\ me = curr
  BY <1>0 DEF BootInv, WinInv, Booted
<1>2. TopOfTerminal' /\ WaitingChain' /\ MachineFollowsCurr' /\ OneBottom'
  BY DEF IInv, TopOfTerminal, WaitingChain, MachineFollowsCurr, OneBottom, Live, Top, Booted,
         ChildOf
<1>3. BootInv'
  BY <1>0, <1>1 DEF BootInv, Live
<1>4. UnusedInv'
  BY <1>0 DEF UnusedInv, Live
<1>5. WinInv'
  BY <1>0 DEF WinInv, Live, Top, Booted
<1>6. PlaceInv'
  BY <1>0, <1>1 DEF PlaceInv
<1> QED
  BY <1>2, <1>3, <1>4, <1>5, <1>6 DEF IInv

\* pit_int_handler up to its sti.
LEMMA PitSelectStep ==
  ASSUME IInv, PitSelect
  PROVE  IInv'
<1>0. /\ TypeOK /\ BootInv /\ UnusedInv /\ WinInv /\ PlaceInv /\ stop = "none"
      /\ t_curr \in [Terminal -> Pid \cup {None}]
      /\ win \in Seq([cur : Pid, nxt : Pid])
  BY DEF IInv, PitSelect, TypeOK
<1>1. TypeOK'
  BY <1>0, TypeStep DEF Next, Tick
<1>2. PICK n \in Terminal :
        /\ NextTerminal(pcb[curr].terminal, n)
        /\ page' = t_curr[n]
        /\ esp0' = [stk |-> t_curr[n], base |-> 0]
        /\ curr' = t_curr[n]
        /\ active' = pcb[t_curr[n]].terminal
        /\ win' = Append(win, [cur |-> curr, nxt |-> t_curr[n]])
  BY DEF PitSelect
<1> DEFINE x == t_curr[n]
<1>3. /\ x \in Pid /\ Live(x) /\ pcb[x].terminal = n /\ Top(x)
  BY <1>0, <1>2 DEF NextTerminal, IInv, TopOfTerminal, Top
<1>4. Booted
  BY <1>0, <1>3 DEF BootInv, Booted
<1>5. UNCHANGED <<proc_state, t_curr, pcb, saved, running, pt, me, susp, stop>>
  BY DEF PitSelect
<1>6. TopOfTerminal'
  BY <1>0, <1>2, <1>3, <1>5 DEF IInv, TopOfTerminal, Live, Top, Booted
<1>7. WaitingChain' /\ OneBottom'
  BY <1>0, <1>5 DEF IInv, WaitingChain, OneBottom, ChildOf, Live, Top
<1>8. MachineFollowsCurr'
  BY <1>2, <1>5 DEF MachineFollowsCurr
<1>9. BootInv'
  BY <1>0, <1>4, <1>5 DEF BootInv, Booted, Live
<1>10. UnusedInv' /\ PlaceInv'
  BY <1>0, <1>5 DEF UnusedInv, PlaceInv, Live
<1>11. WinInv'
  <2>1. /\ Len(win) \in Nat /\ Len(win') = Len(win) + 1
        /\ \A i \in 1 .. Len(win) : win'[i] = win[i]
        /\ win'[Len(win) + 1] = [cur |-> curr, nxt |-> x]
        /\ win' # << >>
    BY <1>0, <1>2
  <2> HIDE DEF x
  <2>2. \A i \in 1 .. Len(win') : i = Len(win) + 1 \/ i \in 1 .. Len(win)
    BY <2>1
  <2>3. Booted' /\ Live(me)' /\ Top(me)'
    BY <1>0, <1>4, <1>5 DEF WinInv, Live, Top, Booted
  <2>4. win'[1].cur = me' /\ curr' = win'[Len(win')].nxt
    <3>1. CASE win = << >>
      BY <1>0, <1>2, <1>4, <1>5, <2>1, <3>1 DEF WinInv, x
    <3>2. CASE win # << >>
      <4>1. 1 \in 1 .. Len(win)
        BY <1>0, <3>2
      <4> QED
        BY <1>0, <1>2, <1>5, <2>1, <3>2, <4>1 DEF WinInv, x
    <3> QED
      BY <3>1, <3>2
  <2>5. ASSUME NEW i \in 1 .. Len(win')
        PROVE  /\ Live(win[i].nxt)' /\ Top(win[i].nxt)'
               /\ i # 1 => win'[i].cur = win'[i - 1].nxt
    <3>1. CASE i = Len(win) + 1
      <4>1. i # 1 => /\ i - 1 \in 1 .. Len(win) /\ i - 1 = Len(win) /\ win # << >>
        BY <1>0, <2>1, <3>1
      <4>2. i # 1 => curr = win[i - 1].nxt /\ win'[i - 1] = win[i - 1]
        BY <1>0, <2>1, <4>1 DEF WinInv
      <4> QED
        BY <1>3, <1>5, <2>1, <3>1, <4>2 DEF Live, Top
    <3>2. CASE i \in 1 .. Len(win)
      <4>1. i # 1 => i - 1 \in 1 .. Len(win)
        BY <2>1, <3>2
      <4> QED
        BY <1>0, <1>5, <2>1, <3>2, <4>1 DEF WinInv, Live, Top
    <3> QED
      BY <2>2, <3>1, <3>2
  <2> QED
    BY <2>1, <2>3, <2>4, <2>5 DEF WinInv
<1> QED
  BY <1>1, <1>6, <1>7, <1>8, <1>9, <1>10, <1>11 DEF IInv

\* The end of pit_int_handler when it found no other terminal to run.
LEMMA PitSwitchSelfStep ==
  ASSUME IInv, PitSwitchSelf
  PROVE  IInv'
<1>0. /\ TypeOK /\ BootInv /\ UnusedInv /\ WinInv /\ PlaceInv /\ stop = "none"
      /\ win \in Seq([cur : Pid, nxt : Pid]) /\ win # << >>
  BY DEF IInv, PitSwitchSelf, TypeOK
<1>1. TypeOK'
  BY <1>0, TypeStep DEF Next, PitSwitch
<1>2. /\ UNCHANGED <<proc_state, t_curr, pcb, curr, page, active, running, esp0, me, susp, stop>>
      /\ win' = SubSeq(win, 1, Len(win) - 1)
      /\ win[Len(win)].nxt = win[Len(win)].cur
      /\ pt' = IF Len(win) = 1 THEN Continue(pt) ELSE pt
  BY DEF PitSwitchSelf, Newest
<1>3. Booted
  BY <1>0 DEF BootInv, Booted
<1>4. /\ Len(win) \in Nat \ {0} /\ win' \in Seq([cur : Pid, nxt : Pid])
      /\ Len(win') = Len(win) - 1
      /\ \A i \in 1 .. Len(win) - 1 : win'[i] = win[i]
  BY <1>0, <1>2, FrontFacts
<1>5. TopOfTerminal' /\ WaitingChain' /\ MachineFollowsCurr' /\ OneBottom' /\ UnusedInv'
  BY <1>0, <1>2 DEF IInv, TopOfTerminal, WaitingChain, MachineFollowsCurr, OneBottom, Live,
         Top, Booted, ChildOf, UnusedInv
<1>6. Len(win) = 1 => curr = me /\ win' = << >>
  BY <1>0, <1>2, <1>4 DEF WinInv
<1>7. pt'.kind = pt.kind /\ (pt' = pt \/ (pt'.kind = "user" /\ Len(win) = 1 /\ pt'.stk = esp0.stk))
  BY <1>2 DEF Continue, LocAt
<1>8. BootInv'
  BY <1>0, <1>2, <1>3, <1>7 DEF BootInv, Booted
<1>9. WinInv'
  <2>1. win' # << >> => win'[1].cur = me' /\ curr' = win'[Len(win')].nxt
    <3> SUFFICES ASSUME win' # << >>
                 PROVE  win'[1].cur = me' /\ curr' = win'[Len(win')].nxt
      OBVIOUS
    <3>1. /\ 1 \in 1 .. Len(win) - 1 /\ Len(win) - 1 \in 1 .. Len(win) - 1
          /\ Len(win) \in 1 .. Len(win) /\ Len(win) # 1
      BY <1>4
    <3>2. win[Len(win)].cur = win[Len(win) - 1].nxt
      BY <1>0, <3>1 DEF WinInv
    <3> QED
      BY <1>0, <1>2, <1>4, <3>1, <3>2 DEF WinInv
  <2>2. ASSUME NEW i \in 1 .. Len(win')
        PROVE  /\ Live(win[i].nxt)' /\ Top(win[i].nxt)'
               /\ i # 1 => win'[i].cur = win'[i - 1].nxt
    <3>1. i \in 1 .. Len(win) - 1 /\ i \in 1 .. Len(win) /\ (i # 1 => i - 1 \in 1 .. Len(win) - 1)
      BY <1>4
    <3> QED
      BY <1>0, <1>2, <1>4, <3>1 DEF WinInv, Live, Top
  <2>3. win' = << >> => me' = curr'
    <3>1. win' = << >> => Len(win') = 0
      OBVIOUS
    <3>2. win' = << >> => Len(win) = 1
      BY <1>4, <3>1
    <3> QED
      BY <1>2, <1>6, <3>2
  <2> QED
    BY <1>0, <1>2, <1>3, <2>1, <2>2, <2>3 DEF WinInv, Live, Top, Booted
<1>10. PlaceInv'
  <2>1. esp0.stk = curr
    BY <1>0, <1>3 DEF IInv, MachineFollowsCurr
  <2> QED
    BY <1>0, <1>2, <1>6, <1>7, <2>1 DEF PlaceInv
<1> QED
  BY <1>1, <1>5, <1>8, <1>9, <1>10 DEF IInv

\* The end of pit_int_handler when it switches to another process.
LEMMA PitSwitchNextStep ==
  ASSUME IInv, PitSwitchNext
  PROVE  IInv'
<1> DEFINE x == Newest.nxt
<1>0. /\ TypeOK /\ BootInv /\ UnusedInv /\ WinInv /\ PlaceInv /\ stop = "none"
      /\ win \in Seq([cur : Pid, nxt : Pid]) /\ win # << >>
  BY DEF IInv, PitSwitchNext, TypeOK
<1>1. TypeOK'
  BY <1>0, TypeStep DEF Next, PitSwitch
<1>2. /\ Booted /\ me \in Pid /\ Len(win) \in 1 .. Len(win)
      /\ x \in Pid /\ Live(x) /\ Top(x) /\ curr = x
  <2>1. Booted /\ me \in Pid
    BY <1>0 DEF BootInv, Booted, TypeOK
  <2>2. Len(win) \in 1 .. Len(win) /\ Newest \in [cur : Pid, nxt : Pid]
    <3>1. Len(win) \in Nat \ {0} /\ win[Len(win)] \in [cur : Pid, nxt : Pid]
      BY <1>0, FrontFacts
    <3> QED
      BY <3>1 DEF Newest
  <2> QED
    BY <1>0, <2>1, <2>2 DEF WinInv, Newest
<1>3. UNCHANGED <<proc_state, t_curr, pcb, curr, page, active, running, esp0>>
  BY DEF PitSwitchNext
<1>4. CASE saved[x] # Suspend(pt)[x]
  <2>1. UNCHANGED <<pt, me, win, susp>> /\ stop' = "tick"
    BY <1>4 DEF PitSwitchNext
  <2>2. TopOfTerminal' /\ WaitingChain' /\ MachineFollowsCurr' /\ OneBottom'
    BY <1>0, <1>3, <2>1 DEF IInv, TopOfTerminal, WaitingChain, MachineFollowsCurr, OneBottom,
         Live, Top, Booted, ChildOf
  <2>3. BootInv' /\ UnusedInv' /\ WinInv' /\ PlaceInv'
    BY <1>0, <1>3, <2>1 DEF BootInv, UnusedInv, WinInv, PlaceInv, Live, Top, Booted
  <2> QED
    BY <1>1, <2>2, <2>3 DEF IInv
<1>5. CASE saved[x] = Suspend(pt)[x]
  <2>1. /\ pt' = Continue(saved[x]) /\ me' = x /\ win' = << >> /\ stop' = "none"
        /\ Clobber(Suspend(pt), x)
    BY <1>0, <1>5 DEF PitSwitchNext
  <2>2. /\ Suspend(pt) \in [Pid -> Loc] /\ SuspOK(Suspend(pt))
        /\ Suspend(pt) = [susp EXCEPT ![me] = pt] /\ susp \in [Pid -> Loc]
    BY <1>0, <1>2, SuspendType, SuspendOK DEF TypeOK, Booted, Suspend
  <2>3. /\ susp'[x] = NoLoc
        /\ \A r \in Pid \ {x} :
             /\ susp'[r] = Suspend(pt)[r] \/ susp'[r] = LostLoc
             /\ Suspend(pt)[r].stk # x => susp'[r] = Suspend(pt)[r]
    BY <1>2, <2>1, <2>2, ClobberFacts
  <2> HIDE DEF x
  <2>4. TopOfTerminal' /\ MachineFollowsCurr' /\ OneBottom' /\ UnusedInv'
    BY <1>0, <1>2, <1>3, <2>1 DEF IInv, TopOfTerminal, MachineFollowsCurr, OneBottom, Live,
         Top, Booted, UnusedInv
  <2>5. WaitingChain'
    <3>1. \A c, q \in Pid : ChildOf(c, q)' <=> ChildOf(c, q)
      BY <1>3 DEF ChildOf, Live
    <3>2. ASSUME NEW c \in Pid, NEW q \in Pid, ChildOf(c, q)
          PROVE  /\ Live(q)' /\ ~Top(q)' /\ c # q
                 /\ pcb'[c].terminal = pcb'[q].terminal
                 /\ pcb'[c].parent.stk = q
                 /\ susp'[q] = pcb'[c].parent
                 /\ \A d \in Pid : ChildOf(d, q) => d = c
      <4>1. /\ Live(q) /\ ~Top(q) /\ c # q
            /\ pcb[c].terminal = pcb[q].terminal
            /\ pcb[c].parent.stk = q
            /\ susp[q] = pcb[c].parent
            /\ \A d \in Pid : ChildOf(d, q) => d = c
        BY <1>0, <3>2 DEF IInv, WaitingChain
      <4>2. q # x /\ q # me
        BY <1>0, <1>2, <4>1 DEF WinInv
      <4>3. susp'[q] = susp[q]
        BY <2>2, <2>3, <4>1, <4>2
      <4> QED
        BY <1>3, <4>1, <4>3 DEF Live, Top
    <3> QED
      BY <3>1, <3>2 DEF WaitingChain
  <2>6. pt'.kind # "boot" /\ (pt'.kind \in {"user", "sys"} => pt'.stk = x)
        /\ (pt'.kind = "halt" => pcb[pt'.stk].parent.stk = x)
    <3>1. esp0.stk = x
      BY <1>0, <1>2 DEF IInv, MachineFollowsCurr
    <3> QED
      BY <1>2, <1>5, <2>1, <2>2, <3>1 DEF Continue, SuspOK, LocAt
  <2>7. BootInv'
    BY <1>2, <2>1, <2>6, NoneIsNoPid DEF BootInv
  <2>8. WinInv'
    BY <1>2, <1>3, <2>1 DEF WinInv, Live, Top, Booted
  <2>9. PlaceInv'
    <3>1. ASSUME NEW n \in Pid
          PROVE  /\ susp'[n].kind # "boot"
                 /\ susp'[n].kind \in {"user", "sys"} => susp'[n].stk = n
                 /\ susp'[n].kind = "halt" => pcb'[susp'[n].stk].parent.stk = n
      <4>1. CASE n = x \/ susp'[n] = LostLoc
        BY <2>3, <4>1 DEF NoLoc, LostLoc, LocAt
      <4>2. CASE n # x /\ susp'[n] = Suspend(pt)[n]
        BY <1>3, <2>2, <4>2 DEF SuspOK
      <4> QED
        BY <2>3, <4>1, <4>2
    <3> QED
      BY <1>3, <2>1, <2>6, <3>1 DEF PlaceInv
  <2> QED
    BY <1>1, <2>4, <2>5, <2>7, <2>8, <2>9 DEF IInv
<1> QED
  BY <1>4, <1>5

-----------------------------------------------------------------------------
\* The invariant holds when entry() starts.
LEMMA InvInit == Init => IInv
<1> SUFFICES ASSUME Init PROVE IInv
  OBVIOUS
<1>1. NoLoc \in Loc /\ LocAt(0, 0, "boot") \in Loc
  BY ZeroSlots DEF NoLoc, LocAt, Loc, Kind
<1>2. TypeOK
  BY <1>1, ZeroSlots DEF Init, TypeOK, PCB
<1>3. \A p \in Pid : ~Live(p)
  BY DEF Init, Live
<1>4. TopOfTerminal /\ WaitingChain /\ MachineFollowsCurr /\ OneBottom
  BY <1>3 DEF Init, TopOfTerminal, WaitingChain, MachineFollowsCurr, OneBottom, Booted, ChildOf
<1>5. BootInv /\ UnusedInv /\ WinInv
  BY <1>3 DEF Init, BootInv, UnusedInv, WinInv, Booted, LocAt
<1>6. PlaceInv
  BY DEF Init, PlaceInv, NoLoc, LocAt
<1> QED
  BY <1>2, <1>4, <1>5, <1>6 DEF IInv

\* Every action keeps the invariant: one step per action.
LEMMA InvStep == IInv /\ [Next]_vars => IInv'
<1> SUFFICES ASSUME IInv, [Next]_vars PROVE IInv'
  OBVIOUS
<1>0. TypeOK /\ TypeOK'
  BY TypeStep DEF IInv
<1>1. CASE BootExecute
  <2>1. stop = "none" /\ me = Boot /\ t_curr[0] = None /\ Suspend(pt) = susp
    BY <1>1, ZeroSlots DEF BootExecute, IInv, BootInv, Suspend
  <2> QED
    BY <1>0, <1>1, <2>1, LaunchStep, ZeroSlots DEF BootExecute, TypeOK
<1>2. CASE ExecuteSyscall
  BY <1>2, ExecuteStep
<1>3. CASE HaltRoot
  BY <1>3, HaltRootStep
<1>4. CASE HaltChild
  BY <1>4, HaltChildStep
<1>5. CASE ExecuteIret \/ SyscallLeave
  <2>1. /\ stop = "none" /\ win = << >> /\ pt.kind # "boot"
        /\ UNCHANGED <<proc_state, t_curr, pcb, curr, page, active, running, esp0,
                       win, me, susp, stop>>
        /\ pt' = LocAt(esp0.stk, esp0.base, "user")
    BY <1>5 DEF ExecuteIret, SyscallLeave, ExecKind
  <2>2. esp0.stk = curr
    BY <2>1 DEF IInv, MachineFollowsCurr, BootInv, Booted
  <2>3. pt'.kind = "user" /\ pt'.stk = curr
    BY <2>1, <2>2 DEF LocAt
  <2> QED
    BY <1>0, <2>1, <2>3, PlaceStep
<1>6. CASE HaltReturn
  <2>1. /\ stop = "none" /\ win = << >> /\ pt.kind # "boot"
        /\ UNCHANGED <<proc_state, t_curr, pcb, curr, page, active, running, esp0,
                       win, me, susp, stop>>
        /\ pt'.kind = "sys" /\ pt'.stk = pcb[pt.stk].parent.stk /\ pt.kind = "halt"
    BY <1>6 DEF HaltReturn, LocAt
  <2>2. pt'.stk = curr
    BY <2>1 DEF IInv, PlaceInv, WinInv, BootInv, Booted
  <2> QED
    BY <1>0, <2>1, <2>2, PlaceStep
<1>7. CASE SyscallEnter
  <2>1. /\ stop = "none" /\ win = << >> /\ pt.kind # "boot"
        /\ UNCHANGED <<proc_state, t_curr, pcb, curr, page, active, running, esp0,
                       win, me, susp, stop>>
        /\ pt'.kind = "sys" /\ pt'.stk = pt.stk /\ InUser
    BY <1>7 DEF SyscallEnter, InUser, LocAt
  <2>2. pt'.stk = curr
    BY <2>1, InUserFacts
  <2> QED
    BY <1>0, <2>1, <2>2, PlaceStep
<1>8. CASE PitLaunch
  BY <1>0, <1>8, LaunchStep, ZeroSlots DEF PitLaunch, TypeOK
<1>9. CASE PitSelect
  BY <1>9, PitSelectStep
<1>10. CASE PitSwitchSelf
  BY <1>10, PitSwitchSelfStep
<1>11. CASE PitSwitchNext
  BY <1>11, PitSwitchNextStep
<1>12. CASE \E t \in Terminal : AltFnLaunch(t)
  <2>1. PICK t \in Terminal : AltFnLaunch(t)
    BY <1>12
  <2>2. stop = "none" /\ t_curr[t] = None
    BY <2>1 DEF AltFnLaunch, MayLaunch, IInv, UnusedInv
  <2>3. /\ running' \in [Terminal -> BOOLEAN] /\ stop' = stop
        /\ \A u \in Terminal : u # 0 /\ ~running'[u] => ~running[u] /\ u # t
    BY <1>0, <2>1 DEF AltFnLaunch, TypeOK
  <2> QED
    BY <2>1, <2>2, <2>3, LaunchStep DEF AltFnLaunch
<1>13. CASE Exception \/ UNCHANGED vars
  <2>1. /\ UNCHANGED <<proc_state, t_curr, pcb, curr, page, active, running, esp0, pt,
                       win, me, susp>>
        /\ stop' # "halt" => stop # "halt"
    BY <1>13 DEF Exception, InUser, vars
  <2>2. TopOfTerminal' /\ WaitingChain' /\ MachineFollowsCurr' /\ OneBottom'
    BY <2>1 DEF IInv, TopOfTerminal, WaitingChain, MachineFollowsCurr, OneBottom,
         Live, Top, Booted, ChildOf
  <2>3. (stop # "halt" => BootInv /\ UnusedInv /\ WinInv /\ PlaceInv)'
    BY <2>1 DEF IInv, BootInv, UnusedInv, WinInv, PlaceInv, Live, Top, Booted
  <2> QED
    BY <1>0, <2>2, <2>3 DEF IInv
<1> QED
  BY <1>1, <1>2, <1>3, <1>4, <1>5, <1>6, <1>7, <1>8, <1>9, <1>10, <1>11, <1>12, <1>13
  DEF Next, Tick, PitSwitch

\* The inductive invariant holds in every state.
THEOREM Inductive == Spec => []IInv
BY InvInit, InvStep, PTL DEF Spec

\* Every variable of the process table, the PCBs and the machine stays in range.
THEOREM TypeCorrect == Spec => []TypeOK
<1>1. IInv => TypeOK
  BY DEF IInv
<1> QED
  BY <1>1, Inductive, PTL

\* The terminal table and curr name live processes on top of their terminals
\* (execute, halt, pit_int_handler, keyboard_handler).
THEOREM TopCorrect == Spec => []TopOfTerminal
<1>1. IInv => TopOfTerminal
  BY DEF IInv
<1> QED
  BY <1>1, Inductive, PTL

\* A program's halt always finds its parent suspended in the execute frame it loads.
THEOREM ChainCorrect == Spec => []WaitingChain
<1>1. IInv => WaitingChain
  BY DEF IInv
<1> QED
  BY <1>1, Inductive, PTL

\* The page map, the active terminal and the kernel stack follow curr.
THEOREM MachineCorrect == Spec => []MachineFollowsCurr
<1>1. IInv => MachineFollowsCurr
  BY DEF IInv
<1> QED
  BY <1>1, Inductive, PTL

\* No terminal ever has two bottom-most shells.
THEOREM BottomCorrect == Spec => []OneBottom
<1>1. IInv => OneBottom
  BY DEF IInv
<1> QED
  BY <1>1, Inductive, PTL

\* get_pid never hands out the slot of a live process; only the halt of a
\* bottom-most shell, which is curr, reuses its own.
THEOREM SlotsCorrect == Spec => SlotsNotReused
<1> DEFINE Kept == \A p \in Pid : Live(p) /\ p # curr =>
                     /\ pcb'[p].terminal = pcb[p].terminal
                     /\ pcb'[p].p_pid = pcb[p].p_pid
                     /\ pcb'[p].parent = pcb[p].parent
<1>1. ASSUME TypeOK, [Next]_vars
      PROVE  [Kept]_vars
  <2>1. CASE UNCHANGED vars
    BY <2>1
  <2>2. CASE BootExecute \/ ExecuteSyscall \/ PitLaunch \/ \E t \in Terminal : AltFnLaunch(t)
    <3>1. PICK q \in Pid : /\ get_pid(proc_state, q)
                            /\ \E r : pcb' = [pcb EXCEPT ![q] = r]
      BY <2>2 DEF BootExecute, ExecuteSyscall, PitLaunch, AltFnLaunch, execute
    <3> QED
      BY <1>1, <3>1 DEF TypeOK, get_pid, Live
  <2>3. CASE HaltRoot
    <3>1. PICK q \in Pid : /\ get_pid(Freed(curr), q)
                            /\ \E r : pcb' = [pcb EXCEPT ![q] = r]
      BY <2>3 DEF HaltRoot, execute
    <3> QED
      BY <1>1, <3>1 DEF TypeOK, get_pid, Freed, Live
  <2>4. CASE \/ ExecuteIret \/ HaltChild \/ HaltReturn \/ SyscallEnter \/ SyscallLeave
             \/ PitSelect \/ PitSwitch \/ Exception
    BY <2>4 DEF ExecuteIret, HaltChild, HaltReturn, SyscallEnter, SyscallLeave, PitSelect,
                PitSwitch, PitSwitchSelf, PitSwitchNext, Exception
  <2> QED
    BY <1>1, <2>1, <2>2, <2>3, <2>4 DEF Next, Tick
<1> QED
  BY <1>1, TypeCorrect, PTL DEF Spec, SlotsNotReused
-----------------------------------------------------------------------------
\* A launched shell, whoever launches it: an unused terminal, the lowest free slot.
LEMMA LaunchTables ==
  ASSUME IInv, BootExecute \/ PitLaunch \/ \E t \in Terminal : AltFnLaunch(t)
  PROVE  \E p \in Pid, t \in Terminal :
           /\ stop = "none" /\ stop' = "none" /\ t_curr[t] = None
           /\ get_pid(proc_state, p)
           /\ proc_state' = [proc_state EXCEPT ![p] = 1]
           /\ \A q \in Pid \ {p} : pcb'[q] = pcb[q]
           /\ pcb'[p].p_pid = p /\ pcb'[p].parent.kind = "iexec"
           /\ t_curr' = [t_curr EXCEPT ![t] = p]
           /\ curr' = p /\ me' = p /\ win' = << >>
           /\ t = 0 \/ running'[t]
<1>0. TypeOK /\ BootInv /\ UnusedInv
  BY DEF IInv, BootExecute, PitLaunch, AltFnLaunch
<1>1. PICK p \in Pid, t \in Terminal :
        /\ \E s : execute(p, t, proc_state, t_curr, curr, "iexec", s)
        /\ stop = "none" /\ stop' = "none" /\ t_curr[t] = None
        /\ t = 0 \/ running'[t]
  <2>1. CASE BootExecute
    BY <1>0, <2>1, ZeroSlots DEF BootExecute, BootInv
  <2>2. CASE PitLaunch
    BY <2>2, ZeroSlots DEF PitLaunch
  <2>3. CASE \E t \in Terminal : AltFnLaunch(t)
    BY <1>0, <2>3 DEF AltFnLaunch, MayLaunch, UnusedInv, TypeOK
  <2> QED
    BY <2>1, <2>2, <2>3
<1>2. /\ get_pid(proc_state, p) /\ proc_state' = [proc_state EXCEPT ![p] = 1]
      /\ pcb' = [pcb EXCEPT ![p] = [p_pid |-> p, terminal |-> t,
                                    parent |-> LocAt(pt.stk, pt.base, "iexec")]]
      /\ t_curr' = [t_curr EXCEPT ![t] = p] /\ curr' = p /\ me' = p /\ win' = << >>
  BY <1>1 DEF execute
<1>3. pcb \in [Pid -> PCB]
  BY <1>0 DEF TypeOK
<1> QED
  BY <1>1, <1>2, <1>3 DEF LocAt

\* A program started by the system call execute.
LEMMA ExecuteTables ==
  ASSUME IInv, ExecuteSyscall
  PROVE  \E p \in Pid :
           /\ stop = "none" /\ stop' = "none"
           /\ get_pid(proc_state, p)
           /\ proc_state' = [proc_state EXCEPT ![p] = 1]
           /\ \A q \in Pid \ {p} : pcb'[q] = pcb[q]
           /\ pcb'[p].p_pid = curr /\ pcb'[p].parent.kind = "exec"
           /\ t_curr' = [t_curr EXCEPT ![pcb[curr].terminal] = p]
           /\ curr' = p /\ me' = p /\ win' = << >> /\ running' = running
<1>0. TypeOK /\ curr \in Pid /\ t_curr[pcb[curr].terminal] = curr
  BY InUserFacts DEF ExecuteSyscall
<1>1. PICK p \in Pid : execute(p, pcb[curr].terminal, proc_state, t_curr, curr, "exec",
                               Suspend(LocAt(pt.stk, pt.base, "exec")))
  BY DEF ExecuteSyscall
<1>2. /\ get_pid(proc_state, p) /\ proc_state' = [proc_state EXCEPT ![p] = 1]
      /\ pcb' = [pcb EXCEPT ![p] = [p_pid |-> curr, terminal |-> pcb[curr].terminal,
                                    parent |-> LocAt(pt.stk, pt.base, "exec")]]
      /\ t_curr' = [t_curr EXCEPT ![pcb[curr].terminal] = p]
      /\ curr' = p /\ me' = p /\ win' = << >>
  BY <1>0, <1>1, NoneIsNoPid DEF execute
<1>3. pcb \in [Pid -> PCB] /\ stop = "none" /\ stop' = "none" /\ running' = running
  BY <1>0 DEF TypeOK, ExecuteSyscall, InUser
<1> QED
  BY <1>2, <1>3 DEF LocAt

\* The shell that replaces a bottom-most process.
LEMMA HaltRootTables ==
  ASSUME IInv, HaltRoot
  PROVE  \E p \in Pid :
           /\ stop = "none" /\ stop' = "none" /\ pcb[curr].p_pid = curr
           /\ get_pid(Freed(curr), p)
           /\ proc_state' = [Freed(curr) EXCEPT ![p] = 1]
           /\ \A q \in Pid \ {p} : pcb'[q] = pcb[q]
           /\ pcb'[p].p_pid = curr /\ pcb'[p].parent.kind = "rexec"
           /\ t_curr' = [t_curr EXCEPT ![pcb[curr].terminal] = p]
           /\ curr' = p /\ me' = p /\ win' = << >> /\ running' = running
<1>0. TypeOK /\ curr \in Pid /\ pcb[curr].terminal \in Terminal /\ pcb[curr].p_pid = curr
      /\ t_curr[pcb[curr].terminal] = curr
  BY InUserFacts DEF HaltRoot
<1>1. Popped(curr) = t_curr
  BY <1>0 DEF Popped, TypeOK
<1>2. PICK p \in Pid : execute(p, pcb[curr].terminal, Freed(curr), t_curr, curr,
                               "rexec", [susp EXCEPT ![curr] = NoLoc])
  BY <1>1 DEF HaltRoot
<1>3. /\ get_pid(Freed(curr), p) /\ proc_state' = [Freed(curr) EXCEPT ![p] = 1]
      /\ pcb' = [pcb EXCEPT ![p] = [p_pid |-> curr, terminal |-> pcb[curr].terminal,
                                    parent |-> LocAt(pt.stk, pt.base, "rexec")]]
      /\ t_curr' = [t_curr EXCEPT ![pcb[curr].terminal] = p]
      /\ curr' = p /\ me' = p /\ win' = << >>
  BY <1>0, <1>2, NoneIsNoPid DEF execute
<1>4. pcb \in [Pid -> PCB] /\ stop = "none" /\ stop' = "none" /\ running' = running
  BY <1>0 DEF TypeOK, HaltRoot, InUser
<1> QED
  BY <1>0, <1>3, <1>4 DEF LocAt

\* A live process started by execute has a live parent.
LEMMA ParentLive ==
  ASSUME IInv, stop # "halt", NEW c \in Pid, Live(c), pcb[c].parent.kind = "exec"
  PROVE  pcb[c].p_pid \in Pid /\ Live(pcb[c].p_pid) /\ pcb[c].p_pid # c
<1>1. pcb[c].p_pid \in Pid
  BY DEF IInv, TypeOK, PCB
<1> QED
  BY <1>1 DEF IInv, WaitingChain, ChildOf

\* Every action keeps every live process in reach of the tops.
LEMMA StrandedStep ==
  ASSUME IInv, NoneStranded, [Next]_vars
  PROVE  NoneStranded'
<1> SUFFICES ASSUME stop' # "halt", NEW S \in SUBSET Pid, FoundFromTop(S)',
                    NEW q \in Pid, Live(q)'
             PROVE  q \in S
  BY DEF NoneStranded
<1>0. TypeOK /\ proc_state \in [Pid -> {0, 1}] /\ t_curr \in [Terminal -> Pid \cup {None}]
  BY DEF IInv, TypeOK
<1>1. CASE (BootExecute \/ PitLaunch \/ \E t \in Terminal : AltFnLaunch(t)) \/ ExecuteSyscall
  <2>1. PICK p \in Pid, t \in Terminal :
          /\ stop = "none" /\ get_pid(proc_state, p)
          /\ proc_state' = [proc_state EXCEPT ![p] = 1]
          /\ \A r \in Pid \ {p} : pcb'[r] = pcb[r]
          /\ t_curr' = [t_curr EXCEPT ![t] = p]
          /\ t_curr[t] # None => pcb'[p].parent.kind = "exec" /\ pcb'[p].p_pid = t_curr[t]
    <3>1. CASE BootExecute \/ PitLaunch \/ \E t \in Terminal : AltFnLaunch(t)
      BY <3>1, LaunchTables
    <3>2. CASE ExecuteSyscall
      <4>1. pcb[curr].terminal \in Terminal /\ t_curr[pcb[curr].terminal] = curr
        BY <3>2, InUserFacts DEF ExecuteSyscall
      <4> QED
        BY <3>2, <4>1, ExecuteTables
    <3> QED
      BY <1>1, <3>1, <3>2
  <2>2. ~Live(p) /\ Live(p)' /\ \A r \in Pid \ {p} : Live(r)' <=> Live(r)
    BY <1>0, <2>1 DEF get_pid, Live
  <2>3. t_curr'[t] = p /\ \A u \in Terminal \ {t} : t_curr'[u] = t_curr[u]
    BY <1>0, <2>1
  <2>4. p \in S
    BY <2>3, NoneIsNoPid DEF FoundFromTop
  <2>5. ASSUME NEW u \in Terminal, t_curr[u] # None
        PROVE  t_curr[u] \in S \ {p}
    <3>1. Live(t_curr[u])
      BY <2>1, <2>5 DEF IInv, TopOfTerminal
    <3>2. t_curr[u] \in S
      BY <2>1, <2>2, <2>3, <2>4, <2>5 DEF FoundFromTop
    <3> QED
      BY <2>2, <3>1, <3>2
  <2>6. ASSUME NEW c \in S \ {p}, Live(c), pcb[c].parent.kind = "exec"
        PROVE  pcb[c].p_pid \in S \ {p}
    <3>1. pcb[c].p_pid \in S
      BY <2>1, <2>2, <2>6 DEF FoundFromTop
    <3> QED
      BY <2>1, <2>2, <2>6, <3>1, ParentLive
  <2>7. FoundFromTop(S \ {p})
    BY <2>5, <2>6 DEF FoundFromTop
  <2> QED
    BY <2>1, <2>2, <2>4, <2>7 DEF NoneStranded
<1>2. CASE HaltRoot
  <2>0. /\ curr \in Pid /\ Live(curr) /\ pcb[curr].terminal \in Terminal
        /\ t_curr[pcb[curr].terminal] = curr
    BY <1>2, InUserFacts DEF HaltRoot
  <2>1. PICK p \in Pid :
          /\ stop = "none" /\ pcb[curr].p_pid = curr
          /\ get_pid(Freed(curr), p)
          /\ proc_state' = [Freed(curr) EXCEPT ![p] = 1]
          /\ \A r \in Pid \ {p} : pcb'[r] = pcb[r]
          /\ t_curr' = [t_curr EXCEPT ![pcb[curr].terminal] = p]
    BY <1>2, HaltRootTables
  <2>2. /\ p = curr \/ ~Live(p)
        /\ \A r \in Pid \ {p} : Live(r)' <=> Live(r) /\ r # curr
    BY <1>0, <2>0, <2>1 DEF get_pid, Live, Freed
  <2>3. t_curr'[pcb[curr].terminal] = p
        /\ \A u \in Terminal \ {pcb[curr].terminal} : t_curr'[u] = t_curr[u]
    BY <1>0, <2>0, <2>1
  <2>4. p \in S
    BY <2>0, <2>3, NoneIsNoPid DEF FoundFromTop
  <2> DEFINE R == (S \ {p}) \cup {curr}
  <2>5. ASSUME NEW u \in Terminal, t_curr[u] # None
        PROVE  t_curr[u] \in R
    <3>1. CASE u = pcb[curr].terminal
      BY <2>0, <3>1
    <3>2. CASE u # pcb[curr].terminal
      <4>1. Live(t_curr[u]) /\ pcb[t_curr[u]].terminal = u
        BY <2>1, <2>5 DEF IInv, TopOfTerminal
      <4>2. t_curr[u] \in S
        BY <2>3, <2>5, <3>2 DEF FoundFromTop
      <4> QED
        BY <2>2, <3>2, <4>1, <4>2
    <3> QED
      BY <3>1, <3>2
  <2>6. ASSUME NEW c \in R, Live(c), pcb[c].parent.kind = "exec"
        PROVE  pcb[c].p_pid \in R
    <3>1. c # curr
      BY <2>0, <2>1, <2>6, ParentLive
    <3>2. c \in S \ {p} /\ Live(c)' /\ pcb'[c] = pcb[c]
      BY <2>1, <2>2, <2>6, <3>1
    <3>3. pcb[c].p_pid \in S
      BY <2>6, <3>2 DEF FoundFromTop
    <3> QED
      BY <2>1, <2>2, <2>6, <3>2, <3>3, ParentLive
  <2>7. FoundFromTop(R) /\ R \in SUBSET Pid
    BY <2>0, <2>5, <2>6 DEF FoundFromTop
  <2> QED
    BY <2>1, <2>2, <2>4, <2>7 DEF NoneStranded
<1>3. CASE HaltChild
  <2>0. /\ curr \in Pid /\ Live(curr) /\ pcb[curr].terminal \in Terminal
        /\ t_curr[pcb[curr].terminal] = curr /\ stop = "none"
        /\ pcb[curr].p_pid \in Pid
    BY <1>3, InUserFacts DEF HaltChild, InUser
  <2>1. /\ \A r \in Pid : Live(r)' <=> Live(r) /\ r # curr
        /\ pcb' = pcb
        /\ t_curr'[pcb[curr].terminal] = pcb[curr].p_pid
        /\ \A u \in Terminal \ {pcb[curr].terminal} : t_curr'[u] = t_curr[u]
    BY <1>0, <1>3, <2>0 DEF HaltChild, Freed, Popped, Live
  <2>2. pcb[curr].p_pid \in S
    BY <2>0, <2>1, NoneIsNoPid DEF FoundFromTop
  <2>3. FoundFromTop(S \cup {curr}) /\ S \cup {curr} \in SUBSET Pid
    BY <2>0, <2>1, <2>2 DEF FoundFromTop
  <2> QED
    BY <2>0, <2>1, <2>3 DEF NoneStranded
<1>4. CASE \/ ExecuteIret \/ HaltReturn \/ SyscallEnter \/ SyscallLeave
           \/ PitSelect \/ PitSwitch \/ Exception \/ UNCHANGED vars
  <2>1. UNCHANGED <<proc_state, t_curr, pcb>> /\ stop # "halt"
    BY <1>4 DEF ExecuteIret, HaltReturn, SyscallEnter, SyscallLeave, PitSelect,
                PitSwitch, PitSwitchSelf, PitSwitchNext, Exception, InUser, vars
  <2> QED
    BY <2>1 DEF NoneStranded, FoundFromTop, Live
<1> QED
  BY <1>1, <1>2, <1>3, <1>4 DEF Next, Tick

\* Every live process is found from the top of a terminal along the parents:
\* the halts of the programs above it come back to it.
THEOREM StrandedCorrect == Spec => []NoneStranded
<1>1. Init => NoneStranded
  BY DEF Init, NoneStranded, Live
<1> QED
  BY <1>1, Inductive, StrandedStep, PTL DEF Spec
-----------------------------------------------------------------------------
\* Until a shell has been launched from the keyboard, terminal 0 is the only one
\* in use: every live process belongs to it, and the top one is in curr.
LEMMA OnlyZero ==
  ASSUME IInv, stop # "halt", \A t \in Terminal : ~running[t]
  PROVE  /\ \A t \in Terminal : t # 0 => t_curr[t] = None
         /\ \A p \in Pid : Live(p) => pcb[p].terminal = 0
         /\ \A p \in Pid : Live(p) /\ Top(p) => p = t_curr[0]
         /\ Booted => t_curr[0] = curr
<1>0. TypeOK /\ UnusedInv /\ TopOfTerminal
  BY DEF IInv
<1>1. \A t \in Terminal : t # 0 => t_curr[t] = None
  BY <1>0 DEF UnusedInv
<1>2. \A p \in Pid : Live(p) => pcb[p].terminal = 0
  BY <1>0, <1>1 DEF UnusedInv, TypeOK, PCB
<1>3. \A p \in Pid : Live(p) /\ Top(p) => p = t_curr[0]
  BY <1>2 DEF Top
<1> QED
  BY <1>0, <1>1, <1>2, <1>3 DEF TopOfTerminal, TypeOK

\* The boot, or a tick during the boot, starts the first shell in slot 0.
LEMMA FirstShell ==
  ASSUME IInv, OneStack, BootExecute \/ PitLaunch \/ \E t \in Terminal : AltFnLaunch(t)
  PROVE  OneStack'
<1> SUFFICES ASSUME \A t \in Terminal : ~running'[t] PROVE OneStack'
  BY DEF OneStack
<1>0. TypeOK /\ BootInv
  BY DEF IInv, BootExecute, PitLaunch, AltFnLaunch
<1>1. PICK p \in Pid, t \in Terminal :
        /\ stop = "none" /\ stop' = "none" /\ t_curr[t] = None
        /\ get_pid(proc_state, p)
        /\ proc_state' = [proc_state EXCEPT ![p] = 1]
        /\ \A q \in Pid \ {p} : pcb'[q] = pcb[q]
        /\ pcb'[p].p_pid = p /\ pcb'[p].parent.kind = "iexec"
        /\ t_curr' = [t_curr EXCEPT ![t] = p]
        /\ curr' = p /\ me' = p /\ win' = << >>
        /\ t = 0 \/ running'[t]
  BY LaunchTables
<1>2. t = 0
  BY <1>1
<1>3. \A u \in Terminal : ~running[u]
  <2>1. CASE BootExecute \/ PitLaunch
    BY <2>1 DEF BootExecute, PitLaunch
  <2>2. CASE \E u \in Terminal : AltFnLaunch(u)
    BY <1>0, <2>2 DEF AltFnLaunch, TypeOK
  <2> QED
    BY <2>1, <2>2
<1>4. ~Booted
  <2>1. Booted => t_curr[0] = curr /\ curr \in Pid
    BY <1>0, <1>1, <1>3, OnlyZero DEF TypeOK
  <2> QED
    BY <1>1, <1>2, <2>1, NoneIsNoPid
<1>5. \A q \in Pid : proc_state[q] = 0
  BY <1>0, <1>4 DEF BootInv, Booted, Live, TypeOK
<1>6. p = 0
  BY <1>1, <1>5, ZeroSlots DEF get_pid, Pid
<1>7. \A q \in Pid : Live(q)' <=> q = 0
  BY <1>0, <1>1, <1>5, <1>6 DEF Live, TypeOK
<1>8. \A q \in Pid : q <= 0 <=> q = 0
  BY DEF Pid
<1>9. stop' \notin {"tick", "halt"}
  BY <1>1
<1>10. \A q \in Pid : Live(q)' <=> q <= curr'
  BY <1>1, <1>6, <1>7, <1>8
<1>11. \A q \in Pid : Live(q)' =>
         /\ pcb'[q].p_pid = IF q = 0 THEN 0 ELSE q - 1
         /\ pcb'[q].parent.kind = "exec" <=> q # 0
  BY <1>1, <1>6, <1>7
<1>12. \A i \in 1 .. Len(win') : win'[i].nxt = win'[i].cur
  <2>1. Len(win') = 0
    BY <1>1
  <2> QED
    BY <2>1
<1> QED
  BY <1>9, <1>10, <1>11, <1>12 DEF OneStack

\* A system call execute puts its program on top of the stack of slots.
LEMMA PushStep ==
  ASSUME IInv, OneStack, ExecuteSyscall
  PROVE  OneStack'
<1> SUFFICES ASSUME \A t \in Terminal : ~running'[t] PROVE OneStack'
  BY DEF OneStack
<1>1. PICK p \in Pid :
        /\ stop = "none" /\ stop' = "none"
        /\ get_pid(proc_state, p)
        /\ proc_state' = [proc_state EXCEPT ![p] = 1]
        /\ \A q \in Pid \ {p} : pcb'[q] = pcb[q]
        /\ pcb'[p].p_pid = curr /\ pcb'[p].parent.kind = "exec"
        /\ t_curr' = [t_curr EXCEPT ![pcb[curr].terminal] = p]
        /\ curr' = p /\ me' = p /\ win' = << >> /\ running' = running
  BY ExecuteTables
<1>2. TypeOK /\ Booted /\ curr \in Pid
  BY InUserFacts DEF ExecuteSyscall
<1>3. /\ \A q \in Pid : Live(q) <=> q <= curr
      /\ \A q \in Pid : Live(q) => /\ pcb[q].p_pid = IF q = 0 THEN 0 ELSE q - 1
                                   /\ pcb[q].parent.kind = "exec" <=> q # 0
  BY <1>1, <1>2 DEF OneStack
<1>4. p = curr + 1
  <2>1. ~(p <= curr) /\ \A q \in Pid : q < p => q <= curr
    BY <1>1, <1>3 DEF get_pid, Live
  <2>2. p \in Nat /\ curr \in Nat /\ p > curr /\ p - 1 \in Pid
    BY <1>2, <2>1, ConstantsAssumption DEF Pid
  <2>3. p - 1 <= curr
    BY <2>1, <2>2
  <2> QED
    BY <2>2, <2>3
<1>5. \A q \in Pid : Live(q)' <=> q <= p
  <2>1. \A q \in Pid : Live(q)' <=> q = p \/ Live(q)
    BY <1>1, <1>2 DEF Live, TypeOK
  <2> QED
    BY <1>2, <1>3, <1>4, <2>1 DEF Pid
<1>6. \A q \in Pid : Live(q)' => /\ pcb'[q].p_pid = IF q = 0 THEN 0 ELSE q - 1
                                 /\ pcb'[q].parent.kind = "exec" <=> q # 0
  <2>1. p # 0 /\ p - 1 = curr
    BY <1>2, <1>4 DEF Pid
  <2>2. \A q \in Pid \ {p} : Live(q)' => Live(q)
    BY <1>1, <1>2 DEF Live, TypeOK
  <2> QED
    BY <1>1, <1>3, <2>1, <2>2
<1> QED
  BY <1>1, <1>5, <1>6 DEF OneStack, Booted

\* The bottom-most shell is replaced in its own slot.
LEMMA ReplaceStep ==
  ASSUME IInv, OneStack, HaltRoot
  PROVE  OneStack'
<1> SUFFICES ASSUME \A t \in Terminal : ~running'[t] PROVE OneStack'
  BY DEF OneStack
<1>1. PICK p \in Pid :
        /\ stop = "none" /\ stop' = "none" /\ pcb[curr].p_pid = curr
        /\ get_pid(Freed(curr), p)
        /\ proc_state' = [Freed(curr) EXCEPT ![p] = 1]
        /\ \A q \in Pid \ {p} : pcb'[q] = pcb[q]
        /\ pcb'[p].p_pid = curr /\ pcb'[p].parent.kind = "rexec"
        /\ t_curr' = [t_curr EXCEPT ![pcb[curr].terminal] = p]
        /\ curr' = p /\ me' = p /\ win' = << >> /\ running' = running
  BY HaltRootTables
<1>2. TypeOK /\ Booted /\ curr \in Pid /\ Live(curr)
  BY InUserFacts DEF HaltRoot
<1>3. /\ \A q \in Pid : Live(q) <=> q <= curr
      /\ \A q \in Pid : Live(q) => pcb[q].p_pid = IF q = 0 THEN 0 ELSE q - 1
  BY <1>1, <1>2 DEF OneStack
<1>4. curr = 0
  <2>1. curr = IF curr = 0 THEN 0 ELSE curr - 1
    BY <1>1, <1>2, <1>3
  <2> QED
    BY <1>2, <2>1 DEF Pid
<1>5. \A q \in Pid : Freed(curr)[q] = 0
  <2>1. \A q \in Pid : q # 0 => proc_state[q] = 0
    BY <1>2, <1>3, <1>4 DEF Live, TypeOK, Pid
  <2> QED
    BY <1>2, <1>4, <2>1 DEF Freed, TypeOK
<1>6. p = 0
  BY <1>1, <1>5, ZeroSlots DEF get_pid, Pid
<1>7. \A q \in Pid : Live(q)' <=> q = 0
  BY <1>1, <1>2, <1>5, <1>6 DEF Live, TypeOK, Freed
<1>8. \A q \in Pid : q <= 0 <=> q = 0
  BY DEF Pid
<1> QED
  BY <1>1, <1>4, <1>6, <1>7, <1>8 DEF OneStack, Booted

\* A program's halt finds its parent waiting one slot below.
LEMMA PopStep ==
  ASSUME IInv, OneStack, HaltChild
  PROVE  OneStack'
<1> SUFFICES ASSUME \A t \in Terminal : ~running'[t] PROVE OneStack'
  BY DEF OneStack
<1>1. /\ stop = "none" /\ win = << >> /\ pcb[curr].p_pid # curr
      /\ proc_state' = Freed(curr) /\ curr' = pcb[curr].p_pid /\ me' = pcb[curr].p_pid
      /\ stop' = IF ParentWaits(curr) THEN "none" ELSE "halt"
      /\ UNCHANGED <<pcb, running, win>>
  BY DEF HaltChild, InUser
<1>2. TypeOK /\ Booted /\ curr \in Pid /\ Live(curr) /\ pcb[curr].p_pid \in Pid
  BY InUserFacts DEF HaltChild
<1>3. /\ \A q \in Pid : Live(q) <=> q <= curr
      /\ \A q \in Pid : Live(q) => /\ pcb[q].p_pid = IF q = 0 THEN 0 ELSE q - 1
                                   /\ pcb[q].parent.kind = "exec" <=> q # 0
  BY <1>1, <1>2 DEF OneStack
<1>4. curr # 0 /\ pcb[curr].p_pid = curr - 1 /\ pcb[curr].parent.kind = "exec"
  BY <1>1, <1>2, <1>3
<1>5. ParentWaits(curr)
  BY <1>1, <1>2, <1>4 DEF IInv, WaitingChain, ChildOf, ParentWaits
<1>6. \A q \in Pid : Live(q)' <=> Live(q) /\ q # curr
  BY <1>1, <1>2 DEF Freed, Live, TypeOK
<1>7. \A q \in Pid : Live(q)' <=> q <= curr - 1
  BY <1>2, <1>3, <1>6 DEF Pid
<1> QED
  BY <1>1, <1>3, <1>4, <1>5, <1>6, <1>7 DEF OneStack, Booted

\* A tick selects the process it interrupts, and switches back to it.
LEMMA SameTick ==
  ASSUME IInv, OneStack, PitSelect \/ PitSwitch
  PROVE  OneStack'
<1> SUFFICES ASSUME \A t \in Terminal : ~running'[t] PROVE OneStack'
  BY DEF OneStack
<1>1. UNCHANGED <<proc_state, pcb, t_curr, running>> /\ stop = "none"
  BY DEF PitSelect, PitSwitch, PitSwitchSelf, PitSwitchNext
<1>2. TypeOK /\ BootInv /\ WinInv /\ win \in Seq([cur : Pid, nxt : Pid])
      /\ \A t \in Terminal : ~running[t]
  BY <1>1 DEF IInv, TypeOK
<1>3. \A i \in 1 .. Len(win) : win[i].nxt = win[i].cur
  BY <1>1, <1>2 DEF OneStack
<1>4. CASE PitSelect
  <2>1. PICK n \in Terminal :
          /\ t_curr[n] # None /\ curr' = t_curr[n]
          /\ win' = Append(win, [cur |-> curr, nxt |-> t_curr[n]])
          /\ UNCHANGED <<me, stop>>
    BY <1>4 DEF PitSelect, NextTerminal
  <2>2. n = 0
    BY <1>1, <1>2, <2>1, OnlyZero
  <2>3. Booted
    BY <1>2, <2>1 DEF Booted, BootInv
  <2>4. t_curr[0] = curr
    BY <1>1, <1>2, <2>3, OnlyZero
  <2>5. \A i \in 1 .. Len(win') : win'[i].nxt = win'[i].cur
    BY <1>2, <1>3, <2>1, <2>2, <2>4
  <2> QED
    BY <1>1, <2>1, <2>2, <2>4, <2>5 DEF OneStack, Booted, Live
<1>5. CASE PitSwitch
  <2>1. win # << >> /\ Len(win) \in 1 .. Len(win)
    BY <1>2, <1>5 DEF PitSwitch, PitSwitchSelf, PitSwitchNext
  <2>2. Newest.nxt = Newest.cur
    BY <1>3, <2>1 DEF Newest
  <2>3. PitSwitchSelf
    BY <1>5, <2>2 DEF PitSwitch, PitSwitchNext
  <2>4. win' = SubSeq(win, 1, Len(win) - 1) /\ UNCHANGED <<curr, me, stop>>
    BY <2>3 DEF PitSwitchSelf
  <2>5. \A i \in 1 .. Len(win') : win'[i].nxt = win'[i].cur
    BY <1>2, <1>3, <2>1, <2>4, FrontFacts
  <2> QED
    BY <1>1, <2>4, <2>5 DEF OneStack, Booted, Live
<1> QED
  BY <1>4, <1>5

\* Every action keeps the single stack of processes.
LEMMA OneStackStep ==
  ASSUME IInv, OneStack, [Next]_vars
  PROVE  OneStack'
<1>1. CASE \/ ExecuteIret \/ HaltReturn \/ SyscallEnter \/ SyscallLeave
           \/ Exception \/ UNCHANGED vars
  <2>1. UNCHANGED <<proc_state, pcb, curr, me, running, win>>
        /\ (stop' \in {"tick", "halt"} => stop' = stop)
    BY <1>1 DEF ExecuteIret, HaltReturn, SyscallEnter, SyscallLeave, Exception, vars
  <2> QED
    BY <2>1 DEF OneStack, Booted, Live
<1> QED
  BY <1>1, FirstShell, PushStep, ReplaceStep, PopStep, SameTick DEF Next, Tick

\* Until a shell has been launched from the keyboard no tick and no halt loads a
\* stack pointer at which the resumed process does not wait, however deep its
\* programs are nested and however many ticks fall into each other's windows.
THEOREM SoundCorrect == Spec => []SoundUntilLaunch
<1>1. Init => OneStack
  BY DEF Init, OneStack, Live, Booted
<1>2. OneStack => SoundUntilLaunch
  BY DEF OneStack, SoundUntilLaunch
<1> QED
  BY <1>1, <1>2, Inductive, OneStackStep, PTL DEF Spec
-----------------------------------------------------------------------------
\* Processes implements the stacks of programs of module Stacks.

LEMMA StacksInit == Init => OnStacks!Init
<1> SUFFICES ASSUME Init PROVE OnStacks!Init
  OBVIOUS
<1>1. \A p \in Pid : ~Live(p)
  BY DEF Init, Live
<1>2. Under = [p \in {} |-> None] /\ Strays = {}
  BY <1>1 DEF Under, Strays
<1> QED
  BY <1>2 DEF Init, OnStacks!Init, Boot, None

\* Who is on a stack, and on top of whom, is what the process table and the
\* PCBs of the live processes say.
LEMMA UnderFacts ==
  /\ DOMAIN Under = {q \in Pid : Live(q)}
  /\ OnStacks!Programs = {q \in Pid : Live(q)}
  /\ \A q \in Pid : Live(q) => Under[q] = IF pcb[q].parent.kind = "exec" THEN pcb[q].p_pid ELSE None
  /\ \A q \in Pid : q \in Strays <=> Live(q) /\ pcb[q].parent.kind # "exec" /\ pcb[q].p_pid # q
BY DEF Under, Strays, OnStacks!Programs

\* A step that changes neither the tables nor the process the CPU works for.
LEMMA StacksSame ==
  ASSUME UNCHANGED <<proc_state, t_curr, pcb, me, stop>>
  PROVE  UNCHANGED OnStacks!stacks
BY DEF OnStacks!stacks, Under, Strays, Live

\* The boot, a tick during it and Alt+Fn launch the first shell of a terminal.
LEMMA StacksLaunch ==
  ASSUME IInv, BootExecute \/ PitLaunch \/ \E t \in Terminal : AltFnLaunch(t)
  PROVE  OnStacks!Next
<1>1. PICK p \in Pid, t \in Terminal :
        /\ stop = "none" /\ stop' = "none" /\ t_curr[t] = None
        /\ get_pid(proc_state, p)
        /\ proc_state' = [proc_state EXCEPT ![p] = 1]
        /\ \A q \in Pid \ {p} : pcb'[q] = pcb[q]
        /\ pcb'[p].p_pid = p /\ pcb'[p].parent.kind = "iexec"
        /\ t_curr' = [t_curr EXCEPT ![t] = p]
        /\ curr' = p /\ me' = p /\ win' = << >>
        /\ t = 0 \/ running'[t]
  BY LaunchTables
<1>2. TypeOK /\ ~Live(p) /\ \A q \in Pid : Live(q)' <=> Live(q) \/ q = p
  BY <1>1 DEF IInv, TypeOK, Live, get_pid
<1>3. Strays' = Strays
  BY <1>1, <1>2 DEF Strays
<1>4. Under' = OnStacks!PutOn(OnStacks!Programs, p, None)
  <2>1. {q \in Pid : Live(q)'} = {q \in Pid : Live(q)} \cup {p}
    BY <1>2
  <2>2. \A q \in Pid : Live(q)' =>
          (IF pcb'[q].parent.kind = "exec" THEN pcb'[q].p_pid ELSE None)
            = IF q = p THEN None ELSE Under[q]
    BY <1>1, <1>2, UnderFacts
  <2> QED
    BY <2>1, <2>2, UnderFacts DEF Under, OnStacks!PutOn
<1>5. OnStacks!Launch(t, p)
  BY <1>1, <1>2, <1>3, <1>4, UnderFacts DEF OnStacks!Launch
<1> QED
  BY <1>5 DEF OnStacks!Next

\* execute puts the new program on top of its caller.
LEMMA StacksBegin ==
  ASSUME IInv, ExecuteSyscall
  PROVE  OnStacks!Next
<1>1. PICK p \in Pid :
        /\ stop = "none" /\ stop' = "none"
        /\ get_pid(proc_state, p)
        /\ proc_state' = [proc_state EXCEPT ![p] = 1]
        /\ \A q \in Pid \ {p} : pcb'[q] = pcb[q]
        /\ pcb'[p].p_pid = curr /\ pcb'[p].parent.kind = "exec"
        /\ t_curr' = [t_curr EXCEPT ![pcb[curr].terminal] = p]
        /\ curr' = p /\ me' = p /\ win' = << >> /\ running' = running
  BY ExecuteTables
<1>0. /\ TypeOK /\ me = curr /\ curr \in Pid /\ pcb[curr].terminal \in Terminal
      /\ t_curr[pcb[curr].terminal] = curr
  BY InUserFacts DEF ExecuteSyscall
<1>2. ~Live(p) /\ \A q \in Pid : Live(q)' <=> Live(q) \/ q = p
  BY <1>0, <1>1 DEF TypeOK, Live, get_pid
<1>3. Strays' = Strays
  BY <1>1, <1>2 DEF Strays
<1>4. Under' = OnStacks!PutOn(OnStacks!Programs, p, me)
  <2>1. {q \in Pid : Live(q)'} = {q \in Pid : Live(q)} \cup {p}
    BY <1>2
  <2>2. \A q \in Pid : Live(q)' =>
          (IF pcb'[q].parent.kind = "exec" THEN pcb'[q].p_pid ELSE None)
            = IF q = p THEN me ELSE Under[q]
    BY <1>0, <1>1, <1>2, UnderFacts
  <2> QED
    BY <2>1, <2>2, UnderFacts DEF Under, OnStacks!PutOn
<1>5. OnStacks!Begin(pcb[curr].terminal, p)
  BY <1>0, <1>1, <1>2, <1>3, <1>4, UnderFacts, NoneIsNoPid DEF OnStacks!Begin, OnStacks!Runs
<1> QED
  BY <1>0, <1>5 DEF OnStacks!Next

\* halt of a bottom shell in its own slot: a new shell takes its place.
LEMMA StacksReplace ==
  ASSUME IInv, HaltRoot
  PROVE  OnStacks!Next
<1>1. PICK p \in Pid :
        /\ stop = "none" /\ stop' = "none" /\ pcb[curr].p_pid = curr
        /\ get_pid(Freed(curr), p)
        /\ proc_state' = [Freed(curr) EXCEPT ![p] = 1]
        /\ \A q \in Pid \ {p} : pcb'[q] = pcb[q]
        /\ pcb'[p].p_pid = curr /\ pcb'[p].parent.kind = "rexec"
        /\ t_curr' = [t_curr EXCEPT ![pcb[curr].terminal] = p]
        /\ curr' = p /\ me' = p /\ win' = << >> /\ running' = running
  BY HaltRootTables
<1>0. /\ TypeOK /\ me = curr /\ curr \in Pid /\ pcb[curr].terminal \in Terminal
      /\ t_curr[pcb[curr].terminal] = curr /\ Live(curr)
  BY InUserFacts DEF HaltRoot
<1>2. pcb[curr].parent.kind # "exec"
  BY <1>0, <1>1, ParentLive
<1>3. /\ p = curr \/ ~Live(p)
      /\ \A q \in Pid : Live(q)' <=> (Live(q) /\ q # curr) \/ q = p
  BY <1>0, <1>1 DEF TypeOK, Live, get_pid, Freed
<1>4. Strays' = IF p = curr THEN Strays ELSE Strays \cup {p}
  <2>1. CASE p = curr
    BY <1>0, <1>1, <1>2, <1>3, <2>1 DEF Strays
  <2>2. CASE p # curr
    <3>1. \A q \in Pid : q \in Strays' <=> q \in Strays \/ q = p
      BY <1>0, <1>1, <1>2, <1>3, <2>2 DEF Strays
    <3>2. Strays \subseteq Pid /\ Strays' \subseteq Pid
      BY DEF Strays
    <3> QED
      BY <3>1, <3>2, <2>2
  <2> QED
    BY <2>1, <2>2
<1>5. Under' = OnStacks!PutOn(OnStacks!Programs \ {me}, p, None)
  <2>1. {q \in Pid : Live(q)'} = ({q \in Pid : Live(q)} \ {me}) \cup {p}
    BY <1>0, <1>3
  <2>2. \A q \in Pid : Live(q)' =>
          (IF pcb'[q].parent.kind = "exec" THEN pcb'[q].p_pid ELSE None)
            = IF q = p THEN None ELSE Under[q]
    BY <1>0, <1>1, <1>3, UnderFacts
  <2> QED
    BY <2>1, <2>2, UnderFacts DEF Under, OnStacks!PutOn
<1>6. Under[me] = None /\ me \notin Strays /\ p \notin OnStacks!Programs \ {me}
  BY <1>0, <1>1, <1>2, <1>3, UnderFacts
<1>7. OnStacks!Replace(pcb[curr].terminal, p)
  BY <1>0, <1>1, <1>4, <1>5, <1>6, NoneIsNoPid DEF OnStacks!Replace, OnStacks!Runs
<1> QED
  BY <1>0, <1>7 DEF OnStacks!Next

\* Any other halt goes back to the program under the one that ends, or is a stray's.
LEMMA StacksReturn ==
  ASSUME IInv, HaltChild
  PROVE  OnStacks!Next
<1>0. /\ TypeOK /\ me = curr /\ curr \in Pid /\ pcb[curr].terminal \in Terminal
      /\ t_curr[pcb[curr].terminal] = curr /\ Live(curr) /\ stop = "none"
      /\ pcb[curr].p_pid \in Pid /\ pcb[curr].p_pid # curr
  BY InUserFacts DEF HaltChild, InUser
<1>1. CASE pcb[curr].parent.kind = "exec"
  <2>1. ParentWaits(curr)
    BY <1>0, <1>1, ParentLive DEF IInv, WaitingChain, ChildOf, ParentWaits
  <2>2. /\ stop' = "none" /\ me' = pcb[curr].p_pid
        /\ t_curr' = [t_curr EXCEPT ![pcb[curr].terminal] = pcb[curr].p_pid]
        /\ pcb' = pcb
    BY <2>1 DEF HaltChild, Popped
  <2>3. \A q \in Pid : Live(q)' <=> Live(q) /\ q # curr
    BY <1>0 DEF HaltChild, Freed, TypeOK, Live
  <2>4. Strays' = Strays
    BY <1>0, <1>1, <2>2, <2>3 DEF Strays
  <2>5. Under[me] = pcb[curr].p_pid
    BY <1>0, <1>1, UnderFacts
  <2>6. Under' = [q \in OnStacks!Programs \ {me} |-> Under[q]]
    <3>1. {q \in Pid : Live(q)'} = OnStacks!Programs \ {me}
      BY <1>0, <2>3, UnderFacts
    <3>2. \A q \in Pid : Live(q)' =>
            (IF pcb'[q].parent.kind = "exec" THEN pcb'[q].p_pid ELSE None) = Under[q]
      BY <2>2, <2>3, UnderFacts
    <3> QED
      BY <3>1, <3>2 DEF Under
  <2>7. OnStacks!Return(pcb[curr].terminal)
    BY <1>0, <2>2, <2>4, <2>5, <2>6, NoneIsNoPid DEF OnStacks!Return, OnStacks!Runs
  <2> QED
    BY <1>0, <2>7 DEF OnStacks!Next
<1>2. CASE pcb[curr].parent.kind # "exec"
  <2>1. stop' = "halt"
    BY <1>2 DEF HaltChild, ParentWaits
  <2>2. me \in Strays
    BY <1>0, <1>2 DEF Strays
  <2> QED
    BY <1>0, <2>1, <2>2 DEF OnStacks!WildHalt, OnStacks!Next
<1> QED
  BY <1>1, <1>2

\* The end of a tick gives the CPU to the top of another terminal, or to the
\* process that has it, or goes wrong while two terminals are in use.
LEMMA StacksSwitch ==
  ASSUME IInv, PitSwitchNext
  PROVE  OnStacks!Next \/ UNCHANGED OnStacks!stacks
<1>0. TypeOK /\ WinInv /\ BootInv /\ stop = "none" /\ win # << >>
  BY DEF IInv, PitSwitchNext
<1>1. /\ Len(win) \in Nat \ {0} /\ Newest \in [cur : Pid, nxt : Pid]
      /\ UNCHANGED <<proc_state, t_curr, pcb>>
  BY <1>0, FrontFacts DEF TypeOK, Newest, PitSwitchNext
<1>2. Under' = Under /\ Strays' = Strays /\ t_curr' = t_curr
  BY <1>1 DEF Under, Strays, Live
<1>3. /\ Live(Newest.nxt) /\ Top(Newest.nxt)
      /\ Live(me) /\ Top(me) /\ me \in Pid
  BY <1>0, <1>1 DEF WinInv, Newest, BootInv, Booted, TypeOK
<1>4. \A q \in Pid : Top(q) => \E t \in Terminal : t_curr[t] = q
  BY <1>0 DEF Top, TypeOK, PCB
<1>5. Live(Newest.cur) /\ Top(Newest.cur)
  <2>1. CASE Len(win) = 1
    BY <1>0, <1>3, <2>1 DEF WinInv, Newest
  <2>2. CASE Len(win) # 1
    <3>1. Len(win) - 1 \in 1 .. Len(win) /\ Len(win) \in 1 .. Len(win)
      <4>1. \A n \in Nat \ {0, 1} : n - 1 \in 1 .. n /\ n \in 1 .. n
        OBVIOUS
      <4> QED
        BY <1>1, <2>2, <4>1
    <3> QED
      BY <1>0, <2>2, <3>1 DEF WinInv, Newest
  <2> QED
    BY <2>1, <2>2
<1>6. CASE stop' = "tick"
  <2>1. me' = me
    BY <1>0, <1>6 DEF PitSwitchNext
  <2>2. PICK q \in {Newest.cur, Newest.nxt} : q # me
    BY DEF PitSwitchNext
  <2>3. PICK t \in Terminal : t_curr[t] = q
    BY <1>1, <1>3, <1>4, <1>5
  <2>4. OnStacks!WildSwitch(t)
    BY <1>0, <1>1, <1>2, <1>6, <2>1, <2>2, <2>3, NoneIsNoPid DEF OnStacks!WildSwitch
  <2> QED
    BY <2>4 DEF OnStacks!Next
<1>7. CASE stop' # "tick"
  <2>1. me' = Newest.nxt /\ stop' = stop
    BY <1>7 DEF PitSwitchNext
  <2>2. CASE Newest.nxt = me
    BY <1>2, <2>1, <2>2 DEF OnStacks!stacks
  <2>3. CASE Newest.nxt # me
    <3>1. PICK t \in Terminal : t_curr[t] = Newest.nxt
      BY <1>1, <1>3, <1>4
    <3>2. OnStacks!Switch(t)
      BY <1>0, <1>1, <1>2, <2>1, <2>3, <3>1, NoneIsNoPid DEF OnStacks!Switch
    <3> QED
      BY <3>2 DEF OnStacks!Next
  <2> QED
    BY <2>2, <2>3
<1> QED
  BY <1>6, <1>7

\* Every step of the machine is a step of the stacks, or changes none.
LEMMA StacksStep ==
  ASSUME IInv, [Next]_vars
  PROVE  [OnStacks!Next]_OnStacks!stacks
<1>1. ASSUME BootExecute \/ PitLaunch \/ \E t \in Terminal : AltFnLaunch(t)
      PROVE  OnStacks!Next
  BY <1>1, StacksLaunch
<1>2. ASSUME Exception PROVE OnStacks!Next
  <2>1. UNCHANGED <<t_curr, me, Under, Strays>>
    BY <1>2 DEF Exception, Under, Strays, Live
  <2>2. me # None
    BY <1>2, InUserFacts, NoneIsNoPid DEF Exception
  <2>3. OnStacks!Exception
    BY <1>2, <2>1, <2>2 DEF Exception, InUser, OnStacks!Exception
  <2> QED
    BY <2>3 DEF OnStacks!Next
<1>3. ASSUME \/ ExecuteIret \/ HaltReturn \/ SyscallEnter \/ SyscallLeave
             \/ PitSelect \/ PitSwitchSelf \/ UNCHANGED vars
      PROVE  UNCHANGED OnStacks!stacks
  <2>1. UNCHANGED <<proc_state, t_curr, pcb, me, stop>>
    BY <1>3 DEF ExecuteIret, HaltReturn, SyscallEnter, SyscallLeave, PitSelect,
                PitSwitchSelf, vars
  <2> QED
    BY <2>1, StacksSame
<1> QED
  BY <1>1, <1>2, <1>3, StacksBegin, StacksReplace, StacksReturn, StacksSwitch
     DEF Next, Tick, PitSwitch

\* For any number of slots and terminals and any nesting of ticks, the process
\* table, the scheduler and the keyboard behave like one stack of programs per
\* terminal (execute, halt, pit_int_handler, keyboard_handler).
THEOREM StacksCorrect == Spec => ImplementsStacks
<1>1. Init => OnStacks!Init
  BY StacksInit
<1>2. IInv /\ [Next]_vars => [OnStacks!Next]_OnStacks!stacks
  BY StacksStep
<1> QED
  BY <1>1, <1>2, Inductive, PTL DEF Spec, ImplementsStacks, OnStacks!Spec

=============================================================================
