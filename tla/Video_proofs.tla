---------------------------- MODULE Video_proofs ----------------------------
(***************************************************************************)
(* Proofs about module Video, for any number of slots and terminals.       *)
(***************************************************************************)
EXTENDS Video, TLAPS

\* pid_page_map gives every slot a frame of its own, above the kernel's.
LEMMA FramesApart ==
  /\ \A p \in Pid : Frame(p) \in Nat /\ Frame(p) > KERNEL
  /\ \A p, q \in Pid : Frame(p) = Frame(q) => p = q
<1>1. \A p \in Pid : Frame(p) = p + 2
  BY VideoAssumption DEF Frame, Pid
<1> QED
  BY <1>1, VideoAssumption DEF Pid, KERNEL

LEMMA Entries ==
  /\ \A p \in Pid : ProgramEntry(p) \in Entry
  /\ VideoEntry \in Entry
  /\ VideoEntry.kb /\ VideoEntry.present
  /\ paging_init \in [{LOW, KERNEL, PROGRAM, VIDEO} -> Entry]
  /\ \A i \in {PROGRAM, VIDEO} : ~paging_init[i].present
  /\ \A i \in {LOW, KERNEL} : ~paging_init[i].us
<1>1. \A p \in Pid : ProgramEntry(p) \in Entry
  BY FramesApart DEF ProgramEntry, Entry
<1>2. NoTable \in Entry /\ \A i \in Nat : NoFrame(i) \in Entry
  BY DEF NoTable, NoFrame, Entry
<1>3. VideoEntry \in Entry /\ VideoEntry.kb /\ VideoEntry.present
  BY DEF VideoEntry, NoTable, Entry
<1>4. /\ paging_init[LOW] = [NoTable EXCEPT !.present = TRUE]
      /\ paging_init[KERNEL] = [NoFrame(1) EXCEPT !.present = TRUE]
      /\ paging_init[PROGRAM] = NoFrame(PROGRAM)
      /\ paging_init[VIDEO] = NoFrame(VIDEO)
  BY DEF paging_init, LOW, KERNEL, PROGRAM, VIDEO
<1>5. /\ [NoTable EXCEPT !.present = TRUE] \in Entry
      /\ [NoFrame(1) EXCEPT !.present = TRUE] \in Entry
      /\ NoFrame(PROGRAM) \in Entry /\ NoFrame(VIDEO) \in Entry
  BY DEF NoTable, NoFrame, Entry, PROGRAM, VIDEO
<1>6. \A i \in {LOW, KERNEL} : ~paging_init[i].us
  BY <1>4 DEF NoTable, NoFrame
<1>7. \A i \in {PROGRAM, VIDEO} : ~paging_init[i].present
  BY <1>4 DEF NoFrame
<1>8. paging_init \in [{LOW, KERNEL, PROGRAM, VIDEO} -> Entry]
  BY <1>5 DEF paging_init, LOW, KERNEL, PROGRAM, VIDEO
<1> QED
  BY <1>1, <1>3, <1>6, <1>7, <1>8

\* The directory after a new program has been mapped.
LEMMA ProgramMapped ==
  ASSUME TypeOK, MapInv, NEW p \in Pid,
         page_directory' = pid_page_map(page_directory, p), curr' = p
  PROVE  /\ page_directory' \in [{LOW, KERNEL, PROGRAM, VIDEO} -> Entry]
         /\ MapInv'
<1>1. ProgramEntry(p) \in Entry
  BY Entries
<1>2. /\ page_directory'[PROGRAM] = ProgramEntry(p)
      /\ \A i \in {LOW, KERNEL, VIDEO} : page_directory'[i] = page_directory[i]
      /\ page_directory' \in [{LOW, KERNEL, PROGRAM, VIDEO} -> Entry]
  BY <1>1 DEF TypeOK, pid_page_map, LOW, KERNEL, PROGRAM, VIDEO
<1>3. curr' # None
  BY VideoAssumption DEF Pid, None
<1> QED
  BY <1>2, <1>3 DEF MapInv

\* execute keeps the types and the map.
LEMMA ExecuteFacts ==
  ASSUME TypeOK, MapInv, NEW t \in Terminal, NEW used \in SUBSET Pid, execute(t, used),
         curr # None \/ t_curr[t] = None
  PROVE  /\ page_directory' \in [{LOW, KERNEL, PROGRAM, VIDEO} -> Entry]
         /\ MapInv'
         /\ active' = t /\ live' \subseteq Pid
         /\ t_curr' \in [Terminal -> Pid \cup {None}]
         /\ p_pid' \in [Pid -> Pid] /\ curr' \in Pid \cup {None}
<1>1. PICK p \in Pid :
        /\ live' = used \cup {p}
        /\ p_pid' = [p_pid EXCEPT ![p] = IF t_curr[t] = None THEN p ELSE curr]
        /\ t_curr' = [t_curr EXCEPT ![t] = p]
        /\ curr' = p
        /\ page_directory' = pid_page_map(page_directory, p)
        /\ active' = t
  BY DEF execute
<1>2. /\ page_directory' \in [{LOW, KERNEL, PROGRAM, VIDEO} -> Entry]
      /\ MapInv'
  BY <1>1, ProgramMapped
<1>3. (IF t_curr[t] = None THEN p ELSE curr) \in Pid
  BY DEF TypeOK
<1>4. p_pid' \in [Pid -> Pid]
  BY <1>1, <1>3 DEF TypeOK
<1> QED
  BY <1>1, <1>2, <1>4 DEF TypeOK

LEMMA InitIInv == Init => IInv
<1> SUFFICES ASSUME Init PROVE IInv
  OBVIOUS
<1>1. TypeOK
  <2>1. 0 \in Terminal /\ 0 \in Pid
    BY VideoAssumption DEF Terminal, Pid
  <2>2. vidMem \in [present : BOOLEAN, addr : {0, PT_VIDEO}]
    BY DEF Init
  <2> QED
    BY <2>1, <2>2, Entries DEF Init, TypeOK
<1>2. MapInv
  BY DEF Init, MapInv
<1>3. TickMapsRight
  BY DEF Init, TickMapsRight
<1> QED
  BY <1>1, <1>2, <1>3 DEF IInv

\* A tick maps the frame and the video page of the process it selects.
LEMMA PitStep ==
  ASSUME IInv, PitSwitch
  PROVE  IInv'
<1>1. PICK n \in Terminal :
        /\ NextTerminal(active, n)
        /\ vidMem_page_map(pid_page_map(page_directory, t_curr[n]), n, display)
        /\ curr' = t_curr[n]
        /\ active' = n
  BY DEF PitSwitch
<1>2. /\ t_curr[n] \in Pid /\ TypeOK /\ MapInv /\ curr' # None
      /\ ProgramEntry(t_curr[n]) \in Entry /\ VideoEntry \in Entry
  BY <1>1, Entries, VideoAssumption DEF IInv, TypeOK, NextTerminal, Pid, None
<1>3. /\ page_directory' \in [{LOW, KERNEL, PROGRAM, VIDEO} -> Entry]
      /\ page_directory'[PROGRAM] = ProgramEntry(t_curr[n])
      /\ page_directory'[VIDEO] = VideoEntry
      /\ page_directory'[LOW] = page_directory[LOW]
      /\ page_directory'[KERNEL] = page_directory[KERNEL]
  BY <1>1, <1>2
     DEF TypeOK, vidMem_page_map, pid_page_map, LOW, KERNEL, PROGRAM, VIDEO
<1>4. MapInv'
  BY <1>1, <1>2, <1>3 DEF MapInv
<1>5. /\ vidMem' = [present |-> TRUE, addr |-> Shown(n, display)] /\ display' = display
      /\ Shown(n, display) \in {0, PT_VIDEO}
  BY <1>1 DEF PitSwitch, vidMem_page_map, Shown
<1>6. TypeOK'
  BY <1>1, <1>2, <1>3, <1>5 DEF PitSwitch, TypeOK
<1>7. TickMapsRight'
  BY <1>1, <1>5 DEF TickMapsRight, Mismatch, Shown, PT_VIDEO
<1> QED
  BY <1>4, <1>6, <1>7 DEF IInv

LEMMA NextIInv == IInv /\ [Next]_vars => IInv'
<1> SUFFICES ASSUME IInv, [Next]_vars PROVE IInv'
  OBVIOUS
<1>0. TypeOK /\ MapInv /\ TickMapsRight
  BY DEF IInv
<1>1. CASE UNCHANGED vars
  BY <1>0, <1>1 DEF vars, IInv, TypeOK, MapInv, TickMapsRight, Mismatch
<1>2. CASE LaunchFirst
  <2>1. 0 \in Terminal /\ execute(0, live) /\ t_curr[0] = None /\ live \in SUBSET Pid
    BY <1>0, <1>2, VideoAssumption DEF LaunchFirst, Terminal, TypeOK
  <2>2. TypeOK' /\ MapInv'
    BY <1>0, <1>2, <2>1, ExecuteFacts DEF LaunchFirst, TypeOK
  <2> QED
    BY <1>2, <2>2 DEF LaunchFirst, IInv, TickMapsRight
<1>3. CASE Execute
  <2>1. active \in Terminal /\ execute(active, live) /\ curr # None /\ live \in SUBSET Pid
    BY <1>0, <1>3 DEF Execute, TypeOK
  <2>2. TypeOK' /\ MapInv' /\ active' = active
    BY <1>0, <1>3, <2>1, ExecuteFacts DEF Execute, TypeOK
  <2> QED
    BY <1>0, <1>3, <2>2 DEF Execute, IInv, TickMapsRight, Mismatch
<1>4. CASE HaltRoot
  <2>1. /\ active \in Terminal /\ execute(active, live \ {curr}) /\ curr # None
        /\ live \ {curr} \in SUBSET Pid
    BY <1>0, <1>4 DEF HaltRoot, TypeOK
  <2>2. TypeOK' /\ MapInv' /\ active' = active
    BY <1>0, <1>4, <2>1, ExecuteFacts DEF HaltRoot, TypeOK
  <2> QED
    BY <1>0, <1>4, <2>2 DEF HaltRoot, IInv, TickMapsRight, Mismatch
<1>5. CASE HaltChild
  <2>1. curr \in Pid /\ p_pid[curr] \in Pid
    BY <1>0, <1>5 DEF HaltChild, TypeOK
  <2>2. MapInv' /\ page_directory' \in [{LOW, KERNEL, PROGRAM, VIDEO} -> Entry]
    BY <1>0, <1>5, <2>1, ProgramMapped DEF HaltChild, HaltPage
  <2>3. TypeOK'
    BY <1>0, <1>5, <2>1, <2>2 DEF HaltChild, TypeOK
  <2> QED
    BY <1>0, <1>5, <2>2, <2>3 DEF HaltChild, IInv, TickMapsRight, Mismatch
<1>6. CASE PitSwitch
  BY <1>6, PitStep
<1>7. CASE vidmap
  <2>0. PICK asked \in Terminal, seen \in Terminal :
          vidMem_page_map(page_directory, asked, seen)
    BY <1>7 DEF vidmap
  <2>1. /\ page_directory' = [page_directory EXCEPT ![VIDEO] = VideoEntry]
        /\ vidMem' = [present |-> TRUE, addr |-> Shown(asked, seen)]
        /\ Shown(asked, seen) \in {0, PT_VIDEO} /\ VideoEntry \in Entry
    BY <2>0, Entries DEF vidMem_page_map, Shown
  <2>2. TypeOK'
    BY <1>0, <1>7, <2>1 DEF vidmap, TypeOK
  <2>3. MapInv'
    BY <1>0, <1>7, <2>1 DEF vidmap, TypeOK, MapInv, LOW, KERNEL, PROGRAM, VIDEO
  <2> QED
    BY <1>7, <2>2, <2>3 DEF vidmap, IInv, TickMapsRight
<1>8. ASSUME NEW t \in Terminal, AltFn(t) PROVE IInv'
  <2>1. display' = t /\ fresh' = FALSE /\ vidMem' = vidMem
    BY <1>8 DEF AltFn
  <2>2. CASE UNCHANGED <<page_directory, active, live, t_curr, p_pid, curr>>
    BY <1>0, <2>1, <2>2 DEF IInv, TypeOK, MapInv, TickMapsRight
  <2>3. CASE t_curr[t] = None /\ execute(t, live)
    <3>1. live \in SUBSET Pid
      BY <1>0 DEF TypeOK
    <3>2. TypeOK' /\ MapInv'
      BY <1>0, <2>1, <2>3, <3>1, ExecuteFacts DEF TypeOK
    <3> QED
      BY <2>1, <3>2 DEF IInv, TickMapsRight
  <2> QED
    BY <1>8, <2>2, <2>3 DEF AltFn
<1> QED
  BY <1>1, <1>2, <1>3, <1>4, <1>5, <1>6, <1>7, <1>8 DEF Next

\* The map says which frames user code reaches.
LEMMA MapGivesOwnFrame == IInv => OwnFrameOnly
<1> SUFFICES ASSUME IInv PROVE OwnFrameOnly
  OBVIOUS
<1>0. /\ TypeOK /\ MapInv
      /\ DOMAIN page_directory = {LOW, KERNEL, PROGRAM, VIDEO}
  BY DEF IInv, TypeOK
<1>1. /\ ~page_directory[LOW].us /\ ~page_directory[KERNEL].us
      /\ ~page_directory[VIDEO].present \/ page_directory[VIDEO].kb
  BY <1>0, Entries DEF MapInv
<1>2. CASE curr = None
  <2>1. ~page_directory[PROGRAM].present
    BY <1>0, <1>2, Entries DEF MapInv
  <2> QED
    BY <1>0, <1>1, <1>2, <2>1 DEF OwnFrameOnly, UserFrames
<1>3. CASE curr # None
  <2>1. /\ page_directory[PROGRAM].present /\ page_directory[PROGRAM].us
        /\ ~page_directory[PROGRAM].kb /\ page_directory[PROGRAM].base = Frame(curr)
    BY <1>0, <1>3 DEF MapInv, ProgramEntry
  <2>2. UserFrames = {Frame(curr)}
    BY <1>0, <1>1, <2>1 DEF UserFrames
  <2>3. curr \in Pid /\ live \subseteq Pid
    BY <1>0, <1>3 DEF TypeOK
  <2> QED
    BY <1>3, <2>2, <2>3, FramesApart DEF OwnFrameOnly, LOW, KERNEL
<1> QED
  BY <1>2, <1>3

\* Type correctness of the paging model.
THEOREM TypeCorrect == Spec => []TypeOK
<1>1. IInv => TypeOK
  BY DEF IInv
<1> QED
  BY <1>1, InitIInv, NextIInv, PTL DEF Spec

\* User code reaches the frame of the running process and no other, for any
\* number of slots and terminals.
THEOREM FramesIsolated == Spec => []OwnFrameOnly
  BY InitIInv, NextIInv, MapGivesOwnFrame, PTL DEF Spec

\* The video page of the last tick stays right until a key, a vidmap or the
\* launch of a first shell.
THEOREM TickMapCorrect == Spec => []TickMapsRight
<1>1. IInv => TickMapsRight
  BY DEF IInv
<1> QED
  BY <1>1, InitIInv, NextIInv, PTL DEF Spec
=============================================================================
