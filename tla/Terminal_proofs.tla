-------------------------- MODULE Terminal_proofs --------------------------
(***************************************************************************)
(* Theorems of Terminal, for every number of terminals and length of line. *)
(***************************************************************************)
EXTENDS Terminal, SequenceTheorems, TLAPS

\* The history says what the reader is owed: nothing is announced that was not
\* entered, a line entered in a wait belongs to the read still under way, and
\* nothing has been copied before the copy.
History ==
  \A t \in Terminals :
    /\ terminal_read_ready[t] = 1 => entered[t] # "none"
    /\ entered[t] = "wait" => pc[t] # "run"
    /\ pc[t] # "copy" => buf[t] = << >>

IInv == TypeOK /\ TerminalsApart /\ ReadWasAnnounced /\ History

\* Every character of a line is terminal t's.
OwnLine(t, s) == \A k \in 1 .. Len(s) : Own(t, s[k])

\* The character a key stores belongs to its terminal, and the line stays
\* within its bound.
LEMMA TypedFacts ==
  ASSUME TypeOK, TerminalsApart, NEW t \in Terminals
  PROVE  /\ Typed(t) \in Seq(Char)
         /\ Len(Typed(t)) <= LINE_MAX
         /\ OwnLine(t, Typed(t))
  <1> DEFINE s == keyboard_buffer[t]
  <1>1. s \in Seq(Char) /\ Len(s) <= LINE_MAX /\ OwnLine(t, s)
    BY DEF TypeOK, TerminalsApart, OwnLine
  <1>2. KeyOf(t) \in Char /\ KeyOf(t).term = t /\ Own(t, KeyOf(t))
    BY DEF KeyOf, Char, Own
  <1> USE DEF OwnLine
  <1>3. CASE Len(s) >= LINE_MAX
    BY <1>1, <1>3 DEF Typed
  <1>4. CASE ~(Len(s) >= LINE_MAX)
    <2>1. Typed(t) = Append(s, KeyOf(t))
      BY <1>4 DEF Typed
    <2>2. /\ Append(s, KeyOf(t)) \in Seq(Char)
          /\ Len(Append(s, KeyOf(t))) = Len(s) + 1
          /\ \A i \in 1 .. Len(s) + 1 :
               Append(s, KeyOf(t))[i] = IF i = Len(s) + 1 THEN KeyOf(t) ELSE s[i]
      BY <1>1, <1>2
    <2>3. Len(s) + 1 <= LINE_MAX /\ Len(s) \in Nat
      BY <1>1, <1>4, TerminalAssumption
    <2>4. OwnLine(t, Append(s, KeyOf(t)))
      BY <1>1, <1>2, <2>2, <2>3
    <2> QED BY <2>1, <2>2, <2>3, <2>4
  <1> QED BY <1>3, <1>4

\* Dropping the last character of a line.
LEMMA FrontFacts ==
  ASSUME NEW t \in Terminals, NEW s \in Seq(Char), s # << >>, OwnLine(t, s), Len(s) <= LINE_MAX
  PROVE  /\ SubSeq(s, 1, Len(s) - 1) \in Seq(Char)
         /\ Len(SubSeq(s, 1, Len(s) - 1)) <= LINE_MAX
         /\ OwnLine(t, SubSeq(s, 1, Len(s) - 1))
  <1>1. Len(s) \in Nat /\ Len(s) # 0
    OBVIOUS
  <1>2. /\ SubSeq(s, 1, Len(s) - 1) \in Seq(Char)
        /\ Len(SubSeq(s, 1, Len(s) - 1)) = Len(s) - 1
        /\ \A i \in 1 .. Len(s) - 1 : SubSeq(s, 1, Len(s) - 1)[i] = s[i]
    <2>1. Len(s) - 1 \in Nat /\ \A i \in 1 .. Len(s) - 1 : i \in 1 .. Len(s) /\ s[i] \in Char
      BY <1>1
    <2>2. SubSeq(s, 1, Len(s) - 1) \in Seq(Char)
      BY <1>1, <2>1, SubSeqProperties
    <2>3. Len(SubSeq(s, 1, Len(s) - 1)) = Len(s) - 1
      <3> DEFINE n == Len(s) - 1
      <3>1. n \in Nat /\ \A i \in 1 .. n : s[i] \in Char
        BY <2>1
      <3> HIDE DEF n
      <3>2. Len(SubSeq(s, 1, n)) = IF 1 <= n THEN n - 1 + 1 ELSE 0
        BY <3>1, SubSeqProperties
      <3>3. Len(SubSeq(s, 1, n)) = n
        BY <3>1, <3>2
      <3> QED BY <3>3 DEF n
    <2>4. \A i \in 1 .. Len(s) - 1 : SubSeq(s, 1, Len(s) - 1)[i] = s[i]
      BY <1>1, <2>1, SubSeqProperties
    <2> QED BY <2>2, <2>3, <2>4
  <1> QED BY <1>1, <1>2, TerminalAssumption DEF OwnLine

\* A line with zeros behind it is a buffer of its terminal.
LEMMA PaddedFacts ==
  ASSUME NEW t \in Terminals, NEW s \in Seq(Char), OwnLine(t, s)
  PROVE  /\ Padded(s) \in [Index -> Byte]
         /\ \A k \in Index : Own(t, Padded(s)[k])
  <1>1. \A k \in Index : k <= Len(s) => k \in 1 .. Len(s) /\ s[k] \in Char /\ Own(t, s[k])
    BY TerminalAssumption DEF Index, OwnLine
  <1> QED BY <1>1 DEF Padded, Byte, Own

\* What a write leaves in a buffer: the writer's own bytes, and at most a 0 in
\* another terminal's, in its first byte.
LEMMA PutFacts ==
  ASSUME TypeOK, NEW t \in Terminals, NEW u \in Terminals, NEW lim \in 0 .. PRINT_LIM
  PROVE  /\ Put(u, t, lim, OutputOf(t)) \in [Index -> Byte]
         /\ \A k \in Index : \/ Put(u, t, lim, OutputOf(t))[k] = print_buffer[u][k]
                             \/ Own(u, Put(u, t, lim, OutputOf(t))[k])
         /\ u # t => \A k \in Index :
              \/ Put(u, t, lim, OutputOf(t))[k] = print_buffer[u][k]
              \/ u # 0 /\ k = 1 /\ lim = PRINT_LIM /\ Put(u, t, lim, OutputOf(t))[k] = Nul
  <1> DEFINE f == Put(u, t, lim, OutputOf(t))
  <1>1. OutputOf(t) \in Byte /\ Own(t, OutputOf(t)) /\ Nul \in Byte
    BY DEF OutputOf, Char, Byte, Own
  <1>2. print_buffer[u] \in [Index -> Byte]
    BY DEF TypeOK
  <1>3. f \in [Index -> Byte]
    BY <1>1, <1>2 DEF Put
  <1>4. \A k \in Index :
          f[k] = IF u = t /\ k <= lim THEN OutputOf(t)
                 ELSE IF u * PRINT_LIM + k = t * PRINT_LIM + lim + 1 THEN Nul
                 ELSE print_buffer[u][k]
    BY DEF Put
  <1>5. ASSUME NEW k \in Index, u # t, u * PRINT_LIM + k = t * PRINT_LIM + lim + 1
        PROVE  u # 0 /\ k = 1 /\ lim = PRINT_LIM
    <2>1. /\ u \in Nat /\ t \in Nat /\ PRINT_LIM \in Nat /\ PRINT_LIM > 1
          /\ k \in 1 .. PRINT_LIM
      BY <1>5, TerminalAssumption DEF Terminals, Index
    <2>2. u <= t => u * PRINT_LIM + PRINT_LIM <= t * PRINT_LIM
      <3>1. ASSUME u <= t PROVE t - u - 1 \in Nat /\ t = u + 1 + (t - u - 1)
        BY <1>5, <2>1, <3>1
      <3>2. \A d \in Nat : (u + 1 + d) * PRINT_LIM = u * PRINT_LIM + PRINT_LIM + d * PRINT_LIM
        BY <2>1
      <3>3. \A d \in Nat : d * PRINT_LIM >= 0
        BY <2>1
      <3>4. u * PRINT_LIM \in Nat /\ t * PRINT_LIM \in Nat
        BY <2>1
      <3> QED BY <2>1, <3>1, <3>2, <3>3, <3>4
    <2>3. u > t => \E d \in Nat : u = t + 1 + d /\ u * PRINT_LIM = t * PRINT_LIM + PRINT_LIM + d * PRINT_LIM
      <3>1. ASSUME u > t PROVE u - t - 1 \in Nat /\ u = t + 1 + (u - t - 1)
        BY <2>1, <3>1
      <3>2. \A d \in Nat : (t + 1 + d) * PRINT_LIM = t * PRINT_LIM + PRINT_LIM + d * PRINT_LIM
        BY <2>1
      <3> QED BY <2>1, <3>1, <3>2
    <2>4. \A d \in Nat : d * PRINT_LIM \in Nat
      BY <2>1
    <2>5. u * PRINT_LIM \in Nat /\ t * PRINT_LIM \in Nat
      BY <2>1
    <2>6. u > t
      BY <1>5, <2>1, <2>2, <2>5
    <2> QED BY <1>5, <2>1, <2>3, <2>4, <2>5, <2>6
  <1>6. \A k \in Index : f[k] = print_buffer[u][k] \/ Own(u, f[k])
    BY <1>1, <1>4 DEF Own
  <1>7. u # t => \A k \in Index :
          f[k] = print_buffer[u][k] \/ (u # 0 /\ k = 1 /\ lim = PRINT_LIM /\ f[k] = Nul)
    BY <1>4, <1>5
  <1> QED BY <1>3, <1>6, <1>7

\* The bytes a read copies: its own buffer's as far as that goes.
LEMMA ByteFacts ==
  ASSUME TypeOK, NEW t \in Terminals, NEW k \in Nat \ {0}
  PROVE  /\ ByteAt(t, k) \in Byte \cup {Outside}
         /\ k <= PRINT_LIM => k \in Index /\ ByteAt(t, k) = print_buffer[t][k]
  <1>1. PRINT_LIM \in Nat \ {0}
    BY TerminalAssumption
  <1>2. (k - 1) % PRINT_LIM \in 0 .. PRINT_LIM - 1
    BY <1>1
  <1>3. ((k - 1) % PRINT_LIM) + 1 \in Index
    BY <1>1, <1>2 DEF Index
  <1>4. ByteAt(t, k) \in Byte \cup {Outside}
    BY <1>3 DEF ByteAt, TypeOK
  <1>5. ASSUME k <= PRINT_LIM PROVE k \in Index /\ ByteAt(t, k) = print_buffer[t][k]
    <2>1. (k - 1) \div PRINT_LIM = 0 /\ (k - 1) % PRINT_LIM = k - 1
      BY <1>1, <1>5
    <2>2. t + 0 = t /\ (k - 1) + 1 = k /\ k \in Index
      BY <1>1, <1>5 DEF Terminals, Index
    <2> QED BY <2>1, <2>2 DEF ByteAt
  <1> QED BY <1>4, <1>5

\* The invariant holds at first.
LEMMA InvInit == Init => IInv
  <1>1. 0 \in Terminals /\ LINE_MAX \in Nat /\ Nul \in Byte
    BY TerminalAssumption DEF Terminals, Byte
  <1> QED BY <1>1 DEF Init, IInv, TypeOK, TerminalsApart, ReadWasAnnounced, History, Own

\* Keys, which change the line being typed alone.
LEMMA KeyStep ==
  ASSUME IInv, Key \/ Backspace \/ CtrlL
  PROVE  IInv'
  <1> DEFINE d == display_terminal
  <1>d. d \in Terminals /\ TypeOK /\ TerminalsApart
    BY DEF IInv, TypeOK
  <1>0. OwnLine(d, << >>) /\ << >> \in Seq(Char) /\ Len(<< >>) <= LINE_MAX
    BY TerminalAssumption DEF OwnLine
  <1>1. ASSUME NEW s \in Seq(Char), Len(s) <= LINE_MAX, OwnLine(d, s),
               keyboard_buffer' = [keyboard_buffer EXCEPT ![d] = s],
               UNCHANGED <<print_buffer, terminal_read_ready, display_terminal, pc, count, buf, line, entered>>
        PROVE  IInv'
    <2>1. TypeOK'
      BY <1>1, <1>d DEF TypeOK
    <2>2. TerminalsApart'
      BY <1>1, <1>d DEF TypeOK, TerminalsApart, OwnLine
    <2>3. ReadWasAnnounced' /\ History'
      BY <1>1 DEF IInv, ReadWasAnnounced, History
    <2> QED BY <2>1, <2>2, <2>3 DEF IInv
  <1>2. CASE Key
    BY <1>2, <1>1, <1>d, TypedFacts DEF Key
  <1>3. CASE Backspace
    <2>1. keyboard_buffer[d] \in Seq(Char) /\ OwnLine(d, keyboard_buffer[d]) /\ Len(keyboard_buffer[d]) <= LINE_MAX
      BY <1>d DEF TypeOK, TerminalsApart, OwnLine
    <2> QED BY <1>3, <1>1, <1>d, <2>1, FrontFacts DEF Backspace
  <1>4. CASE CtrlL
    BY <1>4, <1>0, <1>1 DEF CtrlL
  <1> QED BY <1>2, <1>3, <1>4

\* ENTER.
LEMMA EnterStep ==
  ASSUME IInv, NEW alt \in BOOLEAN, Enter(alt)
  PROVE  IInv'
  <1> DEFINE d == display_terminal
             s == IF alt THEN keyboard_buffer[d] ELSE Typed(d)
  <1>d. d \in Terminals /\ TypeOK /\ TerminalsApart
    BY DEF IInv, TypeOK
  <1>0. << >> \in Seq(Char) /\ Len(<< >>) <= LINE_MAX
    BY TerminalAssumption
  <1>1. s \in Seq(Char) /\ OwnLine(d, s)
    BY <1>d, TypedFacts DEF TypeOK, TerminalsApart, OwnLine
  <1>2. /\ print_buffer' = [print_buffer EXCEPT ![d] = Padded(s)]
        /\ keyboard_buffer' = [keyboard_buffer EXCEPT ![d] = << >>]
        /\ terminal_read_ready' = [terminal_read_ready EXCEPT ![d] = 1]
        /\ line' = [line EXCEPT ![d] = s]
        /\ entered' = [entered EXCEPT ![d] = pc[d]]
        /\ UNCHANGED <<display_terminal, pc, count, buf>>
    BY DEF Enter, Announced
  <1> HIDE DEF s
  <1>3. Padded(s) \in [Index -> Byte] /\ \A k \in Index : Own(d, Padded(s)[k])
    BY <1>d, <1>1, PaddedFacts
  <1>4. TypeOK'
    BY <1>0, <1>d, <1>1, <1>2, <1>3 DEF TypeOK
  <1>5. TerminalsApart'
    BY <1>0, <1>d, <1>2, <1>3 DEF TypeOK, TerminalsApart
  <1>6. ReadWasAnnounced' /\ History'
    BY <1>d, <1>2 DEF IInv, TypeOK, ReadWasAnnounced, History
  <1> QED BY <1>4, <1>5, <1>6 DEF IInv

\* A write.
LEMMA WriteStep ==
  ASSUME IInv, NEW t \in Terminals, NEW n \in WriteCounts, Write(t, n)
  PROVE  IInv'
  <1> DEFINE lim == IF n < PRINT_LIM THEN n ELSE PRINT_LIM
  <1>d. TypeOK /\ TerminalsApart
    BY DEF IInv
  <1>1. lim \in 0 .. PRINT_LIM
    BY TerminalAssumption
  <1>2. /\ print_buffer' = [u \in Terminals |-> Put(u, t, lim, OutputOf(t))]
        /\ UNCHANGED <<keyboard_buffer, terminal_read_ready, display_terminal, pc, count, buf, line, entered>>
    BY DEF Write, WriteIdx
  <1> HIDE DEF lim
  <1>3. TypeOK'
    BY <1>d, <1>1, <1>2, PutFacts DEF TypeOK
  <1>4. \A u \in Terminals : \A k \in Index : Own(u, print_buffer'[u][k])
    BY <1>d, <1>1, <1>2, PutFacts DEF TerminalsApart
  <1>5. TerminalsApart'
    BY <1>d, <1>2, <1>4 DEF TerminalsApart
  <1>6. ReadWasAnnounced' /\ History'
    BY <1>2 DEF IInv, ReadWasAnnounced, History
  <1> QED BY <1>3, <1>5, <1>6 DEF IInv

\* One byte of a read's copy.
LEMMA CopyFacts ==
  ASSUME IInv, NEW t \in Terminals, ReadCopy(t)
  PROVE  LET n == Len(buf[t]) + 1 IN
         /\ n \in Nat \ {0}
         /\ Len(buf'[t]) = n
         /\ buf'[t] \in Seq(Byte \cup {Outside})
         /\ \A k \in 1 .. n - 1 : buf'[t][k] = buf[t][k]
         /\ n <= PRINT_LIM => n \in Index /\ buf'[t][n] = print_buffer[t][n]
         /\ \A u \in Terminals \ {t} : buf'[u] = buf[u]
  <1> DEFINE n == Len(buf[t]) + 1
             b == ByteAt(t, n)
  <1>1. TypeOK /\ buf[t] \in Seq(Byte \cup {Outside}) /\ n \in Nat \ {0}
    BY DEF IInv, TypeOK
  <1>2. b \in Byte \cup {Outside} /\ (n <= PRINT_LIM => n \in Index /\ b = print_buffer[t][n])
    BY <1>1, ByteFacts
  <1>3. buf' = [buf EXCEPT ![t] = Append(buf[t], b)]
    BY DEF ReadCopy
  <1> HIDE DEF b
  <1>4. buf'[t] = Append(buf[t], b) /\ \A u \in Terminals \ {t} : buf'[u] = buf[u]
    BY <1>1, <1>3 DEF TypeOK
  <1>5. /\ Append(buf[t], b) \in Seq(Byte \cup {Outside}) /\ Len(Append(buf[t], b)) = n
        /\ Append(buf[t], b)[n] = b
        /\ \A k \in 1 .. n - 1 : Append(buf[t], b)[k] = buf[t][k]
    BY <1>1, <1>2
  <1> QED BY <1>1, <1>2, <1>4, <1>5

LEMMA CopyStep ==
  ASSUME IInv, NEW t \in Terminals, ReadCopy(t)
  PROVE  IInv'
  <1> DEFINE n == Len(buf[t]) + 1
  <1>0. /\ UNCHANGED <<keyboard_buffer, print_buffer, terminal_read_ready, display_terminal, pc, count, line, entered>>
        /\ pc[t] = "copy"
    BY DEF ReadCopy
  <1>1. /\ n \in Nat \ {0}
        /\ Len(buf'[t]) = n
        /\ buf'[t] \in Seq(Byte \cup {Outside})
        /\ \A k \in 1 .. n - 1 : buf'[t][k] = buf[t][k]
        /\ n <= PRINT_LIM => n \in Index /\ buf'[t][n] = print_buffer[t][n]
        /\ \A u \in Terminals \ {t} : buf'[u] = buf[u]
    BY CopyFacts
  <1>2. TypeOK'
    <2>1. buf' \in [Terminals -> Seq(Byte \cup {Outside})]
      BY <1>1 DEF ReadCopy, IInv, TypeOK
    <2> QED BY <1>0, <2>1 DEF IInv, TypeOK
  <1>3. TerminalsApart'
    <2>1. ASSUME NEW k \in 1 .. Len(buf'[t]), k <= PRINT_LIM PROVE Own(t, buf'[t][k])
      <3>1. CASE k = n
        BY <1>1, <2>1, <3>1 DEF IInv, TerminalsApart
      <3>2. CASE k # n
        <4>1. k \in 1 .. n - 1 /\ k \in 1 .. Len(buf[t])
          BY <1>1, <2>1, <3>2
        <4> QED BY <1>1, <2>1, <4>1 DEF IInv, TerminalsApart
      <3> QED BY <3>1, <3>2
    <2> QED BY <1>0, <1>1, <2>1 DEF IInv, TerminalsApart
  <1>4. ReadWasAnnounced' /\ History'
    BY <1>0, <1>1 DEF IInv, ReadWasAnnounced, History
  <1> QED BY <1>2, <1>3, <1>4 DEF IInv

\* Every key, write and step of a read keeps the invariant.
LEMMA InvStep == IInv /\ [Next]_vars => IInv'
  <1> SUFFICES ASSUME IInv, [Next]_vars PROVE IInv'
    OBVIOUS
  <1>1. CASE Key \/ Backspace \/ CtrlL
    BY <1>1, KeyStep
  <1>2. ASSUME NEW alt \in BOOLEAN, Enter(alt) PROVE IInv'
    BY <1>2, EnterStep
  <1>3. ASSUME NEW t \in Terminals, AltFn(t) PROVE IInv'
    BY <1>3 DEF AltFn, IInv, TypeOK, TerminalsApart, ReadWasAnnounced, History
  <1>4. ASSUME NEW t \in Terminals, NEW n \in WriteCounts, Write(t, n) PROVE IInv'
    BY <1>4, WriteStep
  <1>5. ASSUME NEW t \in Terminals, NEW n \in ReadCounts, ReadCall(t, n) PROVE IInv'
    <2>1. TypeOK' /\ TerminalsApart'
      BY <1>5, TerminalAssumption DEF ReadCall, IInv, TypeOK, TerminalsApart
    <2>2. ReadWasAnnounced' /\ History'
      BY <1>5 DEF ReadCall, IInv, TypeOK, ReadWasAnnounced, History
    <2> QED BY <2>1, <2>2 DEF IInv
  <1>6. ASSUME NEW t \in Terminals, ReadReady(t) PROVE IInv'
    <2>1. TypeOK' /\ TerminalsApart'
      BY <1>6 DEF ReadReady, IInv, TypeOK, TerminalsApart
    <2>2. ReadWasAnnounced' /\ History'
      BY <1>6 DEF ReadReady, IInv, TypeOK, ReadWasAnnounced, History
    <2> QED BY <2>1, <2>2 DEF IInv
  <1>7. ASSUME NEW t \in Terminals, ReadCopy(t) PROVE IInv'
    BY <1>7, CopyStep
  <1>8. ASSUME NEW t \in Terminals, ReadDone(t) PROVE IInv'
    <2>0. << >> \in Seq(Byte \cup {Outside}) /\ << >> \in Seq(Char) /\ 1 .. Len(<< >>) = {}
      OBVIOUS
    <2>1. TypeOK'
      BY <1>8, <2>0 DEF ReadDone, IInv, TypeOK
    <2>2. TerminalsApart'
      BY <1>8, <2>0 DEF ReadDone, IInv, TypeOK, TerminalsApart
    <2>3. ReadWasAnnounced' /\ History'
      BY <1>8 DEF ReadDone, IInv, TypeOK, ReadWasAnnounced, History
    <2> QED BY <2>1, <2>2, <2>3 DEF IInv
  <1>9. CASE UNCHANGED vars
    BY <1>9 DEF vars, IInv, TypeOK, TerminalsApart, ReadWasAnnounced, History
  <1> QED
    BY <1>1, <1>2, <1>3, <1>4, <1>5, <1>6, <1>7, <1>8, <1>9 DEF Next, Reading

\* The inductive invariant holds in every reachable state.
THEOREM Inductive == Spec => []IInv
  BY InvInit, InvStep, PTL DEF Spec

\* Type correctness; no line being typed outgrows keyboard_buffer.
THEOREM TypeCorrect == Spec => []TypeOK
  <1>1. IInv => TypeOK BY DEF IInv
  <1> QED BY <1>1, Inductive, PTL

\* No text of one terminal reaches another one's buffers, whatever its programs
\* write, nor the first PRINT_LIM bytes of what another one's program reads,
\* whatever count it passes.
THEOREM ApartCorrect == Spec => []TerminalsApart
  <1>1. IInv => TerminalsApart BY DEF IInv
  <1> QED BY <1>1, Inductive, PTL

\* A read copies only after an ENTER in its terminal.
THEOREM AnnouncedCorrect == Spec => []ReadWasAnnounced
  <1>1. IInv => ReadWasAnnounced BY DEF IInv
  <1> QED BY <1>1, Inductive, PTL

\* A buffer whose terminal waits for, or copies, the line entered for it is
\* written by no step of its own terminal: what stands there and what has been
\* copied stay as they are.
LEMMA KeptByte ==
  ASSUME WaitedLineKept, NEW t \in Terminals, NEW k \in Index,
         pc[t] # "run", entered[t] = "wait"
  PROVE  /\ \/ print_buffer[t][k] = Padded(line[t])[k]
            \/ Emptied(t, k) /\ print_buffer[t][k] = Nul
         /\ k <= Len(buf[t]) => \/ buf[t][k] = Padded(line[t])[k]
                                \/ Emptied(t, k) /\ buf[t][k] = Nul
  BY DEF WaitedLineKept

\* A line entered while the program waits is replaced by no step, and emptied
\* only by a write of PRINT_LIM bytes in the terminal before.
LEMMA KeptStep == IInv /\ WaitedLineKept /\ [Next]_vars => WaitedLineKept'
  <1> SUFFICES ASSUME IInv, WaitedLineKept, [Next]_vars PROVE WaitedLineKept'
    OBVIOUS
  <1>t. TypeOK /\ History
    BY DEF IInv
  <1>0. ASSUME UNCHANGED <<print_buffer, pc, buf, line, entered>> PROVE WaitedLineKept'
    BY <1>0 DEF WaitedLineKept, Padded, Emptied
  <1>1. CASE Key \/ Backspace \/ CtrlL
    BY <1>0, <1>1 DEF Key, Backspace, CtrlL
  <1>2. ASSUME NEW alt \in BOOLEAN, Enter(alt) PROVE WaitedLineKept'
    <2> DEFINE d == display_terminal
               s == IF alt THEN keyboard_buffer[d] ELSE Typed(d)
    <2>1. /\ print_buffer' = [print_buffer EXCEPT ![d] = Padded(s)]
          /\ line' = [line EXCEPT ![d] = s]
          /\ entered' = [entered EXCEPT ![d] = pc[d]]
          /\ UNCHANGED <<pc, buf>> /\ d \in Terminals
      BY <1>2, <1>t DEF Enter, TypeOK
    <2> HIDE DEF s
    <2>2. ASSUME NEW t \in Terminals, pc[t] # "run", entered'[t] = "wait", NEW k \in Index
          PROVE  /\ \/ print_buffer'[t][k] = Padded(line'[t])[k]
                    \/ Emptied(t, k) /\ print_buffer'[t][k] = Nul
                 /\ k <= Len(buf[t]) => \/ buf[t][k] = Padded(line'[t])[k]
                                        \/ Emptied(t, k) /\ buf[t][k] = Nul
      <3>1. CASE t = d
        <4>1. print_buffer'[t] = Padded(s) /\ line'[t] = s /\ pc[t] = "wait"
          BY <1>t, <2>1, <2>2, <3>1 DEF TypeOK
        <4>2. buf[t] = << >> /\ ~(k <= Len(buf[t]))
          BY <1>t, <4>1, TerminalAssumption DEF History, Index
        <4> QED BY <4>1, <4>2
      <3>2. CASE t # d
        <4>1. print_buffer'[t] = print_buffer[t] /\ line'[t] = line[t] /\ entered'[t] = entered[t]
          BY <1>t, <2>1, <3>2 DEF TypeOK
        <4> QED BY <2>2, <4>1, KeptByte
      <3> QED BY <3>1, <3>2
    <2> QED BY <2>1, <2>2 DEF WaitedLineKept, Padded, Emptied
  <1>3. ASSUME NEW t \in Terminals, AltFn(t) PROVE WaitedLineKept'
    BY <1>0, <1>3 DEF AltFn
  <1>4. ASSUME NEW t \in Terminals, NEW n \in WriteCounts, Write(t, n) PROVE WaitedLineKept'
    <2> DEFINE lim == IF n < PRINT_LIM THEN n ELSE PRINT_LIM
    <2>1. lim \in 0 .. PRINT_LIM /\ (lim = PRINT_LIM => n >= PRINT_LIM)
      BY TerminalAssumption
    <2>2. /\ print_buffer' = [u \in Terminals |-> Put(u, t, lim, OutputOf(t))]
          /\ pc[t] = "run" /\ UNCHANGED <<pc, buf, line, entered>>
      BY <1>4 DEF Write, WriteIdx
    <2> HIDE DEF lim
    <2>3. ASSUME NEW u \in Terminals, pc[u] # "run", entered[u] = "wait", NEW k \in Index
          PROVE  \/ print_buffer'[u][k] = Padded(line[u])[k]
                 \/ Emptied(u, k) /\ print_buffer'[u][k] = Nul
      <3>1. u # t
        BY <2>2, <2>3
      <3>2. \/ print_buffer'[u][k] = print_buffer[u][k]
            \/ u # 0 /\ k = 1 /\ lim = PRINT_LIM /\ print_buffer'[u][k] = Nul
        BY <1>t, <2>1, <2>2, <3>1, PutFacts
      <3>3. u # 0 /\ k = 1 /\ lim = PRINT_LIM => Emptied(u, k)
        BY <2>1 DEF Emptied
      <3> QED BY <2>3, <3>2, <3>3, KeptByte
    <2> QED BY <2>2, <2>3 DEF WaitedLineKept, Padded, Emptied
  <1>5. ASSUME NEW t \in Terminals, NEW n \in ReadCounts, ReadCall(t, n) PROVE WaitedLineKept'
    BY <1>5, <1>t DEF ReadCall, WaitedLineKept, TypeOK, History, Padded, Emptied
  <1>6. ASSUME NEW t \in Terminals, ReadReady(t) PROVE WaitedLineKept'
    BY <1>6, <1>t DEF ReadReady, WaitedLineKept, TypeOK, Padded, Emptied
  <1>7. ASSUME NEW t \in Terminals, ReadCopy(t) PROVE WaitedLineKept'
    <2> DEFINE n == Len(buf[t]) + 1
    <2>1. /\ n \in Nat \ {0}
          /\ Len(buf'[t]) = n
          /\ \A k \in 1 .. n - 1 : buf'[t][k] = buf[t][k]
          /\ n <= PRINT_LIM => n \in Index /\ buf'[t][n] = print_buffer[t][n]
          /\ \A u \in Terminals \ {t} : buf'[u] = buf[u]
      BY <1>7, CopyFacts
    <2>2. UNCHANGED <<print_buffer, pc, line, entered>>
      BY <1>7 DEF ReadCopy
    <2>3. ASSUME NEW u \in Terminals, pc[u] # "run", entered[u] = "wait", NEW k \in Index,
                 k <= Len(buf'[u])
          PROVE  \/ buf'[u][k] = Padded(line[u])[k]
                 \/ Emptied(u, k) /\ buf'[u][k] = Nul
      <3>1. CASE u = t /\ k = n
        <4>1. n <= PRINT_LIM /\ buf'[u][k] = print_buffer[u][k]
          BY <2>1, <3>1, TerminalAssumption DEF Index
        <4> QED BY <2>3, <4>1, KeptByte
      <3>2. CASE u = t /\ k # n
        <4>1. k \in 1 .. n - 1 /\ k <= Len(buf[u]) /\ buf'[u][k] = buf[u][k]
          BY <2>1, <2>3, <3>2, TerminalAssumption DEF Index
        <4> QED BY <2>3, <4>1, KeptByte
      <3>3. CASE u # t
        <4>1. buf'[u] = buf[u]
          BY <2>1, <3>3
        <4> QED BY <2>3, <4>1, KeptByte
      <3> QED BY <3>1, <3>2, <3>3
    <2> QED BY <2>2, <2>3, KeptByte DEF WaitedLineKept, Padded, Emptied
  <1>8. ASSUME NEW t \in Terminals, ReadDone(t) PROVE WaitedLineKept'
    <2>1. pc'[t] = "run" /\ \A u \in Terminals \ {t} :
            buf'[u] = buf[u] /\ line'[u] = line[u] /\ entered'[u] = entered[u] /\ pc'[u] = pc[u]
      BY <1>8, <1>t DEF ReadDone, TypeOK
    <2>2. print_buffer' = print_buffer
      BY <1>8 DEF ReadDone
    <2> QED BY <2>1, <2>2 DEF WaitedLineKept, Padded, Emptied
  <1>9. CASE UNCHANGED vars
    BY <1>0, <1>9 DEF vars
  <1> QED BY <1>1, <1>2, <1>3, <1>4, <1>5, <1>6, <1>7, <1>8, <1>9 DEF Next, Reading

\* A program that waits copies the line that is entered for it, or, if programs
\* write PRINT_LIM bytes at once and its terminal is not the first, one whose
\* first byte is 0.
THEOREM KeptCorrect == Spec => []WaitedLineKept
  <1>1. Init => WaitedLineKept
    BY DEF Init, WaitedLineKept
  <1> QED BY <1>1, KeptStep, Inductive, PTL DEF Spec
============================================================================
