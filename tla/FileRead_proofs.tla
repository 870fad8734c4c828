-------------------------- MODULE FileRead_proofs --------------------------
(***************************************************************************)
(* Theorems of FileRead, for every block size, file length and sequence of *)
(* read sizes.  IInv is inductive: the loop keeps blk * DATABLK_SIZE + boff*)
(* equal to the file position of the next byte.                            *)
(***************************************************************************)
EXTENDS FileRead, TLAPS

\* The state open leaves satisfies the invariant.
LEMMA InvInit == Init => IInv
  BY SizesAssumption DEF Init, IInv, TypeOK, InOrder, PositionCounts, LoopInv, Byte

\* Where the next byte is taken from: inside a block, at the position the
\* loop has reached.
LEMMA HereFacts ==
  ASSUME IInv, call # "none"
  PROVE  /\ Here \in Byte
         /\ Here.off < DATABLK_SIZE
         /\ Pos(Here) = offset + Len(buf)
  <1>1. CASE boff = DATABLK_SIZE
    <2>1. Here = [blk |-> blk + 1, off |-> 0]
      BY <1>1 DEF Here
    <2>2. (blk + 1) * DATABLK_SIZE + 0 = blk * DATABLK_SIZE + boff
      BY <1>1, SizesAssumption DEF IInv, TypeOK
    <2>3. Pos(Here) = (blk + 1) * DATABLK_SIZE + 0
      BY <2>1 DEF Pos
    <2>4. blk * DATABLK_SIZE + boff = offset + Len(buf)
      BY DEF IInv, LoopInv
    <2>5. Here \in Byte /\ Here.off < DATABLK_SIZE
      BY <2>1, SizesAssumption DEF Byte, IInv, TypeOK
    <2> QED BY <2>2, <2>3, <2>4, <2>5
  <1>2. CASE boff # DATABLK_SIZE
    <2>1. Here = [blk |-> blk, off |-> boff]
      BY <1>2 DEF Here
    <2> QED BY <1>2, <2>1, SizesAssumption DEF Byte, Pos, IInv, TypeOK, LoopInv
  <1> QED BY <1>1, <1>2

\* Calling read_data establishes the loop invariant.
LEMMA ReadDataStep ==
  ASSUME IInv, NEW who \in {"read", "load"}, NEW o \in Nat, NEW n \in Nat,
         ReadData(who, o, n), call = "none",
         who = "read" => o = file_pos, who = "load" => o = 0
  PROVE  IInv'
  <1>1. PICK q \in 0 .. o, r \in 0 .. o : Locate(o, q, r) /\ blk' = q /\ boff' = r
    BY DEF ReadData
  <1>2. TypeOK'
    BY <1>1, SizesAssumption DEF ReadData, Locate, IInv, TypeOK
  <1>3. InOrder'
    BY DEF ReadData, IInv, InOrder, Pos
  <1>4. PositionCounts'
    BY SizesAssumption DEF ReadData, IInv, TypeOK, PositionCounts
  <1>5. LoopInv'
    BY <1>1, SizesAssumption DEF ReadData, Locate, IInv, TypeOK, LoopInv
  <1> QED BY <1>2, <1>3, <1>4, <1>5 DEF IInv

\* One byte of the loop.
LEMMA LoopByteStep == IInv /\ LoopByte => IInv'
  <1> SUFFICES ASSUME IInv, LoopByte PROVE IInv'
    OBVIOUS
  <1>1. /\ Here \in Byte
        /\ Here.off < DATABLK_SIZE
        /\ Pos(Here) = offset + Len(buf)
    BY HereFacts DEF LoopByte
  <1>t. TypeOK
    BY DEF IInv
  <1>2. TypeOK'
    <2>1. Here.blk \in Nat /\ Here.off + 1 \in 0 .. DATABLK_SIZE
      BY <1>1, SizesAssumption DEF Byte
    <2>2. buf' \in Seq(Byte) /\ got' \in Seq(Byte)
      BY <1>1, <1>t DEF LoopByte, TypeOK
    <2> QED BY <2>1, <2>2, <1>t DEF LoopByte, TypeOK
  <1>3. Len(buf') = Len(buf) + 1 /\ \A k \in 1 .. Len(buf') :
          buf'[k] = IF k = Len(buf) + 1 THEN Here ELSE buf[k]
    BY <1>1, <1>t DEF LoopByte, TypeOK
  <1>4. InOrder' /\ PositionCounts'
    <2>1. CASE call = "read"
      <3>1. got' = Append(got, Here) /\ Len(got) = offset + Len(buf)
        BY <2>1 DEF LoopByte, IInv, PositionCounts
      <3>2. Len(got') = Len(got) + 1 /\ \A k \in 1 .. Len(got') :
              got'[k] = IF k = Len(got) + 1 THEN Here ELSE got[k]
        BY <3>1, <1>1, <1>t DEF TypeOK
      <3>3. Len(got) \in Nat
        BY <1>t DEF TypeOK
      <3>4. InOrder'
        BY <3>1, <3>2, <3>3, <1>1, <1>t, SizesAssumption DEF IInv, InOrder, Pos, TypeOK
      <3>5. PositionCounts'
        BY <2>1, <3>1, <3>2, <3>3, <1>3, <1>t DEF LoopByte, PositionCounts, TypeOK
      <3> QED BY <3>4, <3>5
    <2>2. CASE call # "read"
      BY <2>2 DEF LoopByte, IInv, InOrder, PositionCounts, Pos
    <2> QED BY <2>1, <2>2
  <1>5. LoopInv'
    <2>1. Len(buf) \in Nat /\ offset \in Nat
      BY <1>t DEF TypeOK
    <2>2. blk' * DATABLK_SIZE + boff' = offset + Len(buf) + 1
      <3>1. Here.blk \in Nat /\ Here.off \in Nat
        BY <1>1 DEF Byte
      <3>2. Here.blk * DATABLK_SIZE + Here.off = offset + Len(buf)
        BY <1>1 DEF Pos
      <3>3. Here.blk * DATABLK_SIZE + (Here.off + 1) = (Here.blk * DATABLK_SIZE + Here.off) + 1
        BY <3>1, SizesAssumption
      <3> QED BY <3>2, <3>3 DEF LoopByte
    <2>3. Len(buf') <= filelen'
      BY <1>3, <1>t, <2>1 DEF LoopByte, More, TypeOK
    <2>4. \A k \in 1 .. Len(buf') : Pos(buf'[k]) = offset + k - 1
      <3>1. \A k \in 1 .. Len(buf) : Pos(buf[k]) = offset + k - 1
        BY DEF IInv, LoopInv, LoopByte
      <3> TAKE k \in 1 .. Len(buf')
      <3>2. CASE k = Len(buf) + 1
        <4>1. buf'[k] = Here
          BY <1>3, <3>2
        <4> QED BY <4>1, <1>1, <2>1, <3>2
      <3>3. CASE k # Len(buf) + 1
        <4>1. k \in 1 .. Len(buf)
          BY <1>3, <3>3, <2>1
        <4>2. buf'[k] = buf[k]
          BY <1>3, <3>3
        <4> QED BY <4>1, <4>2, <3>1
      <3> QED BY <3>2, <3>3
    <2> QED BY <2>1, <2>2, <2>3, <2>4, <1>3 DEF LoopByte, IInv, LoopInv, Pos
  <1> QED BY <1>2, <1>4, <1>5 DEF IInv

\* Every step keeps the invariant.
LEMMA InvStep == IInv /\ [Next]_vars => IInv'
  <1> SUFFICES ASSUME IInv, [Next]_vars PROVE IInv'
    OBVIOUS
  <1>t. TypeOK
    BY DEF IInv
  <1>1. ASSUME NEW n \in 0 .. MAX_READ, Read(n) PROVE IInv'
    <2>1. file_pos \in Nat /\ n \in Nat
      BY <1>t, SizesAssumption DEF TypeOK
    <2> QED BY <1>1, <2>1, ReadDataStep DEF Read
  <1>2. CASE Load
    BY <1>2, ReadDataStep, SizesAssumption DEF Load
  <1>3. CASE ReadAtEnd
    BY <1>3 DEF ReadAtEnd, IInv, TypeOK, InOrder, PositionCounts, LoopInv, Pos
  <1>4. CASE ReadRefused
    BY <1>4 DEF ReadRefused, IInv, TypeOK, InOrder, PositionCounts, LoopInv, Pos
  <1>5. CASE LoopByte
    BY <1>5, LoopByteStep
  <1>6. CASE LoopReturn
    <2>1. TypeOK' /\ InOrder' /\ LoopInv'
      BY <1>6, <1>t DEF LoopReturn, NewPos, IInv, TypeOK, InOrder, LoopInv, Pos
    <2>2. PositionCounts'
      BY <1>6, <1>t DEF LoopReturn, NewPos, IInv, TypeOK, PositionCounts, LoopInv
    <2> QED BY <2>1, <2>2 DEF IInv
  <1>7. CASE UNCHANGED vars
    BY <1>7 DEF vars, IInv, TypeOK, InOrder, PositionCounts, LoopInv, Pos
  <1> QED BY <1>1, <1>2, <1>3, <1>4, <1>5, <1>6, <1>7 DEF Next

\* The inductive invariant holds in every reachable state.
THEOREM Inductive == Spec => []IInv
  BY InvInit, InvStep, PTL DEF Spec

\* Type correctness of the reader's state.
THEOREM TypeCorrect == Spec => []TypeOK
  <1>1. IInv => TypeOK BY DEF IInv
  <1> QED BY <1>1, Inductive, PTL

\* Whatever the block size and the sizes of the reads, the bytes a program
\* gets are those of the file from its first one, none skipped or repeated.
THEOREM InOrderCorrect == Spec => []InOrder
  <1>1. IInv => InOrder BY DEF IInv
  <1> QED BY <1>1, Inductive, PTL

\* The loader delivers a prefix of the file and never runs past its end.
THEOREM LoadCorrect == Spec => []LoadExact
  <1>1. IInv => LoadExact
    <2> SUFFICES ASSUME IInv, call = "load" PROVE LoadExact
      BY DEF LoadExact
    <2>1. offset = 0 BY DEF IInv, LoopInv
    <2> QED BY <2>1 DEF IInv, LoopInv, LoadExact, TypeOK
  <1> QED BY <1>1, Inductive, PTL

\* The descriptor's position always equals the number of bytes delivered.
THEOREM PositionCorrect == Spec => []PositionCounts
  <1>1. IInv => PositionCounts BY DEF IInv
  <1> QED BY <1>1, Inductive, PTL
============================================================================
