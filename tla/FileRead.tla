------------------------------ MODULE FileRead ------------------------------
(***************************************************************************)
(* Reading a regular file: the read system call (syscall.c), read_data and *)
(* the program loader's read_f (filesys_read.c), for one open descriptor.  *)
(*                                                                         *)
(* A byte of the file is named by where read_data takes it from: the index *)
(* of a data block in the inode and the offset in that block.  The file    *)
(* system is read-only, so no other process can disturb a reader: what can *)
(* go wrong is the arithmetic at block ends, at the end of the file and    *)
(* from one call to the next.                                              *)
(***************************************************************************)
EXTENDS Integers, Sequences

CONSTANTS
  DATABLK_SIZE,  \* bytes in a data block (4096 in the code)
  NUM_INODES,    \* num_inodes
  MAX_LEN,       \* bound: the length of a file
  MAX_READ       \* bound: nbytes of a read; PROGRAM_MAX_SIZE is taken as MAX_LEN

ASSUME SizesAssumption ==
  /\ DATABLK_SIZE \in Nat \ {0}
  /\ NUM_INODES \in Nat \ {0}
  /\ MAX_LEN \in Nat
  /\ MAX_READ \in Nat

Byte == [blk : Nat, off : Nat]
Pos(b) == b.blk * DATABLK_SIZE + b.off

VARIABLES
  inode,     \* the inode number in the descriptor
  filelen,   \* inode_start[inode].length
  file_pos,  \* file_array[fd].file_pos
  call,      \* "none", or what called read_data: "read" or "load"
  offset,    \* arguments of read_data
  length,
  blk,       \* inode_datablk_offset
  boff,      \* datablk_offset
  buf,       \* the bytes put in the caller's buffer; i is its length
  ret,       \* what the last read returned
  got        \* history: the bytes all reads since open have delivered

vars == <<inode, filelen, file_pos, call, offset, length, blk, boff, buf, ret, got>>

\* The state open leaves: position 0, for any inode number and any length.
Init ==
  /\ inode \in 0 .. NUM_INODES
  /\ filelen \in 0 .. MAX_LEN
  /\ file_pos = 0 /\ call = "none"
  /\ offset = 0 /\ length = 0 /\ blk = 0 /\ boff = 0
  /\ buf = << >> /\ ret = 0 /\ got = << >>

\* read_data accepts inode numbers 1 to num_inodes - 1 (0 is taken for NULL).
Readable == inode # 0 /\ inode < NUM_INODES

\* offset / DATABLK_SIZE and offset % DATABLK_SIZE.
Locate(o, q, r) == r < DATABLK_SIZE /\ o = q * DATABLK_SIZE + r

\* read_data up to its loop.
ReadData(who, o, n) ==
  /\ Readable
  /\ o < filelen
  /\ \E q \in 0 .. o, r \in 0 .. o : Locate(o, q, r) /\ blk' = q /\ boff' = r
  /\ call' = who /\ offset' = o /\ length' = n
  /\ buf' = << >>
  /\ UNCHANGED <<inode, filelen, file_pos, ret, got>>

\* read: n = nbytes, from the descriptor's position.
Read(n) == call = "none" /\ ReadData("read", file_pos, n)

\* read_f, called by execute to load a program: always from the start.
Load == call = "none" /\ ReadData("load", 0, MAX_LEN)

\* Offset at or after the end: read_data and read return 0.
ReadAtEnd ==
  /\ call = "none" /\ Readable /\ file_pos >= filelen
  /\ ret' = 0
  /\ UNCHANGED <<inode, filelen, file_pos, call, offset, length, blk, boff, buf, got>>

\* A null buffer or an inode number out of range: read returns -1.
ReadRefused ==
  /\ call = "none"
  /\ ret' = -1
  /\ UNCHANGED <<inode, filelen, file_pos, call, offset, length, blk, boff, buf, got>>

\* Mutants: the end of the file is not tested; the loop ends one byte early.
More_Unbounded == Len(buf) < length
More_OneShort == Len(buf) + 1 < length /\ Len(buf) < filelen

\* The test at the head of the loop, l. 121 to 123.
More == Len(buf) < length /\ Len(buf) < filelen

\* Mutant: the block number is not advanced.
Here_SameBlock == IF boff = DATABLK_SIZE THEN [blk |-> blk, off |-> 0]
                  ELSE [blk |-> blk, off |-> boff]

\* Where the next byte is taken from: at the end of a block the next one begins.
Here == IF boff = DATABLK_SIZE THEN [blk |-> blk + 1, off |-> 0]
        ELSE [blk |-> blk, off |-> boff]

LoopByte ==
  /\ call # "none" /\ More
  /\ buf' = Append(buf, Here)
  /\ got' = IF call = "read" THEN Append(got, Here) ELSE got
  /\ blk' = Here.blk
  /\ boff' = Here.off + 1
  /\ UNCHANGED <<inode, filelen, file_pos, call, offset, length, ret>>

\* read: file_pos += count; the loader has no position.
NewPos == IF call = "read" THEN file_pos + Len(buf) ELSE file_pos

LoopReturn ==
  /\ call # "none" /\ ~More
  /\ ret' = Len(buf)
  /\ file_pos' = NewPos
  /\ call' = "none"
  /\ UNCHANGED <<inode, filelen, offset, length, blk, boff, buf, got>>

Next ==
  \/ \E n \in 0 .. MAX_READ : Read(n)
  \/ Load \/ ReadAtEnd \/ ReadRefused
  \/ LoopByte \/ LoopReturn

Spec == Init /\ [][Next]_vars

(***************************************************************************)
(* Fairness: a call that runs is given the CPU (RoundRobin of Processes);  *)
(* the program keeps asking for at least one byte, as cat does.            *)
(***************************************************************************)
ReadSome == \E n \in 1 .. MAX_READ : Read(n)
FairSpec == Spec /\ WF_vars(LoopByte \/ LoopReturn) /\ SF_vars(ReadSome)

----------------------------------------------------------------------------

\* Every variable stays in its range.
TypeOK ==
  /\ inode \in 0 .. NUM_INODES
  /\ filelen \in Nat /\ file_pos \in Nat
  /\ call \in {"none", "read", "load"}
  /\ offset \in Nat /\ length \in Nat
  /\ blk \in Nat /\ boff \in 0 .. DATABLK_SIZE
  /\ buf \in Seq(Byte) /\ ret \in Nat \cup {-1}
  /\ got \in Seq(Byte)

\* The k-th byte a program reads is byte k - 1 of the file, inside a data
\* block, however its reads are cut up and wherever the block ends fall: no
\* byte is skipped, repeated or reordered (read_data, read).
InOrder ==
  \A k \in 1 .. Len(got) : got[k].off < DATABLK_SIZE /\ Pos(got[k]) = k - 1

\* Loading a program delivers the bytes of the file from its first one, in
\* order, and never one past its end (read_f, read_data with offset 0).
LoadExact ==
  call = "load" =>
    /\ Len(buf) <= filelen
    /\ \A k \in 1 .. Len(buf) : Pos(buf[k]) = k - 1

\* The position in the descriptor counts the bytes delivered, and the file
\* is never re-read nor left unread: when reading stops at the position,
\* got is the prefix of that length (read, read_data).
PositionCounts ==
  Len(got) = (IF call = "read" THEN offset + Len(buf) ELSE file_pos)

\* The parts that make the three inductive.
LoopInv ==
  /\ call = "read" => offset = file_pos
  /\ call = "load" => offset = 0
  /\ call # "none" =>
       /\ blk * DATABLK_SIZE + boff = offset + Len(buf)
       /\ Len(buf) <= filelen
       /\ \A k \in 1 .. Len(buf) : Pos(buf[k]) = offset + k - 1
IInv == TypeOK /\ InOrder /\ PositionCounts /\ LoopInv

\* A program that keeps reading a readable file gets to its end (cat's loop
\* ends): the position passes the last byte.
ReachesEnd == <>(file_pos >= filelen \/ ~Readable)
============================================================================
