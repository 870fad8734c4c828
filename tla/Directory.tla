----------------------------- MODULE Directory -----------------------------
(***************************************************************************)
(* Directory entries (filesys_read.c): the look-up by name that open and   *)
(* verify_file make, and the reading of the directory by several programs  *)
(* such as ls (open ".", read until 0 or -1).                              *)
(*                                                                         *)
(* read_dir_index is one global.  System calls run with interrupts enabled *)
(* (int 0x80 is a trap gate), so a tick may pass the CPU to another reader *)
(* between any two uses of it.  The kernel is built without optimisation:  *)
(* read_dir_index += 1 loads, adds and stores.                             *)
(***************************************************************************)
EXTENDS Integers, Sequences

CONSTANTS
  Procs,       \* programs that list the directory
  num_dentry,  \* entries of the boot block
  FNAME_SIZE,  \* bytes of a name (32 in the code)
  Char,        \* bytes other than 0 that names are made of
  INT_MAX      \* greatest value of an int32_t (2^31 - 1)

ASSUME DirectoryAssumption ==
  /\ num_dentry \in Nat \ {0}
  /\ FNAME_SIZE \in Nat \ {0}
  /\ Char \subseteq Nat \ {0}
  /\ INT_MAX \in Nat /\ num_dentry <= INT_MAX

Entry == 0 .. num_dentry - 1
Int32 == -INT_MAX - 1 .. INT_MAX

\* fname: padded with 0, and not terminated when the name fills it.
Fname ==
  {f \in [1 .. FNAME_SIZE -> Char \cup {0}] :
     f[1] # 0 /\ \A i, j \in 1 .. FNAME_SIZE : i < j /\ f[i] = 0 => f[j] = 0}

VARIABLES
  dentry,          \* dentry_start[i].fname: distinct names
  read_dir_index,
  pc,              \* where a program is in its listing
  tmp,             \* the register of read_dir_index += 1, 0 when not in use
  ret,             \* how its last listing ended: "none", "end" (0), "fail" (-1)
  got,             \* history: the entries its listing has delivered
  alone            \* history: no other listing was under way during this one

dirVars == <<dentry, read_dir_index, pc, tmp, ret, got, alone>>

DirInit ==
  /\ dentry \in [Entry -> Fname]
  /\ \A i, j \in Entry : dentry[i] = dentry[j] => i = j
  /\ read_dir_index = 0
  /\ pc = [p \in Procs |-> "idle"]
  /\ tmp = [p \in Procs |-> 0]
  /\ ret = [p \in Procs |-> "none"]
  /\ got = [p \in Procs |-> << >>]
  /\ alone = [p \in Procs |-> FALSE]

\* Byte i of the zero-terminated string s.
StrByte(s, i) == IF i <= Len(s) THEN s[i] ELSE 0

\* strncmp(s, f, n) = 0: no difference before the end of s or the n-th byte.
strncmp(s, f, n) ==
  \A i \in 1 .. n :
    (\A j \in 1 .. i - 1 : StrByte(s, j) = f[j] /\ f[j] # 0) => StrByte(s, i) = f[i]

\* Mutant: only the bytes of the name asked for are compared.
Compared_Prefix(s) == IF Len(s) < FNAME_SIZE THEN Len(s) ELSE FNAME_SIZE

\* How many bytes read_dentry_by_name compares.
Compared(s) == FNAME_SIZE

\* read_dentry_by_name: e is the first entry with the name s.
read_dentry_by_name(s, e) ==
  /\ strncmp(s, dentry[e], Compared(s))
  /\ \A d \in Entry : d < e => ~strncmp(s, dentry[d], Compared(s))

Reading == {"check", "lookup", "load", "store"}
Others(p) == {q \in Procs \ {p} : pc[q] \in Reading}

\* Mutant: the index is left where the last listing ended.
OpenedIndex_Kept == read_dir_index

\* open_dir.
OpenedIndex == 0

\* open of the directory, at any time and any number of times.  close leaves
\* the index alone (close_dir is never called).
OpenDir(p) ==
  /\ pc[p] = "idle"
  /\ read_dir_index' = OpenedIndex
  /\ pc' = [pc EXCEPT ![p] = "check"]
  /\ ret' = [ret EXCEPT ![p] = "none"]
  /\ got' = [got EXCEPT ![p] = << >>]
  /\ alone' = [q \in Procs |-> IF q = p THEN Others(p) = {}
                               ELSE alone[q] /\ pc[q] = "idle"]
  /\ UNCHANGED <<dentry, tmp>>

\* The listing ends: read returns 0 or -1.
Ends(p, r) ==
  /\ pc' = [pc EXCEPT ![p] = "idle"]
  /\ ret' = [ret EXCEPT ![p] = r]
  /\ UNCHANGED <<dentry, read_dir_index, tmp, got, alone>>

Goes(p, to) == pc' = [pc EXCEPT ![p] = to] /\ UNCHANGED <<dentry, ret, alone>>

\* read_dir: the first test.
ReadDirCheck(p) ==
  /\ pc[p] = "check"
  /\ \/ read_dir_index > num_dentry /\ Ends(p, "fail")
     \/ ~(read_dir_index > num_dentry) /\ Goes(p, "lookup")
        /\ UNCHANGED <<read_dir_index, tmp, got>>

\* The test of read_dentry_by_index.
Valid(i) == ~(i >= num_dentry \/ i < 0)

\* The history keeps no more than one entry too many.
Recorded(g, i) == IF Len(g) <= num_dentry THEN Append(g, i) ELSE g

\* read_dentry_by_index, the copy to the program's buffer.
ReadDirLookup(p) ==
  /\ pc[p] = "lookup"
  /\ \/ ~Valid(read_dir_index) /\ Ends(p, "end")
     \/ /\ Valid(read_dir_index) /\ Goes(p, "load")
        /\ got' = [got EXCEPT ![p] = Recorded(@, read_dir_index)]
        /\ UNCHANGED <<read_dir_index, tmp>>

\* read_dir_index += 1 in two steps.
ReadDirLoad(p) ==
  /\ pc[p] = "load" /\ Goes(p, "store")
  /\ tmp' = [tmp EXCEPT ![p] = read_dir_index]
  /\ UNCHANGED <<read_dir_index, got>>

\* Mutant: the index is not advanced.
Advanced_Not(i) == i

\* The sum wraps: listings that overlap and open again without end can push the
\* index up for ever.
Advanced(i) == IF i = INT_MAX THEN -INT_MAX - 1 ELSE i + 1

\* The store, the return of read, and the program's next read.
ReadDirStore(p) ==
  /\ pc[p] = "store" /\ Goes(p, "check")
  /\ read_dir_index' = Advanced(tmp[p])
  /\ tmp' = [tmp EXCEPT ![p] = 0]
  /\ UNCHANGED got

Read(p) == ReadDirCheck(p) \/ ReadDirLookup(p) \/ ReadDirLoad(p) \/ ReadDirStore(p)

DirNext == \E p \in Procs : OpenDir(p) \/ Read(p)

DirSpec == DirInit /\ [][DirNext]_dirVars

\* Every program gets the CPU again and again (RoundRobin of Processes), and
\* goes on reading until read returns 0 or -1, as ls does.
FairDirSpec == DirSpec /\ \A p \in Procs : WF_dirVars(Read(p))

----------------------------------------------------------------------------

\* Every variable stays in its range; no entry outside the table is delivered,
\* though overlapping listings push the index past num_dentry.
DirTypeOK ==
  /\ dentry \in [Entry -> Fname]
  /\ read_dir_index \in Int32
  /\ pc \in [Procs -> Reading \cup {"idle"}]
  /\ tmp \in [Procs -> Int32]
  /\ ret \in [Procs -> {"none", "end", "fail"}]
  /\ got \in [Procs -> Seq(Entry)]
  /\ alone \in [Procs -> BOOLEAN]

\* Strings a program may pass to open: the empty one, and up to one byte longer
\* than a name.
Names == UNION {[1 .. n -> Char] : n \in 0 .. FNAME_SIZE + 1}

\* The look-up finds an entry exactly when its name is the string, of which
\* no more than FNAME_SIZE bytes count: not when one is a prefix of the other,
\* and the empty string finds none (read_dentry_by_name, strncmp).
LookupExact ==
  \A s \in Names, e \in Entry :
    read_dentry_by_name(s, e) <=> \A i \in 1 .. FNAME_SIZE : dentry[e][i] = StrByte(s, i)

\* A listing no other listing overlaps delivers every entry once, in order,
\* and ends with 0 after the last one, never with -1, whatever listings came
\* before it and wherever they left the global index (open_dir, read_dir).
SoloExact ==
  \A p \in Procs : alone[p] =>
    /\ \A k \in 1 .. Len(got[p]) : got[p][k] = k - 1
    /\ ret[p] = "end" => Len(got[p]) = num_dentry
    /\ ret[p] # "fail"

\* What makes SoloExact inductive: the index of a lone listing counts what it
\* has delivered.
AloneInv ==
  \A p \in Procs : alone[p] /\ pc[p] \in Reading =>
    /\ Others(p) = {}
    /\ ret[p] = "none"
    /\ Len(got[p]) <= num_dentry
    /\ pc[p] \in {"check", "lookup"} => read_dir_index = Len(got[p])
    /\ pc[p] \in {"load", "store"} => read_dir_index = Len(got[p]) - 1
    /\ pc[p] = "store" => tmp[p] = read_dir_index

IInv == DirTypeOK /\ SoloExact /\ AloneInv

\* After some time no program other than p opens the directory any more.
OthersStopOpening(p) == <>[][\A q \in Procs \ {p} : ~OpenDir(q)]_dirVars

\* A program's listings end, though stale stores of overlapping listings set the
\* index back (read_dir), unless other programs open the directory without end:
\* each open sets the one index back to 0 (open_dir).
ListingEnds ==
  \A p \in Procs : OthersStopOpening(p) => (pc[p] \in Reading ~> pc[p] = "idle")
=============================================================================
