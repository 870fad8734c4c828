-------------------------------- MODULE Fish --------------------------------
(***************************************************************************)
(* The fish program (fish.c) on top of the library of module Blink: it     *)
(* reads two text files side by side, makes a blink of every cell in which *)
(* either of them is not blank, and lets them alternate with the ticks of  *)
(* the rtc; then it adds one more blink, synchronises it with the first    *)
(* cell of the picture, and removes it again.                              *)
(*                                                                         *)
(* A second client, which calls the library in any order, stands for the   *)
(* programs blink.S is written for.                                        *)
(***************************************************************************)
EXTENDS Blink, FiniteSets

CONSTANTS
  OFFSET,      \* where a row of the picture begins (40 in the code)
  Clients,     \* "start" for fish, "any" for the other client
  LENGTH,      \* on_length and off_length of the picture (15 in the code)
  EXTRA,       \* location of the extra blink (6*80+60 in the code)
  EXTRA_ON, EXTRA_OFF,   \* its lengths (7 and 6 in the code)
  WAIT,        \* ticks in each of main's four loops (100 in the code)
  MAX_TEXT,    \* bound: characters in a file
  MAX_CALLS,   \* bound: the calls of the other client
  Lengths      \* the on and off lengths the other client uses

ASSUME FishAssumption ==
  /\ OFFSET \in 1 .. Cells - 1 /\ EXTRA \in 1 .. Cells - 1
  /\ LENGTH \in 1 .. WORD - 1 /\ 2 * LENGTH < WORD   \* positive as a signed word
  /\ EXTRA_ON \in 0 .. WORD - 1 /\ EXTRA_OFF \in 0 .. WORD - 1
  /\ WAIT \in Nat \ {0}
  /\ Clients \subseteq {"start", "any"}
  /\ Lengths \subseteq 0 .. WORD - 1

NL == "nl"
Space == " "
Text(g) == UNION {[1 .. n -> {g, Space, NL}] : n \in 0 .. MAX_TEXT}
MAX_ROWS == MAX_TEXT + 1      \* bound: the rows of a file that is not read past its end
MAX_COLS == MAX_TEXT + WORD   \* bound: the columns of a row that never ends
Frames == {0, 1}   \* frame0.txt and frame1.txt

VARIABLES
  stage,   \* where the client is; "any" for the other one, "hung" in an endless walk
  file,    \* contents of the two files
  refused, \* the files of which every read returns -1
  pos,     \* position of each descriptor
  c,       \* c0 and c1
  eof,     \* eof0 and eof1
  row, col,
  ticks,   \* ticks so far; calls so far for the other client
  struct   \* the other client's blink_struct

fish == <<stage, file, refused, pos, c, eof, row, col, ticks, struct>>
vars == <<library, fish>>

Init ==
  /\ LibraryInit
  /\ stage \in Clients
  /\ file \in (IF stage = "any" THEN {[i \in Frames |-> << >>]}
               ELSE {[i \in Frames |-> IF i = 0 THEN f ELSE g] : f \in Text("a"), g \in Text("b")})
  /\ refused \in (IF stage = "any" THEN {{}} ELSE SUBSET Frames)
  /\ pos = [i \in Frames |-> 0]
  /\ c = [i \in Frames |-> "0"]
  /\ eof = [i \in Frames |-> FALSE]
  /\ row = 0 /\ col = 0 /\ ticks = 0
  /\ struct = Free

\* main up to add_frames, and its ends when vidmap or the open of a file fails.
Reach(s) == stage' = s /\ UNCHANGED <<library, file, refused, pos, c, eof, row, col, ticks, struct>>
Opened == stage = "start" /\ Reach("frames")
OpenFails == stage = "start" /\ Reach("done")

\* A read of one byte, unless the row of this file has ended already.  At the end
\* of the file read returns 0; a file with inode 0 cannot be read at all (module
\* FileRead), and add_frames does not look for the -1: the character stays.
AtEnd(i) == i \notin refused /\ pos[i] = Len(file[i])
Stays(i) == c[i] = NL \/ i \in refused
Char(i) == IF Stays(i) THEN c[i] ELSE IF AtEnd(i) THEN NL ELSE file[i][pos[i] + 1]
Pos(i) == IF Stays(i) \/ AtEnd(i) THEN pos[i] ELSE pos[i] + 1

\* Mutant: the end of a file is noticed in the first row only.
Eof_First(i) == eof[i] \/ (c[i] # NL /\ AtEnd(i) /\ row = 0)

Eof(i) == eof[i] \/ (c[i] # NL /\ AtEnd(i))

\* Mutant: the column is not counted where both files are blank.
Column_Skips(drawn) == IF drawn THEN col + 1 ELSE col

Column(drawn) == col + 1

Shown(ch) == IF ch = NL THEN Space ELSE ch

\* A blink_struct before it is added.
Filled(l, ch, other, on, off) ==
  [Free EXCEPT !.location = l, !.on_char = ch, !.off_char = other, !.on_length = on, !.off_length = off]

\* The place of the cell in the picture, as an unsigned short.
Location == (row * NUM_COLS + col + OFFSET) % WORD

\* One round of the inner loop that does not end the row.
FrameChar ==
  LET drawn == \E i \in Frames : Char(i) \notin {Space, NL}
      b == Filled(Location, Shown(Char(0)), Shown(Char(1)), LENGTH, LENGTH) IN
  /\ stage = "frames"
  /\ \E i \in Frames : Char(i) # NL
  /\ col < MAX_COLS
  /\ IF drawn /\ Accepted(b) THEN mp1_ioctl_add(b) ELSE UNCHANGED library
  /\ c' = [i \in Frames |-> Char(i)]
  /\ pos' = [i \in Frames |-> Pos(i)]
  /\ eof' = [i \in Frames |-> Eof(i)]
  /\ col' = Column(drawn)
  /\ UNCHANGED <<stage, file, refused, row, ticks, struct>>

\* The round in which both rows have ended, and what follows the inner loop.
FrameRow ==
  /\ stage = "frames"
  /\ \A i \in Frames : Char(i) = NL
  /\ row < MAX_ROWS
  /\ c' = [i \in Frames |-> IF Eof(i) THEN NL ELSE "0"]
  /\ pos' = [i \in Frames |-> Pos(i)]
  /\ eof' = [i \in Frames |-> Eof(i)]
  /\ row' = row + 1 /\ col' = 0
  /\ stage' = IF \A i \in Frames : Eof(i) THEN "wait1" ELSE "frames"
  /\ UNCHANGED <<library, file, refused, ticks, struct>>

\* A round of a loop of main: a read of the rtc and the tasklet, whose walk may
\* never end.
Loops == <<"wait1", "wait2", "wait3", "wait4">>
LoopEnd(k) == ticks = k * WAIT

Wait(k) ==
  /\ stage = Loops[k] /\ ~LoopEnd(k)
  /\ \/ Cyclic /\ Reach("hung")
     \/ /\ mp1_rtc_tasklet
        /\ ticks' = ticks + 1
        /\ UNCHANGED <<stage, file, refused, pos, c, eof, row, col, struct>>

Extra == Filled(EXTRA, "I", "M", EXTRA_ON, EXTRA_OFF)

\* What comes after loop k is refused, or nothing.
Nothing(k) ==
  \/ k = 1 /\ ~Accepted(Extra)
  \/ k = 2 /\ NULL \in {mp1_find_helper(OFFSET), mp1_find_helper(EXTRA)}
  \/ k = 3 /\ mp1_find_helper(EXTRA) = NULL
  \/ k = 4

\* Between the loops; main looks at no result.  A search is never endless here: a
\* list that goes round has stopped fish in the loop before.
Ioctl(k) ==
  /\ stage = Loops[k] /\ LoopEnd(k)
  /\ stage' = IF k = 4 THEN "done" ELSE Loops[k + 1]
  /\ \/ k = 1 /\ mp1_ioctl_add(Extra)
     \/ k = 2 /\ mp1_ioctl_sync(OFFSET, EXTRA)
     \/ k = 3 /\ mp1_ioctl_remove(EXTRA)
     \/ Nothing(k) /\ UNCHANGED library
  /\ UNCHANGED <<file, refused, pos, c, eof, row, col, ticks, struct>>

Main ==
  \/ Opened \/ OpenFails \/ FrameChar \/ FrameRow
  \/ \E k \in 1 .. 4 : Wait(k) \/ Ioctl(k)

----------------------------------------------------------------------------
\* The other client.  A call that is refused changes nothing.

MayCall == stage = "any" /\ ticks < MAX_CALLS

Called ==
  /\ MayCall
  /\ ticks' = ticks + 1
  /\ UNCHANGED <<stage, file, refused, pos, c, eof, row, col>>

AnyAdd(l, on, off) ==
  /\ Called
  /\ mp1_ioctl_add(Filled(l, "x", "y", on, off))
  /\ UNCHANGED struct
AnyRemove(l) == Called /\ mp1_ioctl_remove(l) /\ UNCHANGED struct
AnySync(l, m) == Called /\ mp1_ioctl_sync(l, m) /\ UNCHANGED struct
AnyTick == Called /\ mp1_rtc_tasklet /\ UNCHANGED struct

\* It finds a blink, and may add what it found once more.
AnyFind(l) ==
  /\ Called /\ ~Endless(l)
  /\ struct' = mp1_ioctl_find([struct EXCEPT !.location = l])
  /\ UNCHANGED library
AnyAgain == Called /\ mp1_ioctl_add(struct) /\ UNCHANGED struct

\* A tick, or a search, that never ends.
AnyHangs == MayCall /\ Cyclic /\ Reach("hung")

Other ==
  \/ \E l \in 0 .. Cells :
       \/ \E on, off \in Lengths : AnyAdd(l, on, off)
       \/ AnyRemove(l) \/ AnyFind(l)
       \/ \E m \in 0 .. Cells : AnySync(l, m)
  \/ AnyTick \/ AnyAgain \/ AnyHangs

Next == Main \/ Other

Spec == Init /\ [][Next]_vars

\* Fairness: fish is given the CPU again and again (RoundRobin of module
\* Processes).  Whether its reads of the rtc return is another question: of two
\* programs that read it one may starve (module Rtc).
FairSpec ==
  /\ Spec
  /\ WF_vars(Opened \/ OpenFails \/ FrameChar \/ FrameRow \/ \E k \in 1 .. 4 : Ioctl(k))

RtcReturns == \A k \in 1 .. 4 : WF_vars(Wait(k))

----------------------------------------------------------------------------

\* The character of a text at a row and a column, counting from 0: the reference
\* add_frames is checked against.
RowOf(t, i) == Cardinality({j \in 1 .. i - 1 : t[j] = NL})
ColOf(t, i) == Cardinality({j \in 1 .. i - 1 : RowOf(t, j) = RowOf(t, i) /\ t[j] # NL})
At(t, r, k) ==
  IF \E i \in DOMAIN t : t[i] # NL /\ RowOf(t, i) = r /\ ColOf(t, i) = k
  THEN t[CHOOSE i \in DOMAIN t : t[i] # NL /\ RowOf(t, i) = r /\ ColOf(t, i) = k]
  ELSE Space

\* The text is not wider than the screen, and not so long that an unsigned short
\* cannot hold the place of a character (row 819 in the code).
Fits(t) ==
  \A i \in DOMAIN t : t[i] # NL =>
    ColOf(t, i) < NUM_COLS /\ RowOf(t, i) * NUM_COLS + ColOf(t, i) + OFFSET < WORD

\* From add_frames on, the screen shows one of the two pictures, whole and in its
\* place, and after every LENGTH ticks the other one; cells blank in both keep
\* what they showed.  This is so whichever file ends first, whichever has the
\* longer rows, and whatever main does to the cell of the extra blink (add_frames,
\* mp1_rtc_tasklet).  Left out are rows wider than the screen, which run into each
\* other, and texts of 819 rows and more, whose places start again at location 0.
WholeFrame ==
  stage \in ToSet(Loops) /\ (\A i \in Frames : Fits(file[i])) =>
    \A r \in 0 .. NUM_ROWS - 1, k \in 0 .. NUM_COLS - 1 :
      LET l == r * NUM_COLS + k + OFFSET
          now == (ticks \div LENGTH) % 2 IN
      l < Cells /\ ~(l = EXTRA /\ stage # "wait1") =>
        vmem[l] = IF \A i \in Frames : At(file[i], r, k) = Space THEN Untouched
                  ELSE At(file[now], r, k)

\* Once main has synchronised it, the extra blink runs in step with the first cell
\* of the picture, although it began later and with other lengths (mp1_ioctl_sync,
\* mp1_rtc_tasklet).
InStep ==
  LET f == mp1_find_helper(OFFSET)
      s == mp1_find_helper(EXTRA) IN
  stage = "wait3" /\ f # NULL /\ s # NULL =>
    /\ blink_array[f].countdown = blink_array[s].countdown
    /\ blink_array[f].status = blink_array[s].status

\* If its files can be read and its reads of the rtc return, fish ends: its loops
\* over the two files do, whichever is longer (add_frames), and so do the walks of
\* blink.S, unless the text was so long that a blink came to location 0.
FishEnds ==
  RtcReturns =>
    ((stage = "start" /\ refused = {}) ~> (stage = "done" \/ (stage = "hung" /\ zero)))

\* Does NOT hold: no walk of the library would go on for ever if every location
\* were valid that passes mp1_ioctl_add's "Check that the location is valid"
\* (blink.S:131).  Location 0 passes it.
WalksEnd == stage # "hung"
============================================================================
