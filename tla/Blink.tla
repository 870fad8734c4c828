------------------------------- MODULE Blink -------------------------------
(***************************************************************************)
(* The animation library of the fish program: blink.S, and the pool of     *)
(* structures mp1_malloc and mp1_free keep for it (fish.c).  A blink is a  *)
(* cell of the screen that shows on_char for on_length ticks, off_char for *)
(* off_length ticks, and so on; the blinks form a linked list in the pool. *)
(*                                                                         *)
(* All of it runs in one process, so a call is one step.  The 16-bit       *)
(* fields are words of WORD values, read as signed where the code does.    *)
(* Location 0 marks a free structure, but mp1_ioctl_add accepts it: such a *)
(* blink is linked and will be given out again, after which the list may   *)
(* be a cycle and a walk along it never ends.                              *)
(***************************************************************************)
EXTENDS Integers, Sequences, SequencesExt

CONSTANTS
  NUM_COLS,  \* 80 in the code
  NUM_ROWS,  \* 25 in the code
  WORD       \* 2^16 in the code

ASSUME BlinkAssumption ==
  /\ NUM_COLS \in Nat \ {0} /\ NUM_ROWS \in Nat \ {0}
  /\ WORD \in Nat \ {0}

Cells == NUM_COLS * NUM_ROWS
Slot == 1 .. Cells   \* the structures of blink_array; 0 is the NULL pointer
NULL == 0

VARIABLES
  blink_array,    \* the pool
  mp1_list_head,
  vmem,           \* the characters of the video memory
  zero            \* ghost: a blink at location 0 has been added

library == <<blink_array, mp1_list_head, vmem, zero>>

Nul == "nul"
Free == [location |-> 0, on_char |-> Nul, off_char |-> Nul, on_length |-> 0, off_length |-> 0,
         countdown |-> 0, status |-> 0, next |-> NULL]

Untouched == "."

\* main clears the pool and maps the video memory.
LibraryInit ==
  /\ blink_array = [s \in Slot |-> Free]
  /\ mp1_list_head = NULL
  /\ vmem = [l \in 0 .. Cells - 1 |-> Untouched]
  /\ zero = FALSE

Signed(w) == IF w < WORD \div 2 THEN w ELSE w - WORD

\* Where next leads; nothing follows the NULL pointer.
After == [s \in Slot \cup {NULL} |-> IF s = NULL THEN NULL ELSE blink_array[s].next]

\* What a walk along next meets.
Walk(next, head) == LET at[n \in 0 .. Cells] == IF n = 0 THEN head ELSE next[at[n - 1]] IN at

\* The slots of the list in order, up to the NULL pointer; the walk is cut off
\* after Cells slots, more than a list without a cycle has.
EndsAt(at, n) == (n = Cells \/ at[n] = NULL) /\ \A m \in 0 .. n - 1 : at[m] # NULL
Slots(at) == [n \in 1 .. (CHOOSE n \in 0 .. Cells : EndsAt(at, n)) |-> at[n - 1]]

List == Slots(Walk(After, mp1_list_head))

\* There are only Cells slots: a walk that is not at its end by then goes round.
Cyclic == Walk(After, mp1_list_head)[Cells] # NULL

\* The first blink of the list with a location, NULL if there is none.
mp1_find_helper(loc) ==
  LET i == SelectInSeq(List, LAMBDA s : blink_array[s].location = loc)
  IN IF i = 0 THEN NULL ELSE List[i]

\* mp1_find_helper never returns.
Endless(loc) == Cyclic /\ mp1_find_helper(loc) = NULL

\* The first structure with location 0, NULL if there is none.
mp1_malloc ==
  LET free == {s \in Slot : blink_array[s].location = 0}
  IN IF free = {} THEN NULL ELSE CHOOSE s \in free : \A t \in free : s <= t

\* mp1_ioctl(arg, RTC_ADD): refused for a location off the screen or when the
\* pool is used up; else the new blink is on and first in the list.
Accepted(b) == b.location < Cells /\ mp1_malloc # NULL

mp1_ioctl_add(b) ==
  /\ Accepted(b)
  /\ blink_array' = [blink_array EXCEPT ![mp1_malloc] =
                      [b EXCEPT !.status = 1, !.countdown = b.on_length, !.next = mp1_list_head]]
  /\ mp1_list_head' = mp1_malloc
  /\ vmem' = [vmem EXCEPT ![b.location] = b.on_char]
  /\ zero' = (zero \/ b.location = 0)

\* remove_find_prev, where the head of the list does not point to s: the first
\* blink whose next does.
Prev(s) == List[SelectInSeq(List, LAMBDA t : blink_array[t].next = s)]

\* Mutant: the structure is freed, and then the next one is taken from it.
Unlinked_Freed(s) ==
  [t \in Slot |-> IF t = s THEN Free
                  ELSE IF mp1_list_head # s /\ t = Prev(s) THEN [blink_array[t] EXCEPT !.next = NULL]
                  ELSE blink_array[t]]

\* found_prev, mp1_free: what pointed to s points to its next, and s is cleared.
Unlinked(s) ==
  [t \in Slot |-> IF t = s THEN Free
                  ELSE IF mp1_list_head # s /\ t = Prev(s)
                       THEN [blink_array[t] EXCEPT !.next = blink_array[s].next]
                  ELSE blink_array[t]]

\* mp1_ioctl(loc, RTC_REMOVE).
mp1_ioctl_remove(loc) ==
  LET s == mp1_find_helper(loc) IN
  /\ s # NULL
  /\ blink_array' = Unlinked(s)
  /\ mp1_list_head' = IF mp1_list_head = s THEN blink_array[s].next ELSE mp1_list_head
  /\ UNCHANGED <<vmem, zero>>

\* Mutant: the countdown is not copied.
Synced_Part(f, s) ==
  [s EXCEPT !.on_length = f.on_length, !.off_length = f.off_length, !.status = f.status]

Synced(f, s) ==
  [s EXCEPT !.on_length = f.on_length, !.off_length = f.off_length,
            !.countdown = f.countdown, !.status = f.status]

\* mp1_ioctl(first << 16 | second, RTC_SYNC).  testb clears the sign and the
\* overflow flag, so cmovl never moves: the off character is shown in any case.
mp1_ioctl_sync(first, second) ==
  LET f == mp1_find_helper(first)
      s == mp1_find_helper(second) IN
  /\ f # NULL /\ s # NULL
  /\ blink_array' = [blink_array EXCEPT ![s] = Synced(blink_array[f], @)]
  /\ vmem' = [vmem EXCEPT ![second] = blink_array[s].off_char]
  /\ UNCHANGED <<mp1_list_head, zero>>

\* mp1_ioctl(&struct, RTC_FIND): the blink is copied to the caller's struct,
\* next included.
mp1_ioctl_find(struct) ==
  LET s == mp1_find_helper(struct.location)
  IN IF s = NULL THEN struct ELSE blink_array[s]

----------------------------------------------------------------------------
\* The tasklet.

Decremented(b) == IF b.countdown = 0 THEN WORD - 1 ELSE b.countdown - 1   \* as a word
Flips(b) == Signed(Decremented(b)) <= 0

\* Mutant: the lengths are taken the wrong way round.
Reload_Swapped(b) == IF b.status = 1 THEN b.on_length ELSE b.off_length

\* The length of the phase that begins.
Reload(b) == IF b.status = 1 THEN b.off_length ELSE b.on_length

Ticked(b) ==
  IF Flips(b) THEN [b EXCEPT !.countdown = Reload(b), !.status = 1 - @]
  ELSE [b EXCEPT !.countdown = Decremented(b)]

\* mp1_poke by a blink that flips.
Poked(screen, s) ==
  LET b == blink_array[s]
  IN IF ~Flips(b) THEN screen
     ELSE [screen EXCEPT ![b.location] = IF b.status = 1 THEN b.off_char ELSE b.on_char]

\* The screen after the pokes of the first blinks of a list.
Repainted(list) ==
  LET screen[n \in 0 .. Len(list)] == IF n = 0 THEN vmem ELSE Poked(screen[n - 1], list[n])
  IN screen

mp1_rtc_tasklet ==
  /\ ~Cyclic
  /\ blink_array' = [s \in Slot |-> IF Contains(List, s) THEN Ticked(blink_array[s])
                                    ELSE blink_array[s]]
  /\ vmem' = Repainted(List)[Len(List)]
  /\ UNCHANGED <<mp1_list_head, zero>>

----------------------------------------------------------------------------

\* As long as no blink was added at location 0, the list ends, meets no structure
\* twice, and holds exactly the structures mp1_malloc takes for used: none is lost
\* to the pool, none is given out again while it is linked.  All the walks of
\* blink.S end only because of this (mp1_ioctl_add, mp1_ioctl_remove, mp1_malloc,
\* mp1_free).
ListSound ==
  ~zero =>
  /\ IsInjective(List)
  /\ List # << >> => blink_array[List[Len(List)]].next = NULL
  /\ ToSet(List) = {s \in Slot : blink_array[s].location # 0}

\* A blink whose lengths are ordinary positive numbers never waits longer than
\* the phase it is in, whatever was added, removed or synchronised between two
\* ticks (mp1_rtc_tasklet, mp1_ioctl_sync).
Timely ==
  \A i \in DOMAIN List :
    LET b == blink_array[List[i]] IN
    Signed(b.on_length) > 0 /\ Signed(b.off_length) > 0 =>
      b.countdown \in 1 .. (IF b.status = 1 THEN b.on_length ELSE b.off_length)
============================================================================
