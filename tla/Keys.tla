-------------------------------- MODULE Keys --------------------------------
(***************************************************************************)
(* From the keys of a keyboard to characters: the tables of scan_code.c,   *)
(* char_match, and what keyboard_handler keeps about pressed keys          *)
(* (keyboard.c).  Characters are ASCII codes; 0 is no character.           *)
(*                                                                         *)
(* The keyboard sends a code when a key goes down, again while it is held, *)
(* and the code plus 128 when it is let go.  The keys on the right send a  *)
(* prefix, 224, before the code of their counterpart on the left.          *)
(***************************************************************************)
EXTENDS Integers, Sequences

ENTER == 28
SPACE == 57
LEFTSHIFT == 42
RIGHTSHIFT == 54
LEFTALT == 56
CAPSLOCK == 58
RIGHTALT == 224 + LEFTALT   \* a name for the key: prefix and code
NUM_SCAN_CODES == 255
NUM_CONVERT == 80

VARIABLES
  held,         \* the modifier keys that are down
  pressed_key,  \* the handler's marks, of the modifiers only
  cap_status

keys == <<held, pressed_key, cap_status>>

Shifts == {LEFTSHIFT, RIGHTSHIFT}
Alts == {LEFTALT, RIGHTALT}
Modifiers == Shifts \cup Alts

KeysInit ==
  /\ held = {}
  /\ pressed_key = [k \in {LEFTSHIFT, RIGHTSHIFT, LEFTALT} |-> 0]
  /\ cap_status = 0

\* init_scan_code: the characters of the rows of keys, and those with shift; an
\* entry that is not set is 0.
Digits == <<49, 50, 51, 52, 53, 54, 55, 56, 57, 48, 45, 61>>
TopRow == <<9, 113, 119, 101, 114, 116, 121, 117, 105, 111, 112, 91, 93, 10>>
HomeRow == <<97, 115, 100, 102, 103, 104, 106, 107, 108, 59, 39, 96>>
LastRow == <<92, 122, 120, 99, 118, 98, 110, 109, 44, 46, 47>>
Keypad == <<55, 56, 57, 45, 52, 53, 54, 43, 49, 50, 51, 48>>
ShiftDigits == <<33, 64, 35, 36, 37, 94, 38, 42, 40, 41, 95, 43>>
ShiftTop == <<81, 87, 69, 82, 84, 89, 85, 73, 79, 80, 123, 125>>
ShiftHome == <<65, 83, 68, 70, 71, 72, 74, 75, 76, 58, 34, 126>>
ShiftLast == <<124, 90, 88, 67, 86, 66, 78, 77, 60, 62, 63>>

scan_code ==
  [k \in 0 .. NUM_SCAN_CODES - 1 |->
     CASE k \in 2 .. 13 -> Digits[k - 1]
       [] k \in 15 .. 28 -> TopRow[k - 14]
       [] k \in 30 .. 41 -> HomeRow[k - 29]
       [] k \in 43 .. 53 -> LastRow[k - 42]
       [] k \in 71 .. 82 -> Keypad[k - 70]
       [] k = 55 -> 42 [] k = SPACE -> 32 [] k = 96 -> 10
       [] OTHER -> 0]

shift_convert ==
  [k \in 0 .. NUM_CONVERT - 1 |->
     CASE k \in 2 .. 13 -> ShiftDigits[k - 1]
       [] k \in 16 .. 27 -> ShiftTop[k - 15]
       [] k \in 30 .. 41 -> ShiftHome[k - 29]
       [] k \in 43 .. 53 -> ShiftLast[k - 42]
       [] OTHER -> 0]

Lower(ch) == ch \in 97 .. 122
ShiftMarked == pressed_key[LEFTSHIFT] = 1 \/ pressed_key[RIGHTSHIFT] = 1

\* Mutant: caps lock and shift together give a capital too.
Converted_Both(k) == ShiftMarked \/ (cap_status = 1 /\ Lower(scan_code[k]))

\* When char_match takes the second table.
Converted(k) == IF cap_status = 1 /\ Lower(scan_code[k]) THEN ~ShiftMarked ELSE ShiftMarked

\* char_match.  shift_convert has no entry for a few keys of the keypad: what is
\* read behind the array may be any byte.
char_match(k) ==
  IF scan_code[k] = 0 THEN {0}
  ELSE IF ~Converted(k) THEN {scan_code[k]}
  ELSE IF k = ENTER THEN {10}
  ELSE IF k >= NUM_CONVERT THEN 0 .. 255
  ELSE {shift_convert[k]}

\* Mutant: RELEASE takes away one too few.
RELEASE_Off(code) == code - 127

\* The entry of pressed_key a code above MAX_KEY_IND resets.
RELEASE(code) == code - 128

\* The handler's marks after a byte; bytes that are no modifier's leave these alone.
MarksAfter(marks, byte) ==
  IF byte > 127
  THEN [k \in DOMAIN marks |-> IF k = RELEASE(byte) THEN 0 ELSE marks[k]]
  ELSE [k \in DOMAIN marks |-> IF k = byte THEN 1 ELSE marks[k]]

\* The bytes of a key: its code, with the prefix for a key on the right.
MarksAfterKey(k, up) ==
  LET code == (k % 224) + (IF up THEN 128 ELSE 0)
  IN MarksAfter(IF k > 224 THEN MarksAfter(pressed_key, 224) ELSE pressed_key, code)

\* A modifier goes down, is repeated, or is let go.
ModifierDown(k) ==
  /\ held' = held \cup {k}
  /\ pressed_key' = MarksAfterKey(k, FALSE)
  /\ UNCHANGED cap_status

ModifierUp(k) ==
  /\ k \in held
  /\ held' = held \ {k}
  /\ pressed_key' = MarksAfterKey(k, TRUE)
  /\ UNCHANGED cap_status

\* Caps lock: every code toggles, the repeated ones too.
CapsLock == cap_status' = 1 - cap_status /\ UNCHANGED <<held, pressed_key>>

\* With Alt marked, character keys are not taken (l. 116).
Deaf == pressed_key[LEFTALT] = 1

----------------------------------------------------------------------------

\* The keys of a US keyboard that have two characters, other than letters.
Pairs == {<<96, 126>>, <<49, 33>>, <<50, 64>>, <<51, 35>>, <<52, 36>>, <<53, 37>>, <<54, 94>>,
          <<55, 38>>, <<56, 42>>, <<57, 40>>, <<48, 41>>, <<45, 95>>, <<61, 43>>, <<91, 123>>,
          <<93, 125>>, <<92, 124>>, <<59, 58>>, <<39, 34>>, <<44, 60>>, <<46, 62>>, <<47, 63>>}
MainBlock == 2 .. 54

\* What a key types is decided by the keys that are really down: a letter is a
\* capital exactly when a shift key is held or caps lock is on, not both; any
\* other key of the main block gives its second character exactly when a shift
\* key is held, whatever caps lock is; and only a held Alt key makes the keyboard
\* deaf.  So no order of pressing, repeating and letting go of both shifts and
\* both Alts leaves a mark behind (keyboard_handler, char_match, init_scan_code).
TypedRight ==
  LET shift == held \cap Shifts # {} IN
  /\ \A k \in MainBlock \ {ENTER} :
       LET ch == scan_code[k] IN
       /\ Lower(ch) => char_match(k) = {IF shift # (cap_status = 1) THEN ch - 32 ELSE ch}
       /\ \A pair \in Pairs : pair[1] = ch => char_match(k) = {IF shift THEN pair[2] ELSE ch}
  /\ char_match(ENTER) = {10}
  /\ Deaf => held \cap Alts # {}
============================================================================
