-------------------------------- MODULE Rtc --------------------------------
(***************************************************************************)
(* The real-time clock driver (rtc.c): rtc_init, the interrupt handler,    *)
(* rtc_read and rtc_write, shared by the programs of all terminals.        *)
(* rtc_open is put in a descriptor and never called (syscall.c), so it is  *)
(* no action.                                                              *)
(*                                                                         *)
(* There is one RTC_flag for all readers.  rtc_read spins on it with       *)
(* interrupts on and resets it in a later step, so an interrupt, or the    *)
(* reader of another terminal, can come between the two.                   *)
(***************************************************************************)
EXTENDS Integers

CONSTANT Reader   \* the programs that use the rtc

VARIABLES
  RTC_flag,
  rate,     \* the low half of status register A
  pc,       \* each reader: "run", "wait" (in the loop) or "seen" (after it)
  hz,       \* history: the frequency rtc_init or the last successful rtc_write
            \* asked for, 0 before that
  ticked    \* history: an interrupt has come since the reader's last read ended

vars == <<RTC_flag, rate, pc, hz, ticked>>

\* Mutant: the rate of 256 Hz is taken for that of 128 Hz.
convert_freq_Swapped(f, r) ==
  <<f, r>> \in {<<2, 15>>, <<4, 14>>, <<8, 13>>, <<16, 12>>, <<32, 11>>, <<64, 10>>,
                <<128, 1>>, <<256, 2>>, <<512, 7>>, <<1024, 6>>}

\* convert_freq: the rate for a frequency; none for the others (-1).
convert_freq(f, r) ==
  <<f, r>> \in {<<2, 15>>, <<4, 14>>, <<8, 13>>, <<16, 12>>, <<32, 11>>, <<64, 10>>,
                <<128, 2>>, <<256, 1>>, <<512, 7>>, <<1024, 6>>}

Freqs == {2, 4, 8, 16, 32, 64, 128, 256, 512, 1024}
Rates == 1 .. 15

\* The chip: the interrupt frequency of a rate.
Hz == [r \in Rates |->
        CASE r = 1 -> 256   [] r = 2 -> 128   [] r = 3 -> 8192  [] r = 4 -> 4096
          [] r = 5 -> 2048  [] r = 6 -> 1024  [] r = 7 -> 512   [] r = 8 -> 256
          [] r = 9 -> 128   [] r = 10 -> 64   [] r = 11 -> 32   [] r = 12 -> 16
          [] r = 13 -> 8    [] r = 14 -> 4    [] r = 15 -> 2]

\* The firmware has left some rate, or none (0).
Init ==
  /\ RTC_flag = 0
  /\ rate \in Rates \cup {0} /\ hz = 0
  /\ pc = [p \in Reader |-> "run"]
  /\ ticked = [p \in Reader |-> FALSE]

\* The rate in register A: the other half of the register is kept.
FREQ_2_HZ == 15

rtc_init ==
  /\ rate' = FREQ_2_HZ /\ hz' = 2
  /\ RTC_flag' = 0
  /\ UNCHANGED <<pc, ticked>>

Raised == 1

rtc_int_handler ==
  /\ RTC_flag' = Raised
  /\ ticked' = [p \in Reader |-> TRUE]
  /\ UNCHANGED <<rate, pc, hz>>

\* rtc_read: called; the loop ends; the flag is reset.
ReadCall(p) ==
  /\ pc[p] = "run"
  /\ pc' = [pc EXCEPT ![p] = "wait"]
  /\ UNCHANGED <<RTC_flag, rate, hz, ticked>>

ReadSees(p) ==
  /\ pc[p] = "wait" /\ RTC_flag # 0
  /\ pc' = [pc EXCEPT ![p] = "seen"]
  /\ UNCHANGED <<RTC_flag, rate, hz, ticked>>

\* Mutant: the flag is not reset.
Cleared_Not == RTC_flag

Cleared == 0

ReadClears(p) ==
  /\ pc[p] = "seen"
  /\ RTC_flag' = Cleared
  /\ pc' = [pc EXCEPT ![p] = "run"]
  /\ ticked' = [ticked EXCEPT ![p] = FALSE]
  /\ UNCHANGED <<rate, hz>>

\* rtc_write of a frequency.  One that convert_freq does not know, or a wrong
\* size, is refused and changes nothing.
rtc_write(p, f) ==
  /\ pc[p] = "run"
  /\ \E r \in Rates : convert_freq(f, r) /\ rate' = r
  /\ hz' = f
  /\ UNCHANGED <<RTC_flag, pc, ticked>>

Next ==
  \/ rtc_init
  \/ rtc_int_handler
  \/ \E p \in Reader :
       \/ ReadCall(p) \/ ReadSees(p) \/ ReadClears(p)
       \/ \E f \in Freqs : rtc_write(p, f)

Spec == Init /\ [][Next]_vars

----------------------------------------------------------------------------

\* Every variable stays in its range.
TypeOK ==
  /\ RTC_flag \in {0, 1}
  /\ rate \in Rates \cup {0} /\ hz \in Freqs \cup {0}
  /\ pc \in [Reader -> {"run", "wait", "seen"}]
  /\ ticked \in [Reader -> BOOLEAN]

\* From rtc_init on the chip runs at the frequency of the last write that
\* succeeded, whatever rate the firmware had set: the table of convert_freq fits
\* the chip, its odd rates 1 and 2 included.
FreqAsWritten == hz # 0 => rate \in Rates /\ Hz[rate] = hz

\* No interrupt ends two reads of the same program: between the end of a read
\* and the next one that gets through, an interrupt has come, whatever the
\* other readers did with the flag (rtc_read, rtc_int_handler).
OnePerInterrupt ==
  \A p \in Reader : pc[p] = "seen" => ticked[p]

\* When every program waits for an interrupt, one of them gets on, also if the
\* interrupt comes between another's test of the flag and its reset
\* (rtc_read).  Which one is open: two readers can take each other's interrupts.
SomeReadEnds == (\A p \in Reader : pc[p] = "wait") ~> (\E p \in Reader : pc[p] = "run")
============================================================================
