------------------------- MODULE Interrupts_proofs -------------------------
(***************************************************************************)
(* Theorems of Rtc, for every number of readers; that they hold of the     *)
(* driver in its surroundings, the machine of module Interrupts; and that  *)
(* in this machine every interrupt has its handler and is ended.           *)
(***************************************************************************)
EXTENDS Interrupts, TLAPS

\* A set flag was set after the last read of every reader had ended.
FlagIsNew == RTC_flag = 1 => \A p \in Reader : ticked[p]

IInv == TypeOK /\ FreqAsWritten /\ OnePerInterrupt /\ FlagIsNew

\* The rate convert_freq finds makes the chip run at the frequency asked for.
LEMMA ConvertFacts ==
  ASSUME NEW f, NEW r \in Rates, convert_freq(f, r)
  PROVE  Hz[r] = f
  BY DEF convert_freq, Hz, Rates

\* The invariant holds of what the firmware leaves.
LEMMA InvInit == Init => IInv
  <1> SUFFICES ASSUME Init PROVE IInv
    OBVIOUS
  <1>2. FreqAsWritten
    BY DEF Init, FreqAsWritten
  <1>3. TypeOK
    BY DEF Init, TypeOK
  <1>4. OnePerInterrupt
    BY DEF Init, OnePerInterrupt
  <1>5. FlagIsNew
    <2>1. RTC_flag # 1
      BY DEF Init
    <2> QED BY <2>1 DEF FlagIsNew
  <1> QED BY <1>2, <1>3, <1>4, <1>5 DEF IInv

\* rtc_init, the interrupt handler, every step of a read and a write keep it.
LEMMA InvStep == IInv /\ [Next]_vars => IInv'
  <1> SUFFICES ASSUME IInv, [Next]_vars PROVE IInv'
    OBVIOUS
  <1>f. ASSUME UNCHANGED <<rate, hz>> PROVE FreqAsWritten'
    BY <1>f DEF IInv, FreqAsWritten
  <1>1. CASE rtc_int_handler
    BY <1>1, <1>f DEF rtc_int_handler, Raised, IInv, TypeOK, OnePerInterrupt, FlagIsNew
  <1>2. ASSUME NEW p \in Reader, ReadCall(p) PROVE IInv'
    BY <1>2, <1>f DEF ReadCall, IInv, TypeOK, OnePerInterrupt, FlagIsNew
  <1>3. ASSUME NEW p \in Reader, ReadSees(p) PROVE IInv'
    BY <1>3, <1>f DEF ReadSees, IInv, TypeOK, OnePerInterrupt, FlagIsNew
  <1>4. ASSUME NEW p \in Reader, ReadClears(p) PROVE IInv'
    BY <1>4, <1>f DEF ReadClears, Cleared, IInv, TypeOK, OnePerInterrupt, FlagIsNew
  <1>5. ASSUME NEW p \in Reader, NEW f \in Freqs, rtc_write(p, f) PROVE IInv'
    <2>1. rate' \in Rates /\ Hz[rate'] = f /\ hz' = f
      BY <1>5, ConvertFacts DEF rtc_write
    <2>2. FreqAsWritten'
      BY <2>1 DEF FreqAsWritten
    <2> QED BY <1>5, <2>1, <2>2 DEF rtc_write, IInv, TypeOK, OnePerInterrupt, FlagIsNew
  <1>6. CASE UNCHANGED vars
    BY <1>6, <1>f DEF vars, IInv, TypeOK, OnePerInterrupt, FlagIsNew
  <1>7. CASE rtc_init
    <2>1. rate' = 15 /\ hz' = 2 /\ RTC_flag' = 0 /\ UNCHANGED <<pc, ticked>>
      BY <1>7 DEF rtc_init, FREQ_2_HZ
    <2>2. 15 \in Rates /\ convert_freq(2, 15)
      BY DEF Rates, convert_freq
    <2>3. FreqAsWritten'
      BY <2>1, <2>2, ConvertFacts DEF FreqAsWritten
    <2> QED BY <2>1, <2>2, <2>3 DEF IInv, TypeOK, Freqs, OnePerInterrupt, FlagIsNew
  <1> QED BY <1>1, <1>2, <1>3, <1>4, <1>5, <1>6, <1>7 DEF Next

\* The inductive invariant holds in every reachable state.
THEOREM Inductive == Spec => []IInv
  BY InvInit, InvStep, PTL DEF Spec

\* The chip runs at the frequency last written, for every number of programs.
THEOREM FreqCorrect == Spec => []FreqAsWritten
  <1>1. IInv => FreqAsWritten BY DEF IInv
  <1> QED BY <1>1, Inductive, PTL

\* No interrupt ends two reads of the same program.
THEOREM OnePerCorrect == Spec => []OnePerInterrupt
  <1>1. IInv => OnePerInterrupt BY DEF IInv
  <1> QED BY <1>1, Inductive, PTL

\* A step of the machine is a step of the driver, or leaves the driver alone.
LEMMA MachineStep == [IntNext]_allvars => [Next]_vars
  <1> SUFFICES ASSUME [IntNext]_allvars PROVE [Next]_vars
    OBVIOUS
  <1>1. CASE BootStep
    BY <1>1 DEF BootStep, Next
  <1>2. CASE PitTick \/ RtcTick \/ KeyByte \/ OtherDevice
    BY <1>2 DEF PitTick, RtcTick, KeyByte, OtherDevice
  <1>3. ASSUME NEW i, Deliver(i) PROVE [Next]_vars
    BY <1>3 DEF Deliver
  <1>4. CASE Handlers
    BY <1>4 DEF Handlers, pit_int_handler, KeyboardEoi, KeyboardRead, KeyboardEnd, RtcRegC, RtcEoi, Next
  <1>5. ASSUME NEW p \in Reader, Call(p) \/ Sees(p) \/ Clears(p) PROVE [Next]_vars
    BY <1>5 DEF Call, Sees, Clears, Next
  <1>6. ASSUME NEW p \in Reader, Write(p) PROVE [Next]_vars
    BY <1>6, WriteFreqsAssumption DEF Write, Next
  <1>7. CASE UNCHANGED allvars
    BY <1>7 DEF allvars
  <1> QED BY <1>1, <1>2, <1>3, <1>4, <1>5, <1>6, <1>7 DEF IntNext

\* The machine with its controllers, its boot and its other devices implements the
\* specification of the driver alone: so what is proved of Rtc holds of it, with
\* whatever lines, masks and handlers come in between.
THEOREM MachineImplementsRtc == IntSpec => Spec
  <1>1. IntInit => Init BY DEF IntInit
  <1> QED BY <1>1, MachineStep, PTL DEF IntSpec, Spec

\* In the machine, too, the chip runs at the frequency last written, and no
\* interrupt ends two reads of one program.
THEOREM MachineRtcCorrect == IntSpec => [](FreqAsWritten /\ OnePerInterrupt)
  BY MachineImplementsRtc, FreqCorrect, OnePerCorrect, PTL

----------------------------------------------------------------------------

\* Where the boot stands, and which lines are masked: from i8259_init on all but
\* the timer's, the keyboard's, the cascade and the clock's.
MaskInv ==
  /\ boot \in 0 .. 6
  /\ cpu # "run" => boot = 6
  /\ boot >= 1 => 3 .. 7 \subseteq master_mask /\ 1 .. 7 \subseteq slave_mask

MachineInv == MaskInv /\ OwnHandler /\ OwnService

\* The firmware's state.
LEMMA MachineInit == IntInit => MachineInv
  BY DEF IntInit, MachineInv, MaskInv, OwnHandler, OwnService

\* Enabling one of the three lines that have a handler keeps the others masked.
LEMMA EnableFacts ==
  ASSUME MaskInv, NEW i \in {PIT_IRQ, KEYBOARD_IRQ_NUM, IRQ_RTC}, enable_irq(i), boot >= 1
  PROVE  3 .. 7 \subseteq master_mask' /\ 1 .. 7 \subseteq slave_mask'
  BY DEF MaskInv, enable_irq, Unmasked, PIT_IRQ, KEYBOARD_IRQ_NUM, IRQ_RTC, MSTR_NUM_IRQS

\* The first step of the boot is i8259_init, and the vectors are set at its end.
LEMMA BootFacts ==
  /\ boot = 0 => \A step : Does(step) => step = "i8259_init"
  /\ boot \in 0 .. 6 /\ ~Running => boot \in 0 .. 5
  /\ Running => Done("idt_init")
  BY DEF Does, Running, Done, Boot

\* Only a line with a handler is taken.
LEMMA DeliverFacts ==
  ASSUME MaskInv, NEW i \in {PIT_IRQ, KEYBOARD_IRQ_NUM, IRQ_RTC} \cup Unused, Deliver(i)
  PROVE  i \in {PIT_IRQ, KEYBOARD_IRQ_NUM, IRQ_RTC}
  <1>0. i \in 0 .. 15
    BY UnusedAssumption DEF PIT_IRQ, KEYBOARD_IRQ_NUM, IRQ_RTC
  <1>1. boot = 6 /\ Granted(i) /\ i \in 0 .. 15
    BY <1>0 DEF Deliver, Running
  <1>2. CASE i < 8
    <2>1. i \notin master_mask /\ i # 2
      BY <1>1, <1>2 DEF Granted, MasterOut, MasterReq, MSTR_NUM_IRQS, MSTR_IRQ2_MASK
    <2> QED BY <1>1, <1>2, <2>1 DEF MaskInv, PIT_IRQ, KEYBOARD_IRQ_NUM
  <1>3. CASE i >= 8
    <2>1. i - 8 \notin slave_mask
      BY <1>1, <1>3 DEF Granted, SlaveOut, SlaveReq, MSTR_NUM_IRQS
    <2> QED BY <1>1, <1>3, <2>1 DEF MaskInv, IRQ_RTC
  <1> QED BY <1>1, <1>2, <1>3

\* The vectors of the three lines.
LEMMA VectorFacts ==
  /\ idt(Vector(PIT_IRQ)) = "pit"
  /\ idt(Vector(KEYBOARD_IRQ_NUM)) = "keyboard"
  /\ idt(Vector(IRQ_RTC)) = "rtc"
  BY DEF idt, Vector, PIT_IRQ, KEYBOARD_IRQ_NUM, IRQ_RTC, MSTR_NUM_IRQS, ICW2_MASTER, ICW2_SLAVE

\* The numbers of the lines.
LEMMA LineFacts ==
  /\ 3 .. 7 \subseteq 0 .. 7 \ {2}
  /\ 1 .. 7 \subseteq 0 .. 7
  /\ MSTR_IRQ2_MASK = 2 /\ IRQ_RTC - MSTR_NUM_IRQS = 0
  /\ MasterEois(8) = {2, 0} /\ SlaveEois(8) = {0}
  <1>1. 3 .. 7 \subseteq 0 .. 7 \ {2}
    OBVIOUS
  <1>2. 1 .. 7 \subseteq 0 .. 7
    OBVIOUS
  <1>3. MSTR_IRQ2_MASK = 2 /\ IRQ_RTC - MSTR_NUM_IRQS = 0
    BY DEF MSTR_IRQ2_MASK, IRQ_RTC, MSTR_NUM_IRQS
  <1>4. MasterEois(8) = {2, 8 - 8} /\ SlaveEois(8) = {8 - 8}
    BY DEF MasterEois, SlaveEois, MSTR_NUM_IRQS, MSTR_IRQ2_MASK
  <1>5. 8 - 8 = 0
    OBVIOUS
  <1> QED BY <1>1, <1>2, <1>3, <1>4, <1>5

\* Every step keeps the invariant.
LEMMA MachineInvStep == MachineInv /\ [IntNext]_allvars => MachineInv'
  <1> SUFFICES ASSUME MachineInv, [IntNext]_allvars PROVE MachineInv'
    OBVIOUS
  <1> USE DEF MachineInv, OwnHandler, OwnService
  <1>1. CASE BootStep
    <2>1. boot \in 0 .. 5 /\ boot' = boot + 1 /\ cpu = "run" /\ UNCHANGED cpu
      BY <1>1, BootFacts DEF BootStep, Does, MaskInv, Running
    <2>2. isr_m' = {} /\ isr_s' = {}
      BY <1>1, <2>1 DEF BootStep, i8259_init, pic
    <2>3. 3 .. 7 \subseteq master_mask' /\ 1 .. 7 \subseteq slave_mask'
      <3>1. CASE Does("i8259_init") /\ i8259_init
        <4>1. master_mask' = 0 .. 7 \ {2} /\ slave_mask' = 0 .. 7
          BY <3>1 DEF i8259_init, Lines, MSTR_IRQ2_MASK
        <4> QED BY <4>1, LineFacts
      <3>2. CASE \E i \in {PIT_IRQ, KEYBOARD_IRQ_NUM, IRQ_RTC} : enable_irq(i) /\ boot >= 1
        BY <3>2, EnableFacts
      <3>3. CASE UNCHANGED pic /\ boot >= 1
        BY <3>3 DEF pic, MaskInv
      <3> QED BY <1>1, <2>1, <3>1, <3>2, <3>3, BootFacts DEF BootStep
    <2> QED BY <2>1, <2>2, <2>3 DEF MaskInv
  <1>2. CASE PitTick \/ RtcTick \/ KeyByte \/ OtherDevice
    BY <1>2 DEF PitTick, RtcTick, KeyByte, OtherDevice, Raise, machine, pic, MaskInv
  <1>3. ASSUME NEW i \in {PIT_IRQ, KEYBOARD_IRQ_NUM, IRQ_RTC} \cup Unused, Deliver(i) PROVE MachineInv'
    <2>1. i \in {PIT_IRQ, KEYBOARD_IRQ_NUM, IRQ_RTC} BY <1>3, DeliverFacts
    <2>2. boot = 6 /\ cpu = "run" /\ cpu' = idt(Vector(i))
      BY <1>3, BootFacts DEF Deliver, Running
    <2>3. UNCHANGED <<boot, master_mask, slave_mask>> BY <1>3 DEF Deliver
    <2>4. isr_m' = {IF i < MSTR_NUM_IRQS THEN i ELSE MSTR_IRQ2_MASK}
          /\ isr_s' = IF i < MSTR_NUM_IRQS THEN {} ELSE {i - MSTR_NUM_IRQS}
      BY <1>3, <2>2 DEF Deliver
    <2>5. MaskInv' BY <2>2, <2>3 DEF MaskInv
    <2>6. CASE i = PIT_IRQ
      <3>1. cpu' = "pit" /\ isr_m' = {PIT_IRQ} /\ isr_s' = {}
        BY <2>2, <2>4, <2>6, VectorFacts DEF PIT_IRQ, MSTR_NUM_IRQS
      <3> QED BY <3>1, <2>5
    <2>7. CASE i = KEYBOARD_IRQ_NUM
      <3>1. cpu' = "keyboard" /\ isr_m' = {KEYBOARD_IRQ_NUM} /\ isr_s' = {}
        BY <2>2, <2>4, <2>7, VectorFacts DEF KEYBOARD_IRQ_NUM, MSTR_NUM_IRQS
      <3> QED BY <3>1, <2>5
    <2>8. CASE i = IRQ_RTC
      <3>1. cpu' = "rtc" /\ isr_m' = {MSTR_IRQ2_MASK} /\ isr_s' = {IRQ_RTC - MSTR_NUM_IRQS}
        BY <2>2, <2>4, <2>8, VectorFacts DEF IRQ_RTC, MSTR_NUM_IRQS
      <3> QED BY <3>1, <2>5
    <2> QED BY <2>1, <2>6, <2>7, <2>8
  <1>4. CASE Handlers
    <2>1. UNCHANGED <<boot, master_mask, slave_mask>> /\ boot = 6
      BY <1>4 DEF Handlers, pit_int_handler, KeyboardEoi, KeyboardRead, KeyboardEnd, RtcRegC, RtcEoi,
                  send_eoi, pic, MaskInv
    <2>2. MaskInv' BY <2>1 DEF MaskInv
    <2>3. CASE pit_int_handler
      BY <2>2, <2>3 DEF pit_int_handler, send_eoi, MasterEois, SlaveEois, PIT_IRQ, MSTR_NUM_IRQS
    <2>4. CASE KeyboardEoi
      BY <2>2, <2>4 DEF KeyboardEoi, send_eoi, MasterEois, SlaveEois, KEYBOARD_IRQ_NUM, MSTR_NUM_IRQS
    <2>5. CASE KeyboardRead \/ KeyboardEnd \/ RtcRegC
      BY <2>2, <2>5 DEF KeyboardRead, KeyboardEnd, RtcRegC, pic
    <2>6. CASE RtcEoi
      <3>0. cpu = "rtc eoi" /\ cpu' = "run" /\ send_eoi(8)
        BY <2>6 DEF RtcEoi, IRQ_RTC
      <3>1. isr_m = {2} /\ isr_s = {0}
        <4>1. isr_m = {MSTR_IRQ2_MASK} /\ isr_s = {IRQ_RTC - MSTR_NUM_IRQS}
          BY <3>0
        <4> QED BY <4>1, LineFacts
      <3>2. cpu' = "run" /\ isr_m' = isr_m \ {2, 0} /\ isr_s' = isr_s \ {0}
        BY <3>0, LineFacts DEF send_eoi
      <3>3. isr_m' = {} /\ isr_s' = {}
        BY <3>1, <3>2
      <3> QED BY <2>2, <3>2, <3>3
    <2> QED BY <1>4, <2>3, <2>4, <2>5, <2>6 DEF Handlers
  <1>5. ASSUME NEW p \in Reader, Call(p) \/ Sees(p) \/ Clears(p) \/ Write(p) PROVE MachineInv'
    BY <1>5 DEF Call, Sees, Clears, Write, InProgram, pic, machine, MaskInv
  <1>6. CASE UNCHANGED allvars
    BY <1>6 DEF allvars, pic, machine, MaskInv
  <1> QED BY <1>1, <1>2, <1>3, <1>4, <1>5, <1>6 DEF IntNext

\* Whatever lines devices without a driver raise, and however often, no interrupt
\* ends in the endless loop of the other vectors.
THEOREM HandlerCorrect == IntSpec => []OwnHandler
  <1>1. MachineInv => OwnHandler BY DEF MachineInv
  <1> QED BY <1>1, MachineInit, MachineInvStep, PTL DEF IntSpec

\* No handler leaves a line in service, and the EOI for line 0 that send_eoi sends
\* too many ends no timer interrupt.
THEOREM ServiceCorrect == IntSpec => []OwnService
  <1>1. MachineInv => OwnService BY DEF MachineInv
  <1> QED BY <1>1, MachineInit, MachineInvStep, PTL DEF IntSpec
============================================================================
