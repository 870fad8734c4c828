----------------------------- MODULE Interrupts -----------------------------
(***************************************************************************)
(* The way of an interrupt from a device to its handler, on top of the rtc *)
(* driver of module Rtc: the interrupt controllers and their driver        *)
(* (i8259.c), the vectors (idt.c, interrupt_service_wrapper.S), the device *)
(* initialisation in the order of entry (kernel.c), and what the handlers  *)
(* of the timer, the keyboard and the rtc do to the devices and the        *)
(* controllers.  What they do beyond that is in Processes and Terminal.    *)
(*                                                                         *)
(* A vector from 32 on is an interrupt gate, and the handlers begin with   *)
(* cli: from delivery to sti only the devices go on.                       *)
(***************************************************************************)
EXTENDS Rtc

CONSTANTS
  Unused,      \* lines of devices the kernel has no driver for
  MAX_BYTES,   \* bound: bytes waiting in the keyboard controller
  WriteFreqs   \* frequencies the programs set

ASSUME WriteFreqsAssumption == WriteFreqs \subseteq Freqs
ASSUME UnusedAssumption == Unused \subseteq 0 .. 15

PIT_IRQ == 0
KEYBOARD_IRQ_NUM == 1
IRQ_RTC == 8
MSTR_NUM_IRQS == 8
MSTR_IRQ2_MASK == 2
Lines == 0 .. 7

VARIABLES
  boot,                     \* how many of the steps of Boot are done
  master_mask, slave_mask,  \* the lines whose bit is set
  irr,                      \* requests latched by the controllers
  isr_m, isr_s,             \* lines in service
  cpu,                      \* "run", or the handler that runs
  pf, pie,                  \* the rtc's periodic flag (register C) and its enable bit
  bytes                     \* bytes in the keyboard controller

pic == <<master_mask, slave_mask, irr, isr_m, isr_s>>
machine == <<boot, cpu, pf, pie, bytes>>
allvars == <<vars, pic, machine>>

\* What the firmware leaves: anything may have been requested, the periodic
\* flag may be set; interrupts are off.
IntInit ==
  /\ Init
  /\ boot = 0 /\ cpu = "run"
  /\ master_mask = {} /\ slave_mask = {}
  /\ irr \in SUBSET {PIT_IRQ, IRQ_RTC}
  /\ isr_m = {} /\ isr_s = {}
  /\ pf \in BOOLEAN /\ pie = FALSE
  /\ bytes = 0

----------------------------------------------------------------------------
\* The driver of the controllers.

\* i8259_init: ICW1 forgets all requests; every line but the cascade is masked.
i8259_init ==
  /\ master_mask' = Lines \ {MSTR_IRQ2_MASK}
  /\ slave_mask' = Lines
  /\ irr' = {} /\ isr_m' = {} /\ isr_s' = {}

\* Mutant: the mask of the slave is written as 0.
Unmasked_All(mask, line) == {}

\* The mask with the bit of a line cleared.
Unmasked(mask, line) == mask \ {line}

enable_irq(i) ==
  /\ master_mask' = IF i < MSTR_NUM_IRQS THEN Unmasked(master_mask, i) ELSE master_mask
  /\ slave_mask' = IF i < MSTR_NUM_IRQS THEN slave_mask
                   ELSE Unmasked(slave_mask, i - MSTR_NUM_IRQS)

\* Mutant: an interrupt of the slave is ended at the slave only.
MasterEois_None(i) == IF i >= MSTR_NUM_IRQS THEN {} ELSE {i}

\* The lines send_eoi ends at the master.  For a line of the slave there is one
\* too many: the last outb is not in an else branch.
MasterEois(i) == IF i >= MSTR_NUM_IRQS THEN {MSTR_IRQ2_MASK, i - MSTR_NUM_IRQS} ELSE {i}
SlaveEois(i) == IF i >= MSTR_NUM_IRQS THEN {i - MSTR_NUM_IRQS} ELSE {}

send_eoi(i) ==
  /\ isr_m' = isr_m \ MasterEois(i)
  /\ isr_s' = isr_s \ SlaveEois(i)
  /\ UNCHANGED <<master_mask, slave_mask>>

----------------------------------------------------------------------------
\* Boot: the steps of entry that concern interrupts, in their order.

\* Mutant: the devices are initialised before the controllers.
Boot_DevicesFirst == <<"init_keyboard", "pit_init", "rtc_init", "i8259_init", "idt_init", "sti">>

Boot == <<"i8259_init", "idt_init", "init_keyboard", "pit_init", "rtc_init", "sti">>

Done(step) == \E k \in 1 .. boot : Boot[k] = step
Running == boot = 6   \* interrupts are on
Does(step) == ~Running /\ Boot[boot + 1] = step /\ boot' = boot + 1

BootStep ==
  \/ Does("i8259_init") /\ i8259_init /\ UNCHANGED <<vars, cpu, pf, pie, bytes>>
  \/ Does("init_keyboard") /\ enable_irq(KEYBOARD_IRQ_NUM)
     /\ UNCHANGED <<vars, irr, isr_m, isr_s, cpu, pf, pie, bytes>>
  \/ Does("pit_init") /\ enable_irq(PIT_IRQ)
     /\ UNCHANGED <<vars, irr, isr_m, isr_s, cpu, pf, pie, bytes>>
  \/ /\ Does("rtc_init") /\ enable_irq(IRQ_RTC)
     /\ pie' = TRUE
     /\ irr' = IF pf THEN irr \cup {IRQ_RTC} ELSE irr
     /\ rtc_init
     /\ UNCHANGED <<isr_m, isr_s, cpu, pf, bytes>>
  \/ (Does("idt_init") \/ Does("sti")) /\ UNCHANGED <<vars, pic, cpu, pf, pie, bytes>>

----------------------------------------------------------------------------
\* The devices.  They raise their lines at any time; a request stays latched.

Raise(i) ==
  /\ irr' = irr \cup {i}
  /\ UNCHANGED <<master_mask, slave_mask, isr_m, isr_s>>

PitTick == Raise(PIT_IRQ) /\ UNCHANGED <<vars, machine>>

OtherDevice == \E u \in Unused : Raise(u) /\ UNCHANGED <<vars, machine>>

\* The rtc requests once; the next time only after register C has been read.
RtcTick ==
  /\ ~pf /\ pf' = TRUE
  /\ IF pie THEN Raise(IRQ_RTC) ELSE UNCHANGED pic
  /\ UNCHANGED <<vars, boot, cpu, pie, bytes>>

\* A byte from the keyboard.  The line rises when the controller was empty.
KeyByte ==
  /\ Done("i8259_init") /\ bytes < MAX_BYTES
  /\ bytes' = bytes + 1
  /\ IF bytes = 0 THEN Raise(KEYBOARD_IRQ_NUM) ELSE UNCHANGED pic
  /\ UNCHANGED <<vars, boot, cpu, pf, pie>>

----------------------------------------------------------------------------
\* Delivery: fixed priorities, the slave on line 2 of the master.

SlaveReq == {i - MSTR_NUM_IRQS : i \in {j \in irr : j >= MSTR_NUM_IRQS}} \ slave_mask
SlaveOut == {l \in SlaveReq : (\A k \in isr_s : l < k) /\ (\A k \in SlaveReq : l <= k)}
MasterReq ==
  ({i \in irr : i < MSTR_NUM_IRQS} \cup (IF SlaveOut = {} THEN {} ELSE {MSTR_IRQ2_MASK}))
     \ master_mask
MasterOut == {l \in MasterReq : (\A k \in isr_m : l < k) /\ (\A k \in MasterReq : l <= k)}

Granted(i) ==
  IF i < MSTR_NUM_IRQS THEN i # MSTR_IRQ2_MASK /\ i \in MasterOut
  ELSE MSTR_IRQ2_MASK \in MasterOut /\ i - MSTR_NUM_IRQS \in SlaveOut

ICW2_MASTER == 32
ICW2_SLAVE == 40
Vector(i) == IF i < MSTR_NUM_IRQS THEN ICW2_MASTER + i ELSE ICW2_SLAVE + i - MSTR_NUM_IRQS

\* idt_init: who handles a vector; all the others end in an endless loop.
idt(v) ==
  CASE v = 32 -> "pit" [] v = 33 -> "keyboard" [] v = 40 -> "rtc" [] v = 128 -> "syscall"
    [] v < 20 -> "exception" [] OTHER -> "exception_user_defined"

Deliver(i) ==
  /\ Running /\ cpu = "run" /\ i \in irr /\ Granted(i)
  /\ cpu' = IF Done("idt_init") THEN idt(Vector(i)) ELSE "no idt"
  /\ irr' = irr \ {i}
  /\ isr_m' = isr_m \cup {IF i < MSTR_NUM_IRQS THEN i ELSE MSTR_IRQ2_MASK}
  /\ isr_s' = IF i < MSTR_NUM_IRQS THEN isr_s ELSE isr_s \cup {i - MSTR_NUM_IRQS}
  /\ UNCHANGED <<vars, master_mask, slave_mask, boot, pf, pie, bytes>>

----------------------------------------------------------------------------
\* The handlers.

pit_int_handler ==
  /\ cpu = "pit" /\ cpu' = "run"
  /\ send_eoi(PIT_IRQ)
  /\ UNCHANGED <<vars, irr, boot, pf, pie, bytes>>

\* keyboard_handler up to its loop.
KeyboardEoi ==
  /\ cpu = "keyboard" /\ cpu' = "reading"
  /\ send_eoi(KEYBOARD_IRQ_NUM)
  /\ UNCHANGED <<vars, irr, boot, pf, pie, bytes>>

\* A round of the loop.  The line falls, and rises again if more bytes wait; a
\* request that was latched during the loop may be kept or fall with the line.
\* Alt+F2 or F3 leaves the handler here, for a new shell or for want of a slot.
KeyboardRead ==
  /\ cpu = "reading" /\ bytes > 0
  /\ bytes' = bytes - 1
  /\ \/ irr' = irr \cup (IF bytes > 1 THEN {KEYBOARD_IRQ_NUM} ELSE {})
     \/ bytes = 1 /\ irr' = irr \ {KEYBOARD_IRQ_NUM}
  /\ cpu' \in {"reading", "run"}
  /\ UNCHANGED <<vars, master_mask, slave_mask, isr_m, isr_s, boot, pf, pie>>

KeyboardEnd ==
  /\ cpu = "reading" /\ bytes = 0 /\ cpu' = "run"
  /\ UNCHANGED <<vars, pic, boot, pf, pie, bytes>>

\* Mutant: register C is not read.
AfterRegC_Unread == pf

\* The periodic flag after the read of register C.
AfterRegC == FALSE

\* rtc_int_handler: the flag for the readers and register C; then the EOI.
RtcRegC ==
  /\ cpu = "rtc" /\ cpu' = "rtc eoi"
  /\ rtc_int_handler
  /\ pf' = AfterRegC
  /\ UNCHANGED <<pic, boot, pie, bytes>>

RtcEoi ==
  /\ cpu = "rtc eoi" /\ cpu' = "run"
  /\ send_eoi(IRQ_RTC)
  /\ UNCHANGED <<vars, irr, boot, pf, pie, bytes>>

Handlers == pit_int_handler \/ KeyboardEoi \/ KeyboardRead \/ KeyboardEnd \/ RtcRegC \/ RtcEoi

----------------------------------------------------------------------------
\* The programs run when no handler does.  rtc_write has interrupts off.

InProgram == Running /\ cpu = "run" /\ UNCHANGED <<pic, machine>>
Call(p) == InProgram /\ ReadCall(p)
Sees(p) == InProgram /\ ReadSees(p)
Clears(p) == InProgram /\ ReadClears(p)
Write(p) == InProgram /\ \E f \in WriteFreqs : rtc_write(p, f)

IntNext ==
  \/ BootStep \/ PitTick \/ RtcTick \/ KeyByte \/ OtherDevice
  \/ \E i \in {PIT_IRQ, KEYBOARD_IRQ_NUM, IRQ_RTC} \cup Unused : Deliver(i)
  \/ Handlers
  \/ \E p \in Reader : Call(p) \/ Sees(p) \/ Clears(p) \/ Write(p)

(***************************************************************************)
(* Fairness: the processor goes on; a request that is granted again and    *)
(* again is taken; the rtc ticks for ever; every program gets the CPU      *)
(* again and again (RoundRobin of module Processes).                       *)
(***************************************************************************)
IntSpec ==
  /\ IntInit /\ [][IntNext]_allvars
  /\ WF_allvars(BootStep) /\ WF_allvars(Handlers) /\ WF_allvars(RtcTick)
  /\ SF_allvars(Deliver(KEYBOARD_IRQ_NUM)) /\ SF_allvars(Deliver(IRQ_RTC))
  /\ \A p \in Reader : SF_allvars(Sees(p)) /\ SF_allvars(Clears(p))

----------------------------------------------------------------------------

\* Between interrupts nothing is in service, and in a handler nothing but its own
\* interrupt, until it has sent its EOI: no handler leaves a line blocked, at
\* either controller, and the EOI for line 0 that send_eoi sends too many from
\* the rtc's handler never ends a timer interrupt (send_eoi, the handlers).
OwnService ==
  /\ isr_m = CASE cpu = "pit" -> {PIT_IRQ} [] cpu = "keyboard" -> {KEYBOARD_IRQ_NUM}
               [] cpu \in {"rtc", "rtc eoi"} -> {MSTR_IRQ2_MASK} [] OTHER -> {}
  /\ isr_s = IF cpu \in {"rtc", "rtc eoi"} THEN {IRQ_RTC - MSTR_NUM_IRQS} ELSE {}

\* No interrupt ever ends in exception_user_defined's endless loop, or comes
\* before there is a vector for it, whatever lines the devices raise during and
\* after the boot (i8259_init, enable_irq, idt_init, entry).
OwnHandler == cpu \in {"run", "pit", "keyboard", "reading", "rtc", "rtc eoi"}

\* A program that waits for the rtc gets on, or another that does: the way from
\* the chip to RTC_flag never breaks off, through boot, masks, priorities, EOIs
\* and register C, unless the timer and the keyboard keep the CPU from it for
\* ever (rtc_int_handler, rtc_init, send_eoi).
RtcServed == []<>(cpu = "run" /\ irr \cap {PIT_IRQ, KEYBOARD_IRQ_NUM} = {}) => SomeReadEnds

\* A byte that waits in the keyboard controller is fetched, also one that came
\* while the handler ran or that the handler left behind when it was left by
\* Alt+F2 or F3, unless the timer takes all the time (keyboard_handler).
KeysFetched == []<>(cpu = "run" /\ PIT_IRQ \notin irr) => ((bytes > 0) ~> (cpu = "reading"))
============================================================================
