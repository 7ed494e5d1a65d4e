-------------------------- MODULE VirtualInterrupt --------------------------
(***************************************************************************)
(* The VM monitor's interrupt virtualisation: the request bitmap and the   *)
(* interrupt-window protocol of vmx_event.c, the external-interrupt exits  *)
(* of vmx_schedule.c, and the emulated 8259 PIC, 8253 PIT and keyboard     *)
(* port they share state with.                                             *)
(*                                                                         *)
(* One action is one VM exit: the monitor runs with host interrupts off    *)
(* from the exit to the next VM entry, so a handler is atomic.  The guest  *)
(* here is the most general one: it may write any byte of GuestWrites, read *)
(* any port and open or close its interrupt flag at any moment.            *)
(* GuestSystem composes the same handlers with the guest that is shipped.  *)
(***************************************************************************)
EXTENDS ByteRing

CONSTANTS
  GuestWrites,   \* the <<port, byte>> pairs the guest may write
  TickPeriod,    \* milliseconds that may lie between two LAPIC timer exits
  MaxKeys        \* bound: scancodes accepted in one behaviour

VARIABLES
  interrupt_request_bitmap,   \* the pins whose byte in the array is 1
  pic,                        \* struct pic8259_blob
  pit,                        \* struct pit8253_blob
  kbd,                        \* the ring of struct keyboard_blob
  window,                     \* "interrupt-window exiting" (controls, bit 2)
  rflags_if,                  \* RFLAGS.IF of the guest
  host,                       \* "running" until an ASSERT or PANIC stops it
  typed,                      \* history: scancodes put in the ring
  taken,                      \* history: how many of them left the ring
  delivered                   \* history: pins injected so far

vars == <<interrupt_request_bitmap, pic, pit, kbd, window, rflags_if, host,
          typed, taken, delivered>>

PIC_INVALID_VECTOR == 255
PIC_EOI == 32
TIMER_PIN == 0
KEYBOARD_PIN == 1

PIC_MASTER_COMMAND_PORT == 32
PIC_MASTER_DATA_PORT == 33
PIC_SLAVE_COMMAND_PORT == 160
PIC_SLAVE_DATA_PORT == 161
PIT_CHANNEL0_PORT == 64
PIT_CONTROL_PORT == 67
KEYBOARD_DATA_PORT == 96

PicPorts == {PIC_MASTER_COMMAND_PORT, PIC_MASTER_DATA_PORT,
             PIC_SLAVE_COMMAND_PORT, PIC_SLAVE_DATA_PORT}
PitPorts == PIT_CHANNEL0_PORT .. PIT_CONTROL_PORT
Ports == PicPorts \cup PitPorts \cup {KEYBOARD_DATA_PORT}

UInt8 == {n \in Nat : n < 256}
UInt16 == {n \in Nat : n < 65536}
Pins == 0 .. 14

ASSUME GuestAssumption ==
  /\ GuestWrites \subseteq Ports \X UInt8
  /\ TickPeriod \subseteq Nat
  /\ MaxKeys \in Nat
  /\ 0 \in Byte
  /\ RingSize > 1   \* SCANCODE_BUFFER_LENGTH is 0x32

Bit(byte, n) == (byte \div 2^n) % 2 = 1

-----------------------------------------------------------------------------
(* The state pre_initialize_vmcs and the VMCS set-up leave behind.  The blob *)
(* is cleared, so interrupt_delivery_vector starts as 0, a valid pin, and    *)
(* not as PIC_INVALID_VECTOR.                                                *)

\* Mutant: the masks are not loaded.
InitialPic_unmasked ==
  [master_pic_data |-> 0, slave_pic_data |-> 0,
   is_master_pic_initializing |-> FALSE, is_slave_pic_initializing |-> FALSE,
   master_pic_offset |-> 0, slave_pic_offset |-> 0,
   interrupt_delivery_pending |-> FALSE, interrupt_delivery_vector |-> 0]

InitialPic ==
  [master_pic_data |-> 255, slave_pic_data |-> 255,
   is_master_pic_initializing |-> FALSE, is_slave_pic_initializing |-> FALSE,
   master_pic_offset |-> 0, slave_pic_offset |-> 0,
   interrupt_delivery_pending |-> FALSE, interrupt_delivery_vector |-> 0]

\* last_tsc is only compared with 0 and subtracted from the next reading:
\* the model keeps whether it is set and chooses the difference.
InitialPit ==
  [initial_counter |-> 0, divisor |-> 0, threshold |-> 0, last_tsc |-> FALSE]

Init ==
  /\ interrupt_request_bitmap = {}
  /\ pic = InitialPic
  /\ pit = InitialPit
  /\ kbd = [front |-> 0, rear |-> 0, buffer |-> [i \in 0 .. RingSize - 1 |-> 0]]
  /\ window = TRUE
  /\ rflags_if = FALSE
  /\ host = "running"
  /\ typed = <<>>
  /\ taken = 0
  /\ delivered = {}

-----------------------------------------------------------------------------
(* vmx_event.c                                                             *)

\* For a pin of the master the code also shifts 1 by a negative count for the
\* slave.  The build is -O0 on x86, where the count is taken modulo 32: the
\* result has none of the low 8 bits and masks nothing.
is_interrupt_pin_masked(vector) ==
  \/ vector <= 7 /\ Bit(pic.master_pic_data, vector)
  \/ vector >= 8 /\ Bit(pic.slave_pic_data, vector - 8)

\* Mutant: the interrupt window is not asked for.
raise_interrupt_no_window(vector) ==
  IF is_interrupt_pin_masked(vector)
  THEN UNCHANGED <<interrupt_request_bitmap, window>>
  ELSE /\ interrupt_request_bitmap' = interrupt_request_bitmap \cup {vector}
       /\ UNCHANGED window

\* raise_interrupt: a masked pin drops the interrupt.
raise_interrupt(vector) ==
  IF is_interrupt_pin_masked(vector)
  THEN UNCHANGED <<interrupt_request_bitmap, window>>
  ELSE /\ interrupt_request_bitmap' = interrupt_request_bitmap \cup {vector}
       /\ window' = TRUE

FirstRequest(requests) ==
  CHOOSE idx \in requests : \A other \in requests : idx <= other

\* The guest is about to run an instruction that an interrupt may precede.
WindowOpen == window /\ rflags_if

\* An earlier delivery has been acknowledged and is to be retired now.
Retiring ==
  /\ ~pic.interrupt_delivery_pending
  /\ pic.interrupt_delivery_vector # PIC_INVALID_VECTOR

RetiringKey == Retiring /\ pic.interrupt_delivery_vector = KEYBOARD_PIN

\* Mutant: the scancode is left in the ring.
RingLeft_kept == kbd

\* Retiring a keyboard delivery takes one scancode off the ring.
RingLeft == IF RetiringKey THEN ring_dequeue(kbd) ELSE kbd

\* Mutant: the ring is examined before the scancode is taken off it.
Lowered_stale == Retiring /\ (RetiringKey => ring_empty(kbd))

\* Mutant: the timer pin stays up for good.
Lowered_key_only == RetiringKey /\ ring_empty(RingLeft)

\* The keyboard pin is kept up while the ring holds more, any other pin is
\* lowered.
Lowered == Retiring /\ (RetiringKey => ring_empty(RingLeft))

Requests ==
  IF Lowered
  THEN interrupt_request_bitmap \ {pic.interrupt_delivery_vector}
  ELSE interrupt_request_bitmap

\* Mutant: a pin is injected over the delivery in service.
Injects_nested == Requests # {}

Injects == ~pic.interrupt_delivery_pending /\ Requests # {}

\* interrupt_window_exit_sub_handler: an acknowledged delivery is retired, then
\* the first requested pin is injected.  VM entry delivers the event through an
\* interrupt gate, which clears IF.
InterruptWindowExit ==
  /\ host = "running"
  /\ WindowOpen
  /\ kbd' = RingLeft
  /\ taken' = IF RetiringKey /\ ~ring_empty(kbd) THEN taken + 1 ELSE taken
  /\ interrupt_request_bitmap' = Requests
  /\ pic' = [pic EXCEPT
              !.interrupt_delivery_vector =
                 IF Injects THEN FirstRequest(Requests)
                 ELSE IF Lowered THEN PIC_INVALID_VECTOR ELSE @,
              !.interrupt_delivery_pending = @ \/ Injects]
  /\ delivered' = IF Injects
                  THEN delivered \cup {FirstRequest(Requests)} ELSE delivered
  /\ window' = (pic.interrupt_delivery_pending \/ Injects)
  /\ rflags_if' = ~Injects
  /\ UNCHANGED <<pit, host, typed>>

-----------------------------------------------------------------------------
(* vmx_schedule.c: exits caused by interrupts of the physical machine.     *)

\* Vector 0x20.  diff_mseconds is the time since the previous such exit.
LapicTimerExit(diff_mseconds) ==
  /\ host = "running"
  /\ pit' = [pit EXCEPT !.last_tsc = TRUE]
  /\ IF pit.last_tsc /\ diff_mseconds >= pit.threshold
     THEN raise_interrupt(TIMER_PIN)
     ELSE UNCHANGED <<interrupt_request_bitmap, window>>
  /\ UNCHANGED <<pic, kbd, rflags_if, host, typed, taken, delivered>>

\* What the local variable scancode may hold after try_retrieve_scancode read
\* code from the controller: for 0 the function leaves it uninitialised.
try_retrieve_scancode(code) == IF code = 0 THEN Byte ELSE {code}

\* Vector 0x21.  A full ring drops the scancode; the pin is raised anyway.
KeyboardExit(code) ==
  /\ host = "running"
  /\ Len(typed) < MaxKeys
  /\ \E scancode \in try_retrieve_scancode(code) :
       /\ kbd' = ring_enqueue(kbd, scancode)
       /\ typed' = IF ring_full(kbd) THEN typed ELSE Append(typed, scancode)
  /\ raise_interrupt(KEYBOARD_PIN)
  /\ UNCHANGED <<pic, pit, rflags_if, host, taken, delivered>>

-----------------------------------------------------------------------------
(* Port I/O: device_8259pic.c, device_8253pit.c and device_keyboard.c      *)
(* behind io_instruction_exit_sub_handler.                                 *)

\* Mutant: the end-of-interrupt command is not recognised.
master_pic_outb_deaf(port, byte) ==
  IF port = PIC_MASTER_COMMAND_PORT
  THEN [pic EXCEPT !.is_master_pic_initializing = @ \/ Bit(byte, 4)]
  ELSE [pic EXCEPT !.master_pic_data = byte,
                   !.master_pic_offset =
                      IF pic.is_master_pic_initializing THEN byte ELSE @,
                   !.is_master_pic_initializing = FALSE]

master_pic_outb(port, byte) ==
  IF port = PIC_MASTER_COMMAND_PORT
  THEN [pic EXCEPT !.is_master_pic_initializing = @ \/ Bit(byte, 4),
                   !.interrupt_delivery_pending = @ /\ byte # PIC_EOI]
  ELSE [pic EXCEPT !.master_pic_data = byte,
                   !.master_pic_offset =
                      IF pic.is_master_pic_initializing THEN byte ELSE @,
                   !.is_master_pic_initializing = FALSE]

slave_pic_outb(port, byte) ==
  IF port = PIC_SLAVE_COMMAND_PORT
  THEN [pic EXCEPT !.is_slave_pic_initializing = @ \/ Bit(byte, 4),
                   !.interrupt_delivery_pending = @ /\ byte # PIC_EOI]
  ELSE [pic EXCEPT !.slave_pic_data = byte,
                   !.slave_pic_offset =
                      IF pic.is_slave_pic_initializing THEN byte ELSE @,
                   !.is_slave_pic_initializing = FALSE]

OSCILLATPR_CHIP_FREQUENCY == 1193182

\* The divisor the second byte completes, and the writes pit_outb does not
\* survive: a failed ASSERT, a PANIC, or a division by a divisor of 0.
Divisor(byte) == pit.divisor + 256 * byte

\* Mutant: the second byte written to channel 0 is refused as well.
PitStops_second_byte(port, byte) ==
  \/ port = PIT_CONTROL_PORT /\ byte # 54
  \/ port = PIT_CHANNEL0_PORT /\ pit.initial_counter >= 1
  \/ port \notin {PIT_CONTROL_PORT, PIT_CHANNEL0_PORT}

PitStops(port, byte) ==
  \/ port = PIT_CONTROL_PORT /\ byte # 54
  \/ port = PIT_CHANNEL0_PORT /\ pit.initial_counter = 1 /\ Divisor(byte) = 0
  \/ port = PIT_CHANNEL0_PORT /\ pit.initial_counter >= 2
  \/ port \notin {PIT_CONTROL_PORT, PIT_CHANNEL0_PORT}

pit_outb(port, byte) ==
  CASE port = PIT_CONTROL_PORT ->
         [pit EXCEPT !.initial_counter = 0, !.divisor = 0]
    [] port # PIT_CONTROL_PORT /\ pit.initial_counter = 0 ->
         [pit EXCEPT !.initial_counter = 1, !.divisor = byte]
    [] OTHER ->
         [pit EXCEPT !.initial_counter = 2,
                     !.divisor = Divisor(byte),
                     !.threshold =
                        1000 \div (OSCILLATPR_CHIP_FREQUENCY \div Divisor(byte))]

\* An OUT instruction of the guest.  The keyboard port has no call_outb.
PortOut(port, byte) ==
  /\ host = "running"
  /\ pic' = CASE port \in {PIC_MASTER_COMMAND_PORT, PIC_MASTER_DATA_PORT} ->
                   master_pic_outb(port, byte)
              [] port \in {PIC_SLAVE_COMMAND_PORT, PIC_SLAVE_DATA_PORT} ->
                   slave_pic_outb(port, byte)
              [] OTHER -> pic
  /\ IF port = KEYBOARD_DATA_PORT \/ (port \in PitPorts /\ PitStops(port, byte))
     THEN host' = "panic" /\ pit' = pit
     ELSE host' = host /\ pit' = IF port \in PitPorts
                                 THEN pit_outb(port, byte) ELSE pit
  /\ UNCHANGED <<interrupt_request_bitmap, kbd, window, rflags_if, typed,
                 taken, delivered>>

\* What an IN of the keyboard port returns: the scancode is left in the ring.
keyboard_data_inb == IF ring_empty(kbd) THEN 0 ELSE ring_peek(kbd)

\* An IN instruction of the guest.  The PIC answers on its data ports only
\* and the PIT has no call_inb.
PortIn(port) ==
  /\ host = "running"
  /\ host' = IF port \in {PIC_MASTER_DATA_PORT, PIC_SLAVE_DATA_PORT,
                          KEYBOARD_DATA_PORT}
             THEN "running" ELSE "panic"
  /\ UNCHANGED <<interrupt_request_bitmap, pic, pit, kbd, window, rflags_if,
                 typed, taken, delivered>>

\* STI, CLI, POPF and IRET of the guest change IF without an exit.
GuestFlag ==
  /\ host = "running"
  /\ rflags_if' = ~rflags_if
  /\ UNCHANGED <<interrupt_request_bitmap, pic, pit, kbd, window, host, typed,
                 taken, delivered>>

-----------------------------------------------------------------------------
\* An exit caused by a device of the physical machine.  PANIC_EXIT, for another
\* vector or an event that is no external interrupt, is left out: the timer and
\* the keyboard are the devices SmpBoot leaves unmasked, next to the error entry
\* of the local APIC, which reports faults of the machine.
HostInterruptExit ==
  \/ \E diff_mseconds \in TickPeriod : LapicTimerExit(diff_mseconds)
  \/ \E code \in Byte : KeyboardExit(code)

\* The CPU takes an open interrupt window before the next guest instruction.
GuestInstruction ==
  /\ ~WindowOpen
  /\ \/ \E w \in GuestWrites : PortOut(w[1], w[2])
     \/ \E port \in Ports : PortIn(port)
     \/ GuestFlag

Next == HostInterruptExit \/ InterruptWindowExit \/ GuestInstruction

Spec == Init /\ [][Next]_vars

-----------------------------------------------------------------------------
PicType ==
  [master_pic_data : UInt8, slave_pic_data : UInt8,
   is_master_pic_initializing : BOOLEAN, is_slave_pic_initializing : BOOLEAN,
   master_pic_offset : UInt8, slave_pic_offset : UInt8,
   interrupt_delivery_pending : BOOLEAN,
   interrupt_delivery_vector : Pins \cup {PIC_INVALID_VECTOR}]

PitType ==
  [initial_counter : 0 .. 2, divisor : UInt16, threshold : Nat,
   last_tsc : BOOLEAN]

TypeOK ==
  /\ interrupt_request_bitmap \subseteq Pins
  /\ pic \in PicType
  /\ pit \in PitType
  /\ kbd \in Ring
  /\ window \in BOOLEAN
  /\ rflags_if \in BOOLEAN
  /\ host \in {"running", "panic"}
  /\ typed \in Seq(Byte)
  /\ taken \in Nat
  /\ delivered \subseteq Pins

\* No lost wake-up: while a pin is requested or a delivery awaits its EOI the
\* monitor keeps interrupt-window exiting on, so it gets control again when the
\* guest can take an interrupt (vmx_event.c 32-42, 118-123).
WindowArmed ==
  interrupt_request_bitmap # {} \/ pic.interrupt_delivery_pending => window

\* The pin in service stays requested until it is retired, whatever the guest
\* writes meanwhile: a delivery is never retired twice nor its pin lowered
\* under it (vmx_event.c 82-117).
InServiceRequested ==
  pic.interrupt_delivery_pending =>
    pic.interrupt_delivery_vector \in interrupt_request_bitmap

\* The keyboard pin is up only while there is a scancode to read: the guest is
\* never interrupted for a key it cannot find (vmx_event.c 87-99 with
\* vmx_schedule.c 38-46).
KeyPinBacked == KEYBOARD_PIN \in interrupt_request_bitmap => ~ring_empty(kbd)

\* The ring holds exactly the scancodes accepted and not yet retired, in the
\* order they were typed: none is lost, doubled or reordered once accepted.
KeysInOrder ==
  /\ Len(typed) = taken + ring_length(kbd)
  /\ \A i \in 1 .. ring_length(kbd) : Contents(kbd)[i] = typed[taken + i]

\* The inductive invariant behind the four above.  The monitor raises two pins
\* only; a keyboard delivery keeps its pin up until it is retired, also after
\* the EOI, while a timer delivery may find pin 0 already lowered because the
\* vector starts as 0; between its two bytes a PIT divisor has one.
TwoPins ==
  /\ interrupt_request_bitmap \subseteq {TIMER_PIN, KEYBOARD_PIN}
  /\ pic.interrupt_delivery_vector \in
       {TIMER_PIN, KEYBOARD_PIN, PIC_INVALID_VECTOR}

KeyboardHeld ==
  pic.interrupt_delivery_vector = KEYBOARD_PIN =>
    KEYBOARD_PIN \in interrupt_request_bitmap

HalfDivisor == pit.initial_counter = 1 => pit.divisor \in UInt8

IInv ==
  /\ TypeOK
  /\ TwoPins
  /\ KeyboardHeld
  /\ HalfDivisor
  /\ WindowArmed
  /\ InServiceRequested
  /\ KeyPinBacked
  /\ KeysInOrder

\* A delivery in service is not replaced: until the guest's EOI no step
\* changes the vector being delivered (vmx_event.c 82, 112-116).
NoPreemption ==
  [][pic.interrupt_delivery_pending /\ pic'.interrupt_delivery_pending =>
       pic'.interrupt_delivery_vector = pic.interrupt_delivery_vector]_vars
=============================================================================
