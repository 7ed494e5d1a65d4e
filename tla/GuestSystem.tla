---------------------------- MODULE GuestSystem ----------------------------
(***************************************************************************)
(* The VM monitor composed with the guest that ships with it: the port     *)
(* writes of guest_kernel_main up to STI, the HLT loop of init32.S, and    *)
(* the guest's interrupt dispatcher with its timer and keyboard handlers.  *)
(* What the keyboard handler does with a scancode is not part of this      *)
(* module, only that it reads the port once.                               *)
(***************************************************************************)
EXTENDS VirtualInterrupt

VARIABLES
  guest,   \* where the guest executes
  read     \* history: what the keyboard handler read from the port

sysvars == <<vars, guest, read>>

\* pic_remap of guest/interrupt.c, then refresh_pit_channel0 of guest/pit.c
\* for a divisor of 11931 (100 Hz), in the order guest_kernel_main calls them.
pic_remap ==
  <<<<PIC_MASTER_DATA_PORT, 255>>, <<PIC_SLAVE_DATA_PORT, 255>>,
    <<PIC_MASTER_COMMAND_PORT, 17>>, <<PIC_SLAVE_COMMAND_PORT, 17>>,
    <<PIC_MASTER_DATA_PORT, 32>>, <<PIC_SLAVE_DATA_PORT, 40>>,
    <<PIC_MASTER_DATA_PORT, 4>>, <<PIC_SLAVE_DATA_PORT, 2>>,
    <<PIC_MASTER_DATA_PORT, 1>>, <<PIC_SLAVE_DATA_PORT, 1>>,
    <<PIC_MASTER_DATA_PORT, 0>>, <<PIC_SLAVE_DATA_PORT, 0>>>>

refresh_pit_channel0 ==
  <<<<PIT_CONTROL_PORT, 54>>,
    <<PIT_CHANNEL0_PORT, (OSCILLATPR_CHIP_FREQUENCY \div 100) % 256>>,
    <<PIT_CHANNEL0_PORT, (OSCILLATPR_CHIP_FREQUENCY \div 100) \div 256>>>>

guest_kernel_main == pic_remap \o refresh_pit_channel0

TIMER_VECTOR == 32
KEYBOARD_VECTOR == 33

\* pc is "boot" (step counts the writes of guest_kernel_main made), "idle",
\* or a place of the interrupt path: "handler", "slave_eoi", "master_eoi",
\* "iret".  vector is the one being handled.
At(place) == guest.pc = place /\ ~WindowOpen

Goto(place) == guest' = [guest EXCEPT !.pc = place]

SysInit ==
  /\ Init
  /\ guest = [pc |-> "boot", step |-> 0, vector |-> 0]
  /\ read = <<>>

-----------------------------------------------------------------------------
GuestBoot ==
  /\ At("boot")
  /\ guest.step < Len(guest_kernel_main)
  /\ PortOut(guest_kernel_main[guest.step + 1][1],
             guest_kernel_main[guest.step + 1][2])
  /\ guest' = [guest EXCEPT !.step = @ + 1]
  /\ UNCHANGED read

\* STI, then the loop around HLT: halt_exit_sub_handler skips the HLT, so the
\* loop changes nothing.
GuestSti ==
  /\ At("boot")
  /\ guest.step = Len(guest_kernel_main)
  /\ GuestFlag
  /\ Goto("idle")
  /\ UNCHANGED read

\* The registered handler runs with IF clear: the keyboard's reads the data
\* port once, the timer's touches none of this state, any other vector is
\* only reported.
GuestHandler ==
  /\ At("handler")
  /\ IF guest.vector = KEYBOARD_VECTOR
     THEN PortIn(KEYBOARD_DATA_PORT) /\ read' = Append(read, keyboard_data_inb)
     ELSE UNCHANGED <<vars, read>>
  /\ Goto(IF guest.vector >= 40 THEN "slave_eoi" ELSE "master_eoi")

\* The tail of interrupt_handler: EOI to the slave for its vectors, which
\* this guest's devices never use, then always to the master.
GuestEoi ==
  LET slave == guest.pc = "slave_eoi" IN
  /\ At("slave_eoi") \/ At("master_eoi")
  /\ PortOut(IF slave THEN PIC_SLAVE_COMMAND_PORT ELSE PIC_MASTER_COMMAND_PORT,
             PIC_EOI)
  /\ Goto(IF slave THEN "master_eoi" ELSE "iret")
  /\ UNCHANGED read

\* Only the HLT loop is ever interrupted, so IRET returns there with IF set.
GuestIret ==
  /\ At("iret")
  /\ GuestFlag
  /\ Goto("idle")
  /\ UNCHANGED read

GuestStep == GuestBoot \/ GuestSti \/ GuestHandler \/ GuestEoi \/ GuestIret

\* An interrupt-window exit; if the monitor injected an event, the guest
\* continues in interrupt_handler with the vector from the VM-entry field.
WindowStep ==
  /\ InterruptWindowExit
  /\ IF pic'.interrupt_delivery_pending /\ ~pic.interrupt_delivery_pending
     THEN guest' = [guest EXCEPT
                     !.pc = "handler",
                     !.vector = (pic.master_pic_offset
                                   + pic'.interrupt_delivery_vector) % 256]
     ELSE UNCHANGED guest
  /\ UNCHANGED read

TimerStep ==
  /\ \E diff_mseconds \in TickPeriod : LapicTimerExit(diff_mseconds)
  /\ UNCHANGED <<guest, read>>

KeyboardStep ==
  /\ \E code \in Byte : KeyboardExit(code)
  /\ UNCHANGED <<guest, read>>

SysNext == TimerStep \/ KeyboardStep \/ WindowStep \/ GuestStep

\* The CPU keeps executing the guest and takes an open window; the LAPIC timer
\* is periodic.  Nothing is assumed about the keyboard.
SysFairness ==
  /\ WF_sysvars(GuestStep)
  /\ WF_sysvars(WindowStep)
  /\ WF_sysvars(TimerStep)

SysSpec == SysInit /\ [][SysNext]_sysvars /\ SysFairness

-----------------------------------------------------------------------------
\* No ASSERT and no PANIC of the emulated devices stops the monitor while the
\* shipped guest runs (device_8253pit.c 21-44, device_8259pic.c, vmx_pio.c).
HostRuns == host = "running"

\* No pin is requested before the guest has moved the PIC's vectors off the
\* CPU exceptions: the masks the guest transiently loads with its ICW bytes
\* (vectors 0 and 1 are unmasked by 0x20 and 0x04) come after the offset.
RemappedBeforeRequest ==
  interrupt_request_bitmap # {} => pic.master_pic_offset = 32

\* The monitor's idea of what is in service is the guest's: a delivery is
\* pending exactly while the guest is between interrupt entry and its master
\* EOI, and the vector it handles is the one being delivered.
ServiceAgrees ==
  /\ pic.interrupt_delivery_pending <=>
       guest.pc \in {"handler", "slave_eoi", "master_eoi"}
  /\ pic.interrupt_delivery_pending =>
       guest.vector = pic.master_pic_offset + pic.interrupt_delivery_vector

\* The keyboard handler reads every accepted scancode once and in order: what
\* it has read is always the beginning of what was typed, although reading
\* leaves the scancode in the ring and an interrupt-window exit removes it.
ReadsInOrder ==
  /\ Len(read) <= Len(typed)
  /\ SubSeq(typed, 1, Len(read)) = read

\* Once the keyboard pin is requested, every scancode in the ring reaches the
\* guest, whatever the timer does: pin 0 wins every arbitration, yet its own
\* retirement lets pin 1 through.
KeysDelivered == KEYBOARD_PIN \in interrupt_request_bitmap ~> ring_empty(kbd)

\* The guest's timer handler runs again and again, whatever ticks are merged
\* with one in service.
TimerKeepsTicking ==
  []<>(guest.pc = "handler" /\ guest.vector = TIMER_VECTOR)

-----------------------------------------------------------------------------
(* Two statements of comments in vmx_event.c that the code does not keep.  *)

\* vmx_event.c:83 says the handler cleans "the bit for the vector delivered
\* the very last time": a step lowers a pin only if it has been delivered.
OnlyDeliveredLowered ==
  [][interrupt_request_bitmap \ interrupt_request_bitmap' \subseteq delivered]_sysvars
=============================================================================
