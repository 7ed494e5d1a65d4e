------------------------- MODULE MCVirtualInterrupt -------------------------
(* A ring of two scancodes, three keys and a guest that may program, mask,    *)
(* acknowledge and misuse both PICs and the PIT in any order.                *)
EXTENDS VirtualInterrupt

MCGuestWrites ==
  {<<PIC_MASTER_COMMAND_PORT, 17>>, <<PIC_MASTER_COMMAND_PORT, PIC_EOI>>,
   <<PIC_MASTER_DATA_PORT, 32>>, <<PIC_MASTER_DATA_PORT, 2>>,
   <<PIC_SLAVE_COMMAND_PORT, PIC_EOI>>, <<PIC_SLAVE_DATA_PORT, 0>>,
   <<PIT_CONTROL_PORT, 54>>, <<PIT_CHANNEL0_PORT, 46>>, <<PIT_CHANNEL0_PORT, 0>>,
   <<KEYBOARD_DATA_PORT, 0>>}
=============================================================================
