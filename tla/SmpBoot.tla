------------------------------ MODULE SmpBoot ------------------------------
(***************************************************************************)
(* How the processors come up: kernel_main on the bootstrap processor,     *)
(* kernel_ap_main on the others once they are woken by interprocessor      *)
(* interrupts, and the per-processor storage both end with, which cpuid()  *)
(* reads through the GS base.  Each processor is a process; a step is one  *)
(* routine, or one store to the shared array pls_blob.                     *)
(***************************************************************************)
EXTENDS Integers

CONSTANTS
  MAX_NR_CPUS,
  CPU,           \* the local APIC ids of the processors, what cpu() returns
  BSP            \* the one that runs kernel_main

ASSUME CpuAssumption ==
  /\ MAX_NR_CPUS \in Nat
  /\ CPU \subseteq 0 .. MAX_NR_CPUS - 1
  /\ BSP \in CPU

AP == CPU \ {BSP}

VARIABLES
  pc,        \* the routine each processor is about to execute
  ready,     \* the routines of kernel_main that have set up their tables
  loaded,    \* what each processor has loaded into its own registers
  signal,    \* the interprocessor interrupt on its way to a processor
  gs,        \* GS base, in units of sizeof(struct cpu_local_area)
  pls_blob,  \* the array of struct cpu_local_area
  early,     \* EARLY_PDPT_BASE: what maps each gigabyte before paging_init
  tr,        \* the bootstrap processor's task register: a slot of the GDT
  irq,       \* interrupt gates and handlers, and the sources not masked
  missed     \* history: the processors the startup interrupt found not waiting

boot == <<early, tr, irq, missed>>
vars == <<pc, ready, loaded, signal, gs, pls_blob, boot>>

-----------------------------------------------------------------------------
\* Mutant: the other processors are started before interrupt_init.
kernel_main_early ==
  [gdt64_init         |-> "task_register_init",
   task_register_init |-> "paging_init",
   paging_init        |-> "local_apic_init",
   local_apic_init    |-> "io_apic_init",
   io_apic_init       |-> "init_ipi",
   init_ipi           |-> "startup_ipi",
   startup_ipi        |-> "interrupt_init",
   interrupt_init     |-> "gs_base",
   gs_base            |-> "index",
   index              |-> "magic",
   magic              |-> "lapic_timer_init",
   lapic_timer_init   |-> "keyboard_init",
   keyboard_init      |-> "up"]

\* Mutant: interrupt_init runs last but one, and clears a handler.
kernel_main_late_interrupts ==
  [gdt64_init         |-> "task_register_init",
   task_register_init |-> "paging_init",
   paging_init        |-> "local_apic_init",
   local_apic_init    |-> "io_apic_init",
   io_apic_init       |-> "init_ipi",
   init_ipi           |-> "startup_ipi",
   startup_ipi        |-> "gs_base",
   gs_base            |-> "index",
   index              |-> "magic",
   magic              |-> "lapic_timer_init",
   lapic_timer_init   |-> "interrupt_init",
   interrupt_init     |-> "keyboard_init",
   keyboard_init      |-> "up"]

\* What follows each routine in kernel_main (init0, init1, init2).  Left out are
\* physical_memory_init and the feature checks; "up" is where the guest is
\* launched, which does not come back.
kernel_main ==
  [gdt64_init         |-> "task_register_init",
   task_register_init |-> "paging_init",
   paging_init        |-> "local_apic_init",
   local_apic_init    |-> "io_apic_init",
   io_apic_init       |-> "interrupt_init",
   interrupt_init     |-> "init_ipi",
   init_ipi           |-> "startup_ipi",
   startup_ipi        |-> "gs_base",
   gs_base            |-> "index",
   index              |-> "magic",
   magic              |-> "lapic_timer_init",
   lapic_timer_init   |-> "keyboard_init",
   keyboard_init      |-> "up"]

\* The same for kernel_ap_main, whose routines load what kernel_main set up.
kernel_ap_main ==
  [gdt64_init      |-> "paging_init",
   paging_init     |-> "local_apic_init",
   local_apic_init |-> "interrupt_init",
   interrupt_init  |-> "gs_base",
   gs_base         |-> "index",
   index           |-> "magic",
   magic           |-> "check",
   check           |-> "up"]

Tables == {"gdt64_init", "paging_init", "local_apic_init", "interrupt_init"}
Devices == {"task_register_init", "io_apic_init", "lapic_timer_init", "keyboard_init"}

After(c) == IF c = BSP THEN kernel_main[pc[c]] ELSE kernel_ap_main[pc[c]]

Advance(c) == pc' = [pc EXCEPT ![c] = After(c)]
Halt(c) == pc' = [pc EXCEPT ![c] = "panic"]

\* The GDT: five segments, then two slots for the descriptor of each TSS.
NoTask == -1
gdt_entries ==
  [slot \in 0 .. 4 + 2 * MAX_NR_CPUS |->
     IF slot >= 5 /\ (slot - 5) % 2 = 0 THEN (slot - 5) \div 2 ELSE NoTask]

\* The gigabyte of the local APIC and of the IO-APIC.
APIC_GB == 3

\* Below 1 GB the early table maps everything.  The loop that should clear the
\* rest of EARLY_PDPT_BASE masks its pointer instead of moving it: the other
\* entries are whatever the memory held.
construct_early_page_table ==
  {e \in [0 .. 3 -> {"mapped", "absent", "stale"}] :
     e[0] = "mapped" /\ \A g \in 1 .. 3 : e[g] # "mapped"}

\* A processor reaches an address through the early table until it has loaded
\* the tables of paging_init, which hold the APIC pages once map_address has.
Reaches(c, gb) == "paging_init" \in loaded[c] \/ early[gb] = "mapped"

\* What may interrupt the bootstrap processor.  The firmware may leave the
\* 8259s, the LVT entries of LINT0, LINT1 and the performance counter, and any
\* entry of the IO-APIC ("ioapic": all but the keyboard's) unmasked.
FirmwareSources == {"pic", "lvt", "ioapic", "keyboard"}

\* The image and processor_local_storage_pre_init leave pls_blob cleared; the
\* GS base is 0 on every processor.
Init ==
  /\ pc = [c \in CPU |-> IF c = BSP THEN "gdt64_init" ELSE "firmware"]
  /\ ready = {}
  /\ loaded = [c \in CPU |-> {}]
  /\ signal = [c \in CPU |-> "none"]
  /\ gs = [c \in CPU |-> 0]
  /\ pls_blob = [i \in 0 .. MAX_NR_CPUS - 1 |->
                   [processor_index |-> 0, magic_number |-> FALSE]]
  /\ early \in construct_early_page_table
  /\ tr = NoTask
  /\ irq \in [gates : {FALSE}, handlers : {{}}, unmasked : SUBSET FirmwareSources]
  /\ missed = {}

-----------------------------------------------------------------------------
\* gdt64_init, paging_init, local_apic_init and interrupt_init fill the tables
\* all processors share and load them into the bootstrap processor.
\* local_apic_init masks the 8259s and the LVT entries it has no use for, starts
\* the timer and leaves the error entry, vector 51, unmasked; interrupt_init
\* forgets all handlers.
SetUp ==
  /\ pc[BSP] \in Tables
  /\ ready' = ready \cup {pc[BSP]}
  /\ loaded' = [loaded EXCEPT ![BSP] = @ \cup {pc[BSP]}]
  /\ irq' = CASE pc[BSP] = "local_apic_init" ->
                     [irq EXCEPT !.unmasked = (@ \ {"pic", "lvt"}) \cup {"timer", "error"}]
              [] pc[BSP] = "interrupt_init" -> [irq EXCEPT !.gates = TRUE, !.handlers = {}]
              [] OTHER -> irq
  /\ IF pc[BSP] = "local_apic_init" /\ ~Reaches(BSP, APIC_GB) THEN Halt(BSP) ELSE Advance(BSP)
  /\ UNCHANGED <<signal, gs, pls_blob, early, tr, missed>>

\* The selector counts slots, so that it is the processor's own for 0 only.
load_pl0_task(c) == 5 + c

\* ltr refuses a slot that holds no TSS.
task_register_init ==
  /\ pc[BSP] = "task_register_init"
  /\ tr' = load_pl0_task(BSP)
  /\ IF gdt_entries[load_pl0_task(BSP)] = NoTask THEN Halt(BSP) ELSE Advance(BSP)
  /\ UNCHANGED <<ready, loaded, signal, gs, pls_blob, early, irq, missed>>

\* All redirection entries are masked.
io_apic_init ==
  /\ pc[BSP] = "io_apic_init"
  /\ irq' = [irq EXCEPT !.unmasked = @ \ {"ioapic", "keyboard"}]
  /\ IF Reaches(BSP, APIC_GB) THEN Advance(BSP) ELSE Halt(BSP)
  /\ UNCHANGED <<ready, loaded, signal, gs, pls_blob, early, tr, missed>>

\* register_interrupt_handler for the vector of the APIC timer.
lapic_timer_init ==
  /\ pc[BSP] = "lapic_timer_init"
  /\ irq' = [irq EXCEPT !.handlers = @ \cup {"timer"}]
  /\ Advance(BSP)
  /\ UNCHANGED <<ready, loaded, signal, gs, pls_blob, early, tr, missed>>

\* The handler first, then ioapic_redirect_entry, which unmasks.
keyboard_init ==
  /\ pc[BSP] = "keyboard_init"
  /\ irq' = [irq EXCEPT !.handlers = @ \cup {"keyboard"}, !.unmasked = @ \cup {"keyboard"}]
  /\ Advance(BSP)
  /\ UNCHANGED <<ready, loaded, signal, gs, pls_blob, early, tr, missed>>

\* gdt64_ap_init, ap_paging_init, local_apic_ap_init and interrupt_ap_init load
\* the shared tables.  The page of the local APIC is mapped by then, so
\* map_address answers -ERROR_DUPLICATION and the assertion admits it.
LoadShared(c) ==
  /\ c \in AP /\ pc[c] \in Tables
  /\ loaded' = [loaded EXCEPT ![c] = @ \cup {pc[c]}]
  /\ IF pc[c] = "local_apic_init" /\ ~Reaches(c, APIC_GB) THEN Halt(c) ELSE Advance(c)
  /\ UNCHANGED <<ready, signal, gs, pls_blob, boot>>

\* start_other_processors, first half: INIT goes to all other processors.
InitIpi ==
  /\ pc[BSP] = "init_ipi"
  /\ signal' = [c \in CPU |-> IF c = BSP THEN "none" ELSE "INIT"]
  /\ Advance(BSP)
  /\ UNCHANGED <<ready, loaded, gs, pls_blob, boot>>

\* Mutant: the startup interrupt is not sent.
StartupIpi_unsent ==
  /\ pc[BSP] = "startup_ipi"
  /\ missed' = {c \in AP : pc[c] # "wait"}
  /\ Advance(BSP)
  /\ UNCHANGED <<ready, loaded, signal, gs, pls_blob, early, tr, irq>>

\* Second half.  Only a loop of 100000000 turns separates the two, and nothing
\* is assumed of its length: a processor that has not come to wait by then
\* ignores the startup interrupt, which is sent once.  Nor is anything assumed
\* of the loop that follows.
StartupIpi ==
  /\ pc[BSP] = "startup_ipi"
  /\ missed' = {c \in AP : pc[c] # "wait"}
  /\ signal' = [c \in CPU |-> IF c \in AP \ missed' THEN "STARTUP" ELSE signal[c]]
  /\ Advance(BSP)
  /\ UNCHANGED <<ready, loaded, gs, pls_blob, early, tr, irq>>

\* A processor takes an interrupt sent to it: INIT leaves it waiting, STARTUP
\* sends it through kernel_ap_entry to kernel_ap_main.
Receive(c) ==
  /\ \/ signal[c] = "INIT" /\ pc' = [pc EXCEPT ![c] = "wait"]
     \/ signal[c] = "STARTUP" /\ pc[c] = "wait"
          /\ pc' = [pc EXCEPT ![c] = "gdt64_init"]
  /\ signal' = [signal EXCEPT ![c] = "none"]
  /\ UNCHANGED <<ready, loaded, gs, pls_blob, boot>>

-----------------------------------------------------------------------------
(* processor_local_storage.c                                               *)

\* get_cpu_local_area: the index of the area the GS base leads to.
LocalArea(c) == pls_blob[gs[c]].processor_index

\* cpuid(): the slow cpu() while the area has no magic number.
cpuid(c) ==
  IF pls_blob[LocalArea(c)].magic_number
  THEN pls_blob[LocalArea(c)].processor_index
  ELSE c

\* Mutant: the base is not multiplied by the size of an area.
GsBase_unscaled(c) ==
  /\ pc[c] = "gs_base"
  /\ gs' = [gs EXCEPT ![c] = 0]
  /\ Advance(c)
  /\ UNCHANGED <<ready, loaded, signal, pls_blob, boot>>

\* processor_local_indicator_init.
GsBase(c) ==
  /\ pc[c] = "gs_base"
  /\ gs' = [gs EXCEPT ![c] = c]
  /\ Advance(c)
  /\ UNCHANGED <<ready, loaded, signal, pls_blob, boot>>

\* Mutant: the index is not stored.
StoreIndex_unset(c) ==
  /\ pc[c] = "index"
  /\ Advance(c)
  /\ UNCHANGED <<ready, loaded, signal, gs, pls_blob, boot>>

StoreIndex(c) ==
  /\ pc[c] = "index"
  /\ pls_blob' = [pls_blob EXCEPT ![c].processor_index = c]
  /\ Advance(c)
  /\ UNCHANGED <<ready, loaded, signal, gs, boot>>

StoreMagic(c) ==
  /\ pc[c] = "magic"
  /\ pls_blob' = [pls_blob EXCEPT ![c].magic_number = TRUE]
  /\ Advance(c)
  /\ UNCHANGED <<ready, loaded, signal, gs, boot>>

\* The assertions of processor_local_storage_ap_init.
CheckArea(c) ==
  /\ pc[c] = "check"
  /\ IF LocalArea(c) = c /\ pls_blob[LocalArea(c)].processor_index = c
     THEN Advance(c)
     ELSE Halt(c)
  /\ UNCHANGED <<ready, loaded, signal, gs, pls_blob, boot>>

-----------------------------------------------------------------------------
BspStep ==
  SetUp \/ task_register_init \/ io_apic_init \/ InitIpi \/ StartupIpi
    \/ lapic_timer_init \/ keyboard_init

Step(c) ==
  LoadShared(c) \/ Receive(c) \/ GsBase(c) \/ StoreIndex(c) \/ StoreMagic(c)
    \/ CheckArea(c)

Next == BspStep \/ \E c \in CPU : Step(c)

Spec == Init /\ [][Next]_vars

\* Every processor executes, and an interprocessor interrupt arrives.
FairSpec == Spec /\ WF_vars(BspStep) /\ \A c \in CPU : WF_vars(Step(c))

-----------------------------------------------------------------------------
\* No processor loads a table before the bootstrap processor has filled it:
\* pml4_base, the descriptor tables and the APIC mapping are plain variables,
\* ordered by nothing but the position of start_other_processors in init1
\* (kernel_main.c 44-62, 114-121).
TablesReady == \A c \in AP : loaded[c] \subseteq ready

\* A processor that has set up its area is told its own id ever after,
\* whatever the others are storing in theirs (processor_local_storage.c 34-72).
AreaOwned == \A c \in CPU : pc[c] \in {"check", "up"} => cpuid(c) = c

\* No assertion of processor_local_storage_ap_init (lines 81, 82) fires, ltr is
\* given a TSS, and no APIC register is touched through the early page table,
\* which does not map it and may hold anything there.
AssertionsHold == \A c \in CPU : pc[c] # "panic"

\* When the guest is launched the bootstrap processor runs on its own TSS, all
\* gates are set, whatever the firmware had left unmasked is masked, and what
\* can interrupt has a handler but for one source: interrupt_init clears what was
\* registered before it and io_apic_init masks what was unmasked before it
\* (kernel_main.c 52-69).  The one is the APIC's error entry, which lapic.c:189
\* unmasks and for which nothing is ever registered.
HostReady ==
  pc[BSP] = "up" =>
    /\ gdt_entries[tr] = BSP
    /\ irq.gates
    /\ irq.unmasked = {"timer", "keyboard", "error"}
    /\ irq.unmasked \ irq.handlers = {"error"}

\* Every processor gets to its idle loop and stays there, but for those that had
\* not taken the INIT when the startup interrupt was sent (lapic.c 152-161):
\* they wait for ever, and hold up nobody.
EveryCpuUp == <>[](\A c \in CPU : pc[c] = IF c \in missed THEN "wait" ELSE "up")
=============================================================================
