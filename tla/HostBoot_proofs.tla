--------------------------- MODULE HostBoot_proofs ---------------------------
(***************************************************************************)
(* The boot of the host.  The start-up is right for any number of          *)
(* processors, whatever the order in which they take their steps.  The     *)
(* page allocator hands out every page at most once, and only memory, for  *)
(* every memory list a boot loader may leave and every sequence of         *)
(* requests.                                                               *)
(***************************************************************************)
EXTENDS SmpBoot, PhysicalMemory, TLAPS

(* The processors. *)


Areas == 0 .. MAX_NR_CPUS - 1

\* Where the bootstrap processor may be, and where another one.
BspPlaces ==
  {"gdt64_init", "task_register_init", "paging_init", "local_apic_init", "io_apic_init",
   "interrupt_init", "init_ipi", "startup_ipi", "gs_base", "index", "magic",
   "lapic_timer_init", "keyboard_init", "up", "panic"}
ApRunning ==
  {"gdt64_init", "paging_init", "local_apic_init", "interrupt_init", "gs_base", "index",
   "magic", "check", "up", "panic"}
ApPlaces == {"firmware", "wait"} \cup ApRunning

Sources == FirmwareSources \cup {"timer", "error"}

TypeOK ==
  /\ pc \in [CPU -> BspPlaces \cup ApPlaces]
  /\ pc[BSP] \in BspPlaces /\ \A c \in AP : pc[c] \in ApPlaces
  /\ ready \subseteq Tables
  /\ loaded \in [CPU -> SUBSET Tables]
  /\ signal \in [CPU -> {"none", "INIT", "STARTUP"}]
  /\ signal[BSP] = "none"
  /\ gs \in [CPU -> Areas]
  /\ pls_blob \in [Areas -> [processor_index : Areas, magic_number : BOOLEAN]]
  /\ tr \in Int
  /\ irq \in [gates : BOOLEAN, handlers : SUBSET {"timer", "keyboard"}, unmasked : SUBSET Sources]
  /\ missed \subseteq AP

\* The routines that follow the one which stores the GS base, the index, the
\* magic number.
PastGsBase == {"index", "magic", "check", "lapic_timer_init", "keyboard_init", "up"}
PastIndex == PastGsBase \ {"index"}
PastMagic == PastIndex \ {"magic"}

\* Each processor writes its own area and no other.
OwnArea ==
  \A c \in CPU :
    /\ pc[c] \in PastGsBase => gs[c] = c
    /\ pc[c] \in PastIndex => pls_blob[c].processor_index = c
    /\ pc[c] \in PastMagic => pls_blob[c].magic_number

\* The tables are filled when the startup interrupt is sent, and no processor
\* runs before it.
TablesFirst ==
  /\ pc[BSP] \in {"init_ipi", "startup_ipi", "gs_base", "index", "magic",
                  "lapic_timer_init", "keyboard_init", "up"} => ready = Tables
  /\ \A c \in AP :
       /\ pc[c] \in ApRunning \/ signal[c] = "STARTUP" => ready = Tables
       /\ loaded[c] \subseteq ready

\* What the bootstrap processor has done by the place it is at.
BspSoFar ==
  LET at == pc[BSP] IN
  /\ at \notin {"gdt64_init"} => "gdt64_init" \in ready
  /\ at \notin {"gdt64_init", "task_register_init", "paging_init", "panic"} =>
       "paging_init" \in ready /\ "paging_init" \in loaded[BSP]
  /\ at \notin {"gdt64_init", "task_register_init", "paging_init", "local_apic_init",
                "panic"} => "local_apic_init" \in ready
  /\ at \notin {"gdt64_init", "task_register_init"} => tr = load_pl0_task(BSP)
  /\ at = "io_apic_init" =>
       {"timer", "error"} \subseteq irq.unmasked
         /\ irq.unmasked \subseteq {"timer", "error", "ioapic", "keyboard"}
  /\ at \in {"interrupt_init", "init_ipi", "startup_ipi", "gs_base", "index", "magic",
             "lapic_timer_init", "keyboard_init"} => irq.unmasked = {"timer", "error"}
  /\ at \in {"init_ipi", "startup_ipi", "gs_base", "index", "magic", "lapic_timer_init",
             "keyboard_init", "up"} => irq.gates
  /\ at = "keyboard_init" => "timer" \in irq.handlers
  /\ at = "up" => irq.handlers = {"timer", "keyboard"}
                  /\ irq.unmasked = {"timer", "keyboard", "error"}

\* A processor that touches its APIC has loaded the tables that map it.
ApicMapped ==
  \A c \in AP :
    pc[c] \in ApRunning \ {"gdt64_init", "paging_init", "panic"} => "paging_init" \in loaded[c]

\* No other processor has panicked, and the bootstrap processor only at ltr.
OnlyAtLtr ==
  /\ \A c \in AP : pc[c] # "panic"
  /\ pc[BSP] = "panic" => gdt_entries[load_pl0_task(BSP)] = NoTask

IInv == TypeOK /\ OwnArea /\ TablesFirst /\ BspSoFar /\ ApicMapped /\ OnlyAtLtr

-----------------------------------------------------------------------------
\* The image as it is loaded.
LEMMA InitInv == Init => IInv
  <1> SUFFICES ASSUME Init PROVE IInv
    OBVIOUS
  <1> USE CpuAssumption DEF Init, AP, BspPlaces, ApRunning, ApPlaces, Areas, NoTask
  <1>1. TypeOK
    <2>1. irq \in [gates : BOOLEAN, handlers : SUBSET {"timer", "keyboard"},
                   unmasked : SUBSET Sources]
      BY DEF Sources
    <2>. QED
      BY <2>1 DEF TypeOK
  <1>2. OwnArea
    BY DEF OwnArea, PastGsBase, PastIndex, PastMagic
  <1>3. TablesFirst
    BY DEF TablesFirst
  <1>4. BspSoFar
    BY DEF BspSoFar
  <1>5. ApicMapped /\ OnlyAtLtr
    BY DEF ApicMapped, OnlyAtLtr
  <1>. QED
    BY <1>1, <1>2, <1>3, <1>4, <1>5 DEF IInv

\* A routine of kernel_main ends at the next one; the bootstrap processor stops
\* at ltr alone, the APIC registers being mapped when it gets to them.
LEMMA BspMoves ==
  ASSUME IInv, BspStep
  PROVE  /\ pc' = [pc EXCEPT ![BSP] = pc'[BSP]]
         /\ \/ pc[BSP] \in DOMAIN kernel_main /\ pc'[BSP] = kernel_main[pc[BSP]]
            \/ pc[BSP] = "task_register_init" /\ pc'[BSP] = "panic"
                 /\ gdt_entries[load_pl0_task(BSP)] = NoTask
  <1> USE CpuAssumption DEF IInv, TypeOK, Advance, Halt, After
  <1>1. CASE SetUp
    <2>1. "paging_init" \in loaded[BSP] \/ pc[BSP] # "local_apic_init"
      BY <1>1 DEF SetUp, BspSoFar, Tables
    <2>2. Advance(BSP)
      BY <1>1, <2>1 DEF SetUp, Reaches
    <2>. QED
      BY <1>1, <2>2 DEF SetUp, Tables, kernel_main
  <1>2. CASE task_register_init
    BY <1>2 DEF task_register_init, kernel_main
  <1>3. CASE io_apic_init
    <2>1. "paging_init" \in loaded[BSP]
      BY <1>3 DEF io_apic_init, BspSoFar
    <2>. QED
      BY <1>3, <2>1 DEF io_apic_init, Reaches, kernel_main
  <1>4. CASE InitIpi \/ StartupIpi
    BY <1>4 DEF InitIpi, StartupIpi, kernel_main
  <1>5. CASE lapic_timer_init \/ keyboard_init
    BY <1>5 DEF lapic_timer_init, keyboard_init, kernel_main
  <1>. QED
    BY <1>1, <1>2, <1>3, <1>4, <1>5 DEF BspStep

\* What a step of the bootstrap processor outside its own area leaves alone.
LEMMA BspFrame ==
  ASSUME IInv, BspStep
  PROVE  /\ UNCHANGED <<gs, pls_blob>>
         /\ pc[BSP] \in {"gdt64_init", "task_register_init", "paging_init", "local_apic_init",
                         "io_apic_init", "interrupt_init", "init_ipi", "startup_ipi",
                         "lapic_timer_init", "keyboard_init"}
         /\ \A c \in AP : loaded'[c] = loaded[c]
         /\ ready \subseteq ready'
  BY CpuAssumption
  DEF IInv, TypeOK, BspStep, SetUp, task_register_init, io_apic_init, InitIpi, StartupIpi,
      lapic_timer_init, keyboard_init, Tables, AP, boot

\* The invariant is kept by the routines of kernel_main.
LEMMA BspInv ==
  ASSUME IInv, BspStep
  PROVE  IInv'
  <1> USE CpuAssumption
  <1>p. /\ pc' = [pc EXCEPT ![BSP] = pc'[BSP]]
        /\ \/ pc[BSP] \in DOMAIN kernel_main /\ pc'[BSP] = kernel_main[pc[BSP]]
           \/ pc[BSP] = "task_register_init" /\ pc'[BSP] = "panic"
                /\ gdt_entries[load_pl0_task(BSP)] = NoTask
    BY BspMoves
  <1>q. \A c \in AP : pc'[c] = pc[c]
    BY <1>p DEF AP, IInv, TypeOK
  <1>1. TypeOK'
    <2>1. pc'[BSP] \in BspPlaces
      BY <1>p DEF kernel_main, BspPlaces
    <2>2. /\ pc' \in [CPU -> BspPlaces \cup ApPlaces]
          /\ \A c \in AP : pc'[c] \in ApPlaces
      BY <1>p, <1>q, <2>1, Zenon DEF IInv, TypeOK, AP
    <2>3. ready' \subseteq Tables /\ loaded' \in [CPU -> SUBSET Tables]
      BY DEF IInv, TypeOK, BspStep, SetUp, task_register_init, io_apic_init, InitIpi,
             StartupIpi, lapic_timer_init, keyboard_init, boot
    <2>4. signal' \in [CPU -> {"none", "INIT", "STARTUP"}] /\ signal'[BSP] = "none"
      BY DEF IInv, TypeOK, BspStep, SetUp, task_register_init, io_apic_init, InitIpi,
             StartupIpi, lapic_timer_init, keyboard_init, boot
    <2>5. tr' \in Int
      BY DEF IInv, TypeOK, BspStep, SetUp, task_register_init, io_apic_init, InitIpi,
             StartupIpi, lapic_timer_init, keyboard_init, boot, load_pl0_task
    <2>6. irq' \in [gates : BOOLEAN, handlers : SUBSET {"timer", "keyboard"},
                    unmasked : SUBSET Sources]
      <3> {"timer", "error", "keyboard"} \subseteq Sources
        BY DEF Sources, FirmwareSources
      <3>1. CASE SetUp
        BY <3>1, Zenon DEF IInv, TypeOK, SetUp
      <3>2. CASE io_apic_init
        BY <3>2 DEF IInv, TypeOK, io_apic_init
      <3>3. CASE lapic_timer_init
        BY <3>3 DEF IInv, TypeOK, lapic_timer_init
      <3>4. CASE keyboard_init
        BY <3>4, Zenon DEF IInv, TypeOK, keyboard_init
      <3>5. CASE task_register_init \/ InitIpi \/ StartupIpi
        BY <3>5 DEF IInv, TypeOK, task_register_init, InitIpi, StartupIpi, boot
      <3>. QED
        BY <3>1, <3>2, <3>3, <3>4, <3>5 DEF BspStep
    <2>7. missed' \subseteq AP
      BY DEF IInv, TypeOK, BspStep, SetUp, task_register_init, io_apic_init, InitIpi,
             StartupIpi, lapic_timer_init, keyboard_init, boot
    <2>. QED
      BY <2>1, <2>2, <2>3, <2>4, <2>5, <2>6, <2>7, BspFrame DEF IInv, TypeOK
  <1>2. OwnArea'
    <2>1. pc'[BSP] \in PastGsBase => pc[BSP] \in PastMagic
      BY <1>p, BspFrame DEF kernel_main, PastGsBase, PastIndex, PastMagic
    <2>2. OwnArea /\ PastMagic \subseteq PastIndex /\ PastIndex \subseteq PastGsBase
      BY DEF IInv, PastIndex, PastMagic
    <2>3. \A c \in CPU : pc'[c] \in PastGsBase => pc'[c] = pc[c] \/ pc[c] \in PastMagic
      BY <1>q, <2>1 DEF AP
    <2>. QED
      BY <2>2, <2>3, BspFrame DEF OwnArea
  <1>3. TablesFirst'
    <2>1. CASE SetUp
      BY <2>1, <1>p, <1>q, BspFrame
      DEF IInv, TypeOK, SetUp, TablesFirst, BspSoFar, kernel_main, Tables, AP
    <2>2. CASE StartupIpi
      BY <2>2, <1>p, <1>q, BspFrame
      DEF IInv, TypeOK, StartupIpi, TablesFirst, kernel_main, ApRunning, AP
    <2>3. CASE InitIpi
      BY <2>3, <1>p, <1>q, BspFrame
      DEF IInv, TypeOK, InitIpi, TablesFirst, kernel_main, AP
    <2>4. CASE task_register_init \/ io_apic_init \/ lapic_timer_init \/ keyboard_init
      <3>1. UNCHANGED <<ready, signal>>
        BY <2>4 DEF task_register_init, io_apic_init, lapic_timer_init, keyboard_init
      <3>2. pc[BSP] \in {"task_register_init", "io_apic_init", "lapic_timer_init",
                         "keyboard_init"}
        BY <2>4 DEF task_register_init, io_apic_init, lapic_timer_init, keyboard_init
      <3>. QED
        BY <3>1, <3>2, <1>p, <1>q, BspFrame DEF IInv, TablesFirst, kernel_main
    <2>. QED
      BY <2>1, <2>2, <2>3, <2>4 DEF BspStep
  <1>4. BspSoFar'
    <2> USE DEF IInv, TypeOK, BspSoFar
    <2>1. CASE SetUp
      <3>1. irq.unmasked \subseteq {"pic", "lvt", "ioapic", "keyboard", "timer", "error"}
        BY DEF Sources, FirmwareSources
      <3>2. CASE pc[BSP] = "local_apic_init"
        BY <2>1, <3>1, <3>2, <1>p DEF SetUp, kernel_main, Tables
      <3>3. CASE pc[BSP] # "local_apic_init"
        BY <2>1, <3>3, <1>p DEF SetUp, kernel_main, Tables
      <3>. QED
        BY <3>2, <3>3
    <2>2. CASE task_register_init
      BY <2>2, <1>p DEF task_register_init, kernel_main
    <2>3. CASE io_apic_init
      BY <2>3, <1>p DEF io_apic_init, kernel_main
    <2>4. CASE InitIpi \/ StartupIpi
      BY <2>4, <1>p DEF InitIpi, StartupIpi, boot, kernel_main
    <2>5. CASE lapic_timer_init
      BY <2>5, <1>p DEF lapic_timer_init, kernel_main
    <2>6. CASE keyboard_init
      BY <2>6, <1>p DEF keyboard_init, kernel_main
    <2>. QED
      BY <2>1, <2>2, <2>3, <2>4, <2>5, <2>6 DEF BspStep
  <1>5. ApicMapped'
    BY <1>q, BspFrame, Zenon DEF IInv, ApicMapped, AP
  <1>6. OnlyAtLtr'
    <2>1. pc'[BSP] = "panic" => gdt_entries[load_pl0_task(BSP)] = NoTask
      BY <1>p DEF kernel_main
    <2>. QED
      BY <2>1, <1>q DEF IInv, OnlyAtLtr, gdt_entries, load_pl0_task, NoTask, AP
  <1>. QED
    BY <1>1, <1>2, <1>3, <1>4, <1>5, <1>6 DEF IInv

\* A step of processor_local_storage_init, or of kernel_ap_main: the processor
\* passes to the next routine, finding the APIC mapped and its area its own.
LEMMA CpuMoves ==
  ASSUME IInv, NEW c \in CPU, Step(c), ~Receive(c)
  PROVE  /\ pc' = [pc EXCEPT ![c] = After(c)]
         /\ c = BSP => pc[c] \in {"gs_base", "index", "magic"}
         /\ c # BSP => pc[c] \in DOMAIN kernel_ap_main
         /\ UNCHANGED <<ready, signal, boot>>
  <1> USE CpuAssumption DEF Advance
  <1>1. CASE LoadShared(c)
    <2>1. "paging_init" \in loaded[c] \/ pc[c] # "local_apic_init"
      BY <1>1 DEF LoadShared, IInv, ApicMapped, ApRunning
    <2>. QED
      BY <1>1, <2>1 DEF LoadShared, Reaches, AP, Tables, kernel_ap_main
  <1>2. CASE CheckArea(c)
    <2>1. c # BSP
      BY <1>2 DEF CheckArea, IInv, TypeOK, BspPlaces
    <2>2. LocalArea(c) = c
      BY <1>2 DEF CheckArea, LocalArea, IInv, OwnArea, PastGsBase, PastIndex
    <2>. QED
      BY <1>2, <2>1, <2>2 DEF CheckArea, LocalArea, IInv, OwnArea, PastGsBase, PastIndex,
                              kernel_ap_main
  <1>3. CASE GsBase(c) \/ StoreIndex(c) \/ StoreMagic(c)
    BY <1>3 DEF GsBase, StoreIndex, StoreMagic, kernel_ap_main
  <1>. QED
    BY <1>1, <1>2, <1>3 DEF Step

\* The invariant is kept by the steps any processor takes.
LEMMA CpuInv ==
  ASSUME IInv, NEW c \in CPU, Step(c), ~Receive(c)
  PROVE  IInv'
  <1> USE CpuAssumption
  <1>p. /\ pc' = [pc EXCEPT ![c] = After(c)]
        /\ c = BSP => pc[c] \in {"gs_base", "index", "magic"}
        /\ c # BSP => pc[c] \in DOMAIN kernel_ap_main
        /\ UNCHANGED <<ready, signal, boot>>
    BY CpuMoves
  <1>q. /\ \A d \in CPU : d # c => pc'[d] = pc[d]
        /\ pc'[c] = After(c)
    BY <1>p DEF IInv, TypeOK
  <1>r. /\ c = BSP => After(c) \in {"index", "magic", "lapic_timer_init"}
        /\ c # BSP => After(c) \in ApRunning \ {"gdt64_init", "panic"}
    BY <1>p DEF After, kernel_main, kernel_ap_main, ApRunning
  <1>l. /\ loaded' \in [CPU -> SUBSET Tables]
        /\ \A d \in CPU : loaded[d] \subseteq loaded'[d]
        /\ \A d \in AP : loaded'[d] # loaded[d] => d = c /\ pc[c] \in Tables
    BY DEF IInv, TypeOK, Step, LoadShared, GsBase, StoreIndex, StoreMagic, CheckArea, AP
  <1>s. /\ gs' \in [CPU -> Areas]
        /\ pls_blob' \in [Areas -> [processor_index : Areas, magic_number : BOOLEAN]]
    <2>1. c \in Areas
      BY DEF Areas
    <2>2. CASE GsBase(c)
      BY <2>1, <2>2 DEF IInv, TypeOK, GsBase
    <2>3. CASE StoreIndex(c)
      BY <2>1, <2>3 DEF IInv, TypeOK, StoreIndex
    <2>4. CASE StoreMagic(c)
      BY <2>1, <2>4, Zenon DEF IInv, TypeOK, StoreMagic
    <2>5. CASE LoadShared(c) \/ CheckArea(c)
      BY <2>5 DEF IInv, TypeOK, LoadShared, CheckArea
    <2>. QED
      BY <2>2, <2>3, <2>4, <2>5 DEF Step
  <1>1. TypeOK'
    <2>1. pc' \in [CPU -> BspPlaces \cup ApPlaces]
      BY <1>p, <1>r DEF IInv, TypeOK, BspPlaces, ApPlaces, ApRunning
    <2>2. pc'[BSP] \in BspPlaces /\ \A d \in AP : pc'[d] \in ApPlaces
      BY <1>q, <1>r DEF IInv, TypeOK, BspPlaces, ApPlaces, AP
    <2>. QED
      BY <1>p, <1>l, <1>s, <2>1, <2>2 DEF IInv, TypeOK, boot
  <1>2. OwnArea'
    <2> USE DEF OwnArea, PastGsBase, PastIndex, PastMagic
    <2>1. CASE GsBase(c)
      BY <2>1, <1>q DEF GsBase, IInv, TypeOK, After, kernel_main, kernel_ap_main
    <2>2. CASE StoreIndex(c)
      BY <2>2, <1>q DEF StoreIndex, IInv, TypeOK, Areas, After, kernel_main, kernel_ap_main
    <2>3. CASE StoreMagic(c)
      BY <2>3, <1>q DEF StoreMagic, IInv, TypeOK, Areas, After, kernel_main, kernel_ap_main
    <2>4. CASE LoadShared(c)
      BY <2>4, <1>q DEF LoadShared, IInv, Tables, AP, After, kernel_ap_main
    <2>5. CASE CheckArea(c)
      <3>1. c # BSP
        BY <2>5, <1>p DEF CheckArea
      <3>. QED
        BY <2>5, <3>1, <1>q DEF CheckArea, IInv, After, kernel_ap_main
    <2>. QED
      BY <2>1, <2>2, <2>3, <2>4, <2>5 DEF Step
  <1>3. TablesFirst'
    <2>1. c # BSP => pc[c] \in ApRunning
      BY <1>p DEF kernel_ap_main, ApRunning
    <2>2. c # BSP => ready = Tables
      BY <2>1 DEF IInv, TablesFirst, AP
    <2>3. c = BSP => ready = Tables
      BY <1>p DEF IInv, TablesFirst
    <2>. QED
      BY <2>2, <2>3, <1>p, <1>l DEF TablesFirst, AP
  <1>4. BspSoFar'
    <2>1. CASE c # BSP
      BY <2>1, <1>p, <1>q, <1>l DEF IInv, BspSoFar, boot
    <2>2. CASE c = BSP
      BY <2>2, <1>p, <1>q, <1>l DEF IInv, BspSoFar, boot, After, kernel_main
    <2>. QED
      BY <2>1, <2>2
  <1>5. ApicMapped'
    <2>1. c # BSP /\ pc[c] = "paging_init" => "paging_init" \in loaded'[c]
      BY <1>p DEF Step, LoadShared, GsBase, StoreIndex, StoreMagic, CheckArea, IInv, TypeOK
    <2>2. c # BSP /\ pc[c] = "gdt64_init" => pc'[c] = "paging_init"
      BY <1>q DEF After, kernel_ap_main
    <2>3. \A d \in AP : d # c => pc'[d] = pc[d] /\ loaded[d] \subseteq loaded'[d]
      BY <1>q, <1>l DEF AP
    <2>4. c # BSP => pc[c] \in ApRunning \ {"panic"}
      BY <1>p DEF kernel_ap_main, ApRunning
    <2>. QED
      BY <2>1, <2>2, <2>3, <2>4, <1>l DEF IInv, ApicMapped, AP
  <1>6. OnlyAtLtr'
    BY <1>q, <1>r DEF IInv, OnlyAtLtr, gdt_entries, load_pl0_task, NoTask, AP
  <1>. QED
    BY <1>1, <1>2, <1>3, <1>4, <1>5, <1>6 DEF IInv

\* An interprocessor interrupt is taken.
LEMMA ReceiveInv ==
  ASSUME IInv, NEW c \in CPU, Receive(c)
  PROVE  IInv'
  <1> USE CpuAssumption
  <1>p. /\ c # BSP
        /\ UNCHANGED <<ready, loaded, gs, pls_blob, boot>>
        /\ \A d \in CPU : d # c => pc'[d] = pc[d] /\ signal'[d] = signal[d]
        /\ signal'[c] = "none"
        /\ \/ pc'[c] = "wait"
           \/ pc'[c] = "gdt64_init" /\ signal[c] = "STARTUP"
    BY DEF Receive, IInv, TypeOK
  <1>1. TypeOK'
    BY DEF Receive, IInv, TypeOK, ApPlaces, ApRunning, boot, AP
  <1>2. OwnArea'
    BY <1>p DEF IInv, OwnArea, PastGsBase, PastIndex, PastMagic
  <1>3. TablesFirst'
    BY <1>p DEF IInv, TablesFirst, ApRunning, AP
  <1>4. BspSoFar'
    BY <1>p DEF IInv, BspSoFar, boot
  <1>5. ApicMapped'
    BY <1>p DEF IInv, ApicMapped, ApRunning, AP
  <1>6. OnlyAtLtr'
    BY <1>p DEF IInv, OnlyAtLtr, gdt_entries, load_pl0_task, NoTask, AP
  <1>. QED
    BY <1>1, <1>2, <1>3, <1>4, <1>5, <1>6 DEF IInv

\* The invariant holds throughout, for any set of processors and any of them as
\* the bootstrap processor.
THEOREM Invariance == Spec => []IInv
  <1>1. Init => IInv
    BY InitInv
  <1>2. IInv /\ [Next]_vars => IInv'
    <2> SUFFICES ASSUME IInv, [Next]_vars PROVE IInv'
      OBVIOUS
    <2>1. CASE BspStep
      BY <2>1, BspInv
    <2>2. CASE \E c \in CPU : Step(c)
      BY <2>2, CpuInv, ReceiveInv
    <2>3. CASE UNCHANGED vars
      BY <2>3 DEF vars, boot, IInv, TypeOK, OwnArea, TablesFirst, BspSoFar, ApicMapped,
                  OnlyAtLtr, gdt_entries, load_pl0_task, NoTask
    <2>. QED
      BY <2>1, <2>2, <2>3 DEF Next
  <1>. QED
    BY <1>1, <1>2, PTL DEF Spec

\* No processor loads a table before kernel_main has filled it.
THEOREM TablesInTime == Spec => []TablesReady
  <1>1. IInv => TablesReady
    BY DEF IInv, TablesFirst, TablesReady
  <1>. QED
    BY <1>1, Invariance, PTL

\* cpuid() answers a processor's own id once its area is set up.
THEOREM AreasOwned == Spec => []AreaOwned
  <1>1. IInv => AreaOwned
    BY DEF IInv, OwnArea, PastGsBase, PastIndex, PastMagic, AreaOwned, cpuid, LocalArea
  <1>. QED
    BY <1>1, Invariance, PTL

\* No assertion fires and no APIC register is touched unmapped, if the id of the
\* bootstrap processor is even: load_pl0_task counts slots of 8 bytes where a
\* TSS descriptor takes two, so that an odd id names the second half of one.
THEOREM NoAssertion ==
  ASSUME BSP % 2 = 0
  PROVE  Spec => []AssertionsHold
  <1>1. gdt_entries[load_pl0_task(BSP)] # NoTask
    BY CpuAssumption DEF gdt_entries, load_pl0_task, NoTask
  <1>2. IInv => AssertionsHold
    BY <1>1, CpuAssumption DEF IInv, OnlyAtLtr, AssertionsHold, AP
  <1>. QED
    BY <1>2, Invariance, PTL

\* When the guest is launched the host's own TSS is loaded and no source but the
\* APIC's error entry can interrupt without a handler, whatever the firmware had
\* left unmasked.  The slot load_pl0_task selects is that of the
\* processor's own TSS for id 0 only; what BspSoFar says of the interrupts needs
\* no hypothesis.
THEOREM HostIsReady ==
  ASSUME BSP = 0
  PROVE  Spec => []HostReady
  <1>1. gdt_entries[load_pl0_task(BSP)] = BSP
    BY CpuAssumption DEF gdt_entries, load_pl0_task
  <1>2. IInv => HostReady
    BY <1>1, CpuAssumption DEF IInv, BspSoFar, HostReady, gdt_entries, load_pl0_task
  <1>. QED
    BY <1>2, Invariance, PTL

-----------------------------------------------------------------------------
(* The pages. *)


\* The segments of the list have their types and the low one ends before the
\* hole.
LEMMA ListFacts ==
  ASSUME list \in MemoryLists
  PROVE  \A i \in 1 .. Len(list) :
           /\ list[i].address \in Nat
           /\ list[i].length \in Nat \ {0}
           /\ list[i].address = LowBase =>
                list[i].address + list[i].length + MaxRequest <= FourG
  <1>1. list \in Seq(Segment)
    BY MemoryAssumption
  <1>2. \A i \in 1 .. Len(list) : list[i] \in Segment
    BY <1>1
  <1>. QED
    BY <1>2, MemoryAssumption DEF Segment, SegmentEnd

\* The segment the loop ends with is missing or one of the matching ones.
LEMMA LastOfIn ==
  ASSUME NEW matching
  PROVE  \/ LastOf(matching) = NoSegment
         \/ \E i \in matching :
              LastOf(matching) =
                [address |-> list[i].address, length |-> list[i].length]
  BY Zenon DEF LastOf

\* The two segments, as numbers: the low one ends a request before the high
\* one begins, if there is a high one.
LEMMA SegmentFacts ==
  ASSUME MemoryInv
  PROVE  /\ low.address \in Nat /\ low.length \in Nat
         /\ high.address \in Nat /\ high.length \in Nat
         /\ low.length > 0 => SegmentEnd(low) + MaxRequest <= FourG
         /\ high.length > 0 => high.address >= FourG
  <1>1. MemoryTypeOK /\ LowListed /\ HighListed
    BY DEF MemoryInv
  <1>2. /\ low.address \in Nat /\ low.length \in Nat
        /\ high.address \in Nat /\ high.length \in Nat
    BY <1>1 DEF MemoryTypeOK
  <1>3. list \in MemoryLists
    BY <1>1 DEF MemoryTypeOK
  <1>4. low.length > 0 => SegmentEnd(low) + MaxRequest <= FourG
    BY <1>1, <1>3, ListFacts DEF LowListed, NoSegment, IsLow, SegmentEnd
  <1>5. high.length > 0 => high.address >= FourG
    BY <1>1, <1>3, ListFacts DEF HighListed, NoSegment, IsHigh
  <1>. QED
    BY <1>2, <1>4, <1>5

\* A block whose first and last page are valid lies in one segment.
LEMMA OneSegment ==
  ASSUME MemoryInv, NEW n \in 1 .. MaxRequest, NEW first \in Nat,
         PHYSICAL_PAGE_VALID(first), PHYSICAL_PAGE_VALID(first + n - 1)
  PROVE  \/ Within(first, low) /\ Within(first + n - 1, low)
         \/ Within(first, high) /\ Within(first + n - 1, high)
  <1>1. /\ low.address \in Nat /\ low.length \in Nat
        /\ high.address \in Nat /\ high.length \in Nat
        /\ low.length > 0 => low.address + low.length + MaxRequest <= FourG
        /\ high.length > 0 => high.address >= FourG
    BY SegmentFacts DEF SegmentEnd
  <1>2. FourG \in Nat /\ MaxRequest \in Nat
    BY MemoryAssumption
  <1>3. CASE Within(first, low)
    BY <1>1, <1>2, <1>3 DEF PHYSICAL_PAGE_VALID, Within, SegmentEnd
  <1>4. CASE Within(first, high)
    <2>1. high.length > 0 /\ first >= FourG
      BY <1>1, <1>2, <1>4 DEF Within, SegmentEnd
    <2>2. ~Within(first + n - 1, low)
      BY <1>1, <1>2, <2>1 DEF Within, SegmentEnd
    <2>. QED
      BY <1>4, <2>2 DEF PHYSICAL_PAGE_VALID
  <1>. QED
    BY <1>3, <1>4 DEF PHYSICAL_PAGE_VALID

\* Such a block consists of memory the list describes.
LEMMA BlockListed ==
  ASSUME MemoryInv, NEW n \in 1 .. MaxRequest, NEW first \in Nat,
         PHYSICAL_PAGE_VALID(first), PHYSICAL_PAGE_VALID(first + n - 1)
  PROVE  \E i \in 1 .. Len(list) :
           /\ list[i].type = TYPE_NORMAL
           /\ first .. first + n - 1 \subseteq
                list[i].address .. SegmentEnd(list[i]) - 1
  <1>1. MemoryTypeOK /\ LowListed /\ HighListed /\ list \in MemoryLists
    BY DEF MemoryInv, MemoryTypeOK
  <1>2. MaxRequest \in Nat
    BY MemoryAssumption
  <1>3. CASE Within(first, low) /\ Within(first + n - 1, low)
    <2>1. low # NoSegment
      BY <1>3 DEF Within, NoSegment, SegmentEnd
    <2>2. PICK i \in 1 .. Len(list) :
            /\ IsLow(i)
            /\ low = [address |-> list[i].address, length |-> list[i].length]
      BY <1>1, <2>1 DEF LowListed
    <2>3. /\ list[i].address \in Nat /\ list[i].length \in Nat
          /\ low.address = list[i].address /\ low.length = list[i].length
      BY <1>1, <2>2, ListFacts
    <2>4. first .. first + n - 1 \subseteq list[i].address .. SegmentEnd(list[i]) - 1
      BY <1>2, <1>3, <2>3, SMTT(40) DEF Within, SegmentEnd
    <2>. QED
      BY <2>2, <2>4 DEF IsLow
  <1>4. CASE Within(first, high) /\ Within(first + n - 1, high)
    <2>1. high # NoSegment
      BY <1>4 DEF Within, NoSegment, SegmentEnd
    <2>2. PICK i \in 1 .. Len(list) :
            /\ IsHigh(i)
            /\ high = [address |-> list[i].address, length |-> list[i].length]
      BY <1>1, <2>1 DEF HighListed
    <2>3. /\ list[i].address \in Nat /\ list[i].length \in Nat
          /\ high.address = list[i].address /\ high.length = list[i].length
      BY <1>1, <2>2, ListFacts
    <2>4. first .. first + n - 1 \subseteq list[i].address .. SegmentEnd(list[i]) - 1
      BY <1>2, <1>4, <2>3, SMTT(40) DEF Within, SegmentEnd
    <2>. QED
      BY <2>2, <2>4 DEF IsHigh
  <1>. QED
    BY <1>3, <1>4, OneSegment

\* Before physical_memory_init nothing is handed out.
LEMMA MemoryStartInv == MemoryInit => MemoryInv
  BY MemoryAssumption
  DEF MemoryInit, MemoryInv, MemoryTypeOK, NoSegment, LowListed, HighListed, BlocksBelow,
      BlocksDisjoint, BlocksInMemory, FirstBlock

\* physical_memory_init runs before the first request and finds its segments
\* in the list.
LEMMA MemoryInitInv ==
  ASSUME MemoryInv, physical_memory_init
  PROVE  MemoryInv'
  <1>1. MemoryTypeOK /\ BlocksBelow /\ list \in MemoryLists
    BY DEF MemoryInv, MemoryTypeOK
  <1>2. given = {}
    <2>1. \A block \in given : block.first \in Nat /\ block.count \in Nat \ {0}
      BY <1>1, MemoryAssumption DEF MemoryTypeOK
    <2>. QED
      BY <1>1, <2>1 DEF BlocksBelow, physical_memory_init
  <1>3. /\ low' = LastOf({i \in 1 .. Len(list) : IsLow(i)})
        /\ high' = LastOf({i \in 1 .. Len(list) : IsHigh(i)})
        /\ current_avail_page' = BasePagesEnd + 1
        /\ list' = list /\ given' = {}
    BY <1>2 DEF physical_memory_init
  <1>4. LowListed' /\ HighListed'
    BY <1>3, LastOfIn, Zenon DEF LowListed, HighListed, IsLow, IsHigh
  <1>5. low' \in [address : Nat, length : Nat] /\ high' \in [address : Nat, length : Nat]
    <2>1. \A i \in 1 .. Len(list) : list[i].address \in Nat /\ list[i].length \in Nat
      BY <1>1, ListFacts
    <2>2. NoSegment \in [address : Nat, length : Nat]
      BY DEF NoSegment
    <2>3. \A i \in 1 .. Len(list) :
            [address |-> list[i].address, length |-> list[i].length]
              \in [address : Nat, length : Nat]
      BY <2>1
    <2>4. list' = list
      BY <1>3
    <2>. QED
      BY <1>4, <2>2, <2>3, <2>4, Zenon DEF LowListed, HighListed
  <1>6. MemoryTypeOK'
    BY <1>1, <1>3, <1>5, MemoryAssumption DEF MemoryTypeOK
  <1>. QED
    BY <1>3, <1>4, <1>6, MemoryAssumption
    DEF MemoryInv, BlocksBelow, BlocksDisjoint, BlocksInMemory, FirstBlock

\* A request extends the blocks by one that begins where the others end.
LEMMA RequestInv ==
  ASSUME MemoryInv, NEW n \in 1 .. MaxRequest, get_physical_pages(n), ~Refused(n)
  PROVE  MemoryInv' /\ current_avail_page' >= current_avail_page
  <1> DEFINE block == [first |-> current_avail_page, count |-> n]
  <1>1. /\ current_avail_page' = NextPage(n)
        /\ given' = given \cup {block}
        /\ UNCHANGED <<list, low, high>>
        /\ current_avail_page # 0
    BY DEF get_physical_pages
  <1>2. MemoryTypeOK /\ LowListed /\ HighListed /\ BlocksBelow /\ BlocksDisjoint
          /\ BlocksInMemory
    BY DEF MemoryInv
  <1>3. current_avail_page \in Nat /\ high.address \in Nat /\ MaxRequest \in Nat
    BY <1>2, MemoryAssumption DEF MemoryTypeOK
  <1>5. /\ current_avail_page' \in Nat
        /\ current_avail_page' >= current_avail_page + n
    BY <1>1, <1>3 DEF NextPage
  <1>6. \A b \in given : /\ b.first \in Nat /\ b.count \in 1 .. MaxRequest
                         /\ b.first + b.count <= current_avail_page
    BY <1>2 DEF MemoryTypeOK, BlocksBelow
  <1>7. MemoryTypeOK'
    BY <1>1, <1>2, <1>3, <1>5 DEF MemoryTypeOK
  <1>8. LowListed' /\ HighListed'
    BY <1>1, <1>2 DEF LowListed, HighListed, IsLow, IsHigh
  <1>9. BlocksBelow'
    BY <1>1, <1>3, <1>5, <1>6 DEF BlocksBelow
  <1>10. BlocksDisjoint'
    <2>1. \A b \in given : PagesOf(b) \cap PagesOf(block) = {}
      BY <1>3, <1>6, SMTT(40) DEF PagesOf
    <2>. QED
      BY <1>1, <1>2, <2>1 DEF BlocksDisjoint
  <1>11. BlocksInMemory'
    <2>1. PHYSICAL_PAGE_VALID(current_avail_page)
            /\ PHYSICAL_PAGE_VALID(current_avail_page + n - 1)
      BY DEF Refused
    <2>2. \E i \in 1 .. Len(list) :
            /\ list[i].type = TYPE_NORMAL
            /\ PagesOf(block) \subseteq list[i].address .. SegmentEnd(list[i]) - 1
      BY <1>3, <2>1, BlockListed, Zenon DEF PagesOf
    <2>. QED
      BY <1>1, <1>2, <2>2 DEF BlocksInMemory
  <1>12. FirstBlock'
    BY <1>1 DEF FirstBlock
  <1>. QED
    BY <1>3, <1>5, <1>7, <1>8, <1>9, <1>10, <1>11, <1>12 DEF MemoryInv

\* A step that changes nothing keeps the invariant.
LEMMA MemoryStutterInv ==
  ASSUME MemoryInv, UNCHANGED memory_vars
  PROVE  MemoryInv' /\ current_avail_page' >= current_avail_page
  <1>1. /\ list' = list /\ low' = low /\ high' = high
        /\ current_avail_page' = current_avail_page /\ given' = given
    BY DEF memory_vars
  <1>2. MemoryTypeOK /\ LowListed /\ HighListed /\ BlocksBelow /\ BlocksDisjoint
          /\ BlocksInMemory /\ FirstBlock
    BY DEF MemoryInv
  <1>3. MemoryTypeOK'
    BY <1>1, <1>2 DEF MemoryTypeOK
  <1>4. LowListed' /\ HighListed'
    BY <1>1, <1>2 DEF LowListed, HighListed, IsLow, IsHigh
  <1>5. BlocksBelow' /\ FirstBlock'
    BY <1>1, <1>2 DEF BlocksBelow, FirstBlock
  <1>6. BlocksDisjoint'
    BY <1>1, <1>2 DEF BlocksDisjoint
  <1>7. BlocksInMemory'
    BY <1>1, <1>2 DEF BlocksInMemory
  <1>8. current_avail_page' >= current_avail_page
    BY <1>1, <1>2 DEF MemoryTypeOK
  <1>. QED
    BY <1>1, <1>2, <1>3, <1>4, <1>5, <1>6, <1>7, <1>8 DEF MemoryInv

\* Every step preserves the invariant and moves the allocator forwards.
LEMMA MemoryStepInv ==
  ASSUME MemoryInv, [MemoryNext]_memory_vars
  PROVE  MemoryInv' /\ current_avail_page' >= current_avail_page
  <1>1. CASE physical_memory_init
    <2>1. current_avail_page' >= current_avail_page
      BY <1>1, MemoryAssumption DEF physical_memory_init
    <2>. QED
      BY <1>1, <2>1, MemoryInitInv
  <1>2. CASE \E n \in 1 .. MaxRequest : get_physical_pages(n)
    <2>1. PICK n \in 1 .. MaxRequest : get_physical_pages(n)
      BY <1>2
    <2>2. CASE Refused(n)
      BY <2>1, <2>2, MemoryStutterInv DEF get_physical_pages
    <2>3. CASE ~Refused(n)
      BY <2>1, <2>3, RequestInv
    <2>. QED
      BY <2>2, <2>3
  <1>. QED
    BY <1>1, <1>2, MemoryStutterInv DEF MemoryNext

\* The invariant of the allocator holds in every reachable state.
THEOREM MemoryInvariance == MemorySpec => []MemoryInv
  <1>1. MemoryInit => MemoryInv
    BY MemoryStartInv
  <1>2. MemoryInv /\ [MemoryNext]_memory_vars => MemoryInv'
    BY MemoryStepInv
  <1>. QED
    BY <1>1, <1>2, PTL DEF MemorySpec

\* No page is handed out twice.
THEOREM Disjoint == MemorySpec => []BlocksDisjoint
  <1>1. MemoryInv => BlocksDisjoint
    BY DEF MemoryInv
  <1>. QED
    BY <1>1, MemoryInvariance, PTL

\* Every page handed out is memory of a normal segment.
THEOREM InMemory == MemorySpec => []BlocksInMemory
  <1>1. MemoryInv => BlocksInMemory
    BY DEF MemoryInv
  <1>. QED
    BY <1>1, MemoryInvariance, PTL

-----------------------------------------------------------------------------
\* What a request leaves of the pages above it: the allocator goes on at a page
\* that is memory and not above any of them.
LEMMA NothingSkipped ==
  ASSUME MemoryInv, NEW n \in 1 .. MaxRequest, current_avail_page # 0, ~Refused(n),
         NEW page \in MemoryPages, page >= current_avail_page + n
  PROVE  NextPage(n) <= page /\ PHYSICAL_PAGE_VALID(NextPage(n))
  <1> DEFINE first == current_avail_page
             next == first + n
  <1>1. /\ low.address \in Nat /\ low.length \in Nat
        /\ high.address \in Nat /\ high.length \in Nat
        /\ low.length > 0 => low.address + low.length + MaxRequest <= FourG
        /\ high.length > 0 => high.address >= FourG
    BY SegmentFacts DEF SegmentEnd
  <1>2. FourG \in Nat /\ MaxRequest \in Nat /\ first \in Nat
    BY MemoryAssumption DEF MemoryInv, MemoryTypeOK
  <1>3. page \in Int /\ (Within(page, low) \/ Within(page, high))
    BY <1>1 DEF MemoryPages, Within, SegmentEnd
  <1>4. \/ Within(first, low) /\ Within(first + n - 1, low)
        \/ Within(first, high) /\ Within(first + n - 1, high)
    BY <1>2, OneSegment DEF Refused
  <1>5. CASE Within(first, high) /\ Within(first + n - 1, high)
    <2>1. Within(page, high)
      BY <1>1, <1>2, <1>3, <1>5 DEF Within, SegmentEnd
    <2>2. Within(next, high) /\ ~(next < high.address)
      BY <1>1, <1>2, <1>3, <1>5, <2>1 DEF Within, SegmentEnd
    <2>. QED
      BY <2>2 DEF NextPage, PHYSICAL_PAGE_VALID
  <1>6. CASE Within(first, low) /\ Within(first + n - 1, low)
    <2>1. CASE PHYSICAL_PAGE_VALID(next)
      BY <2>1 DEF NextPage
    <2>2. CASE ~PHYSICAL_PAGE_VALID(next)
      <3>1. ~Within(page, low)
        BY <1>1, <1>2, <1>3, <1>6, <2>2 DEF PHYSICAL_PAGE_VALID, Within, SegmentEnd
      <3>2. Within(page, high) /\ high.length > 0
        BY <1>1, <1>3, <3>1 DEF Within, SegmentEnd
      <3>3. next < high.address
        BY <1>1, <1>2, <1>3, <1>6, <2>2, <3>2
        DEF PHYSICAL_PAGE_VALID, Within, SegmentEnd
      <3>4. NextPage(n) = high.address
        BY <2>2, <3>3 DEF NextPage
      <3>. QED
        BY <1>1, <1>3, <3>2, <3>4 DEF PHYSICAL_PAGE_VALID, Within, SegmentEnd
    <2>. QED
      BY <2>1, <2>2
  <1>. QED
    BY <1>4, <1>5, <1>6

\* A request that is met loses no page.
LEMMA RequestLosesNothing ==
  ASSUME MemoryInv, NoPageLost, NEW n \in 1 .. MaxRequest, get_physical_pages(n), ~Refused(n)
  PROVE  NoPageLost'
  <1> DEFINE block == [first |-> current_avail_page, count |-> n]
  <1>1. /\ current_avail_page' = NextPage(n)
        /\ given' = given \cup {block}
        /\ low' = low /\ high' = high
        /\ current_avail_page # 0
    BY DEF get_physical_pages
  <1>2. current_avail_page \in Nat /\ BasePagesEnd \in Nat
    BY MemoryAssumption DEF MemoryInv, MemoryTypeOK
  <1>3. MemoryPages' = MemoryPages /\ MemoryPages \subseteq Int
    BY <1>1, SegmentFacts DEF MemoryPages, SegmentEnd
  <1>4. SUFFICES ASSUME NEW page \in MemoryPages, page > BasePagesEnd
                 PROVE  \/ \E b \in given' : page \in PagesOf(b)
                        \/ current_avail_page' <= page
                             /\ PHYSICAL_PAGE_VALID(current_avail_page)'
    BY <1>3 DEF NoPageLost, PagesOf
  <1>5. CASE page < current_avail_page
    <2>1. given # {}
      BY <1>1, <1>2, <1>3, <1>4, <1>5 DEF MemoryInv, FirstBlock
    <2>2. \E b \in given : page \in PagesOf(b)
      BY <1>2, <1>3, <1>4, <1>5, <2>1 DEF NoPageLost
    <2>. QED
      BY <1>1, <2>2
  <1>6. CASE page >= current_avail_page /\ page < current_avail_page + n
    <2>1. page \in PagesOf(block)
      BY <1>2, <1>3, <1>6 DEF PagesOf
    <2>. QED
      BY <1>1, <2>1
  <1>7. CASE page >= current_avail_page + n
    BY <1>1, <1>7, NothingSkipped DEF PHYSICAL_PAGE_VALID, Within, SegmentEnd
  <1>. QED
    BY <1>2, <1>3, <1>5, <1>6, <1>7

\* Every page of the two segments after the image is handed out or can still be.
THEOREM NothingLost == MemorySpec => []NoPageLost
  <1>1. MemoryInit => NoPageLost
    BY DEF MemoryInit, NoPageLost
  <1>2. MemoryInv /\ NoPageLost /\ [MemoryNext]_memory_vars => NoPageLost'
    <2> SUFFICES ASSUME MemoryInv, NoPageLost, [MemoryNext]_memory_vars
                 PROVE  NoPageLost'
      OBVIOUS
    <2>1. UNCHANGED memory_vars => NoPageLost'
      BY DEF memory_vars, NoPageLost, MemoryPages, PHYSICAL_PAGE_VALID, Within, SegmentEnd
    <2>2. CASE physical_memory_init
      <3>1. \A block \in given : block.first \in Nat /\ block.count \in Nat \ {0}
        BY MemoryAssumption DEF MemoryInv, MemoryTypeOK
      <3>2. given = {}
        BY <2>2, <3>1 DEF MemoryInv, BlocksBelow, physical_memory_init
      <3>. QED
        BY <2>2, <3>2 DEF physical_memory_init, NoPageLost
    <2>3. CASE \E n \in 1 .. MaxRequest : get_physical_pages(n)
      BY <2>1, <2>3, RequestLosesNothing DEF get_physical_pages
    <2>. QED
      BY <2>1, <2>2, <2>3 DEF MemoryNext
  <1>. QED
    BY <1>1, <1>2, MemoryInvariance, PTL DEF MemorySpec

\* The allocator never goes back.
THEOREM Forwards == MemorySpec => NeverBack
  <1>1. MemoryInv /\ [MemoryNext]_memory_vars => [current_avail_page' >= current_avail_page]_memory_vars
    BY MemoryStepInv
  <1>. QED
    BY <1>1, MemoryInvariance, PTL DEF MemorySpec, NeverBack
=============================================================================
