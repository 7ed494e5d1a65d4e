# A verification of ZeldaOS.x86_64 in TLA+

ZeldaOS.x86_64 is a small 64-bit kernel written in C and assembly. It starts the
processors of a PC, sets up memory and paging, and then runs one guest under
Intel VT-x: the kernel is a VM monitor that emulates an interrupt controller, a
timer, a keyboard, a serial port and a video page for a guest kernel that ships
with it. This directory holds TLA+ models of the parts where the order of events
matters, the TLC configurations that check them, and proofs checked by TLAPS.

## The system

| Component | State | Operations | Hard part | What makes it correct |
|---|---|---|---|---|
| Interrupt virtualisation (`vmx_event.c`, `vmx_schedule.c`) | request bitmap, PIC blob, window bit of the VMCS | raise, retire, arbitrate, inject | host interrupts, the guest's EOI and window exits interleave | no lost wake-up, no preemption, pins reflect devices |
| PIC, PIT, keyboard (`device_*.c`) | masks, offsets, divisor, scancode ring | port writes and reads | multi-byte programming sequences | the shipped guest never stops the host |
| Byte ring (`ring.h`) | front, rear, buffer | write, read, peek, reset | wrap-around, full against empty | a bounded FIFO |
| VM exits (`vmx_exit.c`, `vmx_rdtsc.c`, `vmx_pio.c`, `vmx_ept_misconfig.c`, `vmx_instruction_decoding.c`, `device_video.c`) | guest registers, EFER, entry controls, video page | CR, MSR, RDTSC, HLT, I/O, interrupt and MMIO handlers | LMA changes without an exit, instructions are decoded by hand | an emulated instruction has its effect and no other, with two stated exceptions |
| Guest kernel (`guest/`) | where it executes, its page tables | boot to 64-bit mode, dispatch, EOI | runs against all of the above | boots; keys read once and in order |
| Tetris (`guest/tetris.c`) | grid, block, window | moves, landing, start, reset | timer and keys, stale flags | block inside the array, screen and grid agree |
| Console (`spinlock.c`, `printk.c`, `device_serial.c`) | lock word, owner, line buffer | acquire, print, release, guest output | several processors, buffer limit | exclusion, whole messages, no lost byte |
| Page allocator (`physical_memory.c`) | two segments, next page | init, allocate | ends of segments | blocks disjoint and in memory, no page lost |
| Host paging (`paging.c`) | table pages | map_address, pa | allocation failing half way | an address space |
| Guest memory (`vmx_ept.c`, `vmx_vmcs.c`) | EPT, host pages | back, copy image, trap page | exhaustion, bounds of the loops | private frames, right contents |
| I/O tables (`vmx_pio.c`, `vmx_mmio.c`) | sorted arrays | register, search | capacity, re-sorting | every access finds its device |
| Start-up (`kernel_main.c`, `lapic.c`, `processor_local_storage.c`) | tables, local areas, GS bases | set-up routines, INIT, SIPI | processors run unsynchronised | tables ready before use, own id |

The parts interact as follows. A VM exit enters the monitor with host interrupts
off and runs one handler to the next VM entry, so handlers are atomic with
respect to each other. The devices share the PIC blob and the request bitmap
with the injection code. The EPT takes pages from the allocator and both table
walkers share the index macros. All processors share the page tables, the
descriptor tables, the print lock and the array of local areas.

## Modules

- `ByteRing` (operators), `ByteStream` (the ring as a state machine; the loops of
  write and read as functions from turns to states), `BoundedFifo` (what it
  promises).
- `VirtualInterrupt`: one action per VM exit (`InterruptWindowExit`,
  `LapicTimerExit`, `KeyboardExit`, `PortOut`, `PortIn`) and `GuestFlag` for the
  instructions that change IF without an exit. The guest is the most general one.
  `typed`, `taken` and `delivered` are history variables.
- `GuestSystem` extends it with the shipped guest: each of its port writes is a
  step, as are handler, EOI and IRET.
- `InstructionDecoding`: the decoder on byte sequences, with `Encode`, how an
  assembler writes the moves, as the reference. `GuestPaging`: the guest's page
  tables. `VmExit` composes both with the exits of the shipped guest: it climbs
  from real to 64-bit mode, with an external interrupt possible at any point,
  then draws, accesses ports and takes interrupt windows. Handlers map the
  machine before an exit to the one entered again. What interrupts and port
  accesses do to the devices is in `VirtualInterrupt`; here is what they do to the
  guest's registers. The checks at `vmx_exit.c:128` (an entry that failed) are the
  final mode `entry_failed`, which `MonitorRuns` excludes.
- `Tetris`: one action per key and for the tick; both handlers run behind
  interrupt gates, so each is one step.
- `Spinlock` (each shared access is a step), `Mutex` (abstract), and `Console`,
  which prints under that lock and adds the guest's serial line. A printed buffer
  ends at its first NUL, as `%s` does.
- `PhysicalMemory`: addresses in pages, lists of segments as the boot loader
  leaves them.
- `PageLevels` (index macros), `PageTable`, `AddressSpace` (abstract), `Ept`.
- `SortSearch` (the macros SORT and SEARCH, which take the comparison as a
  parameter), `IoRegistry`.
- `SmpBoot`: one process per processor; a step is a routine or a store. The early
  page table may hold anything above 1 GB, since the loop that should clear it
  does not advance. The firmware may leave any of the interrupt sources the code
  masks unmasked. `missed` is a history variable: the processors that were not
  yet waiting when the startup interrupt was sent.
- `MC*`: instances for TLC. `*_proofs`: theorems; `HostBoot_proofs` is about
  `PhysicalMemory` and `SmpBoot`.

Definitions keep the names of the source. Definitions whose comment begins with
"Mutant" are variants of the definition below them with a plausible mistake;
they are used only to confirm that the properties notice it.

## Runs

| Run | Instance | Shows |
|---|---|---|
| `ring` | capacity 3, chunks up to 4 | the ring implements `BoundedFifo` |
| `interrupts` | ring of 2, 3 keys, 10 writes, periods around the threshold | the inductive invariant; the window stays armed while anything is pending, a delivery in service is not replaced, no accepted key is lost or reordered |
| `guest` | the shipped guest, 3 keys | boot never stops the host, no request before the remap, monitor and guest agree on what is in service, keys are read once in order; keys whose pin was raised and the timer are served |
| `console` | 4 processors, a buffer of 4 bytes | refinement of `Mutex`, the lock changes hands, messages are not mixed, a guest line comes out as written |
| `memory` | up to 20 pages, 120 lists | the inductive invariant (blocks inside one normal segment); blocks disjoint; every page after the image and the bitmap is handed out or still to come, across the jump between the segments |
| `smp` | 4 processors of 5 slots | tables filled before they are loaded, `cpuid()` right after set-up, assertions hold, the early table is never used for an APIC, at launch only the timer, the keyboard and the APIC error are unmasked and the first two have handlers, and every processor that waits when the startup interrupt is sent arrives |
| `paging` | 2 entries per table, 8 pages, 9 requests | refinement of `AddressSpace`, tables form a tree |
| `ept` | 2 entries per table, 1 to 24 host pages | private frames (apart from each other and from every table, those on the way to the video page included), launched contents, host untouched, video page trapped |
| `registry` | 6 ports for 5 slots, 4 regions for 3 slots | lookups find the latest registration |
| `tetris` | grid 8 x 4, a line, four squares and a T | the block stays on the grid, screen and grid agree, squares are neither lost nor invented, blocks land |
| `exits` | 5 registers, video page of 9 bytes, 2 bytes from ports, 2 accesses | no panic and no refused entry, the mappings stay, each emulated instruction has the effect stated for it and no other, the guest comes up |

`ExitsFaithful` compares the guest after an exit with `Executed`, which follows the
processor except in two places where the code does otherwise: RDTSC leaves the
frequency in RCX, and IN clears the seven upper bytes of RAX (`vmx_pio.c:70`). The
guest's `inb` looks at the lowest byte alone.

The run `guest_lowered` shows that a comment says more than the code does:
`vmx_event.c:83` cleans the bit of the vector delivered last, but the vector
starts as 0, so the first window exit can clear a timer request that was never
delivered.

Observations without a run of their own:

- `vmx_event.c:87` keeps the keyboard pin up while the buffer is non-empty; a key
  that arrives while the pin is masked leaves it down until the next key.
  `KeysDelivered` therefore starts from a raised pin.
- `physical_memory.c:83` announces a 3G barrier; the allocator continues above 4G.
- The guest's `memset` (`guest/lib.c:8`) copies from the address passed as fill
  value. It clears only because the guest's page 0 is zero, which `GuestSees`
  shows for the launch.

**Bounds.** A ring of two scancodes with three keys fills, wraps and drops.
Tables of two entries exercise every level with sixteen pages. Every memory
instance is small enough to be exhausted. Four processors are what the Makefile's
virtual machine has. Counters that the code leaves unbounded are bounded by
`MaxKeys`, `MaxChunk`, `NrPages`, `MaxBlocks` and `MaxAccesses`. The Tetris grid is
as low as `GridAssumption` admits. The line and the four squares of its deal can
fill two rows with one landing while squares stay above them, and an upright line
ends the game; the T can turn but not land, since the bound is then reached.
Nine bytes of video page hold the widest access at two places, and two accesses
let a read see what was written. A line buffer of four ends lines by newline, by
the limit and by both.

**Fairness.** `guest`: weak fairness of the guest's steps and of the open window,
because the processor keeps executing the guest, and of the LAPIC timer, which is
periodic. Its periods are at least the threshold of 10 ms the guest programs:
with shorter ones the code never raises a tick (see the hazards). Nothing is
assumed of the keyboard. `exits`: the monitor's handler is weakly fair; the guest
is strongly fair, because interrupts keep disabling its step and are rarer than
instructions. `tetris`: the tick that counts is weakly fair, the keys are not.
`console`: a processor inside printk goes on. `smp`: every processor executes, and an
interprocessor interrupt arrives. Nothing is assumed of the two delay loops: a
processor that has not come to wait when the startup interrupt is sent misses it,
and since it is sent once, waits for good. `EveryCpuUp` says that all others come
up; that the loop is long enough for everyone is not claimed.

**Deadlock** is not checked where the system really stops: `interrupts` (a PANIC),
`smp` (all processors idle), `tetris` (every block of the bound dealt), `ept` (launched or out of memory), `registry` (a
failed assertion).

## Proofs

TLAPS proves the following for every value of the constants the `ASSUME`s admit.

**`GuestSystem_proofs`: ring, interrupts, guest.**
The lemmas at the start say what enqueue, dequeue, peek and reset do to the
contents of a ring.

- The interrupt protocol: `IInv` is inductive, and from it follow the properties
  of the run `interrupts`, that a pin in service stays requested, and that the
  keyboard pin is backed by a key. They are not inductive alone. `TwoPins` (only
  pins 0 and 1 are ever raised), `KeyboardHeld` (the keyboard pin stays up from
  delivery to retirement, also after the EOI) and `HalfDivisor` are needed;
  `KeyboardHeld` is what keeps a key from being retired without a request.
- The shipped guest: every step of `GuestSystem` is a step of `VirtualInterrupt`
  with the guest's writes (`OneOfTheGuests`), so `IInv` carries over. `SInv` adds
  what each port write has left in the PIC and the PIT (`Programmed`), where the
  guest is relative to the pin in service, and that what it has read is a prefix
  of what was typed. From it: no assertion of the devices fires, no request
  precedes the remapping, monitor and guest agree, keys are read once in order.
- `StreamImplementsFifo`: the two loops of `ring.h` copy a chunk as the bounded
  queue does. A loop is a function from the number of its turns to the state
  after them; what a turn keeps is carried over all turns by the least-number
  principle (`Least`, `Climb`), since the library's induction theorems cannot be
  used here.

**`Console_proofs`.** `IInv` of the lock (the word is 1 exactly while somebody
holds it, the owner field is the holder's between mark and clear), exclusion, the
assertions, and the refinement of `Mutex`. `CInv` adds what has been printed by
the holder so far; from it messages come out whole, and every byte of a guest
line is shown once, whatever the size of the line buffer.

**`HostBoot_proofs`: memory and processors.**

- Memory: `MemoryInv` adds that the two segments come from the list and that all
  blocks lie below the next page. It rests on `MemoryAssumption`: the hole below
  4G is wider than a request, otherwise a block could reach across it. The code
  asks for at most 1024 pages at a time; a longer request is outside the proof.
  `NothingLost` follows from it with where the first block begins: a request
  that is met moves the next page to the end of its block, and past that only
  over the hole.
- Processors: the inductive invariant relates the place of every processor to
  what has been filled and stored before it got there. `NoAssertion` has the
  hypothesis that the bootstrap processor has an even id, `HostIsReady` that it
  has id 0: both hold on the machines the code runs on and are nowhere checked by
  it. `HostIsReady` holds whatever sources the firmware left unmasked; it names the
  one source that is unmasked without a handler, the error entry of the local APIC.

**`PageTable_proofs`.** Every table in use has a level, and, unless it is the
root, one parent and one slot of it (the functions exist; they are not part of
the state). With this tree a walk along an address cannot meet a table that the
same call has just allocated, so `map_address` changes one translation and no
other: every step is a step of `AddressSpace`, also when memory runs out half way.

**`Ept_proofs`.** The same tree with the guest's frames as leaves of level 0, and
for every phase of the set-up what is mapped, copied and trapped so far.

**`IoRegistry_proofs`.** The bubble sort leaves an array that is ordered by the
comparison and holds the same elements (`Rearranged`; a pass takes the largest to
the `Top`, the part behind is `Settled`). The search keeps the interval
`Encloses` the key until it is found or the interval is empty. Together with the
invariant (ordered, without doublets, within the array, and holding what was
registered last) a lookup answers right. Loops are treated as above.

**`Tetris_proofs`.** `IInv` says what a dealt block looks like (a shape of its own
group, so that rotation stays in the group), that it lies on the grid, and that
the block of a running game lies on free squares unless the game was resumed
after its end. `Drawn` describes the window between any two steps; `ScreenAgrees`
follows. For `CellsConserved`, `RowsLeftLists` says that the loop collects every
row with a gap once, so what `purge_grid` keeps is in bijection with the squares
of those rows, and the rest is a row's width for each row scored (`PurgeCount`); a
block that lands on free squares adds four (`SettleCount`). `Tally` adds that no
full row stays and that a dealt block has a colour. The grid is any that
`GridAssumption` admits.

**`VmExit_proofs`.**

- `DecoderReadsMoves`: the decoder gives back every move of `Moves`, for all
  sixteen registers and all immediates. The lemmas before it say where prefixes,
  opcode, ModRM and immediate lie in an encoding, and where the prefix loop stops.
- `IInv` says, for every place of the guest's boot, which value EFER has, which
  tables are written and whether paging is on; that the VMCS agrees with the
  machine except that it may lack the LMA bit, which the processor sets without
  an exit; and that a pending exit is one the guest takes at that place. The
  last is needed because handlers trust the exit: `mov_cr3` reads the instruction
  from the qualification, `rdmsr` panics unless RCX names EFER. The invariant was
  model-checked on the instance of the run `exits` before it was proved.
- From it: `MonitorAlwaysRuns`, `PagesAlwaysMapped`, and `EveryExitFaithful`.
  The argument for the last: the LMA bit is adjusted before a handler runs,
  every handler then has the effect of the instruction on the registers and on
  the video page, and the entry that follows is accepted. For an emulated access
  the instruction in guest memory is decoded by `DecoderReadsMoves`, and reading
  or writing the backing page is treated byte by byte for every size of access.
- It rests on `RegistersAssumption` (RAX, RCX and RDX are among the registers),
  `ImmediatesAssumption` (four bytes) and `PageSizeAssumption` (the page holds the
  widest access). Of the bytes the ports answer nothing is used.

The assumptions are the `ASSUME`s of the modules; TLC evaluates them in the runs.
Those that say something about the machine or the callers: segments end below the
hole under 4G, MMIO regions are disjoint, ports are 16-bit numbers, large and small
pages are not mapped over each other, the video page lies above the mapped memory.

Only model-checked: liveness (`KeysDelivered`, `TimerKeepsTicking`,
`SomebodyEnters`, `EveryCpuUp`, `GuestUp`, `BlocksLand`), which is out of the
prover's reach. Every safety property of a passing run has a theorem.

## Not modelled

The boot loader (real mode, BIOS); VMX host state, bitmaps, MSR areas and feature
checks (straight-line writes of processor fields); descriptor bits; the filling of
the guest's IDT; number formatting; the banner and texts on the screen; host
interrupt dispatch, since the host runs the guest for good and takes its
interrupts as VM exits; `dump_vm`, logging and string routines. The definitions
stand for about a third of the implementation's lines.

Caller obligations taken as assumptions: large and small pages are not mapped over
each other, MMIO regions are disjoint, the guest image fits its memory. The
decoder is proved right for the moves `Moves` lists; its comment names the forms it
would get wrong, which the guest's drawing code does not contain. A Tetris game
resumed with Enter after its end is modelled, but `ScreenAgrees`, `NoOverlap` and
the counting of `CellsConserved` say nothing about it. `PROJECT.json` lists
the hazards, and for one that no property covers, the reason.

Seen in the code while modelling, and covered by no property:

- `vmx_vmcs.c:175`: the host stack pointer is the lowest address of its pages, so
  exits push below them. Stacks are not modelled.
- `vmx_vmcs.c:242`: CS base and RIP are 0 where the comment says 0100:0000; the
  guest runs through its zeroed first page. `VmExit` starts at the image.
- `vmx_vmcs.c:298`: an unsupported control is dropped silently; only a missing
  PAUSE exiting is in the run.
- `vmx_vmcs.c:572`: the assertion also holds for the error value of a translation.
- `vmx_exit.c:79`: the upper half of a written EFER is lost; the guest writes 0.
- `vmx_ept_misconfig.c:17`: an instruction that crosses a guest page is read on
  from unrelated host memory.
- `guest/lib.h:20`: this RDTSC does not declare RCX, which the monitor overwrites.
- `lapic.c:189`: the error entry of the local APIC is unmasked and its vector, 51,
  has no handler. On the host `interrupt_handler` only logs such an interrupt;
  while the guest runs it exits to the PANIC_EXIT of `vmx_schedule.c:48`. Such an
  error is a fault of the machine: `VirtualInterrupt` has the timer and the keyboard
  interrupt, and neither this vector nor the check of the event's type
  (`vmx_schedule.c:67`). `HostReady` states that no other source is in that state.
- `processor_local_storage.c:55`: before its own set-up a processor reads area 0.
- `physical_memory.c:98`: a request larger than the rest of the low segment fails
  for good, although the high one is free.
