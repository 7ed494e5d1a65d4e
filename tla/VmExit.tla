------------------------------- MODULE VmExit -------------------------------
(***************************************************************************)
(* The exits a guest's own instructions cause, while the shipped guest     *)
(* climbs from real to 64-bit mode and then draws on the emulated screen:  *)
(* vm_exit_handler of vmx_asm.S, the dispatcher and the handlers of        *)
(* vmx_exit.c, vmx_rdtsc.c, vmx_pio.c, vmx_ept_misconfig.c and             *)
(* device_video.c, the controls and the guest state initialize_vmcs starts *)
(* with, and guest/entry.S, init32.S and the paging part of                *)
(* guest_kernel_main.  External interrupts exit at any point.  What the    *)
(* handlers of interrupts, windows and ports do to the emulated devices is *)
(* in VirtualInterrupt; here is what they do to the guest's registers.     *)
(*                                                                         *)
(* Register values are eight bytes, least significant first.               *)
(***************************************************************************)
EXTENDS InstructionDecoding, GuestPaging

CONSTANTS
  Registers,     \* the general registers moves name, by their encoding
  Immediates,    \* four-byte immediates
  PageSize,      \* bytes of the video page, 4096 in the code
  pml4_base,     \* address of the guest's top table, set by its linker
  Tsc,           \* what the time-stamp counter reads
  PortBytes,     \* what the emulated devices answer to an IN
  MaxAccesses    \* bound on the video and port accesses

ASSUME RegistersAssumption == {0, 1, 2} \subseteq Registers /\ Registers \subseteq 0 .. 15
ASSUME ImmediatesAssumption == \A i \in Immediates : i \in Seq(Int) /\ Len(i) = 4
ASSUME PortBytesAssumption == PortBytes \subseteq 0 .. 255
ASSUME PageSizeAssumption == PageSize \in Nat /\ PageSize >= 8

RAX == 0
RCX == 1
RDX == 2

Zero == Value(<<>>)
CPU_FREQUENCY == Value(<<176, 75, 171, 148>>)    \* 2494254000
IA32_EFER == Value(<<128, 0, 0, 192>>)

\* EFER.LME is bit 8 and LMA bit 10: both are in the second byte.
Efer(lme, lma) == Value(<<0, (IF lme THEN 1 ELSE 0) + (IF lma THEN 4 ELSE 0)>>)
Lme(efer) == efer[2] % 2 = 1
Lma(efer) == (efer[2] \div 4) % 2 = 1

\* 0x1000b8000 + offset.
VideoAddress(offset) == Value(<<offset, 128, 11, 0, 1>>)
IsVideo(value) == \E o \in 0 .. PageSize - 1 : value = VideoAddress(o)

\* The stretches of the guest's code between its exits, and the instructions
\* that exit, with their lengths; the last one is a loop.
Program ==
  << [at |-> 0, op |-> "protected_mode", length |-> 1],
     [at |-> 1, op |-> "pae", length |-> 1],
     [at |-> 2, op |-> "early_tables", length |-> 1],
     [at |-> 3, op |-> "mov_cr3", length |-> 3],
     [at |-> 6, op |-> "rdmsr", length |-> 2],
     [at |-> 8, op |-> "wrmsr", length |-> 2],
     [at |-> 10, op |-> "cr0_pg", length |-> 1],
     [at |-> 11, op |-> "ljmp64", length |-> 1],
     [at |-> 12, op |-> "map_page_high", length |-> 1],
     [at |-> 13, op |-> "mov_cr3", length |-> 3],
     [at |-> 16, op |-> "rdtsc", length |-> 2],
     [at |-> 18, op |-> "hlt", length |-> 1] >>

Exiting == {"mov_cr3", "rdmsr", "wrmsr", "rdtsc", "hlt"}

\* The primary control that makes each of them exit; the MSR accesses always do.
ExitingControl == [op \in {"mov_cr3", "rdtsc", "hlt"} |->
                     CASE op = "mov_cr3" -> 15 [] op = "rdtsc" -> 12 [] op = "hlt" -> 7]

LoopStart == Program[Len(Program)].at

VARIABLES
  mode,     \* "guest", "host", "panic" or "entry_failed"
  regs,     \* the general registers, as the guest or the saved frame has them
  rip, cr3, pe, pae, pg, long,    \* guest state, saved and loaded by exits
  efer,     \* IA32_EFER while the guest runs
  vmcs,     \* the fields exits do not simply carry over, and the controls
  exit,     \* the exit being handled
  mem,      \* the guest's page tables
  video_buffer, screen,    \* the guest's video page and the real one
  accesses

carried == <<cr3, pe, pae, pg, long>>
video == <<video_buffer, screen>>
vars == <<mode, regs, rip, carried, efer, vmcs, exit, mem, video, accesses>>

NoExit == [reason |-> "none", length |-> 0, instruction |-> <<>>, bytes |-> <<>>]

-----------------------------------------------------------------------------
\* A control word is the set of its bits; the capability MSR gives the bits
\* that must be 1 and the bits that may be.
fix_reserved_1_bits(target, allowed0) == target \cup allowed0
fix_reserved_0_bits(target, allowed1) == target \cap allowed1
validate_vmx_capability(target, allowed0, allowed1) ==
  allowed0 \subseteq target /\ target \subseteq allowed1

Control(wanted, cap) ==
  fix_reserved_0_bits(fix_reserved_1_bits(wanted, cap.allowed0), cap.allowed1)

PIN_WANTED == {0}
PRI_WANTED == {2, 7, 9, 12, 15, 16, 24, 30, 31}
SEC_WANTED == {1, 5, 7}
EXIT_WANTED == {9, 15, 21}
ENTRY_WANTED == {15}
IA32E_GUEST == 9
IO_EXITING == 24

\* A processor with everything this guest depends on, that insists on some bits
\* nobody asked for, and has no PAUSE exiting, which is then left off silently.
Full == [allowed0 |-> {}, allowed1 |-> 0 .. 31]
Primary == [allowed0 |-> {1, 4, 15, 16}, allowed1 |-> 0 .. 31 \ {30}]

\* initialize_vmcs: the controls, and a guest in real mode without paging.
Init ==
  /\ mode = "guest"
  /\ regs = [r \in Registers |-> Zero]
  /\ rip = 0 /\ cr3 = Zero /\ pe = FALSE /\ pae = FALSE /\ pg = FALSE /\ long = FALSE
  /\ efer = Efer(FALSE, FALSE)
  /\ validate_vmx_capability(Control(PRI_WANTED, Primary),
                             Primary.allowed0, Primary.allowed1)
  /\ vmcs = [efer |-> Efer(FALSE, FALSE),
             pin |-> Control(PIN_WANTED, Full), pri |-> Control(PRI_WANTED, Primary),
             sec |-> Control(SEC_WANTED, Full),
             vm_exit |-> Control(EXIT_WANTED, Full),
             vm_entry |-> Control(ENTRY_WANTED, Full)]
  /\ exit = NoExit
  /\ mem = NoTables
  /\ video_buffer = [o \in 0 .. PageSize - 1 |-> 0]
  /\ screen = [o \in 0 .. PageSize - 1 |-> 255]
  /\ accesses = 0

-----------------------------------------------------------------------------
(* The processor leaves the guest, and enters it. *)

\* An exit records LMA in the entry controls; it saves EFER only on request.
Exit(reason, length, instruction, bytes) ==
  /\ mode' = "host"
  /\ exit' = [reason |-> reason, length |-> length, instruction |-> instruction,
              bytes |-> bytes]
  /\ vmcs' = [vmcs EXCEPT
                !.vm_entry = IF Lma(efer) THEN @ \cup {IA32E_GUEST} ELSE @ \ {IA32E_GUEST},
                !.efer = IF 20 \in vmcs.vm_exit THEN efer ELSE @]

EntryAccepted(v) ==
  /\ Lma(v.efer) <=> IA32E_GUEST \in v.vm_entry
  /\ pg => (Lma(v.efer) <=> Lme(v.efer))

-----------------------------------------------------------------------------
(* The guest. *)

MovRaxToCr3 == [cr |-> 3, access |-> "mov_to_cr", gp_reg |-> RAX]
At(i) == mode = "guest" /\ rip = Program[i].at

\* The instruction at rip, with the registers as the ones before it set them.
GuestInstruction(i) ==
  LET op == Program[i].op
  IN  /\ At(i)
      /\ IF op \in Exiting
         THEN /\ op \in DOMAIN ExitingControl => ExitingControl[op] \in vmcs.pri
              /\ regs' = CASE op = "mov_cr3" -> [regs EXCEPT ![RAX] = pml4_base]
                           [] op = "rdmsr" -> [regs EXCEPT ![RAX] = Zero, ![RDX] = Zero,
                                                           ![RCX] = IA32_EFER]
                           [] op = "wrmsr" -> [regs EXCEPT ![RAX][2] = 1 + 2 * (@ \div 2)]
                           [] OTHER -> regs
              /\ Exit(op, Program[i].length,
                      IF op = "mov_cr3" THEN MovRaxToCr3 ELSE <<>>, <<>>)
              /\ UNCHANGED <<rip, carried, efer, mem>>
         ELSE /\ rip' = rip + Program[i].length
              /\ pe' = (pe \/ op = "protected_mode")
              /\ pae' = (pae \/ op = "pae")
              /\ pg' = (pg \/ op = "cr0_pg")
              /\ efer' = IF op = "cr0_pg" /\ Lme(efer) THEN Efer(TRUE, TRUE) ELSE efer
              /\ long' = (long \/ (op = "ljmp64" /\ Lma(efer)))
              /\ mem' = CASE op = "early_tables" -> construct_early_page_table
                          [] op = "map_page_high" -> map_page_high(mem, Video, VideoFrame)
                          [] OTHER -> mem
              /\ UNCHANGED <<mode, regs, cr3, vmcs, exit>>
      /\ UNCHANGED <<video, accesses>>

\* The loop around hlt, and the return from the handlers that draw.
GuestLoops ==
  /\ mode = "guest" /\ rip > LoopStart
  /\ rip' = LoopStart
  /\ UNCHANGED <<mode, regs, carried, efer, vmcs, exit, mem, video, accesses>>

\* A move to or from the video page, at its first or its last bytes, which the
\* EPT's misconfigured entry turns into an exit of undefined length.
Pattern == [i \in 1 .. 8 |-> 10 * (accesses + 1) + i]
GuestDraws ==
  \E move \in Moves(Registers, Immediates) :
    \E offset \in {0, PageSize - move.size} :
      /\ mode = "guest" /\ rip = LoopStart /\ accesses < MaxAccesses
      /\ Translate(mem, Video) = VideoFrame
      /\ regs' = [r \in Registers |->
                    IF r = move.base THEN VideoAddress(offset)
                    ELSE IF r = move.reg /\ move.op = "store" THEN Pattern
                    ELSE regs[r]]
      /\ Exit("ept_misconfig", 0, move, Encode(move))
      /\ accesses' = accesses + 1
      /\ UNCHANGED <<rip, carried, efer, mem, video>>

\* A byte goes to or comes from a port, as inb and outb of the guest do it: one
\* byte, not repeated, and through DX, because they are compiled apart from
\* their callers and do not see a constant port.  access_size 0 is one byte.
PortByte(direction, byte) ==
  [access_size |-> 0, operand |-> "dx", direction |-> direction, byte |-> byte]
GuestPorts ==
  \E direction \in {"in", "out"}, byte \in PortBytes :
    /\ mode = "guest" /\ rip = LoopStart /\ accesses < MaxAccesses
    /\ IO_EXITING \in vmcs.pri
    /\ regs' = [regs EXCEPT ![RAX] = Pattern]
    /\ Exit("io", 1, PortByte(direction, byte), <<>>)
    /\ accesses' = accesses + 1
    /\ UNCHANGED <<rip, carried, efer, mem, video>>

\* A device interrupts the processor; or, once the guest has executed sti, the
\* window the monitor asked for is open.
Interrupt ==
  /\ mode = "guest"
  /\ \/ Exit("external_interrupt", 0, <<>>, <<>>)
     \/ rip >= LoopStart /\ Exit("interrupt_window", 0, <<>>, <<>>)
  /\ UNCHANGED <<regs, rip, carried, efer, mem, video, accesses>>

GuestStep == GuestLoops \/ \E i \in DOMAIN Program : GuestInstruction(i)

-----------------------------------------------------------------------------
(* The monitor. *)

\* Mutant: LMA is left as the last entry had it.
AdjustLma_not(v) == v

\* The first block of vm_exit_handler_entry.
AdjustLma(v) ==
  [v EXCEPT !.efer[2] = (@ - (IF Lma(v.efer) THEN 4 ELSE 0))
                          + (IF IA32E_GUEST \in v.vm_entry THEN 4 ELSE 0)]

\* The handlers map a machine [regs, rip, cr3, efer, buffer, screen, ok] to the
\* one vmresume enters; ok is FALSE when an assertion failed or PANIC_EXIT ran.
Panic(m) == [m EXCEPT !.ok = FALSE]
GOTO_NEXT_INSTRUCTION(m, length) == [m EXCEPT !.rip = @ + length]

\* The registers by their encoding.
vcpu_get_gp_regiter(m, index) == m.regs[index]
vcpu_set_gp_regiter(m, index, val) == [m EXCEPT !.regs[index] = val]

Low(value) == Value(SubSeq(value, 1, 4))
High(value) == Value(SubSeq(value, 5, 8))

controll_register_access_exit_sub_handler(m) ==
  LET q == exit.instruction
  IN  IF q.cr = 3 /\ q.access = "mov_to_cr" /\ q.gp_reg = RAX
      THEN GOTO_NEXT_INSTRUCTION([m EXCEPT !.cr3 = m.regs[RAX]], exit.length)
      ELSE Panic(m)

\* Mutant: the instruction is not skipped.
rdmsr_exit_sub_handler_again(m) ==
  IF m.regs[RCX] # IA32_EFER THEN Panic(m)
  ELSE [m EXCEPT !.regs[RAX] = Low(m.efer), !.regs[RDX] = High(m.efer)]

rdmsr_exit_sub_handler(m) ==
  IF m.regs[RCX] # IA32_EFER THEN Panic(m)
  ELSE GOTO_NEXT_INSTRUCTION([m EXCEPT !.regs[RAX] = Low(m.efer),
                                       !.regs[RDX] = High(m.efer)], exit.length)

\* (rdx << 32) & 0xffffffff is 0: the upper half never arrives.
wrmsr_exit_sub_handler(m) ==
  IF m.regs[RCX] # IA32_EFER THEN Panic(m)
  ELSE GOTO_NEXT_INSTRUCTION([m EXCEPT !.efer = Low(m.regs[RAX])], exit.length)

rdtsc_exit_sub_handler(m) ==
  GOTO_NEXT_INSTRUCTION([m EXCEPT !.regs[RDX] = High(Tsc), !.regs[RAX] = Low(Tsc),
                                  !.regs[RCX] = CPU_FREQUENCY], exit.length)

halt_exit_sub_handler(m) == GOTO_NEXT_INSTRUCTION(m, exit.length)

\* The callback is found (IoRegistry) and answers; its byte fills all of RAX.
io_instruction_exit_sub_handler(m) ==
  LET q == exit.instruction
  IN  IF q.operand # "dx" \/ q.access_size # 0 THEN Panic(m)
      ELSE IF q.direction = "in"
      THEN GOTO_NEXT_INSTRUCTION([m EXCEPT !.regs[RAX] = Value(<<q.byte>>)], exit.length)
      ELSE GOTO_NEXT_INSTRUCTION(m, exit.length)

\* search_mmio_callback finds the video page or nothing.
search_mmio_callback(addr) == IsVideo(addr)

video_buffer_mmio_read(m, offset, size) ==
  Value([i \in 1 .. size |-> m.buffer[offset + i - 1]])

\* `to' with the bytes offset .. offset + size - 1 of `from'.
memcpy(to, from, offset, size) ==
  [o \in DOMAIN to |-> IF o \in offset .. offset + size - 1 THEN from[o] ELSE to[o]]

incremental_refresh_video(shown, buffer, offset, size) ==
  memcpy(shown, buffer, offset, size)

video_buffer_mmio_write(m, offset, size, value) ==
  LET bytes == [o \in offset .. offset + size - 1 |-> value[o - offset + 1]]
      buffer == memcpy(m.buffer, bytes, offset, size)
  IN  [m EXCEPT !.buffer = buffer,
                !.screen = incremental_refresh_video(m.screen, buffer, offset, size)]

\* The instruction is fetched at the guest-physical address rip, and the access
\* looked up by its linear address: both rest on the guest's identity mapping.
ept_misconfig_exit_sub_handler(m, context) ==
  LET guest_addr == vcpu_get_gp_regiter(m, context.rm_index)
      offset == guest_addr[1]
      size == context.access_size
      value == IF context.operand_hint = "RM"
               THEN vcpu_get_gp_regiter(m, context.reg_index)
               ELSE context.immediate
      done == IF context.operand_hint = "MR"
              THEN vcpu_set_gp_regiter(m, context.reg_index,
                                       video_buffer_mmio_read(m, offset, size))
              ELSE video_buffer_mmio_write(m, offset, size, value)
  IN  IF context.operand_hint = "none" THEN Panic(m)
      ELSE IF ~search_mmio_callback(guest_addr) THEN Panic(m)
      ELSE IF offset + size > PageSize THEN Panic(m)
      ELSE GOTO_NEXT_INSTRUCTION(done, context.instruction_length)

\* The table vm_exit_handler_init fills; a reason without an entry panics.
sub_handlers(reason, m, context) ==
  CASE reason \in {"external_interrupt", "interrupt_window"} -> m
    [] reason = "mov_cr3" -> controll_register_access_exit_sub_handler(m)
    [] reason = "hlt" -> halt_exit_sub_handler(m)
    [] reason = "rdmsr" -> rdmsr_exit_sub_handler(m)
    [] reason = "wrmsr" -> wrmsr_exit_sub_handler(m)
    [] reason = "ept_misconfig" -> ept_misconfig_exit_sub_handler(m, context)
    [] reason = "rdtsc" -> rdtsc_exit_sub_handler(m)
    [] reason = "io" -> io_instruction_exit_sub_handler(m)
    [] OTHER -> Panic(m)

\* The instruction bytes at rip, decoded.
Decoded ==
  IF exit.reason = "ept_misconfig" THEN decode_x86_64_instruction(exit.bytes) ELSE Undecoded

\* The dispatcher, and the vmresume that follows.  Bit 31 of the reason, which
\* ends in PANIC_EXIT, is set by a refused entry alone: mode "entry_failed".
vm_exit_handler_entry ==
  /\ mode = "host"
  /\ \E context \in {Decoded} :
     \E m \in {sub_handlers(exit.reason,
                 [regs |-> regs, rip |-> rip, cr3 |-> cr3, efer |-> AdjustLma(vmcs).efer,
                  buffer |-> video_buffer, screen |-> screen, ok |-> TRUE], context)} :
       /\ vmcs' = [vmcs EXCEPT !.efer = m.efer]
       /\ mode' = IF ~m.ok THEN "panic"
                  ELSE IF EntryAccepted([vmcs EXCEPT !.efer = m.efer])
                       THEN "guest" ELSE "entry_failed"
       /\ efer' = m.efer /\ regs' = m.regs /\ rip' = m.rip /\ cr3' = m.cr3
       /\ video_buffer' = m.buffer /\ screen' = m.screen
  /\ exit' = NoExit
  /\ UNCHANGED <<pe, pae, pg, long, mem, accesses>>

Next == GuestStep \/ GuestDraws \/ GuestPorts \/ Interrupt \/ vm_exit_handler_entry

\* The monitor runs to the next entry.  Interrupts are rarer than instructions,
\* so a guest that is entered again and again gets on.
Spec == Init /\ [][Next]_vars /\ WF_vars(vm_exit_handler_entry) /\ SF_vars(GuestStep)
-----------------------------------------------------------------------------
(* Properties. *)

\* No exit of this guest ends in a failed assertion or PANIC_EXIT, and no
\* vmresume is refused: between any two exits, the EFER the monitor keeps and
\* the entry control the processor keeps describe the same mode, although
\* paging turns LMA on without an exit.
MonitorRuns == mode \in {"guest", "host"}

\* What becomes of the instruction that exited, as a processor executes it: the
\* registers, the video page, CR3, and EFER as the guest next sees it.
Executed ==
  LET i == exit.instruction
      first == regs[i.base][1]
      loaded == Value([k \in 1 .. i.size |-> video_buffer[first + k - 1]])
      stored == IF i.op = "store" THEN regs[i.reg] ELSE Value(i.imm)
      same == [regs |-> regs, cr3 |-> cr3, efer |-> efer, buffer |-> video_buffer,
               length |-> exit.length]
  IN  CASE exit.reason = "mov_cr3" -> [same EXCEPT !.cr3 = regs[RAX]]
        [] exit.reason = "rdmsr" -> [same EXCEPT !.regs[RAX] = Low(efer),
                                                 !.regs[RDX] = High(efer)]
        [] exit.reason = "wrmsr" -> [same EXCEPT !.efer = Value(SubSeq(regs[RAX], 1, 4)
                                                           \o SubSeq(regs[RDX], 1, 4))]
        [] exit.reason = "rdtsc" -> [same EXCEPT !.regs[RAX] = Low(Tsc),
                                                 !.regs[RDX] = High(Tsc),
                                                 !.regs[RCX] = CPU_FREQUENCY]
        [] exit.reason = "ept_misconfig" /\ i.op \in {"movzx", "load"} ->
             [same EXCEPT !.regs[i.reg] = loaded, !.length = Len(exit.bytes)]
        [] exit.reason = "ept_misconfig" /\ i.op \in {"store", "immediate"} ->
             [same EXCEPT !.length = Len(exit.bytes),
                !.buffer = [o \in DOMAIN video_buffer |->
                              IF o \in first .. first + i.size - 1
                              THEN stored[o - first + 1] ELSE video_buffer[o]]]
        [] exit.reason = "io" /\ i.direction = "in" ->
             [same EXCEPT !.regs[RAX] = Value(<<i.byte>>)]
        [] OTHER -> same

\* The video bytes the exiting instruction stores to.
StoredBytes ==
  IF exit.reason # "ept_misconfig" THEN {}
  ELSE IF exit.instruction.op \in {"movzx", "load"} THEN {}
  ELSE LET first == regs[exit.instruction.base][1]
       IN  first .. first + exit.instruction.size - 1

\* Every re-entry continues after the instruction that exited, with its effect
\* and no other.  A processor would do otherwise in two places, where Executed
\* follows the monitor: rdtsc leaves the frequency in RCX, which the guest's
\* get_cpu_frequency reads and its rdtsc() does not know of, and IN clears the
\* seven upper bytes of RAX (vmx_pio.c:70), which inb() does not look at.  The real screen shows what the
\* access stored and is not touched elsewhere.
ExitsFaithful ==
  [][(mode = "host" /\ mode' = "guest") =>
       /\ rip' = rip + Executed.length
       /\ [regs |-> regs', cr3 |-> cr3', efer |-> efer', buffer |-> video_buffer',
           length |-> Executed.length] = Executed
       /\ screen' = [o \in DOMAIN screen |-> IF o \in StoredBytes THEN video_buffer'[o]
                                             ELSE screen[o]]]_vars

\* Once paging is on the image stays where the monitor fetches instructions,
\* below 1 GB is mapped, and from the reload of CR3 on the video page is at its
\* own address, although get_base_page hands out one page for two levels.
PagesMapped ==
  pg => /\ Translate(mem, Code) = LargePage(0)
        /\ Translate(mem, LowEnd) = LargePage(511)
        /\ rip >= Program[10].at => Translate(mem, Video) = VideoFrame

\* The guest gets through its boot, exits and interrupts included, and idles
\* in 64-bit mode.
GuestUp == <>(long /\ rip = LoopStart)
=============================================================================
