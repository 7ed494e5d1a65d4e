------------------------------ MODULE Console ------------------------------
(***************************************************************************)
(* What the processors print on the one serial line: printk piece by piece *)
(* under the lock of Spinlock, and the emulated serial port, whose buffer  *)
(* of guest output is printed as a line of its own (device_serial.c).      *)
(* A piece is a character or the expansion of one conversion; how numbers  *)
(* are written is left out.                                                *)
(***************************************************************************)
EXTENDS Spinlock, Naturals, Sequences

CONSTANTS
  VM,          \* the processor that runs the guest
  LineSize,    \* PAGE_SIZE_4K, the size of serial_line_buffer
  Piece,       \* what the messages of the kernel's own are made of
  Message      \* such a message

ASSUME ConsoleAssumption ==
  /\ VM \in CPU
  /\ LineSize \in Nat \ {0, 1}
  /\ Message \in Seq(Piece) \ {<<>>}

VARIABLES
  todo,      \* the pieces each processor has still to write
  last,      \* the last piece written: by whom, and how many it had left
  line,      \* serial_line_buffer up to serial_line_iptr
  flushing,  \* VM is in the printk of device_serial_outb
  typed,     \* history: the guest's bytes since its last line was shown
  shown      \* history: the bytes of the guest's line written so far

cvars == <<todo, last, line, flushing, typed, shown>>
allvars == <<vars, cvars>>

Newline == "\n"
Header == "[vm]"     \* the part of the format before its %s
Nul == "\\0"
GuestBytes == {"a", "b", Newline, Nul}

ConsoleInit ==
  /\ Init
  /\ todo = [c \in CPU |-> <<>>]
  /\ last = [by |-> NoCPU, left |-> 0]
  /\ line = <<>> /\ flushing = FALSE /\ typed = <<>> /\ shown = <<>>

\* What %s writes of a buffer: the bytes before its first NUL.  All six ports of
\* the device store into the buffer, so a guest can put one there.
CString(buffer) ==
  SubSeq(buffer, 1, CHOOSE n \in 0 .. Len(buffer) :
                      /\ n = Len(buffer) \/ buffer[n + 1] = Nul
                      /\ \A i \in 1 .. n : buffer[i] # Nul)

\* printk(fmt, ...) called by the kernel itself, exit handlers included.
printk(c) ==
  /\ Call(c)
  /\ todo' = [todo EXCEPT ![c] = Message]
  /\ UNCHANGED <<last, line, flushing, typed, shown>>

\* Mutant: the buffer is flushed at a newline only when it is not full.
Flushes_newline_only(buffer) == buffer[Len(buffer)] = Newline

\* The condition of device_serial_outb.
Flushes(buffer) == Len(buffer) = LineSize - 1 \/ buffer[Len(buffer)] = Newline

\* The guest writes a byte to its serial port: the assertion, the store, and
\* the call of printk when the line is complete.
device_serial_outb(byte) ==
  /\ pc[VM] = "out"
  /\ typed' = Append(typed, byte)
  /\ IF Len(line) >= LineSize - 1
     THEN Goto(VM, "halted") /\ UNCHANGED <<lock, owner, line, flushing, todo>>
     ELSE /\ line' = Append(line, byte)
          /\ IF Flushes(Append(line, byte))
             THEN /\ Call(VM)
                  /\ todo' = [todo EXCEPT ![VM] = <<Header>> \o CString(Append(line, byte))]
                  /\ flushing' = TRUE
             ELSE UNCHANGED <<vars, todo, flushing>>
  /\ UNCHANGED <<last, shown>>

\* One turn of the loop of printk_mp_raw; the last one leaves it.
write_serial(c) ==
  /\ pc[c] = "print"
  /\ todo' = [todo EXCEPT ![c] = Tail(@)]
  /\ last' = [by |-> c, left |-> Len(todo[c]) - 1]
  /\ shown' = IF c = VM /\ flushing /\ Head(todo[c]) # Header
              THEN Append(shown, Head(todo[c])) ELSE shown
  /\ IF Len(todo[c]) = 1 THEN PrintMessage(c) ELSE UNCHANGED vars
  /\ UNCHANGED <<line, flushing, typed>>

\* Mutant: the buffer is not cleared after it was printed.
Release_uncleared(c) ==
  /\ Unlock(c)
  /\ IF c = VM /\ flushing
     THEN typed' = <<>> /\ shown' = <<>> /\ flushing' = FALSE /\ UNCHANGED line
     ELSE UNCHANGED <<line, flushing, typed, shown>>
  /\ UNCHANGED <<todo, last>>

\* printk returns; device_serial_outb then clears its buffer.
Release(c) ==
  /\ Unlock(c)
  /\ IF c = VM /\ flushing
     THEN line' = <<>> /\ flushing' = FALSE /\ typed' = <<>> /\ shown' = <<>>
     ELSE UNCHANGED <<line, flushing, typed, shown>>
  /\ UNCHANGED <<todo, last>>

LockStep(c) == (Xchg(c) \/ Mark(c) \/ CheckCpu(c) \/ CheckLock(c) \/ Clear(c)) /\ UNCHANGED cvars

CpuStep(c) == LockStep(c) \/ write_serial(c) \/ Release(c)

ConsoleNext ==
  \/ \E c \in CPU : printk(c) \/ CpuStep(c)
  \/ \E byte \in GuestBytes : device_serial_outb(byte)

\* A processor inside printk keeps executing.
ConsoleSpec ==
  ConsoleInit /\ [][ConsoleNext]_allvars /\ \A c \in CPU : WF_allvars(CpuStep(c))

-----------------------------------------------------------------------------
\* A message reaches the line in one piece: after a piece that is not the last
\* of its message comes the next piece of the same one, although the lock is
\* taken per message and the line is written per character (printk.c 69-79).
MessagesWhole ==
  [][last' # last /\ last.left > 0 =>
       last' = [by |-> last.by, left |-> last.left - 1]]_allvars

\* When the guest's line is out it is exactly what the guest has written since
\* the line before, up to a NUL if it wrote one (the shipped guest writes text
\* only), a full buffer included: nothing is lost at the limit, printed again,
\* or overtaken by later output (device_serial.c 31-39).
GuestLineShown ==
  /\ flushing /\ pc[VM] \in {"check_cpu", "check_lock", "clear", "unlock"} => shown = CString(typed)
  /\ ~flushing /\ pc[VM] # "halted" => line = typed
=============================================================================
