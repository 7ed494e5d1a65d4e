------------------------------ MODULE Spinlock ------------------------------
(***************************************************************************)
(* The spinlock of x86_64/spinlock.c as printk uses it: any number of      *)
(* processors print, each print is bracketed by spinlock_acquire_raw and   *)
(* spinlock_release_raw on one lock.  A step is one access to the memory   *)
(* the processors share; xchg32 is a locked instruction and one step.      *)
(***************************************************************************)
CONSTANTS
  CPU,      \* the processors
  NoCPU     \* 0xff, the value of lock->cpu while nobody owns the lock

ASSUME CpuAssumption == NoCPU \notin CPU

VARIABLES
  lock,     \* lock->lock
  owner,    \* lock->cpu
  pc        \* where each processor executes

vars == <<lock, owner, pc>>

\* "out" is anywhere outside printk; "halted" is the loop behind a failed
\* ASSERT; the others are the accesses of acquire, print and release in order.
Holding == {"mark", "print", "check_cpu", "check_lock", "clear", "unlock"}

Places == {"out", "spin", "halted"} \cup Holding

\* spinlock_init, run by a constructor before any processor prints.
Init ==
  /\ lock = 0
  /\ owner = NoCPU
  /\ pc = [c \in CPU |-> "out"]

Goto(c, place) == pc' = [pc EXCEPT ![c] = place]

\* A processor calls printk.
Call(c) ==
  /\ pc[c] = "out"
  /\ Goto(c, "spin")
  /\ UNCHANGED <<lock, owner>>

\* Mutant: the lock is tested and set by an exchange that ignores its result.
Xchg_blind(c) ==
  /\ pc[c] = "spin"
  /\ lock' = 1
  /\ Goto(c, "mark")
  /\ UNCHANGED owner

\* One turn of while (xchg32(&lock->lock, 1) != 0).
Xchg(c) ==
  /\ pc[c] = "spin"
  /\ lock' = 1
  /\ Goto(c, IF lock = 0 THEN "mark" ELSE "spin")
  /\ UNCHANGED owner

Mark(c) ==
  /\ pc[c] = "mark"
  /\ owner' = c
  /\ Goto(c, "print")
  /\ UNCHANGED lock

\* printk_mp_raw writes the message to the serial line.
PrintMessage(c) ==
  /\ pc[c] = "print"
  /\ Goto(c, "check_cpu")
  /\ UNCHANGED <<lock, owner>>

\* The assertion at the head of spinlock_release_raw reads both fields.
CheckCpu(c) ==
  /\ pc[c] = "check_cpu"
  /\ Goto(c, IF owner = c THEN "check_lock" ELSE "halted")
  /\ UNCHANGED <<lock, owner>>

CheckLock(c) ==
  /\ pc[c] = "check_lock"
  /\ Goto(c, IF lock = 1 THEN "clear" ELSE "halted")
  /\ UNCHANGED <<lock, owner>>

Clear(c) ==
  /\ pc[c] = "clear"
  /\ owner' = NoCPU
  /\ Goto(c, "unlock")
  /\ UNCHANGED lock

\* Mutant: the lock word is not set back to 0.
Unlock_kept(c) ==
  /\ pc[c] = "unlock"
  /\ Goto(c, IF lock = 1 THEN "out" ELSE "halted")
  /\ UNCHANGED <<lock, owner>>

\* ASSERT(xchg32(&lock->lock, 0) == 1): the exchange is part of the assertion.
Unlock(c) ==
  /\ pc[c] = "unlock"
  /\ lock' = 0
  /\ Goto(c, IF lock = 1 THEN "out" ELSE "halted")
  /\ UNCHANGED owner

\* The steps of a processor that is inside printk.
Step(c) ==
  Xchg(c) \/ Mark(c) \/ PrintMessage(c) \/ CheckCpu(c) \/ CheckLock(c) \/ Clear(c)
    \/ Unlock(c)

Next == \E c \in CPU : Call(c) \/ Step(c)

Spec == Init /\ [][Next]_vars

\* A processor that is inside printk keeps executing.
FairSpec == Spec /\ \A c \in CPU : WF_vars(Step(c))

-----------------------------------------------------------------------------
TypeOK ==
  /\ lock \in {0, 1}
  /\ owner \in CPU \cup {NoCPU}
  /\ pc \in [CPU -> Places]

\* Messages do not mix: at most one processor is between taking the lock and
\* giving it back (spinlock.c 18-35, printk.c 69-79).
MutualExclusion ==
  \A c, d \in CPU : pc[c] \in Holding /\ pc[d] \in Holding => c = d

\* The assertions of spinlock_release_raw never fire, however the processors
\* interleave: lock->cpu is written by two of them and guarded by nothing but
\* the order of the accesses (spinlock.c 31 and 34).
AssertionsHold == \A c \in CPU : pc[c] # "halted"

\* lock and lock->cpu say who holds the lock: the word is 1 exactly while
\* somebody does, and a processor named by lock->cpu is the one.
FieldsAgree ==
  /\ lock = 1 <=> \E c \in CPU : pc[c] \in Holding
  /\ \A c \in CPU : owner = c <=> pc[c] \in Holding \ {"mark", "unlock"}

IInv == TypeOK /\ MutualExclusion /\ AssertionsHold /\ FieldsAgree

Holder ==
  IF \E c \in CPU : pc[c] \in Holding
  THEN CHOOSE c \in CPU : pc[c] \in Holding
  ELSE NoCPU

Lock == INSTANCE Mutex WITH holder <- Holder

\* The spinlock implements the abstract lock.
MutexSpec == Lock!Spec

\* While somebody spins the lock changes hands: the spinners cannot keep the
\* word at 1 with their own exchanges (spinlock.c 21).
SomebodyEnters ==
  (\E c \in CPU : pc[c] = "spin") ~> (\E c \in CPU : pc[c] = "mark")
=============================================================================
