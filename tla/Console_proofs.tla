--------------------------- MODULE Console_proofs ---------------------------
(***************************************************************************)
(* The spinlock is correct for every set of processors, and implements the *)
(* abstract lock.  What is printed under it comes out whole, the guest's   *)
(* lines included, for every message and every size of the line buffer.    *)
(***************************************************************************)
EXTENDS Console, FiniteSetTheorems, WellFoundedInduction, SequenceTheorems, TLAPS

-----------------------------------------------------------------------------
(* The spinlock                                                            *)

\* Nobody holds a lock whose word is 0, and who is past "mark" owns it: the
\* shape of the invariant the steps below start from.
LEMMA StepFacts ==
  ASSUME IInv, NEW c \in CPU, Call(c) \/ Step(c)
  PROVE  /\ \E place \in Places : pc' = [pc EXCEPT ![c] = place]
         /\ \A d \in CPU \ {c} : pc'[d] = pc[d]
  BY Zenon DEF IInv, TypeOK, Call, Step, Xchg, Mark, PrintMessage, CheckCpu, CheckLock,
         Clear, Unlock, Goto, Places, Holding

\* spinlock_init establishes the invariant.
LEMMA InitInv == Init => IInv
  BY CpuAssumption
  DEF Init, IInv, TypeOK, MutualExclusion, AssertionsHold, FieldsAgree,
      Holding, Places

\* A step of one processor preserves the invariant.
LEMMA StepInv ==
  ASSUME IInv, NEW c \in CPU, Call(c) \/ Step(c)
  PROVE  IInv'
  <1> USE CpuAssumption
      DEF IInv, TypeOK, MutualExclusion, AssertionsHold, FieldsAgree, Holding,
          Places, Goto
  <1>1. CASE Call(c)
    BY <1>1, Zenon DEF Call
  <1>2. CASE Xchg(c)
    <2>1. CASE lock = 0
      BY <1>2, <2>1 DEF Xchg
    <2>2. CASE lock = 1
      BY <1>2, <2>2 DEF Xchg
    <2>. QED
      BY <2>1, <2>2, Zenon
  <1>3. CASE Mark(c)
    BY <1>3 DEF Mark
  <1>4. CASE PrintMessage(c)
    BY <1>4 DEF PrintMessage
  <1>5. CASE CheckCpu(c)
    BY <1>5 DEF CheckCpu
  <1>6. CASE CheckLock(c)
    BY <1>6 DEF CheckLock
  <1>7. CASE Clear(c)
    BY <1>7 DEF Clear
  <1>8. CASE Unlock(c)
    BY <1>8 DEF Unlock
  <1>. QED
    BY <1>1, <1>2, <1>3, <1>4, <1>5, <1>6, <1>7, <1>8, Zenon DEF Step

\* The invariant of the spinlock holds in every reachable state, whatever the
\* number of processors.
THEOREM Invariance == Spec => []IInv
  <1>1. Init => IInv
    BY InitInv, Zenon
  <1>2. IInv /\ [Next]_vars => IInv'
    <2> SUFFICES ASSUME IInv, [Next]_vars
                 PROVE  IInv'
      BY Zenon
    <2>1. CASE Next
      BY <2>1, StepInv, Zenon DEF Next
    <2>2. CASE UNCHANGED vars
      BY <2>2, Zenon DEF vars, IInv, TypeOK, MutualExclusion, AssertionsHold, FieldsAgree
    <2>. QED
      BY <2>1, <2>2, Zenon
  <1>. QED
    BY <1>1, <1>2, PTL DEF Spec

\* At most one processor is between acquire and release.
THEOREM Exclusion == Spec => []MutualExclusion
  <1>1. IInv => MutualExclusion
    BY Zenon DEF IInv
  <1>. QED
    BY <1>1, Invariance, PTL

\* The two assertions of spinlock_release_raw never fire.
THEOREM NoAssertion == Spec => []AssertionsHold
  <1>1. IInv => AssertionsHold
    BY Zenon DEF IInv
  <1>. QED
    BY <1>1, Invariance, PTL

\* The holder is determined by where the processors are.
LEMMA HolderIs ==
  ASSUME IInv
  PROVE  /\ \A c \in CPU : pc[c] \in Holding <=> Holder = c
         /\ (\A c \in CPU : pc[c] \notin Holding) <=> Holder = NoCPU
  BY CpuAssumption, Zenon DEF IInv, MutualExclusion, Holder

\* A step of the spinlock is a step of the abstract lock or changes no holder.
LEMMA StepRefines ==
  ASSUME IInv, IInv', NEW c \in CPU, Call(c) \/ Step(c)
  PROVE  Lock!Next \/ UNCHANGED Holder
  <1>1. /\ \A d \in CPU : pc[d] \in Holding <=> Holder = d
        /\ (\A d \in CPU : pc[d] \notin Holding) <=> Holder = NoCPU
    BY HolderIs, Zenon
  <1>2. /\ \A d \in CPU : pc'[d] \in Holding <=> Holder' = d
        /\ (\A d \in CPU : pc'[d] \notin Holding) <=> Holder' = NoCPU
    BY CpuAssumption, Zenon DEF IInv, MutualExclusion, Holder
  <1>3. \A d \in CPU \ {c} : pc'[d] = pc[d]
    BY StepFacts, Zenon
  <1>4. CASE Xchg(c) /\ lock = 0
    <2>1. Holder = NoCPU
      BY <1>1, <1>4 DEF IInv, FieldsAgree
    <2>2. pc'[c] \in Holding
      BY <1>4, Zenon DEF Xchg, Goto, IInv, TypeOK, Holding
    <2>3. Holder' = c
      BY <1>2, <2>2, Zenon
    <2>. QED
      BY <2>1, <2>3, Zenon DEF Lock!Next, Lock!Take
  <1>5. CASE Unlock(c)
    <2>1. Holder = c
      BY <1>1, <1>5, Zenon DEF Unlock, Holding
    <2>2. pc'[c] \notin Holding
      BY <1>5, Zenon DEF Unlock, Goto, IInv, TypeOK, Holding
    <2>3. \A d \in CPU : pc'[d] \notin Holding
      BY <1>1, <1>3, <2>1, <2>2, Zenon
    <2>4. Holder' = NoCPU
      BY <1>2, <2>3, Zenon
    <2>. QED
      BY <2>1, <2>4, Zenon DEF Lock!Next, Lock!Give
  <1>6. CASE ~(Xchg(c) /\ lock = 0) /\ ~Unlock(c)
    <2>1. pc'[c] \in Holding <=> pc[c] \in Holding
      BY <1>6, Zenon DEF Call, Step, Xchg, Mark, PrintMessage, CheckCpu, CheckLock, Clear,
                  Goto, IInv, TypeOK, AssertionsHold, Holding
    <2>2. \A d \in CPU : pc'[d] \in Holding <=> pc[d] \in Holding
      BY <1>3, <2>1, Zenon
    <2>3. CASE \E d \in CPU : pc[d] \in Holding
      BY <1>1, <1>2, <2>2, <2>3
    <2>4. CASE \A d \in CPU : pc[d] \notin Holding
      BY <1>1, <1>2, <2>2, <2>4, Zenon
    <2>. QED
      BY <2>3, <2>4, Zenon
  <1>. QED
    BY <1>4, <1>5, <1>6, Zenon

\* The spinlock implements the abstract lock, for every set of processors.
THEOREM Refinement == Spec => MutexSpec
  <1>1. Init => Lock!Init
    BY Zenon DEF Init, Lock!Init, Holder, Holding
  <1>2. IInv /\ IInv' /\ [Next]_vars => [Lock!Next]_Holder
    <2> SUFFICES ASSUME IInv, IInv', [Next]_vars
                 PROVE  Lock!Next \/ UNCHANGED Holder
      BY Zenon
    <2>1. CASE Next
      BY <2>1, StepRefines, Zenon DEF Next
    <2>2. CASE UNCHANGED vars
      BY <2>2, Zenon DEF vars, Holder
    <2>. QED
      BY <2>1, <2>2, Zenon
  <1>. QED
    BY <1>1, <1>2, Invariance, PTL DEF Spec, MutexSpec, Lock!Spec

-----------------------------------------------------------------------------
(* printk and the emulated serial port                                     *)

Pieces == Piece \cup GuestBytes \cup {Header}

\* What printk is asked to write for a line of the guest.
Text(buffer) == <<Header>> \o CString(buffer)

\* The buffer holds what the guest has typed; it is full only while it is being
\* printed.
Buffered ==
  /\ line \in Seq(GuestBytes) /\ shown \in Seq(GuestBytes) /\ flushing \in BOOLEAN
  /\ line = typed
  /\ ~flushing => shown = <<>> /\ Len(line) < LineSize - 1

\* A processor has pieces to write from its call of printk to the last piece.
Queued ==
  /\ todo \in [CPU -> Seq(Pieces)]
  /\ \A c \in CPU : pc[c] \in {"spin", "mark", "print"} <=> todo[c] # <<>>

\* A message that has begun is the one its writer is still writing.
Begun ==
  /\ last \in [by : CPU \cup {NoCPU}, left : Nat]
  /\ last.left > 0 => /\ last.by \in CPU
                      /\ pc[last.by] = "print"
                      /\ last.left = Len(todo[last.by])

\* What is written of the guest's line and what is still to be written make up
\* the line.
Flushed ==
  flushing =>
    /\ pc[VM] # "out"
    /\ pc[VM] \in {"spin", "mark"} => todo[VM] = Text(line) /\ shown = <<>>
    /\ pc[VM] = "print" => \/ todo[VM] = Text(line) /\ shown = <<>>
                           \/ shown \o todo[VM] = CString(line)
    /\ pc[VM] \in {"check_cpu", "check_lock", "clear", "unlock"} => shown = CString(line)

CInv == IInv /\ Buffered /\ Queued /\ Begun /\ Flushed

\* A set of natural numbers that has an element has a least one.
LEMMA Least ==
  ASSUME NEW T, T \subseteq Nat, T # {}
  PROVE  \E x \in T : \A y \in T : x <= y
  <1> DEFINE U == {0 .. k : k \in T}
  <1>1. U \subseteq FiniteSubsetsOf(Nat) /\ U # {}
    <2>1. \A k \in T : IsFiniteSet(0 .. k) /\ 0 .. k \subseteq Nat
      BY FS_Interval
    <2>. QED
      BY <2>1, Zenon DEF FiniteSubsetsOf
  <1> HIDE DEF U
  <1>2. PICK x \in U : \A y \in U : ~(<<y, x>> \in StrictSubsetOrdering(Nat))
    BY <1>1, WFMin, FS_StrictSubsetOrderingWellFounded, Zenon
  <1>3. PICK m \in T : x = 0 .. m
    BY Zenon DEF U
  <1>4. \A k \in T : ~(0 .. k \subseteq 0 .. m /\ 0 .. k # 0 .. m)
    <2> SUFFICES ASSUME NEW k \in T, 0 .. k \subseteq 0 .. m, 0 .. k # 0 .. m
                 PROVE  FALSE
      BY Zenon
    <2>1. 0 .. k \in U
      BY Zenon DEF U
    <2>2. 0 .. k \in SUBSET Nat /\ 0 .. m \in SUBSET Nat
      OBVIOUS
    <2>. QED
      BY <2>1, <2>2, <1>2, <1>3, Zenon DEF StrictSubsetOrdering
  <1>5. \A k \in T : k < m => m \notin 0 .. k /\ m \in 0 .. m /\ 0 .. k \subseteq 0 .. m
    OBVIOUS
  <1>. QED
    BY <1>4, <1>5

\* %s writes a prefix of the buffer, the longest without a NUL.
LEMMA CStringIs ==
  ASSUME NEW b \in Seq(GuestBytes)
  PROVE  \E n \in 0 .. Len(b) :
           /\ CString(b) = SubSeq(b, 1, n) /\ CString(b) \in Seq(GuestBytes)
           /\ n = Len(b) \/ b[n + 1] = Nul
           /\ \A i \in 1 .. n : b[i] # Nul
  <1> DEFINE T == {m \in 0 .. Len(b) : m = Len(b) \/ b[m + 1] = Nul}
             P(n) == /\ n = Len(b) \/ b[n + 1] = Nul
                     /\ \A i \in 1 .. n : b[i] # Nul
             N == CHOOSE n \in 0 .. Len(b) : P(n)
  <1>1. Len(b) \in T /\ T \subseteq Nat
    OBVIOUS
  <1>2. PICK x \in T : \A y \in T : x <= y
    <2> HIDE DEF T
    <2>. QED
      BY <1>1, Least, Zenon
  <1>3. \A i \in 1 .. x : b[i] # Nul
    <2> SUFFICES ASSUME NEW i \in 1 .. x, b[i] = Nul PROVE FALSE
      BY Zenon
    <2>1. i - 1 \in T
      OBVIOUS
    <2>. QED
      BY <2>1, <1>2
  <1>4. \E n \in 0 .. Len(b) : P(n)
    BY <1>3, Zenon
  <1> HIDE DEF P
  <1>5. N \in 0 .. Len(b) /\ P(N)
    BY <1>4, Zenon
  <1>6. CString(b) = SubSeq(b, 1, N)
    BY Zenon DEF CString, P
  <1> HIDE DEF N
  <1>7. SubSeq(b, 1, N) \in Seq(GuestBytes)
    BY <1>5, SubSeqProperties
  <1>. QED
    BY <1>5, <1>6, <1>7, Zenon DEF P

\* The pieces of a line of the guest are bytes, and the header is none.
LEMMA GuestPieces ==
  /\ Header \notin GuestBytes
  /\ Header \in Pieces
  /\ Seq(GuestBytes) \subseteq Seq(Pieces)
  <1>1. Header \notin GuestBytes
    BY Zenon DEF Header, GuestBytes, Newline, Nul
  <1>2. Header \in Pieces /\ GuestBytes \subseteq Pieces
    BY Zenon DEF Pieces
  <1>. QED
    BY <1>1, <1>2, SeqMonotonic, Zenon

\* A message that is not empty is its first piece and the rest.
LEMMA FirstAndRest ==
  ASSUME NEW S, NEW t \in Seq(S), t # <<>>
  PROVE  /\ Head(t) \in S /\ Tail(t) \in Seq(S)
         /\ Len(t) \in Nat \ {0}
         /\ Len(Tail(t)) = Len(t) - 1
         /\ <<Head(t)>> \o Tail(t) = t
         /\ Tail(t) = <<>> <=> Len(t) = 1
  <1>1. /\ Head(t) \in S /\ Tail(t) \in Seq(S)
        /\ Len(Tail(t)) = Len(t) - 1
        /\ \A i \in 1 .. Len(Tail(t)) : Tail(t)[i] = t[i + 1]
    BY HeadTailProperties, Zenon
  <1>2. Len(t) \in Nat \ {0}
    BY EmptySeq, LenProperties, Zenon
  <1>3. Tail(t) = <<>> <=> Len(t) = 1
    <2>1. Tail(t) = <<>> <=> Len(Tail(t)) = 0
      BY <1>1, EmptySeq, Zenon
    <2>. QED
      BY <1>1, <1>2, <2>1
  <1>4. <<Head(t)>> \in Seq(S) /\ Len(<<Head(t)>>) = 1
    BY <1>1
  <1>5. <<Head(t)>> \o Tail(t) \in Seq(S) /\ Len(<<Head(t)>> \o Tail(t)) = Len(t)
    BY <1>1, <1>2, <1>4, ConcatProperties
  <1>6. \A i \in 1 .. Len(t) : (<<Head(t)>> \o Tail(t))[i] = t[i]
    <2> SUFFICES ASSUME NEW i \in 1 .. Len(t)
                 PROVE  (<<Head(t)>> \o Tail(t))[i] = t[i]
      BY Zenon
    <2>1. CASE i = 1
      BY <1>1, <1>2, <1>4, <2>1
    <2>2. CASE i > 1
      <3>1. (<<Head(t)>> \o Tail(t))[i] = Tail(t)[i - 1]
        BY <1>1, <1>2, <1>4, <2>2, ConcatProperties
      <3>. QED
        BY <1>1, <1>2, <2>2, <3>1
    <2>. QED
      BY <1>2, <2>1, <2>2
  <1>7. <<Head(t)>> \o Tail(t) = t
    BY <1>5, <1>6, SeqEqual, Zenon
  <1>. QED
    BY <1>1, <1>2, <1>3, <1>7, Zenon

\* Moving a piece from what is to be written to what is written.
LEMMA MovePiece ==
  ASSUME NEW S, NEW s \in Seq(S), NEW t \in Seq(S), t # <<>>
  PROVE  /\ Append(s, Head(t)) \in Seq(S)
         /\ Append(s, Head(t)) \o Tail(t) = s \o t
         /\ Len(t) = 1 => Append(s, Head(t)) = s \o t
  <1>1. /\ Head(t) \in S /\ Tail(t) \in Seq(S) /\ <<Head(t)>> \o Tail(t) = t
        /\ Tail(t) = <<>> <=> Len(t) = 1
    BY FirstAndRest, Zenon
  <1>2. Append(s, Head(t)) \in Seq(S) /\ <<Head(t)>> \in Seq(S)
    BY <1>1
  <1>3. Append(s, Head(t)) = s \o <<Head(t)>>
    BY <1>1, AppendIsConcat, Zenon
  <1>4. (s \o <<Head(t)>>) \o Tail(t) = s \o t
    BY <1>1, <1>2, ConcatAssociative
  <1>5. Len(t) = 1 => Append(s, Head(t)) \o Tail(t) = Append(s, Head(t))
    BY <1>1, <1>2, ConcatEmptySeq, Zenon
  <1>. QED
    BY <1>2, <1>3, <1>4, <1>5, Zenon

\* The rest of a line is bytes as well.
LEMMA RestOfLine ==
  ASSUME NEW S, NEW T, T \subseteq S, NEW s \in Seq(T), NEW t \in Seq(S), s \o t \in Seq(T)
  PROVE  t \in Seq(T)
  <1>1. s \in Seq(S)
    BY SeqMonotonic, Zenon
  <1>2. \A i \in 1 .. Len(t) : t[i] = (s \o t)[Len(s) + i] /\ Len(s) + i \in 1 .. Len(s \o t)
    BY <1>1, ConcatProperties, LenProperties
  <1>3. \A i \in 1 .. Len(t) : t[i] \in T
    BY <1>2, ElementOfSeq, Zenon
  <1>. QED
    BY <1>3, LenProperties, IsASeq

\* What the header is followed by.
LEMMA AfterHeader ==
  ASSUME NEW S, NEW h \in S, NEW t \in Seq(S)
  PROVE  /\ <<h>> \o t \in Seq(S) /\ <<h>> \o t # <<>>
         /\ Head(<<h>> \o t) = h
         /\ Tail(<<h>> \o t) = t
         /\ Len(<<h>> \o t) = Len(t) + 1
  <1>1. <<h>> \in Seq(S)
    OBVIOUS
  <1>2. <<h>> \o t \in Seq(S) /\ Len(<<h>> \o t) = Len(t) + 1
    BY <1>1
  <1>. QED
    BY <1>1, <1>2

\* Only the writer writes: the piece that follows is one of the same message.
LEMMA NextPiece ==
  ASSUME CInv, NEW c \in CPU, write_serial(c), last.left > 0
  PROVE  last' = [by |-> last.by, left |-> last.left - 1]
  <1>1. pc[c] = "print" /\ pc[last.by] = "print" /\ last.by \in CPU
    BY Zenon DEF write_serial, CInv, Begun
  <1>2. c = last.by
    BY <1>1, Zenon DEF CInv, IInv, MutualExclusion, Holding
  <1>. QED
    BY <1>2, Zenon DEF write_serial, CInv, Begun

\* A piece is written.
LEMMA WriteInv ==
  ASSUME CInv, NEW c \in CPU, write_serial(c)
  PROVE  CInv'
  <1>1. /\ pc[c] = "print" /\ todo[c] # <<>> /\ todo[c] \in Seq(Pieces)
        /\ todo \in [CPU -> Seq(Pieces)] /\ pc \in [CPU -> Places]
    BY Zenon DEF write_serial, CInv, Queued, IInv, TypeOK
  <1>2. /\ Tail(todo[c]) \in Seq(Pieces)
        /\ Len(Tail(todo[c])) = Len(todo[c]) - 1
        /\ Len(todo[c]) \in Nat \ {0}
        /\ Tail(todo[c]) = <<>> <=> Len(todo[c]) = 1
    BY <1>1, FirstAndRest, Zenon
  <1>3. /\ todo' = [todo EXCEPT ![c] = Tail(todo[c])]
        /\ UNCHANGED <<line, flushing, typed>>
        /\ Len(todo[c]) = 1 => pc' = [pc EXCEPT ![c] = "check_cpu"]
        /\ Len(todo[c]) # 1 => pc' = pc
    BY Zenon DEF write_serial, PrintMessage, Goto, vars
  <1>4. IInv'
    <2>1. CASE PrintMessage(c)
      BY <2>1, StepInv, Zenon DEF CInv, Step
    <2>2. CASE UNCHANGED vars
      BY <2>2, Zenon DEF CInv, vars, IInv, TypeOK, MutualExclusion, AssertionsHold, FieldsAgree
    <2>. QED
      BY <2>1, <2>2, Zenon DEF write_serial
  <1>5. Queued'
    BY <1>1, <1>2, <1>3, Zenon DEF CInv, Queued
  <1>6. Begun'
    <2>1. last' = [by |-> c, left |-> Len(todo[c]) - 1]
      BY Zenon DEF write_serial
    <2>2. Len(todo[c]) # 1 => pc'[c] = "print" /\ Len(todo'[c]) = Len(todo[c]) - 1
      BY <1>1, <1>2, <1>3, Zenon
    <2>3. last'.by = c /\ last'.left = Len(todo[c]) - 1
      BY <2>1, Zenon
    <2>4. Len(todo[c]) - 1 \in Nat /\ (Len(todo[c]) - 1 > 0 => Len(todo[c]) # 1)
      <3> DEFINE n == Len(todo[c])
      <3>1. n \in Nat \ {0}
        BY <1>2, Zenon
      <3> HIDE DEF n
      <3>2. n - 1 \in Nat /\ (n - 1 > 0 => n # 1)
        BY <3>1
      <3>. QED
        BY <3>2, Zenon DEF n
    <2>5. last' \in [by : CPU \cup {NoCPU}, left : Nat]
      BY <2>1, <2>4, Zenon
    <2>. QED
      BY <2>2, <2>3, <2>4, <2>5, Zenon DEF Begun
  <1>7. CASE ~(c = VM /\ flushing)
    <2>1. UNCHANGED shown
      BY <1>7, Zenon DEF write_serial
    <2>2. Buffered'
      BY <2>1, <1>3, Zenon DEF CInv, Buffered
    <2>3. flushing => pc'[VM] = pc[VM] /\ todo'[VM] = todo[VM]
      BY <1>1, <1>3, <1>7, ConsoleAssumption, Zenon
    <2>4. Flushed'
      BY <2>1, <2>3, <1>3, Zenon DEF CInv, Flushed
    <2>. QED
      BY <1>4, <1>5, <1>6, <2>2, <2>4, Zenon DEF CInv
  <1>8. CASE c = VM /\ flushing
    <2>1. /\ line \in Seq(GuestBytes) /\ shown \in Seq(GuestBytes)
          /\ CString(line) \in Seq(GuestBytes)
          /\ CString(line) \in Seq(Pieces) /\ Header \in Pieces
      BY CStringIs, GuestPieces, Zenon DEF CInv, Buffered
    <2>2. /\ pc[VM] = "print"
          /\ \/ todo[VM] = Text(line) /\ shown = <<>>
             \/ shown \o todo[VM] = CString(line)
      BY <1>1, <1>8, Zenon DEF CInv, Flushed
    <2>3. /\ shown' \in Seq(GuestBytes)
          /\ shown' \o Tail(todo[VM]) = CString(line)
          /\ Len(todo[VM]) = 1 => shown' = CString(line)
      <3>1. CASE todo[VM] = Text(line) /\ shown = <<>>
        <4>1. /\ Head(todo[VM]) = Header /\ Tail(todo[VM]) = CString(line)
              /\ Len(todo[VM]) = Len(CString(line)) + 1
          BY <2>1, <3>1, AfterHeader DEF Text
        <4>2. shown' = <<>>
          BY <3>1, <4>1, <1>8, Zenon DEF write_serial
        <4>. QED
          BY <2>1, <4>1, <4>2
      <3>2. CASE shown \o todo[VM] = CString(line)
        <4>1. todo[VM] \in Seq(GuestBytes) /\ todo[VM] # <<>>
          <5>1. GuestBytes \subseteq Pieces
            BY Zenon DEF Pieces
          <5>2. shown \o todo[VM] \in Seq(GuestBytes)
            BY <2>1, <3>2, Zenon
          <5>3. todo[VM] \in Seq(Pieces) /\ todo[VM] # <<>>
            BY <1>1, <1>8, Zenon
          <5>. QED
            BY <2>1, <5>1, <5>2, <5>3, RestOfLine, Zenon
        <4>2. Head(todo[VM]) \in GuestBytes
          BY <4>1, HeadTailProperties, Zenon
        <4>3. shown' = Append(shown, Head(todo[VM]))
          BY <4>2, <1>8, GuestPieces, Zenon DEF write_serial
        <4>4. /\ Append(shown, Head(todo[VM])) \in Seq(GuestBytes)
              /\ Append(shown, Head(todo[VM])) \o Tail(todo[VM]) = shown \o todo[VM]
              /\ Len(todo[VM]) = 1 => Append(shown, Head(todo[VM])) = shown \o todo[VM]
          BY <4>1, <2>1, MovePiece, Zenon
        <4>. QED
          BY <4>3, <4>4, <3>2, Zenon
      <3>. QED
        BY <2>2, <3>1, <3>2, Zenon
    <2>4. Buffered'
      BY <2>3, <1>3, <1>8, Zenon DEF CInv, Buffered
    <2>5. Flushed'
      BY <2>3, <1>1, <1>2, <1>3, <1>8, ConsoleAssumption, Zenon DEF Flushed
    <2>. QED
      BY <1>4, <1>5, <1>6, <2>4, <2>5, Zenon DEF CInv
  <1>. QED
    BY <1>7, <1>8, Zenon

\* There is room in an empty buffer.
LEMMA EmptyBuffer == <<>> \in Seq(GuestBytes) /\ Len(<<>>) < LineSize - 1
  <1>1. <<>> \in Seq(GuestBytes) /\ Len(<<>>) = 0
    BY EmptySeq, Zenon
  <1>2. 0 < LineSize - 1
    BY ConsoleAssumption
  <1>. QED
    BY <1>1, <1>2, Zenon

\* The buffers are empty at first.
LEMMA ConsoleInitInv == ConsoleInit => CInv
  <1> SUFFICES ASSUME ConsoleInit PROVE CInv
    BY Zenon
  <1>1. IInv
    BY InitInv, Zenon DEF ConsoleInit
  <1>2. Buffered
    BY EmptyBuffer, Zenon DEF ConsoleInit, Buffered
  <1>3. Queued
    BY EmptySeq, Zenon DEF ConsoleInit, Init, Queued
  <1>4. Begun /\ Flushed
    BY DEF ConsoleInit, Begun, Flushed
  <1>. QED
    BY <1>1, <1>2, <1>3, <1>4, Zenon DEF CInv

\* The lock's own steps touch no buffer, and move no processor that writes.
LEMMA LockInv ==
  ASSUME CInv, NEW c \in CPU, LockStep(c)
  PROVE  CInv'
  <1>1. IInv'
    BY StepInv, Zenon DEF LockStep, CInv, Step
  <1>2. UNCHANGED <<todo, last, line, flushing, typed, shown>>
    BY Zenon DEF LockStep, cvars
  <1>3. \A d \in CPU : d # c => pc'[d] = pc[d]
    BY Zenon DEF LockStep, CInv, IInv, TypeOK, Xchg, Mark, CheckCpu, CheckLock, Clear, Goto
  <1>4. \/ pc[c] = "spin" /\ pc'[c] \in {"spin", "mark"}
        \/ pc[c] = "mark" /\ pc'[c] = "print"
        \/ pc[c] = "check_cpu" /\ pc'[c] \in {"check_lock", "halted"}
        \/ pc[c] = "check_lock" /\ pc'[c] \in {"clear", "halted"}
        \/ pc[c] = "clear" /\ pc'[c] = "unlock"
    BY Zenon DEF LockStep, CInv, IInv, TypeOK, Xchg, Mark, CheckCpu, CheckLock, Clear, Goto
  <1>5. Buffered'
    BY <1>2, Zenon DEF CInv, Buffered
  <1>6. Queued'
    BY <1>2, <1>3, <1>4, Zenon DEF CInv, Queued
  <1>7. Begun'
    BY <1>2, <1>3, <1>4, Zenon DEF CInv, Begun
  <1>8. Flushed'
    BY <1>2, <1>3, <1>4, ConsoleAssumption, Zenon DEF CInv, Flushed
  <1>. QED
    BY <1>1, <1>5, <1>6, <1>7, <1>8, Zenon DEF CInv

\* printk is called for a message of the kernel.
LEMMA PrintkInv ==
  ASSUME CInv, NEW c \in CPU, printk(c)
  PROVE  CInv'
  <1>1. IInv'
    BY StepInv, Zenon DEF printk, CInv
  <1>2. /\ UNCHANGED <<last, line, flushing, typed, shown>>
        /\ pc[c] = "out" /\ pc' = [pc EXCEPT ![c] = "spin"]
        /\ todo' = [todo EXCEPT ![c] = Message]
    BY Zenon DEF printk, Call, Goto
  <1>3. Message \in Seq(Pieces) /\ Message # <<>>
    BY ConsoleAssumption, SeqMonotonic, Zenon DEF Pieces
  <1>4. pc \in [CPU -> Places]
    BY Zenon DEF CInv, IInv, TypeOK
  <1>5. Buffered'
    BY <1>2, Zenon DEF CInv, Buffered
  <1>6. Queued'
    BY <1>2, <1>3, <1>4, Zenon DEF CInv, Queued
  <1>7. Begun'
    BY <1>2, <1>4 DEF CInv, Begun
  <1>8. Flushed'
    BY <1>2, <1>4, ConsoleAssumption, Zenon DEF CInv, Flushed, Queued
  <1>. QED
    BY <1>1, <1>5, <1>6, <1>7, <1>8, Zenon DEF CInv

\* printk returns, and device_serial_outb clears its buffer.
LEMMA ReleaseInv ==
  ASSUME CInv, NEW c \in CPU, Release(c)
  PROVE  CInv'
  <1>1. IInv'
    BY StepInv, Zenon DEF Release, CInv, Step
  <1>2. /\ UNCHANGED <<todo, last>>
        /\ pc[c] = "unlock" /\ pc' = [pc EXCEPT ![c] = pc'[c]]
        /\ pc'[c] \in {"out", "halted"}
        /\ pc \in [CPU -> Places]
    BY Zenon DEF Release, Unlock, Goto, CInv, IInv, TypeOK
  <1>3. \A d \in CPU : d # c => pc'[d] = pc[d]
    BY <1>2, Zenon
  <1>5. Buffered'
    <2>1. CASE c = VM /\ flushing
      BY <2>1, EmptyBuffer, Zenon DEF Release, Buffered
    <2>2. CASE ~(c = VM /\ flushing)
      BY <2>2, Zenon DEF Release, CInv, Buffered
    <2>. QED
      BY <2>1, <2>2, Zenon
  <1>6. Queued'
    BY <1>2, <1>3, Zenon DEF CInv, Queued
  <1>7. Begun'
    BY <1>2, <1>3, Zenon DEF CInv, Begun
  <1>8. Flushed'
    BY <1>2, <1>3, ConsoleAssumption, Zenon DEF Release, CInv, Flushed
  <1>. QED
    BY <1>1, <1>5, <1>6, <1>7, <1>8, Zenon DEF CInv

\* The assertion of device_serial_outb holds: when the guest writes a byte the
\* buffer is not being printed, and so it has room.
LEMMA Room ==
  ASSUME CInv, NEW byte \in GuestBytes, device_serial_outb(byte)
  PROVE  ~flushing /\ shown = <<>> /\ ~(Len(line) >= LineSize - 1)
  <1>1. ~flushing
    BY Zenon DEF device_serial_outb, CInv, Flushed
  <1>2. Len(line) \in Nat /\ Len(line) < LineSize - 1 /\ shown = <<>>
    BY <1>1, LenProperties, Zenon DEF CInv, Buffered
  <1>. QED
    BY <1>1, <1>2, ConsoleAssumption

\* The guest writes a byte.
LEMMA OutbInv ==
  ASSUME CInv, NEW byte \in GuestBytes, device_serial_outb(byte)
  PROVE  /\ CInv'
         /\ Call(VM) \/ UNCHANGED vars
  <1> USE ConsoleAssumption
  <1> DEFINE full == Append(line, byte)
  <1>1. ~flushing /\ shown = <<>> /\ ~(Len(line) >= LineSize - 1)
    BY Room, Zenon
  <1>2. /\ line' = full /\ typed' = full /\ UNCHANGED <<last, shown>>
        /\ pc[VM] = "out"
        /\ \/ /\ Flushes(full) /\ Call(VM) /\ flushing' = TRUE
              /\ todo' = [todo EXCEPT ![VM] = Text(full)]
           \/ ~Flushes(full) /\ UNCHANGED <<vars, todo, flushing>>
    BY <1>1, Zenon DEF device_serial_outb, CInv, Buffered, Text
  <1>3. Call(VM) \/ UNCHANGED vars
    BY <1>2, Zenon
  <1>4. IInv'
    <2>1. CASE Call(VM)
      BY <2>1, StepInv, Zenon DEF CInv
    <2>2. CASE UNCHANGED vars
      BY <2>2, Zenon DEF CInv, vars, IInv, TypeOK, MutualExclusion, AssertionsHold, FieldsAgree
    <2>. QED
      BY <1>3, <2>1, <2>2, Zenon
  <1>5. /\ full \in Seq(GuestBytes)
        /\ ~Flushes(full) => Len(full) < LineSize - 1
    <2>1. /\ full \in Seq(GuestBytes)
          /\ Len(full) = Len(line) + 1 /\ Len(line) \in Nat
      BY AppendProperties, LenProperties DEF CInv, Buffered
    <2>2. ~Flushes(full) => Len(full) # LineSize - 1
      BY Zenon DEF Flushes
    <2> HIDE DEF full
    <2>. QED
      BY <2>1, <2>2, <1>1
  <1>6. Text(full) \in Seq(Pieces) /\ Text(full) # <<>>
    <2>1. CString(full) \in Seq(Pieces) /\ Header \in Pieces
      BY <1>5, CStringIs, GuestPieces, Zenon
    <2>. QED
      BY <2>1, AfterHeader, Zenon DEF Text
  <1> HIDE DEF full
  <1>7. Buffered'
    BY <1>1, <1>2, <1>5, Zenon DEF CInv, Buffered
  <1>8. /\ pc \in [CPU -> Places]
        /\ Call(VM) => pc' = [pc EXCEPT ![VM] = "spin"]
        /\ UNCHANGED vars => pc' = pc
    BY Zenon DEF CInv, IInv, TypeOK, Call, Goto, vars
  <1>9. Queued'
    BY <1>2, <1>6, <1>8, Zenon DEF CInv, Queued
  <1>10. Begun'
    <2>1. \A d \in CPU : pc[d] = "print" => pc'[d] = "print" /\ todo'[d] = todo[d]
      BY <1>2, <1>8, Zenon DEF CInv, Queued
    <2>2. last' = last
      BY <1>2, Zenon
    <2>. QED
      BY <2>1, <2>2, Zenon DEF CInv, Begun
  <1>11. Flushed'
    BY <1>1, <1>2, <1>8, Zenon DEF CInv, Queued, Flushed
  <1>. QED
    BY <1>3, <1>4, <1>7, <1>9, <1>10, <1>11, Zenon DEF CInv

\* The invariant of the console is kept by every step.
LEMMA ConsoleStep == CInv /\ [ConsoleNext]_allvars => CInv'
  <1> SUFFICES ASSUME CInv, [ConsoleNext]_allvars PROVE CInv'
    BY Zenon
  <1>1. ASSUME NEW c \in CPU, printk(c) \/ CpuStep(c) PROVE CInv'
    BY <1>1, PrintkInv, LockInv, WriteInv, ReleaseInv, Zenon DEF CpuStep
  <1>2. ASSUME NEW byte \in GuestBytes, device_serial_outb(byte) PROVE CInv'
    BY <1>2, OutbInv, Zenon
  <1>3. CASE UNCHANGED allvars
    BY <1>3, Zenon DEF allvars, vars, cvars, CInv, IInv, TypeOK, MutualExclusion, AssertionsHold,
                FieldsAgree, Buffered, Queued, Begun, Flushed
  <1>. QED
    BY <1>1, <1>2, <1>3, Zenon DEF ConsoleNext

\* The invariant of the console holds throughout.
THEOREM ConsoleInvariance == ConsoleSpec => []CInv
  BY ConsoleInitInv, ConsoleStep, PTL DEF ConsoleSpec

\* Every printk takes and gives back the lock as Spinlock describes, so what is
\* proved of the lock holds of the console.
THEOREM UsesLock == ConsoleSpec => Spec
  <1>1. ConsoleInit => Init
    BY Zenon DEF ConsoleInit
  <1>2. CInv /\ [ConsoleNext]_allvars => [Next]_vars
    <2> SUFFICES ASSUME CInv, [ConsoleNext]_allvars PROVE Next \/ UNCHANGED vars
      BY Zenon
    <2>1. ASSUME NEW c \in CPU, printk(c) PROVE Next
      BY <2>1, Zenon DEF printk, Next
    <2>2. ASSUME NEW c \in CPU, CpuStep(c) PROVE Next \/ UNCHANGED vars
      BY <2>2, Zenon DEF CpuStep, LockStep, write_serial, Release, Step, Next
    <2>3. ASSUME NEW byte \in GuestBytes, device_serial_outb(byte)
          PROVE  Next \/ UNCHANGED vars
      BY <2>3, OutbInv, ConsoleAssumption, Zenon DEF Next
    <2>4. CASE UNCHANGED allvars
      BY <2>4, Zenon DEF allvars
    <2>. QED
      BY <2>1, <2>2, <2>3, <2>4, Zenon DEF ConsoleNext
  <1>. QED
    BY <1>1, <1>2, ConsoleInvariance, PTL DEF ConsoleSpec, Spec

\* A message reaches the serial line in one piece, for any number of processors
\* and messages of any length.
THEOREM WholeMessages == ConsoleSpec => MessagesWhole
  <1> DEFINE Whole == last' # last /\ last.left > 0 =>
                        last' = [by |-> last.by, left |-> last.left - 1]
  <1>1. CInv /\ [ConsoleNext]_allvars => [Whole]_allvars
    <2> SUFFICES ASSUME CInv, ConsoleNext, last' # last, last.left > 0
                 PROVE  last' = [by |-> last.by, left |-> last.left - 1]
      BY Zenon
    <2>1. \E c \in CPU : write_serial(c)
      BY Zenon DEF ConsoleNext, printk, CpuStep, LockStep, cvars, Release, device_serial_outb
    <2>. QED
      BY <2>1, NextPiece, Zenon
  <1>. QED
    BY <1>1, ConsoleInvariance, PTL DEF ConsoleSpec, MessagesWhole

\* Every byte the guest writes is printed once and in its order, for every size
\* of the line buffer.
THEOREM GuestLines == ConsoleSpec => []GuestLineShown
  <1>1. CInv => GuestLineShown
    BY Zenon DEF CInv, Buffered, Flushed, GuestLineShown
  <1>. QED
    BY <1>1, ConsoleInvariance, PTL

=============================================================================
