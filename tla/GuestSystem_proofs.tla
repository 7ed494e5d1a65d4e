------------------------- MODULE GuestSystem_proofs -------------------------
(***************************************************************************)
(* The invariants of the interrupt protocol, for every guest, every ring   *)
(* size and every timing of the host's interrupts; and of the monitor with *)
(* the guest that ships with it, for every size of the ring, every set of  *)
(* scancodes and every number of keys.                                     *)
(***************************************************************************)
EXTENDS GuestSystem, ByteStream, WellFoundedInduction, TLAPS

(***************************************************************************)
(* What one turn of the ring's loops does to the bytes the ring holds, for *)
(* every ring size.  The modulo arithmetic is confined to the first three  *)
(* lemmas; the others reason about indices and a case split.               *)
(***************************************************************************)

\* An index advanced by one, as both loops advance it (ring.h 49, 67).
LEMMA Advance ==
  ASSUME NEW f \in 0 .. RingSize - 1
  PROVE  (f + 1) % RingSize = IF f + 1 = RingSize THEN 0 ELSE f + 1
  BY RingSizeAssumption, SMTT(40)

\* The distance between two indices, as ring_length computes it (ring.h 36).
LEMMA Distance ==
  ASSUME NEW f \in 0 .. RingSize - 1, NEW e \in 0 .. RingSize - 1
  PROVE  (e + RingSize - f) % RingSize =
           IF e >= f THEN e - f ELSE e + RingSize - f
  BY RingSizeAssumption, SMTT(40)

\* The slot of the i-th byte of a ring whose front is f.
LEMMA Slot ==
  ASSUME NEW f \in 0 .. RingSize - 1, NEW i \in 1 .. RingSize
  PROVE  (f + i - 1) % RingSize =
           IF f + i - 1 < RingSize THEN f + i - 1 ELSE f + i - 1 - RingSize
  BY RingSizeAssumption, SMTT(40)

\* The fields of a ring have their types.
LEMMA RingFields ==
  ASSUME NEW r \in Ring
  PROVE  /\ r.front \in 0 .. RingSize - 1
         /\ r.rear \in 0 .. RingSize - 1
         /\ r.buffer \in [0 .. RingSize - 1 -> Byte]
         /\ r = [front |-> r.front, rear |-> r.rear, buffer |-> r.buffer]
  BY DEF Ring

\* The length of a ring is the distance from front to rear (ring.h 33-37).
LEMMA LengthIs ==
  ASSUME NEW r \in Ring
  PROVE  /\ ring_length(r) = IF r.rear >= r.front
                             THEN r.rear - r.front
                             ELSE r.rear + RingSize - r.front
         /\ ring_length(r) \in 0 .. RingSize - 1
  <1>1. ring_length(r) = IF r.rear >= r.front
                         THEN r.rear - r.front
                         ELSE r.rear + RingSize - r.front
    BY RingFields, Distance DEF ring_length
  <1>. QED
    BY <1>1, RingFields, RingSizeAssumption, SMTT(40)

\* The emptiness and fullness tests against the length (ring.h 25-37).
LEMMA EmptyFull ==
  ASSUME NEW r \in Ring
  PROVE  /\ ring_empty(r) <=> ring_length(r) = 0
         /\ ring_full(r) <=> ring_length(r) = RingSize - 1
  <1> DEFINE n == (r.rear + 1) % RingSize
  <1>1. n = IF r.rear + 1 = RingSize THEN 0 ELSE r.rear + 1
    BY RingFields, Advance
  <1>2. ring_full(r) <=> n = r.front
    BY DEF ring_full
  <1> HIDE DEF n
  <1>. QED
    BY <1>1, <1>2, RingFields, LengthIs, RingSizeAssumption, SMTT(40) DEF ring_empty

\* The slot Contents reads for each of its positions.
LEMMA ContentsAt ==
  ASSUME NEW r \in Ring, NEW i \in 1 .. ring_length(r)
  PROVE  Contents(r)[i] = r.buffer[IF r.front + i - 1 < RingSize
                                   THEN r.front + i - 1
                                   ELSE r.front + i - 1 - RingSize]
  <1>1. i \in 1 .. RingSize
    BY LengthIs, RingSizeAssumption, SMTT(40)
  <1>2. Contents(r)[i] = r.buffer[(r.front + i - 1) % RingSize]
    BY DEF Contents
  <1>3. (r.front + i - 1) % RingSize =
          IF r.front + i - 1 < RingSize
          THEN r.front + i - 1
          ELSE r.front + i - 1 - RingSize
    BY <1>1, RingFields, Slot
  <1>. QED
    BY <1>2, <1>3

\* A turn of write_ring on a ring that is not full stores one byte behind
\* the others and moves none of them (ring.h 39-54, 74-78).
LEMMA PutByteAppends ==
  ASSUME NEW r \in Ring, NEW b \in Byte, ~ring_full(r)
  PROVE  /\ PutByte(r, b) \in Ring
         /\ ring_length(PutByte(r, b)) = ring_length(r) + 1
         /\ \A i \in 1 .. ring_length(r) + 1 :
              Contents(PutByte(r, b))[i] =
                IF i <= ring_length(r) THEN Contents(r)[i] ELSE b
  <1> DEFINE n == (r.rear + 1) % RingSize
             buf == [r.buffer EXCEPT ![r.rear] = b]
             s == PutByte(r, b)
  <1>1. n = IF r.rear + 1 = RingSize THEN 0 ELSE r.rear + 1
    BY RingFields, Advance
  <1>2. s = [r EXCEPT !.buffer[r.rear] = b, !.rear = n]
    BY DEF PutByte
  <1> HIDE DEF n
  <1>3. s = [front |-> r.front, rear |-> n, buffer |-> buf]
    BY <1>2, Zenon DEF Ring
  <1> HIDE DEF s
  <1>4. n \in 0 .. RingSize - 1
    BY <1>1, RingFields, RingSizeAssumption
  <1>5. s \in Ring
    BY <1>3, <1>4, RingFields DEF Ring
  <1>6. ring_length(s) = ring_length(r) + 1
    <2>1. ring_length(r) # RingSize - 1
      BY EmptyFull
    <2>2. s.front = r.front /\ s.rear = n
      BY <1>3
    <2>. QED
      BY <1>1, <1>5, <2>1, <2>2, RingFields, LengthIs, RingSizeAssumption, SMTT(40)
  <1>7. ASSUME NEW i \in 1 .. ring_length(r) + 1
        PROVE  Contents(s)[i] = IF i <= ring_length(r) THEN Contents(r)[i] ELSE b
    <2> DEFINE k == IF r.front + i - 1 < RingSize
                    THEN r.front + i - 1
                    ELSE r.front + i - 1 - RingSize
    <2>1. Contents(s)[i] = buf[k]
      <3>1. i \in 1 .. ring_length(s)
        BY <1>6
      <3>2. Contents(s)[i] = s.buffer[IF s.front + i - 1 < RingSize
                                      THEN s.front + i - 1
                                      ELSE s.front + i - 1 - RingSize]
        BY <1>5, <3>1, ContentsAt
      <3>3. s.front = r.front /\ s.buffer = buf
        BY <1>3
      <3>. QED
        BY <3>2, <3>3
    <2>2. CASE i <= ring_length(r)
      <3>1. i \in 1 .. ring_length(r)
        BY <2>2, LengthIs
      <3>2. Contents(r)[i] = r.buffer[k]
        BY <3>1, ContentsAt
      <3>3. k # r.rear
        BY <2>2, RingFields, LengthIs, RingSizeAssumption, SMTT(40)
      <3>4. k \in 0 .. RingSize - 1
        BY <2>2, RingFields, LengthIs, RingSizeAssumption, SMTT(40)
      <3>. QED
        BY <2>1, <2>2, <3>2, <3>3, <3>4, RingFields
    <2>3. CASE ~(i <= ring_length(r))
      <3>1. i = ring_length(r) + 1
        BY <2>3, LengthIs
      <3>2. k = r.rear
        <4>1. CASE r.rear >= r.front
          BY <3>1, <4>1, RingFields, LengthIs, RingSizeAssumption, SMTT(40)
        <4>2. CASE ~(r.rear >= r.front)
          BY <3>1, <4>2, RingFields, LengthIs, RingSizeAssumption, SMTT(40)
        <4>. QED
          BY <4>1, <4>2
      <3>. QED
        BY <2>1, <2>3, <3>2, RingFields, Zenon
    <2>. QED
      BY <2>2, <2>3
  <1>. QED
    BY <1>5, <1>6, <1>7 DEF s

\* A turn of read_ring on a ring that is not empty drops the oldest byte, the
\* one ring_peek shows, and moves no other (ring.h 56-72, 80-90).
LEMMA TakeByteDropsFirst ==
  ASSUME NEW r \in Ring, ~ring_empty(r)
  PROVE  /\ TakeByte(r) \in Ring
         /\ ring_length(TakeByte(r)) = ring_length(r) - 1
         /\ ring_peek(r) = Contents(r)[1]
         /\ \A i \in 1 .. ring_length(r) - 1 :
              Contents(TakeByte(r))[i] = Contents(r)[i + 1]
  <1> DEFINE n == (r.front + 1) % RingSize
             s == TakeByte(r)
  <1>1. n = IF r.front + 1 = RingSize THEN 0 ELSE r.front + 1
    BY RingFields, Advance
  <1>2. s = [r EXCEPT !.front = n]
    BY DEF TakeByte
  <1> HIDE DEF n
  <1>3. s = [front |-> n, rear |-> r.rear, buffer |-> r.buffer]
    BY <1>2 DEF Ring
  <1> HIDE DEF s
  <1>4. n \in 0 .. RingSize - 1
    BY <1>1, RingFields, RingSizeAssumption
  <1>5. s \in Ring
    BY <1>3, <1>4, RingFields DEF Ring
  <1>6. ring_length(r) # 0
    BY EmptyFull
  <1>7. ring_length(s) = ring_length(r) - 1
    <2>1. s.front = n /\ s.rear = r.rear
      BY <1>3
    <2>. QED
      BY <1>1, <1>5, <1>6, <2>1, RingFields, LengthIs, RingSizeAssumption, SMTT(40)
  <1>8. ring_peek(r) = Contents(r)[1]
    <2>1. 1 \in 1 .. ring_length(r)
      BY <1>6, LengthIs, RingSizeAssumption, SMTT(40)
    <2>2. r.front + 1 - 1 = r.front /\ r.front < RingSize
      BY RingFields, RingSizeAssumption
    <2>. QED
      BY <2>1, <2>2, ContentsAt DEF ring_peek
  <1>9. ASSUME NEW i \in 1 .. ring_length(r) - 1
        PROVE  Contents(s)[i] = Contents(r)[i + 1]
    <2> DEFINE k(f, j) == IF f + j - 1 < RingSize
                          THEN f + j - 1
                          ELSE f + j - 1 - RingSize
    <2>1. i \in 1 .. ring_length(s) /\ i + 1 \in 1 .. ring_length(r)
      BY <1>7, LengthIs, RingSizeAssumption, SMTT(40)
    <2>2. Contents(s)[i] = r.buffer[k(n, i)]
      BY <1>3, <1>5, <2>1, ContentsAt
    <2>3. Contents(r)[i + 1] = r.buffer[k(r.front, i + 1)]
      BY <2>1, ContentsAt
    <2>4. k(n, i) = k(r.front, i + 1)
      <3>0. i \in Int /\ r.front \in Int /\ RingSize \in Int
              /\ 1 <= i /\ i < RingSize
        BY RingFields, LengthIs, RingSizeAssumption, SMTT(40)
      <3>1. CASE r.front + 1 = RingSize
        <4>1. n = 0 /\ r.front = RingSize - 1
          BY <1>1, <3>0, <3>1
        <4>. QED
          BY <3>0, <4>1
      <3>2. CASE r.front + 1 # RingSize
        <4>1. n = r.front + 1
          BY <1>1, <3>2
        <4>. QED
          BY <3>0, <4>1
      <3>. QED
        BY <3>1, <3>2
    <2>. QED
      BY <2>2, <2>3, <2>4
  <1>. QED
    BY <1>5, <1>7, <1>8, <1>9 DEF s

(***************************************************************************)
(* The interrupt protocol.                                                 *)
(***************************************************************************)

USE DEF PIC_INVALID_VECTOR, TIMER_PIN, KEYBOARD_PIN

\* The initial state satisfies the inductive invariant.
LEMMA InitInv == Init => IInv
  <1> SUFFICES ASSUME Init PROVE IInv
    OBVIOUS
  <1>1. kbd \in Ring
    BY RingSizeAssumption, GuestAssumption DEF Init, Ring
  <1>2. ring_length(kbd) = 0
    BY <1>1, LengthIs DEF Init
  <1>3. pic \in PicType /\ pic.interrupt_delivery_vector = 0
          /\ pic.interrupt_delivery_pending = FALSE
    BY DEF Init, InitialPic, PicType, UInt8, Pins
  <1>4. pit \in PitType /\ pit.initial_counter = 0
    BY DEF Init, InitialPit, PitType, UInt16
  <1>5. /\ interrupt_request_bitmap = {} /\ window = TRUE /\ rflags_if = FALSE
        /\ host = "running" /\ typed = <<>> /\ taken = 0 /\ delivered = {}
    BY DEF Init
  <1>6. TypeOK
    <2>1. typed \in Seq(Byte) /\ taken \in Nat
      BY <1>5
    <2>. QED
      BY <1>1, <1>3, <1>4, <1>5, <2>1, ZenonT(60) DEF TypeOK
  <1>7. KeysInOrder
    BY <1>2, <1>5 DEF KeysInOrder
  <1>. QED
    BY <1>3, <1>4, <1>5, <1>6, <1>7
    DEF IInv, TwoPins, KeyboardHeld, HalfDivisor, WindowArmed,
        InServiceRequested, KeyPinBacked

\* The first requested pin is one of the requests.
LEMMA FirstRequestIn ==
  ASSUME NEW requests \in SUBSET {TIMER_PIN, KEYBOARD_PIN}, requests # {}
  PROVE  FirstRequest(requests) \in requests
  <1>1. \E idx \in requests : \A other \in requests : idx <= other
    <2>1. CASE TIMER_PIN \in requests
      BY <2>1
    <2>2. CASE TIMER_PIN \notin requests
      <3>1. KEYBOARD_PIN \in requests /\ \A other \in requests : other = KEYBOARD_PIN
        BY <2>2, Zenon
      <3>. QED
        BY <3>1
    <2>. QED
      BY <2>1, <2>2
  <1>. QED
    BY <1>1, Zenon DEF FirstRequest

\* raise_interrupt keeps the window armed and lowers nothing.
LEMMA RaiseFacts ==
  ASSUME NEW vector \in {TIMER_PIN, KEYBOARD_PIN}, IInv, raise_interrupt(vector)
  PROVE  /\ interrupt_request_bitmap \subseteq interrupt_request_bitmap'
         /\ interrupt_request_bitmap' \subseteq interrupt_request_bitmap \cup {vector}
         /\ window' \in BOOLEAN
         /\ interrupt_request_bitmap' # {} \/ pic.interrupt_delivery_pending
              => window'
  BY Zenon DEF raise_interrupt, IInv, TypeOK, WindowArmed

\* Steps that leave the ring and its history alone keep them in agreement.
LEMMA SameKeys ==
  ASSUME KeysInOrder, UNCHANGED <<kbd, typed, taken>>
  PROVE  KeysInOrder'
  BY DEF KeysInOrder

\* A LAPIC timer exit preserves the invariant.
LEMMA TimerInv ==
  ASSUME IInv, NEW diff \in TickPeriod, LapicTimerExit(diff)
  PROVE  IInv'
  <1>1. /\ interrupt_request_bitmap \subseteq interrupt_request_bitmap'
        /\ interrupt_request_bitmap' \subseteq interrupt_request_bitmap \cup {TIMER_PIN}
        /\ window' \in BOOLEAN
        /\ interrupt_request_bitmap' # {} \/ pic.interrupt_delivery_pending => window'
    <2>1. CASE raise_interrupt(TIMER_PIN)
      BY <2>1, RaiseFacts
    <2>2. CASE UNCHANGED <<interrupt_request_bitmap, window>>
      BY <2>2 DEF IInv, TypeOK, WindowArmed
    <2>. QED
      BY <2>1, <2>2 DEF LapicTimerExit
  <1>2. /\ pit' = [pit EXCEPT !.last_tsc = TRUE]
        /\ UNCHANGED <<pic, kbd, rflags_if, host, typed, taken, delivered>>
    BY DEF LapicTimerExit
  <1>3. TypeOK /\ TwoPins /\ KeyboardHeld /\ HalfDivisor
          /\ InServiceRequested /\ KeyPinBacked /\ KeysInOrder
    BY DEF IInv
  <1>0. /\ pit' \in PitType
        /\ pit'.initial_counter = pit.initial_counter
        /\ pit'.divisor = pit.divisor
    <2>1. pit \in PitType
      BY <1>3 DEF TypeOK
    <2>2. pit' \in PitType
      BY <1>2, <2>1, ZenonT(60) DEF PitType
    <2>3. pit'.initial_counter = pit.initial_counter /\ pit'.divisor = pit.divisor
      BY <1>2, <2>1 DEF PitType
    <2>. QED
      BY <2>2, <2>3
  <1>4. TypeOK'
    <2>1. interrupt_request_bitmap' \subseteq Pins
      BY <1>1, <1>3 DEF TypeOK, Pins
    <2>. QED
      BY <1>0, <1>1, <1>2, <1>3, <2>1, ZenonT(60) DEF TypeOK
  <1>5. HalfDivisor'
    BY <1>0, <1>3 DEF HalfDivisor
  <1>6. TwoPins' /\ KeyboardHeld'
    BY <1>1, <1>2, <1>3 DEF TwoPins, KeyboardHeld
  <1>7. WindowArmed' /\ InServiceRequested'
    BY <1>1, <1>2, <1>3 DEF WindowArmed, InServiceRequested
  <1>8. KeyPinBacked'
    BY <1>1, <1>2, <1>3 DEF KeyPinBacked
  <1>9. KeysInOrder'
    BY <1>2, <1>3, SameKeys
  <1>. QED
    BY <1>4, <1>5, <1>6, <1>7, <1>8, <1>9 DEF IInv

\* A keyboard exit puts the scancode behind the others or, on a full ring,
\* nowhere; in both cases the ring is not empty after it.
LEMMA EnqueueKeys ==
  ASSUME kbd \in Ring, typed \in Seq(Byte), taken \in Nat, KeysInOrder,
         NEW scancode \in Byte,
         kbd' = ring_enqueue(kbd, scancode),
         typed' = IF ring_full(kbd) THEN typed ELSE Append(typed, scancode),
         taken' = taken
  PROVE  kbd' \in Ring /\ typed' \in Seq(Byte) /\ KeysInOrder' /\ ~ring_empty(kbd')
  <1>1. CASE ring_full(kbd)
    <2>1. UNCHANGED <<kbd, typed, taken>>
      BY <1>1 DEF ring_enqueue, PutByte
    <2>2. KeysInOrder'
      BY <2>1, SameKeys
    <2>3. ~ring_empty(kbd)
      BY <1>1, EmptyFull, RingSizeAssumption, GuestAssumption
    <2>. QED
      BY <2>1, <2>2, <2>3
  <1>2. CASE ~ring_full(kbd)
    <2>1. kbd' = PutByte(kbd, scancode) /\ typed' = Append(typed, scancode)
      BY <1>2 DEF ring_enqueue
    <2>2. /\ kbd' \in Ring
          /\ ring_length(kbd') = ring_length(kbd) + 1
          /\ \A i \in 1 .. ring_length(kbd) + 1 :
               Contents(kbd')[i] =
                 IF i <= ring_length(kbd) THEN Contents(kbd)[i] ELSE scancode
      BY <1>2, <2>1, PutByteAppends
    <2>3. /\ typed' \in Seq(Byte)
          /\ Len(typed') = Len(typed) + 1
          /\ \A j \in 1 .. Len(typed) : typed'[j] = typed[j]
          /\ typed'[Len(typed) + 1] = scancode
      BY <2>1
    <2>4. ring_length(kbd) \in Nat
      BY LengthIs
    <2>5. /\ Len(typed) = taken + ring_length(kbd)
          /\ \A i \in 1 .. ring_length(kbd) : Contents(kbd)[i] = typed[taken + i]
      BY DEF KeysInOrder
    <2>6. ASSUME NEW i \in 1 .. ring_length(kbd')
          PROVE  Contents(kbd')[i] = typed'[taken' + i]
      <3>1. CASE i <= ring_length(kbd)
        <4>1. i \in 1 .. ring_length(kbd) /\ i \in 1 .. ring_length(kbd) + 1
          BY <2>2, <2>4, <3>1
        <4>2. taken + i \in 1 .. Len(typed)
          BY <2>4, <2>5, <4>1
        <4>3. Contents(kbd')[i] = Contents(kbd)[i]
          BY <2>2, <3>1, <4>1
        <4>. QED
          BY <2>3, <2>5, <4>1, <4>2, <4>3
      <3>2. CASE ~(i <= ring_length(kbd))
        <4>1. i = ring_length(kbd) + 1 /\ i \in 1 .. ring_length(kbd) + 1
          BY <2>2, <2>4, <3>2
        <4>2. Contents(kbd')[i] = scancode
          BY <2>2, <3>2, <4>1
        <4>3. taken + i = Len(typed) + 1
          BY <2>4, <2>5, <4>1
        <4>. QED
          BY <2>3, <4>2, <4>3
      <3>. QED
        BY <3>1, <3>2, Zenon
    <2>9. Len(typed') = taken' + ring_length(kbd')
      BY <2>2, <2>3, <2>4, <2>5
    <2>7. KeysInOrder'
      BY <2>6, <2>9, Zenon DEF KeysInOrder
    <2>8. ~ring_empty(kbd')
      BY <2>2, <2>4, EmptyFull
    <2>. QED
      BY <2>2, <2>3, <2>7, <2>8
  <1>. QED
    BY <1>1, <1>2

\* A keyboard exit preserves the invariant.
LEMMA KeyboardInv ==
  ASSUME IInv, NEW code \in Byte, KeyboardExit(code)
  PROVE  IInv'
  <1>1. PICK scancode \in try_retrieve_scancode(code) :
          /\ kbd' = ring_enqueue(kbd, scancode)
          /\ typed' = IF ring_full(kbd) THEN typed ELSE Append(typed, scancode)
    BY DEF KeyboardExit
  <1>2. scancode \in Byte
    BY <1>1 DEF try_retrieve_scancode
  <1>3. UNCHANGED <<pic, pit, rflags_if, host, taken, delivered>>
    BY DEF KeyboardExit
  <1>4. /\ interrupt_request_bitmap \subseteq interrupt_request_bitmap'
        /\ interrupt_request_bitmap' \subseteq interrupt_request_bitmap \cup {KEYBOARD_PIN}
        /\ window' \in BOOLEAN
        /\ interrupt_request_bitmap' # {} \/ pic.interrupt_delivery_pending => window'
    <2>1. raise_interrupt(KEYBOARD_PIN)
      BY DEF KeyboardExit
    <2>. QED
      BY <2>1, RaiseFacts
  <1>5. TypeOK /\ TwoPins /\ KeyboardHeld /\ HalfDivisor
          /\ InServiceRequested /\ KeysInOrder
    BY DEF IInv
  <1>6. kbd \in Ring /\ typed \in Seq(Byte) /\ taken \in Nat
    BY <1>5 DEF TypeOK
  <1>7. kbd' \in Ring /\ typed' \in Seq(Byte) /\ KeysInOrder' /\ ~ring_empty(kbd')
    BY <1>1, <1>2, <1>3, <1>5, <1>6, EnqueueKeys
  <1>8. TypeOK'
    <2>1. interrupt_request_bitmap' \subseteq Pins
      BY <1>4, <1>5 DEF TypeOK, Pins
    <2>. QED
      BY <1>3, <1>4, <1>5, <1>7, <2>1, ZenonT(60) DEF TypeOK
  <1>9. TwoPins' /\ KeyboardHeld'
    BY <1>3, <1>4, <1>5 DEF TwoPins, KeyboardHeld
  <1>10. WindowArmed' /\ InServiceRequested'
    BY <1>3, <1>4, <1>5 DEF WindowArmed, InServiceRequested
  <1>11. KeyPinBacked' /\ HalfDivisor'
    BY <1>3, <1>5, <1>7 DEF KeyPinBacked, HalfDivisor
  <1>. QED
    BY <1>7, <1>8, <1>9, <1>10, <1>11 DEF IInv

\* Taking the oldest scancode off a ring that is not empty.
LEMMA DequeueKeys ==
  ASSUME kbd \in Ring, typed \in Seq(Byte), taken \in Nat, KeysInOrder,
         ~ring_empty(kbd), kbd' = TakeByte(kbd), typed' = typed,
         taken' = taken + 1
  PROVE  kbd' \in Ring /\ KeysInOrder'
  <1>1. /\ kbd' \in Ring
        /\ ring_length(kbd') = ring_length(kbd) - 1
        /\ \A i \in 1 .. ring_length(kbd) - 1 :
             Contents(kbd')[i] = Contents(kbd)[i + 1]
    BY TakeByteDropsFirst
  <1>2. ring_length(kbd) \in Nat
    BY LengthIs
  <1>3. /\ Len(typed) = taken + ring_length(kbd)
        /\ \A i \in 1 .. ring_length(kbd) : Contents(kbd)[i] = typed[taken + i]
    BY DEF KeysInOrder
  <1>4. Len(typed') = taken' + ring_length(kbd')
    BY <1>1, <1>2, <1>3
  <1>5. ASSUME NEW i \in 1 .. ring_length(kbd')
        PROVE  Contents(kbd')[i] = typed'[taken' + i]
    <2>1. /\ i \in 1 .. ring_length(kbd) - 1
          /\ i + 1 \in 1 .. ring_length(kbd)
          /\ taken' + i = taken + (i + 1)
      BY <1>1, <1>2
    <2>2. Contents(kbd)[i + 1] = typed[taken + (i + 1)]
      BY <1>3, <2>1
    <2>. QED
      BY <1>1, <2>1, <2>2
  <1>. QED
    BY <1>1, <1>4, <1>5 DEF KeysInOrder

\* What an interrupt-window exit does to the ring and to the requests.
LEMMA RetireFacts ==
  ASSUME IInv, InterruptWindowExit
  PROVE  /\ kbd' \in Ring
         /\ taken' \in Nat
         /\ KeysInOrder'
         /\ KeyPinBacked'
         /\ Requests \subseteq interrupt_request_bitmap
         /\ ~Lowered => Requests = interrupt_request_bitmap
  <1>1. /\ kbd' = RingLeft /\ typed' = typed
        /\ interrupt_request_bitmap' = Requests
        /\ taken' = IF RetiringKey /\ ~ring_empty(kbd) THEN taken + 1 ELSE taken
    BY DEF InterruptWindowExit
  <1>2. kbd \in Ring /\ typed \in Seq(Byte) /\ taken \in Nat
          /\ KeysInOrder /\ KeyPinBacked /\ KeyboardHeld
    BY DEF IInv, TypeOK
  <1>3. /\ Requests \subseteq interrupt_request_bitmap
        /\ ~Lowered => Requests = interrupt_request_bitmap
    BY DEF Requests
  <1>4. CASE RetiringKey
    <2>1. KEYBOARD_PIN \in interrupt_request_bitmap /\ ~ring_empty(kbd)
      BY <1>2, <1>4 DEF RetiringKey, KeyboardHeld, KeyPinBacked
    <2>2. kbd' = TakeByte(kbd) /\ taken' = taken + 1
      BY <1>1, <1>4, <2>1 DEF RingLeft, ring_dequeue
    <2>3. kbd' \in Ring /\ KeysInOrder'
      BY <1>1, <1>2, <2>1, <2>2, DequeueKeys
    <2>4. CASE Lowered
      <3>1. KEYBOARD_PIN \notin Requests
        BY <1>4, <2>4 DEF Requests, RetiringKey
      <3>. QED
        BY <1>1, <1>2, <1>3, <2>2, <2>3, <3>1 DEF KeyPinBacked
    <2>5. CASE ~Lowered
      <3>1. ~ring_empty(RingLeft)
        BY <1>4, <2>5 DEF Lowered, RetiringKey
      <3>. QED
        BY <1>1, <1>2, <1>3, <2>2, <2>3, <3>1 DEF KeyPinBacked
    <2>. QED
      BY <2>4, <2>5
  <1>5. CASE ~RetiringKey
    <2>1. UNCHANGED <<kbd, typed, taken>>
      BY <1>1, <1>5 DEF RingLeft
    <2>2. KeysInOrder'
      BY <1>2, <2>1, SameKeys
    <2>3. KeyPinBacked'
      BY <1>1, <1>2, <1>3, <2>1 DEF KeyPinBacked
    <2>. QED
      BY <1>2, <1>3, <2>1, <2>2, <2>3
  <1>. QED
    BY <1>4, <1>5

\* An interrupt-window exit preserves the invariant and does not replace the
\* delivery in service.
LEMMA WindowInv ==
  ASSUME IInv, InterruptWindowExit
  PROVE  /\ IInv'
         /\ pic.interrupt_delivery_pending =>
              pic'.interrupt_delivery_vector = pic.interrupt_delivery_vector
  <1> DEFINE vector == IF Injects THEN FirstRequest(Requests)
                       ELSE IF Lowered THEN PIC_INVALID_VECTOR
                       ELSE pic.interrupt_delivery_vector
             pending == pic.interrupt_delivery_pending \/ Injects
  <1>1. /\ pic' = [pic EXCEPT !.interrupt_delivery_vector = vector,
                              !.interrupt_delivery_pending = pending]
        /\ interrupt_request_bitmap' = Requests
        /\ delivered' = IF Injects
                        THEN delivered \cup {FirstRequest(Requests)} ELSE delivered
        /\ window' = pending
        /\ rflags_if' = ~Injects
        /\ UNCHANGED <<pit, host, typed>>
    BY DEF InterruptWindowExit
  <1>2. TypeOK /\ TwoPins /\ KeyboardHeld /\ HalfDivisor
          /\ WindowArmed /\ InServiceRequested
    BY DEF IInv
  <1>3. /\ kbd' \in Ring /\ taken' \in Nat /\ KeysInOrder' /\ KeyPinBacked'
        /\ Requests \subseteq interrupt_request_bitmap
        /\ ~Lowered => Requests = interrupt_request_bitmap
    BY RetireFacts
  <1>4. Requests \in SUBSET {TIMER_PIN, KEYBOARD_PIN}
    BY <1>2, <1>3 DEF TwoPins
  <1>5. Injects => FirstRequest(Requests) \in Requests
    BY <1>4, FirstRequestIn DEF Injects
  <1>6. vector \in {TIMER_PIN, KEYBOARD_PIN, PIC_INVALID_VECTOR}
    <2>1. CASE Injects
      BY <1>4, <1>5, <2>1, Zenon
    <2>2. CASE ~Injects
      BY <1>2, <2>2 DEF TwoPins
    <2>. QED
      BY <2>1, <2>2
  <1>7. vector \in Pins \cup {PIC_INVALID_VECTOR}
    BY <1>6 DEF Pins
  <1>8. pending \in BOOLEAN /\ (~Injects) \in BOOLEAN
    BY Zenon
  <1>9. pic.interrupt_delivery_pending => ~Injects /\ ~Lowered
    BY DEF Injects, Lowered, Retiring
  <1>10. Requests # {} => pending
    BY DEF Injects
  <1>11. pending => vector \in Requests
    BY <1>2, <1>3, <1>5, <1>9 DEF InServiceRequested
  <1>12. vector = KEYBOARD_PIN => KEYBOARD_PIN \in Requests
    BY <1>2, <1>3, <1>5 DEF KeyboardHeld
  <1>13. pic.interrupt_delivery_pending => vector = pic.interrupt_delivery_vector
    BY <1>9
  <1> HIDE DEF vector, pending
  <1>14. pic \in PicType
    BY <1>2 DEF TypeOK
  <1>15. pic' \in PicType
    BY <1>1, <1>7, <1>8, <1>14, ZenonT(90) DEF PicType
  <1>16. pic'.interrupt_delivery_vector = vector
           /\ pic'.interrupt_delivery_pending = pending
    BY <1>1, <1>14 DEF PicType
  <1>17. TypeOK'
    <2>1. TIMER_PIN \in Pins /\ KEYBOARD_PIN \in Pins
      BY DEF Pins, TIMER_PIN, KEYBOARD_PIN
    <2>2. Requests \subseteq Pins
      BY <1>4, <2>1, ZenonT(60)
    <2>3. interrupt_request_bitmap' \subseteq Pins
      BY <1>1, <2>2, ZenonT(60)
    <2>4. delivered \subseteq Pins
      BY <1>2 DEF TypeOK
    <2>5. CASE Injects
      <3>1. FirstRequest(Requests) \in Pins
        BY <1>5, <2>2, <2>5, ZenonT(60)
      <3>2. delivered' = delivered \cup {FirstRequest(Requests)}
        BY <1>1, <2>5, ZenonT(60)
      <3>. QED
        BY <1>1, <1>2, <1>3, <1>8, <1>15, <2>3, <2>4, <3>1, <3>2, ZenonT(60) DEF TypeOK
    <2>6. CASE ~Injects
      BY <1>1, <1>2, <1>3, <1>8, <1>15, <2>3, <2>4, <2>6, ZenonT(60) DEF TypeOK
    <2>. QED
      BY <2>5, <2>6
  <1>18. TwoPins' /\ KeyboardHeld' /\ HalfDivisor'
    BY <1>1, <1>2, <1>4, <1>6, <1>12, <1>16 DEF TwoPins, KeyboardHeld, HalfDivisor
  <1>19. WindowArmed' /\ InServiceRequested'
    BY <1>1, <1>8, <1>10, <1>11, <1>16 DEF WindowArmed, InServiceRequested
  <1>. QED
    BY <1>3, <1>13, <1>16, <1>17, <1>18, <1>19 DEF IInv

\* The PIT computes a threshold from every divisor it accepts: neither
\* division is by 0 (device_8253pit.c 34-35).
LEMMA Threshold ==
  ASSUME NEW d \in Nat, d > 0, d <= 65535
  PROVE  1000 \div (OSCILLATPR_CHIP_FREQUENCY \div d) \in Nat
  <1>1. /\ OSCILLATPR_CHIP_FREQUENCY \div d \in Nat
        /\ OSCILLATPR_CHIP_FREQUENCY \div d > 0
    BY DEF OSCILLATPR_CHIP_FREQUENCY
  <1>. QED
    BY <1>1

\* A byte written to the PIT leaves a well-formed timer, unless it stops the
\* host.
LEMMA PitFacts ==
  ASSUME pit \in PitType, HalfDivisor, NEW port, NEW byte \in UInt8,
         ~PitStops(port, byte)
  PROVE  /\ pit_outb(port, byte) \in PitType
         /\ pit_outb(port, byte).initial_counter = 1 =>
              pit_outb(port, byte).divisor \in UInt8
  <1>1. CASE port = PIT_CONTROL_PORT
    <2>1. pit_outb(port, byte) = [pit EXCEPT !.initial_counter = 0, !.divisor = 0]
      BY <1>1 DEF pit_outb
    <2>2. 0 \in 0 .. 2 /\ 0 \in UInt16
      BY DEF UInt16
    <2>3. pit_outb(port, byte) \in PitType
      BY <2>1, <2>2, ZenonT(60) DEF PitType
    <2>4. pit_outb(port, byte).initial_counter = 0
      BY <2>1 DEF PitType
    <2>. QED
      BY <2>3, <2>4
  <1>2. CASE port # PIT_CONTROL_PORT /\ pit.initial_counter = 0
    <2>1. pit_outb(port, byte) = [pit EXCEPT !.initial_counter = 1, !.divisor = byte]
      BY <1>2 DEF pit_outb
    <2>2. 1 \in 0 .. 2 /\ byte \in UInt16
      BY DEF UInt8, UInt16
    <2>3. pit_outb(port, byte) \in PitType
      BY <2>1, <2>2, ZenonT(60) DEF PitType
    <2>4. pit_outb(port, byte).divisor = byte
      BY <2>1 DEF PitType
    <2>. QED
      BY <2>3, <2>4
  <1>3. CASE port # PIT_CONTROL_PORT /\ pit.initial_counter # 0
    <2> DEFINE threshold ==
          1000 \div (OSCILLATPR_CHIP_FREQUENCY \div Divisor(byte))
    <2>1. pit_outb(port, byte) = [pit EXCEPT !.initial_counter = 2,
                                             !.divisor = Divisor(byte),
                                             !.threshold = threshold]
      BY <1>3 DEF pit_outb
    <2>2. pit.initial_counter = 1
      BY <1>3 DEF PitStops, PitType
    <2>3. /\ pit.divisor \in Nat /\ pit.divisor < 256
          /\ byte \in Nat /\ byte < 256
      BY <2>2 DEF HalfDivisor, UInt8
    <2>4. Divisor(byte) # 0
      BY <1>3, <2>2 DEF PitStops
    <2>5. Divisor(byte) \in Nat /\ Divisor(byte) > 0 /\ Divisor(byte) <= 65535
      BY <2>3, <2>4 DEF Divisor
    <2>6. threshold \in Nat
      BY <2>5, Threshold
    <2> HIDE DEF threshold
    <2>7. 2 \in 0 .. 2 /\ Divisor(byte) \in UInt16
      BY <2>5 DEF UInt16
    <2>8. pit_outb(port, byte) \in PitType
      BY <2>1, <2>6, <2>7, ZenonT(60) DEF PitType
    <2>9. pit_outb(port, byte).initial_counter = 2
      BY <2>1 DEF PitType
    <2>. QED
      BY <2>8, <2>9
  <1>. QED
    BY <1>1, <1>2, <1>3

\* The command ports of the PICs change two flags of the record.
LEMMA PicFlags ==
  ASSUME NEW q \in PicType, NEW icw1 \in BOOLEAN, NEW ended \in BOOLEAN
  PROVE  /\ [q EXCEPT !.is_master_pic_initializing = icw1,
                      !.interrupt_delivery_pending = ended] \in PicType
         /\ [q EXCEPT !.is_slave_pic_initializing = icw1,
                      !.interrupt_delivery_pending = ended] \in PicType
  <1>1. [q EXCEPT !.is_master_pic_initializing = icw1,
                  !.interrupt_delivery_pending = ended] \in PicType
    BY ZenonT(90) DEF PicType
  <1>2. [q EXCEPT !.is_slave_pic_initializing = icw1,
                  !.interrupt_delivery_pending = ended] \in PicType
    BY ZenonT(90) DEF PicType
  <1>. QED
    BY <1>1, <1>2

\* A byte written to a PIC can only end the delivery in service.
LEMMA PicFacts ==
  ASSUME pic \in PicType, NEW port, NEW byte \in UInt8,
         NEW new, new \in {master_pic_outb(port, byte), slave_pic_outb(port, byte)}
  PROVE  /\ new \in PicType
         /\ new.interrupt_delivery_vector = pic.interrupt_delivery_vector
         /\ new.interrupt_delivery_pending => pic.interrupt_delivery_pending
  <1> DEFINE ended == pic.interrupt_delivery_pending /\ byte # PIC_EOI
             icw1 == pic.is_master_pic_initializing \/ Bit(byte, 4)
             icw1s == pic.is_slave_pic_initializing \/ Bit(byte, 4)
             offset == IF pic.is_master_pic_initializing
                       THEN byte ELSE pic.master_pic_offset
             offsets == IF pic.is_slave_pic_initializing
                        THEN byte ELSE pic.slave_pic_offset
  <1>2. ended \in BOOLEAN /\ icw1 \in BOOLEAN /\ icw1s \in BOOLEAN
    BY Zenon
  <1>3. offset \in UInt8 /\ offsets \in UInt8
    BY DEF PicType
  <1>4. ended => pic.interrupt_delivery_pending
    OBVIOUS
  <1> HIDE DEF ended, icw1, icw1s, offset, offsets
  <1>5. CASE new = [pic EXCEPT !.is_master_pic_initializing = icw1,
                               !.interrupt_delivery_pending = ended]
    <2>1. new \in PicType
      BY <1>2, <1>5, PicFlags, Zenon
    <2>2. /\ new.interrupt_delivery_vector = pic.interrupt_delivery_vector
          /\ new.interrupt_delivery_pending = ended
      BY <1>5 DEF PicType
    <2>. QED
      BY <1>4, <2>1, <2>2
  <1>6. CASE new = [pic EXCEPT !.master_pic_data = byte,
                               !.master_pic_offset = offset,
                               !.is_master_pic_initializing = FALSE]
    <2>1. new \in PicType
      BY <1>3, <1>6, ZenonT(90) DEF PicType
    <2>2. /\ new.interrupt_delivery_vector = pic.interrupt_delivery_vector
          /\ new.interrupt_delivery_pending = pic.interrupt_delivery_pending
      BY <1>6 DEF PicType
    <2>. QED
      BY <2>1, <2>2
  <1>7. CASE new = [pic EXCEPT !.is_slave_pic_initializing = icw1s,
                               !.interrupt_delivery_pending = ended]
    <2>1. new \in PicType
      BY <1>2, <1>7, PicFlags, Zenon
    <2>2. /\ new.interrupt_delivery_vector = pic.interrupt_delivery_vector
          /\ new.interrupt_delivery_pending = ended
      BY <1>7 DEF PicType
    <2>. QED
      BY <1>4, <2>1, <2>2
  <1>8. CASE new = [pic EXCEPT !.slave_pic_data = byte,
                               !.slave_pic_offset = offsets,
                               !.is_slave_pic_initializing = FALSE]
    <2>1. new \in PicType
      BY <1>3, <1>8, ZenonT(90) DEF PicType
    <2>2. /\ new.interrupt_delivery_vector = pic.interrupt_delivery_vector
          /\ new.interrupt_delivery_pending = pic.interrupt_delivery_pending
      BY <1>8 DEF PicType
    <2>. QED
      BY <2>1, <2>2
  <1>. QED
    BY <1>5, <1>6, <1>7, <1>8
    DEF master_pic_outb, slave_pic_outb, ended, icw1, icw1s, offset, offsets

\* An OUT of the guest preserves the invariant and keeps the vector.
LEMMA PortOutInv ==
  ASSUME IInv, NEW port, NEW byte \in UInt8, PortOut(port, byte)
  PROVE  /\ IInv'
         /\ pic'.interrupt_delivery_vector = pic.interrupt_delivery_vector
  <1>1. TypeOK /\ TwoPins /\ KeyboardHeld /\ HalfDivisor /\ WindowArmed
          /\ InServiceRequested /\ KeyPinBacked /\ KeysInOrder
    BY DEF IInv
  <1>2. pic \in PicType /\ pit \in PitType
    BY <1>1 DEF TypeOK
  <1>3. UNCHANGED <<interrupt_request_bitmap, kbd, window, rflags_if, typed,
                    taken, delivered>>
    BY DEF PortOut
  <1>4. /\ pic' \in PicType
        /\ pic'.interrupt_delivery_vector = pic.interrupt_delivery_vector
        /\ pic'.interrupt_delivery_pending => pic.interrupt_delivery_pending
    <2>1. CASE pic' = pic
      BY <1>2, <2>1
    <2>2. CASE pic' \in {master_pic_outb(port, byte), slave_pic_outb(port, byte)}
      BY <1>2, <2>2, PicFacts
    <2>3. \/ pic' = pic
          \/ pic' \in {master_pic_outb(port, byte), slave_pic_outb(port, byte)}
      BY DEF PortOut
    <2>. QED
      BY <2>1, <2>2, <2>3
  <1>5. /\ pit' \in PitType /\ HalfDivisor'
        /\ host' \in {"running", "panic"}
    <2>1. CASE pit' = pit /\ host' \in {"running", "panic"}
      BY <1>1, <1>2, <2>1 DEF HalfDivisor
    <2>2. CASE /\ pit' = pit_outb(port, byte) /\ ~PitStops(port, byte)
               /\ host' = "running"
      BY <1>1, <1>2, <2>2, PitFacts DEF HalfDivisor
    <2>3. \/ pit' = pit /\ host' \in {"running", "panic"}
          \/ /\ pit' = pit_outb(port, byte) /\ ~PitStops(port, byte)
             /\ host' = "running"
      BY DEF PortOut
    <2>. QED
      BY <2>1, <2>2, <2>3
  <1>6. TypeOK'
    BY <1>1, <1>3, <1>4, <1>5, ZenonT(60) DEF TypeOK
  <1>7. TwoPins' /\ KeyboardHeld'
    BY <1>1, <1>3, <1>4 DEF TwoPins, KeyboardHeld
  <1>8. WindowArmed' /\ InServiceRequested'
    BY <1>1, <1>3, <1>4 DEF WindowArmed, InServiceRequested
  <1>9. KeyPinBacked'
    BY <1>1, <1>3 DEF KeyPinBacked
  <1>10. KeysInOrder'
    BY <1>1, <1>3, SameKeys
  <1>. QED
    BY <1>4, <1>5, <1>6, <1>7, <1>8, <1>9, <1>10 DEF IInv

\* Steps that leave the monitor's interrupt state alone preserve the invariant.
LEMMA IdleInv ==
  ASSUME IInv, rflags_if' \in BOOLEAN, host' \in {"running", "panic"},
         UNCHANGED <<interrupt_request_bitmap, pic, pit, kbd, window, typed,
                     taken, delivered>>
  PROVE  IInv'
  <1>1. TypeOK /\ TwoPins /\ KeyboardHeld /\ HalfDivisor /\ WindowArmed
          /\ InServiceRequested /\ KeyPinBacked /\ KeysInOrder
    BY DEF IInv
  <1>2. TypeOK'
    BY <1>1, ZenonT(60) DEF TypeOK
  <1>3. TwoPins' /\ KeyboardHeld' /\ HalfDivisor' /\ WindowArmed'
          /\ InServiceRequested' /\ KeyPinBacked'
    BY <1>1 DEF TwoPins, KeyboardHeld, HalfDivisor, WindowArmed,
                InServiceRequested, KeyPinBacked
  <1>4. KeysInOrder'
    BY <1>1, SameKeys
  <1>. QED
    BY <1>2, <1>3, <1>4 DEF IInv

\* Every step preserves the invariant and, while a delivery is in service,
\* the vector.
LEMMA StepInv ==
  ASSUME IInv, [Next]_vars
  PROVE  /\ IInv'
         /\ pic.interrupt_delivery_pending =>
              pic'.interrupt_delivery_vector = pic.interrupt_delivery_vector
  <1>1. CASE \E diff_mseconds \in TickPeriod : LapicTimerExit(diff_mseconds)
    <2>1. pic' = pic
      BY <1>1 DEF LapicTimerExit
    <2>. QED
      BY <1>1, <2>1, TimerInv
  <1>2. CASE \E code \in Byte : KeyboardExit(code)
    <2>1. pic' = pic
      BY <1>2 DEF KeyboardExit
    <2>. QED
      BY <1>2, <2>1, KeyboardInv
  <1>3. CASE InterruptWindowExit
    BY <1>3, WindowInv
  <1>4. CASE \E w \in GuestWrites : PortOut(w[1], w[2])
    <2>1. PICK w \in GuestWrites : PortOut(w[1], w[2])
      BY <1>4
    <2>2. w[2] \in UInt8
      BY GuestAssumption
    <2>. QED
      BY <2>1, <2>2, PortOutInv
  <1>5. CASE \E port \in Ports : PortIn(port)
    <2>1. /\ host' \in {"running", "panic"}
          /\ UNCHANGED <<interrupt_request_bitmap, pic, pit, kbd, window,
                         rflags_if, typed, taken, delivered>>
      BY <1>5 DEF PortIn
    <2>2. rflags_if' \in BOOLEAN
      BY <2>1 DEF IInv, TypeOK
    <2>. QED
      BY <2>1, <2>2, IdleInv
  <1>6. CASE GuestFlag
    <2>1. UNCHANGED <<interrupt_request_bitmap, pic, pit, kbd, window, host,
                      typed, taken, delivered>>
      BY <1>6 DEF GuestFlag
    <2>2. rflags_if' \in BOOLEAN
      BY <1>6, Zenon DEF GuestFlag
    <2>3. host' \in {"running", "panic"}
      BY <2>1 DEF IInv, TypeOK
    <2>. QED
      BY <2>1, <2>2, <2>3, IdleInv
  <1>7. CASE UNCHANGED vars
    <2>1. UNCHANGED <<interrupt_request_bitmap, pic, pit, kbd, window,
                      rflags_if, host, typed, taken, delivered>>
      BY <1>7 DEF vars
    <2>2. rflags_if' \in BOOLEAN /\ host' \in {"running", "panic"}
      BY <2>1 DEF IInv, TypeOK
    <2>. QED
      BY <2>1, <2>2, IdleInv
  <1>. QED
    BY <1>1, <1>2, <1>3, <1>4, <1>5, <1>6, <1>7
    DEF Next, HostInterruptExit, GuestInstruction

\* The inductive invariant holds in every reachable state, for every guest,
\* ring size, timer period and number of keys.
THEOREM Invariance == Spec => []IInv
  <1>1. Init => IInv
    BY InitInv
  <1>2. IInv /\ [Next]_vars => IInv'
    BY StepInv
  <1>. QED
    BY <1>1, <1>2, PTL DEF Spec

\* Every variable of the monitor keeps its type.
THEOREM TypeCorrect == Spec => []TypeOK
  <1>1. IInv => TypeOK
    BY DEF IInv
  <1>. QED
    BY <1>1, Invariance, PTL

\* raise_interrupt and interrupt_window_exit_sub_handler lose no wake-up.
THEOREM WindowSafe == Spec => []WindowArmed
  <1>1. IInv => WindowArmed
    BY DEF IInv
  <1>. QED
    BY <1>1, Invariance, PTL

\* The pin in service stays requested until it is retired.
THEOREM ServiceSafe == Spec => []InServiceRequested
  <1>1. IInv => InServiceRequested
    BY DEF IInv
  <1>. QED
    BY <1>1, Invariance, PTL

\* The keyboard pin is up only while there is a scancode to read.
THEOREM KeyPinSafe == Spec => []KeyPinBacked
  <1>1. IInv => KeyPinBacked
    BY DEF IInv
  <1>. QED
    BY <1>1, Invariance, PTL

\* No accepted scancode is lost, doubled or reordered.
THEOREM KeysSafe == Spec => []KeysInOrder
  <1>1. IInv => KeysInOrder
    BY DEF IInv
  <1>. QED
    BY <1>1, Invariance, PTL

\* No step replaces the delivery in service.
THEOREM ServiceKept == Spec => NoPreemption
  <1>1. IInv /\ [Next]_vars =>
          [pic.interrupt_delivery_pending /\ pic'.interrupt_delivery_pending =>
             pic'.interrupt_delivery_vector = pic.interrupt_delivery_vector]_vars
    BY StepInv
  <1>. QED
    BY <1>1, Invariance, PTL DEF Spec, NoPreemption

-----------------------------------------------------------------------------
(***************************************************************************)
(* The monitor and the guest agree, whatever the keyboard sends and        *)
(* however the timer falls.                                                *)
(***************************************************************************)
\* The guest runs with IF clear except in its HLT loop, and gets there when all
\* of guest_kernel_main is done.
GuestOK ==
  /\ guest \in [pc : {"boot", "idle", "handler", "master_eoi", "iret"}, step : 0 .. 15,
                vector : {0, TIMER_VECTOR, KEYBOARD_VECTOR}]
  /\ guest.pc # "boot" => guest.step = 15
  /\ rflags_if <=> guest.pc = "idle"

\* What the port writes made so far have left in the devices.
Programmed ==
  /\ guest.step <= 4 => interrupt_request_bitmap = {} /\ pic.master_pic_data = 255
  /\ guest.step >= 5 => pic.master_pic_offset = 32
  /\ pic.is_master_pic_initializing <=> guest.step \in {3, 4}
  /\ guest.step = 13 => pit.initial_counter = 0
  /\ guest.step = 14 => pit.initial_counter = 1 /\ pit.divisor = 155

\* The scancode at the front of the ring has been read and is not retired yet.
KeyRead == pic.interrupt_delivery_vector = KEYBOARD_PIN /\ guest.pc # "handler"

\* The handler has read what was retired, and the scancode it is at.
ReadSoFar ==
  /\ read \in Seq(Byte)
  /\ Len(read) = taken + (IF KeyRead THEN 1 ELSE 0)
  /\ Len(read) <= Len(typed)
  /\ \A i \in 1 .. Len(read) : read[i] = typed[i]

SInv == IInv /\ HostRuns /\ GuestOK /\ Programmed /\ ServiceAgrees /\ ReadSoFar

-----------------------------------------------------------------------------
\* guest_kernel_main writes fifteen bytes.
LEMMA Script ==
  /\ Len(guest_kernel_main) = 15
  /\ guest_kernel_main[1] = <<PIC_MASTER_DATA_PORT, 255>>
  /\ guest_kernel_main[2] = <<PIC_SLAVE_DATA_PORT, 255>>
  /\ guest_kernel_main[3] = <<PIC_MASTER_COMMAND_PORT, 17>>
  /\ guest_kernel_main[4] = <<PIC_SLAVE_COMMAND_PORT, 17>>
  /\ guest_kernel_main[5] = <<PIC_MASTER_DATA_PORT, 32>>
  /\ guest_kernel_main[6] = <<PIC_SLAVE_DATA_PORT, 40>>
  /\ guest_kernel_main[7] = <<PIC_MASTER_DATA_PORT, 4>>
  /\ guest_kernel_main[8] = <<PIC_SLAVE_DATA_PORT, 2>>
  /\ guest_kernel_main[9] = <<PIC_MASTER_DATA_PORT, 1>>
  /\ guest_kernel_main[10] = <<PIC_SLAVE_DATA_PORT, 1>>
  /\ guest_kernel_main[11] = <<PIC_MASTER_DATA_PORT, 0>>
  /\ guest_kernel_main[12] = <<PIC_SLAVE_DATA_PORT, 0>>
  /\ guest_kernel_main[13] = <<PIT_CONTROL_PORT, 54>>
  /\ guest_kernel_main[14] = <<PIT_CHANNEL0_PORT, 155>>
  /\ guest_kernel_main[15] = <<PIT_CHANNEL0_PORT, 46>>
  BY DEF guest_kernel_main, pic_remap, refresh_pit_channel0, OSCILLATPR_CHIP_FREQUENCY

\* The bits the PIC looks at in those bytes.
LEMMA Bits == Bit(255, 0) /\ Bit(255, 1) /\ Bit(17, 4) /\ ~Bit(32, 4)
  BY DEF Bit

\* The image is loaded and no port is written yet.
LEMMA SysInitInv == SysInit => SInv
  <1> SUFFICES ASSUME SysInit PROVE SInv
    BY Zenon
  <1>1. IInv
    BY InitInv, Zenon DEF SysInit
  <1>2. HostRuns /\ GuestOK
    BY DEF SysInit, Init, HostRuns, GuestOK
  <1>3. Programmed /\ ServiceAgrees
    BY DEF SysInit, Init, InitialPic, InitialPit, Programmed, ServiceAgrees
  <1>4. ReadSoFar
    <2>1. ~KeyRead
      BY DEF SysInit, Init, InitialPic, KeyRead, KEYBOARD_PIN
    <2>2. read = <<>> /\ typed = <<>> /\ taken = 0
      BY Zenon DEF SysInit, Init
    <2>. QED
      BY <2>1, <2>2 DEF ReadSoFar
  <1>. QED
    BY <1>1, <1>2, <1>3, <1>4, Zenon DEF SInv

\* A masked pin is not requested: while the guest has not loaded its own masks
\* an external interrupt leaves the bitmap as it is.
LEMMA MaskedRaise ==
  ASSUME NEW vector \in {TIMER_PIN, KEYBOARD_PIN}, raise_interrupt(vector),
         pic.master_pic_data = 255
  PROVE  interrupt_request_bitmap' = interrupt_request_bitmap
  BY Bits DEF raise_interrupt, is_interrupt_pin_masked, TIMER_PIN, KEYBOARD_PIN

\* What a step that leaves the guest, its reads and the PIC alone preserves.
LEMMA HostSide ==
  ASSUME SInv, UNCHANGED <<guest, read, pic, rflags_if, host>>
  PROVE  HostRuns' /\ GuestOK' /\ ServiceAgrees'
  BY Zenon DEF SInv, HostRuns, GuestOK, ServiceAgrees

\* The timer of the physical machine.
LEMMA TimerStepInv ==
  ASSUME SInv, TimerStep
  PROVE  SInv'
  <1>1. PICK diff \in TickPeriod : LapicTimerExit(diff)
    BY Zenon DEF TimerStep
  <1>2. /\ UNCHANGED <<guest, read, pic, kbd, rflags_if, host, typed, taken>>
        /\ pit' = [pit EXCEPT !.last_tsc = TRUE]
        /\ raise_interrupt(TIMER_PIN) \/ UNCHANGED interrupt_request_bitmap
    BY <1>1, Zenon DEF TimerStep, LapicTimerExit
  <1>3. IInv'
    BY <1>1, TimerInv, Zenon DEF SInv
  <1>4. HostRuns' /\ GuestOK' /\ ServiceAgrees'
    BY <1>2, HostSide, Zenon
  <1>5. guest.step <= 4 => UNCHANGED interrupt_request_bitmap
    BY <1>2, MaskedRaise DEF SInv, Programmed
  <1>6. /\ pit'.initial_counter = pit.initial_counter
        /\ pit'.divisor = pit.divisor
    BY <1>2, Zenon DEF SInv, IInv, TypeOK, PitType
  <1>7. Programmed'
    BY <1>2, <1>5, <1>6 DEF SInv, Programmed
  <1>8. ReadSoFar'
    BY <1>2, Zenon DEF SInv, ReadSoFar, KeyRead
  <1>. QED
    BY <1>3, <1>4, <1>7, <1>8, Zenon DEF SInv

\* A key of the physical machine.
LEMMA KeyboardStepInv ==
  ASSUME SInv, KeyboardStep
  PROVE  SInv'
  <1>1. PICK code \in Byte : KeyboardExit(code)
    BY Zenon DEF KeyboardStep
  <1>2. /\ UNCHANGED <<guest, read, pic, pit, rflags_if, host, taken>>
        /\ raise_interrupt(KEYBOARD_PIN)
    BY <1>1, Zenon DEF KeyboardStep, KeyboardExit
  <1>3. IInv'
    BY <1>1, KeyboardInv, Zenon DEF SInv
  <1>4. HostRuns' /\ GuestOK' /\ ServiceAgrees'
    BY <1>2, HostSide, Zenon
  <1>5. guest.step <= 4 => UNCHANGED interrupt_request_bitmap
    BY <1>2, MaskedRaise DEF SInv, Programmed
  <1>6. Programmed'
    BY <1>2, <1>5 DEF SInv, Programmed
  <1>7. /\ typed \in Seq(Byte)
        /\ \E scancode \in Byte : typed' = typed \/ typed' = Append(typed, scancode)
    BY <1>1, GuestAssumption, Zenon DEF KeyboardExit, try_retrieve_scancode, SInv, IInv, TypeOK
  <1>8. /\ Len(typed) <= Len(typed')
        /\ \A i \in 1 .. Len(typed) : typed'[i] = typed[i]
    BY <1>7
  <1>9. ReadSoFar'
    <2>1. Len(typed) \in Nat /\ Len(typed') \in Nat /\ Len(read) \in Nat
      BY <1>3 DEF SInv, ReadSoFar, IInv, TypeOK
    <2>2. UNCHANGED KeyRead
      BY <1>2, Zenon DEF KeyRead
    <2>. QED
      BY <1>2, <1>8, <2>1, <2>2 DEF SInv, ReadSoFar
  <1>. QED
    BY <1>3, <1>4, <1>6, <1>9 DEF SInv

\* An interrupt window: the guest is in its HLT loop.
LEMMA WindowStepInv ==
  ASSUME SInv, WindowStep
  PROVE  SInv'
  <1>1. /\ guest.pc = "idle" /\ guest.step = 15 /\ ~pic.interrupt_delivery_pending
        /\ pic \in PicType /\ pic.master_pic_offset = 32
        /\ ~pic.is_master_pic_initializing
    BY DEF WindowStep, InterruptWindowExit, WindowOpen, SInv, GuestOK, ServiceAgrees,
           Programmed, IInv, TypeOK
  <1>2. IInv'
    BY WindowInv, Zenon DEF WindowStep, SInv
  <1>3. /\ Requests \subseteq {TIMER_PIN, KEYBOARD_PIN}
        /\ Injects => FirstRequest(Requests) \in {TIMER_PIN, KEYBOARD_PIN}
    <2>1. Requests \subseteq {TIMER_PIN, KEYBOARD_PIN}
      <3>1. IInv /\ InterruptWindowExit
        BY Zenon DEF WindowStep, SInv
      <3>2. Requests \subseteq interrupt_request_bitmap
        BY <3>1, RetireFacts, Zenon
      <3>3. interrupt_request_bitmap \subseteq {TIMER_PIN, KEYBOARD_PIN}
        BY <3>1, Zenon DEF IInv, TwoPins
      <3>. QED
        BY <3>2, <3>3, Zenon
    <2>. QED
      BY <2>1, FirstRequestIn, Zenon DEF Injects
  <1> DEFINE pin == IF Injects THEN FirstRequest(Requests)
                    ELSE IF Lowered THEN PIC_INVALID_VECTOR
                    ELSE pic.interrupt_delivery_vector
             pending == pic.interrupt_delivery_pending \/ Injects
             vector == (32 + FirstRequest(Requests)) % 256
  <1>4. /\ pic' = [pic EXCEPT !.interrupt_delivery_vector = pin,
                              !.interrupt_delivery_pending = pending]
        /\ rflags_if' = ~Injects
        /\ UNCHANGED <<pit, host, typed, read>>
    BY Zenon DEF WindowStep, InterruptWindowExit
  <1>5. pending <=> Injects
    BY <1>1, Zenon
  <1>6. Injects => vector = 32 + pin /\ vector \in {TIMER_VECTOR, KEYBOARD_VECTOR}
    BY <1>3 DEF TIMER_PIN, KEYBOARD_PIN, TIMER_VECTOR, KEYBOARD_VECTOR
  <1>7. Injects => pin = FirstRequest(Requests)
    BY Zenon
  <1>p. ~Injects => pin = IF Lowered THEN PIC_INVALID_VECTOR
                          ELSE pic.interrupt_delivery_vector
    BY Zenon
  <1> HIDE DEF pin, pending
  <1>8. /\ pic'.interrupt_delivery_vector = pin
        /\ pic'.interrupt_delivery_pending = pending
        /\ pic'.master_pic_offset = 32
        /\ pic'.is_master_pic_initializing = pic.is_master_pic_initializing
    BY <1>1, <1>4, Zenon DEF PicType
  <1>9. /\ Injects => guest' = [guest EXCEPT !.pc = "handler", !.vector = vector]
        /\ ~Injects => guest' = guest
    BY <1>1, <1>5, <1>7, <1>8, ZenonT(60) DEF WindowStep
  <1> HIDE DEF vector
  <1>g. /\ guest' \in [pc : {"boot", "idle", "handler", "master_eoi", "iret"},
                       step : 0 .. 15, vector : {0, TIMER_VECTOR, KEYBOARD_VECTOR}]
        /\ guest'.step = 15
        /\ Injects => guest'.pc = "handler" /\ guest'.vector = vector
        /\ ~Injects => guest'.pc = "idle"
    BY <1>1, <1>6, <1>9, Zenon DEF SInv, GuestOK
  <1>h. HostRuns' /\ GuestOK'
    BY <1>4, <1>g, Zenon DEF SInv, HostRuns, GuestOK
  <1>i. Programmed'
    BY <1>1, <1>8, <1>g DEF Programmed
  <1>j. ServiceAgrees'
    BY <1>5, <1>6, <1>8, <1>g, Zenon DEF ServiceAgrees
  <1>10. ReadSoFar'
    <2>1. pic.interrupt_delivery_vector = KEYBOARD_PIN =>
            RetiringKey /\ ~ring_empty(kbd) /\ KEYBOARD_PIN \in interrupt_request_bitmap
      BY <1>1 DEF RetiringKey, Retiring, SInv, IInv, KeyboardHeld, KeyPinBacked,
                  KEYBOARD_PIN, PIC_INVALID_VECTOR
    <2>2. taken' = taken + (IF KeyRead THEN 1 ELSE 0)
      BY <1>1, <2>1 DEF WindowStep, InterruptWindowExit, KeyRead, RetiringKey, SInv, IInv,
                        TypeOK
    <2>3. ~KeyRead'
      <3>1. CASE Injects
        BY <3>1, <1>g, Zenon DEF KeyRead
      <3>2. CASE ~Injects /\ Lowered
        BY <3>2, <1>p, <1>8 DEF KeyRead, KEYBOARD_PIN, PIC_INVALID_VECTOR
      <3>3. CASE ~Injects /\ ~Lowered
        BY <3>3, <1>1, <1>p, <1>8, <2>1, Zenon DEF KeyRead, Injects, Requests
      <3>. QED
        BY <3>1, <3>2, <3>3, Zenon
    <2>. QED
      BY <1>4, <2>2, <2>3 DEF SInv, ReadSoFar
  <1>. QED
    BY <1>2, <1>h, <1>i, <1>j, <1>10, Zenon DEF SInv

\* What an OUT leaves alone.
LEMMA PortOutFrame ==
  ASSUME NEW port, NEW byte, PortOut(port, byte)
  PROVE  UNCHANGED <<interrupt_request_bitmap, kbd, window, rflags_if, typed, taken, delivered>>
  BY Zenon DEF PortOut

\* A write to the master PIC.
LEMMA MasterOut ==
  ASSUME pic \in PicType, host = "running",
         NEW port \in {PIC_MASTER_COMMAND_PORT, PIC_MASTER_DATA_PORT},
         NEW byte \in UInt8, PortOut(port, byte)
  PROVE  /\ UNCHANGED <<host, pit>>
         /\ pic'.interrupt_delivery_vector = pic.interrupt_delivery_vector
         /\ port = PIC_MASTER_COMMAND_PORT =>
              /\ pic'.master_pic_data = pic.master_pic_data
              /\ pic'.master_pic_offset = pic.master_pic_offset
              /\ pic'.is_master_pic_initializing <=> pic.is_master_pic_initializing \/ Bit(byte, 4)
              /\ pic'.interrupt_delivery_pending <=>
                   pic.interrupt_delivery_pending /\ byte # PIC_EOI
         /\ port = PIC_MASTER_DATA_PORT =>
              /\ pic'.master_pic_data = byte
              /\ pic'.master_pic_offset = IF pic.is_master_pic_initializing THEN byte
                                          ELSE pic.master_pic_offset
              /\ ~pic'.is_master_pic_initializing
              /\ pic'.interrupt_delivery_pending = pic.interrupt_delivery_pending
  <1> USE DEF PIC_MASTER_COMMAND_PORT, PIC_MASTER_DATA_PORT, PIC_SLAVE_COMMAND_PORT,
              PIC_SLAVE_DATA_PORT
  <1>1. /\ UNCHANGED <<host, pit>>
        /\ pic' = master_pic_outb(port, byte)
    BY DEF PortOut, KEYBOARD_DATA_PORT, PitPorts, PIT_CHANNEL0_PORT, PIT_CONTROL_PORT
  <1>2. CASE port = PIC_MASTER_COMMAND_PORT
    <2> DEFINE icw1 == pic.is_master_pic_initializing \/ Bit(byte, 4)
               ended == pic.interrupt_delivery_pending /\ byte # PIC_EOI
    <2>1. pic' = [pic EXCEPT !.is_master_pic_initializing = icw1,
                             !.interrupt_delivery_pending = ended]
      BY <1>1, <1>2, Zenon DEF master_pic_outb
    <2> HIDE DEF icw1, ended
    <2>2. /\ pic'.interrupt_delivery_vector = pic.interrupt_delivery_vector
          /\ pic'.master_pic_data = pic.master_pic_data
          /\ pic'.master_pic_offset = pic.master_pic_offset
          /\ pic'.is_master_pic_initializing = icw1
          /\ pic'.interrupt_delivery_pending = ended
      BY <2>1, Zenon DEF PicType
    <2>3. port # PIC_MASTER_DATA_PORT
      BY <1>2
    <2>. QED
      BY <1>1, <1>2, <2>2, <2>3, Zenon DEF icw1, ended
  <1>3. CASE port = PIC_MASTER_DATA_PORT
    BY <1>1, <1>3 DEF master_pic_outb, PicType
  <1>. QED
    BY <1>2, <1>3, Zenon

\* A write to the slave PIC leaves the master's registers alone.
LEMMA SlaveOut ==
  ASSUME pic \in PicType, host = "running", ~pic.interrupt_delivery_pending,
         NEW port \in {PIC_SLAVE_COMMAND_PORT, PIC_SLAVE_DATA_PORT},
         NEW byte \in UInt8, PortOut(port, byte)
  PROVE  /\ UNCHANGED <<host, pit>>
         /\ pic'.interrupt_delivery_vector = pic.interrupt_delivery_vector
         /\ pic'.master_pic_data = pic.master_pic_data
         /\ pic'.master_pic_offset = pic.master_pic_offset
         /\ pic'.is_master_pic_initializing = pic.is_master_pic_initializing
         /\ ~pic'.interrupt_delivery_pending
  <1> USE DEF PIC_MASTER_COMMAND_PORT, PIC_MASTER_DATA_PORT, PIC_SLAVE_COMMAND_PORT,
              PIC_SLAVE_DATA_PORT
  <1>1. /\ UNCHANGED <<host, pit>>
        /\ pic' = slave_pic_outb(port, byte)
    BY DEF PortOut, KEYBOARD_DATA_PORT, PitPorts, PIT_CHANNEL0_PORT, PIT_CONTROL_PORT
  <1>2. CASE port = PIC_SLAVE_COMMAND_PORT
    <2> DEFINE icw1 == pic.is_slave_pic_initializing \/ Bit(byte, 4)
               ended == pic.interrupt_delivery_pending /\ byte # PIC_EOI
    <2>1. pic' = [pic EXCEPT !.is_slave_pic_initializing = icw1,
                             !.interrupt_delivery_pending = ended]
      BY <1>1, <1>2, Zenon DEF slave_pic_outb
    <2>2. ~ended
      BY Zenon
    <2> HIDE DEF icw1, ended
    <2>. QED
      BY <1>1, <2>1, <2>2 DEF PicType
  <1>3. CASE port = PIC_SLAVE_DATA_PORT
    BY <1>1, <1>3 DEF slave_pic_outb, PicType
  <1>. QED
    BY <1>2, <1>3, Zenon

\* The three writes to the PIT, in this order, pass its assertions: the mode,
LEMMA PitMode ==
  ASSUME pit \in PitType, host = "running", PortOut(PIT_CONTROL_PORT, 54)
  PROVE  UNCHANGED <<host, pic>> /\ pit'.initial_counter = 0
  <1> USE DEF PIT_CHANNEL0_PORT, PIT_CONTROL_PORT, KEYBOARD_DATA_PORT, PitPorts,
              PIC_MASTER_COMMAND_PORT, PIC_MASTER_DATA_PORT, PIC_SLAVE_COMMAND_PORT,
              PIC_SLAVE_DATA_PORT
  <1>1. ~PitStops(PIT_CONTROL_PORT, 54)
    BY DEF PitStops
  <1>2. UNCHANGED <<host, pic>> /\ pit' = pit_outb(PIT_CONTROL_PORT, 54)
    BY <1>1 DEF PortOut
  <1>. QED
    BY <1>2, Zenon DEF pit_outb, PitType

\* the low byte of the divisor,
LEMMA PitLow ==
  ASSUME pit \in PitType, host = "running", PortOut(PIT_CHANNEL0_PORT, 155),
         pit.initial_counter = 0
  PROVE  UNCHANGED <<host, pic>> /\ pit'.initial_counter = 1 /\ pit'.divisor = 155
  <1> USE DEF PIT_CHANNEL0_PORT, PIT_CONTROL_PORT, KEYBOARD_DATA_PORT, PitPorts,
              PIC_MASTER_COMMAND_PORT, PIC_MASTER_DATA_PORT, PIC_SLAVE_COMMAND_PORT,
              PIC_SLAVE_DATA_PORT
  <1>1. ~PitStops(PIT_CHANNEL0_PORT, 155)
    BY DEF PitStops
  <1>2. UNCHANGED <<host, pic>> /\ pit' = pit_outb(PIT_CHANNEL0_PORT, 155)
    BY <1>1 DEF PortOut
  <1>3. pit' = [pit EXCEPT !.initial_counter = 1, !.divisor = 155]
    BY <1>2 DEF pit_outb
  <1>4. DOMAIN pit = {"initial_counter", "divisor", "threshold", "last_tsc"}
    BY Zenon DEF PitType
  <1>. QED
    BY <1>2, <1>3, <1>4, ZenonT(60)

\* and the high byte.
LEMMA PitHigh ==
  ASSUME pit \in PitType, host = "running", PortOut(PIT_CHANNEL0_PORT, 46),
         pit.initial_counter = 1, pit.divisor = 155
  PROVE  UNCHANGED <<host, pic>>
  <1> USE DEF PIT_CHANNEL0_PORT, PIT_CONTROL_PORT, KEYBOARD_DATA_PORT, PitPorts,
              PIC_MASTER_COMMAND_PORT, PIC_MASTER_DATA_PORT, PIC_SLAVE_COMMAND_PORT,
              PIC_SLAVE_DATA_PORT
  <1>1. ~PitStops(PIT_CHANNEL0_PORT, 46)
    BY DEF PitStops, Divisor
  <1>. QED
    BY <1>1 DEF PortOut

\* The bytes guest_kernel_main writes, one at a time.
LEMMA GuestBootInv ==
  ASSUME SInv, GuestBoot
  PROVE  SInv'
  <1> DEFINE k == guest.step
             port == guest_kernel_main[k + 1][1]
             byte == guest_kernel_main[k + 1][2]
  <1>1. /\ guest.pc = "boot" /\ k \in 0 .. 14
        /\ PortOut(port, byte)
        /\ guest' = [guest EXCEPT !.step = @ + 1]
        /\ read' = read
    BY Script DEF GuestBoot, At, SInv, GuestOK
  <1>2. byte \in UInt8
    BY <1>1, Script DEF UInt8
  <1>3. /\ pic \in PicType /\ pit \in PitType /\ host = "running"
        /\ pic.interrupt_delivery_pending \in BOOLEAN
        /\ ~pic.interrupt_delivery_pending
    BY <1>1, Zenon DEF SInv, IInv, TypeOK, HostRuns, ServiceAgrees, PicType
  <1>4. /\ IInv'
        /\ pic'.interrupt_delivery_vector = pic.interrupt_delivery_vector
    BY <1>1, <1>2, PortOutInv DEF SInv
  <1>5. UNCHANGED <<interrupt_request_bitmap, rflags_if, typed, taken>>
    BY <1>1, PortOutFrame, Zenon
  <1>6. /\ guest' \in [pc : {"boot", "idle", "handler", "master_eoi", "iret"},
                       step : 0 .. 15, vector : {0, TIMER_VECTOR, KEYBOARD_VECTOR}]
        /\ guest'.pc = "boot" /\ guest'.step = k + 1
    BY <1>1 DEF SInv, GuestOK
  <1>7. /\ HostRuns'
        /\ ~pic'.interrupt_delivery_pending
        /\ Programmed'
    <2> USE DEF HostRuns
    <2>1. /\ k <= 4 => interrupt_request_bitmap' = {} /\ pic.master_pic_data = 255
          /\ k >= 5 => pic.master_pic_offset = 32
          /\ pic.is_master_pic_initializing <=> k \in {3, 4}
          /\ k = 13 => pit.initial_counter = 0
          /\ k = 14 => pit.initial_counter = 1 /\ pit.divisor = 155
      BY <1>5 DEF SInv, Programmed
    <2>2. CASE k = 0
      <3>1. port = PIC_MASTER_DATA_PORT /\ byte = 255
        BY <2>2, Script
      <3>2. host' = host /\ pic'.master_pic_data = 255 /\ ~pic'.is_master_pic_initializing
            /\ ~pic'.interrupt_delivery_pending
        BY <1>1, <1>2, <1>3, <3>1, MasterOut DEF PIC_MASTER_DATA_PORT, PIC_MASTER_COMMAND_PORT
      <3>. QED
        BY <1>3, <1>6, <2>1, <2>2, <3>2 DEF Programmed
    <2>3. CASE k = 2
      <3>1. port = PIC_MASTER_COMMAND_PORT /\ byte = 17
        BY <2>3, Script
      <3>2. /\ host' = host /\ pic'.master_pic_data = pic.master_pic_data
            /\ pic'.is_master_pic_initializing /\ ~pic'.interrupt_delivery_pending
        BY <1>1, <1>2, <1>3, <3>1, MasterOut, Bits, Zenon
      <3>. QED
        BY <1>3, <1>6, <2>1, <2>3, <3>2 DEF Programmed
    <2>4. CASE k = 4
      <3>1. port = PIC_MASTER_DATA_PORT /\ byte = 32
        BY <2>4, Script
      <3>2. /\ host' = host /\ ~pic'.is_master_pic_initializing
            /\ pic'.master_pic_offset = 32
            /\ ~pic'.interrupt_delivery_pending
        BY <1>1, <1>2, <1>3, <2>1, <2>4, <3>1, MasterOut
          DEF PIC_MASTER_DATA_PORT, PIC_MASTER_COMMAND_PORT
      <3>. QED
        BY <1>3, <1>6, <2>1, <2>4, <3>2 DEF Programmed
    <2>5. CASE k \in {6, 8, 10}
      <3>1. port = PIC_MASTER_DATA_PORT
        BY <2>5, Script
      <3>2. /\ host' = host /\ ~pic'.is_master_pic_initializing
            /\ pic'.master_pic_offset = 32
            /\ ~pic'.interrupt_delivery_pending
        BY <1>1, <1>2, <1>3, <2>1, <2>5, <3>1, MasterOut
          DEF PIC_MASTER_DATA_PORT, PIC_MASTER_COMMAND_PORT
      <3>. QED
        BY <1>3, <1>6, <2>1, <2>5, <3>2 DEF Programmed
    <2>6. CASE k \in {1, 3, 5, 7, 9, 11}
      <3>1. port \in {PIC_SLAVE_COMMAND_PORT, PIC_SLAVE_DATA_PORT}
        BY <2>6, Script
      <3>2. /\ host' = host /\ pic'.master_pic_data = pic.master_pic_data
            /\ pic'.is_master_pic_initializing = pic.is_master_pic_initializing
            /\ pic'.master_pic_offset = pic.master_pic_offset
            /\ ~pic'.interrupt_delivery_pending
        BY <1>1, <1>2, <1>3, <3>1, SlaveOut, Zenon
      <3>. QED
        BY <1>3, <1>6, <2>1, <2>6, <3>2 DEF Programmed
    <2>7. CASE k = 12
      <3>1. port = PIT_CONTROL_PORT /\ byte = 54
        BY <2>7, Script
      <3>2. UNCHANGED <<host, pic>> /\ pit'.initial_counter = 0
        BY <1>1, <1>3, <3>1, PitMode, Zenon
      <3>. QED
        BY <1>3, <1>6, <2>1, <2>7, <3>2 DEF Programmed
    <2>8. CASE k = 13
      <3>1. port = PIT_CHANNEL0_PORT /\ byte = 155
        BY <2>8, Script
      <3>2. UNCHANGED <<host, pic>> /\ pit'.initial_counter = 1 /\ pit'.divisor = 155
        BY <1>1, <1>3, <2>1, <2>8, <3>1, PitLow, Zenon
      <3>. QED
        BY <1>3, <1>6, <2>1, <2>8, <3>2 DEF Programmed
    <2>9. CASE k = 14
      <3>1. port = PIT_CHANNEL0_PORT /\ byte = 46
        BY <2>9, Script
      <3>2. UNCHANGED <<host, pic>>
        BY <1>1, <1>3, <2>1, <2>9, <3>1, PitHigh, Zenon
      <3>. QED
        BY <1>3, <1>6, <2>1, <2>9, <3>2 DEF Programmed
    <2>. QED
      BY <1>1, <2>2, <2>3, <2>4, <2>5, <2>6, <2>7, <2>8, <2>9
  <1>8. GuestOK' /\ ServiceAgrees'
    BY <1>1, <1>5, <1>6, <1>7, Zenon DEF SInv, GuestOK, ServiceAgrees
  <1>9. ReadSoFar'
    BY <1>1, <1>4, <1>5, <1>6 DEF SInv, ReadSoFar, KeyRead
  <1>. QED
    BY <1>4, <1>7, <1>8, <1>9, Zenon DEF SInv

\* STI and IRET take the guest to its HLT loop.
LEMMA GuestFlagInv ==
  ASSUME SInv, GuestSti \/ GuestIret
  PROVE  SInv'
  <1>1. /\ guest.pc \in {"boot", "iret"} /\ guest.step = 15
        /\ GuestFlag /\ guest' = [guest EXCEPT !.pc = "idle"]
        /\ read' = read
    BY Script, Zenon DEF GuestSti, GuestIret, At, Goto, SInv, GuestOK
  <1>2. /\ UNCHANGED <<interrupt_request_bitmap, pic, pit, kbd, window, host, typed, taken,
                       delivered>>
        /\ rflags_if' = ~rflags_if
    BY <1>1, Zenon DEF GuestFlag
  <1>3. rflags_if' \in BOOLEAN /\ host' \in {"running", "panic"}
    BY <1>2, Zenon DEF SInv, IInv, TypeOK
  <1>4. IInv'
    BY <1>2, <1>3, IdleInv, Zenon DEF SInv
  <1>5. /\ guest' \in [pc : {"boot", "idle", "handler", "master_eoi", "iret"},
                       step : 0 .. 15, vector : {0, TIMER_VECTOR, KEYBOARD_VECTOR}]
        /\ guest'.pc = "idle" /\ guest'.step = guest.step /\ guest'.vector = guest.vector
    BY <1>1, Zenon DEF SInv, GuestOK
  <1>6. HostRuns' /\ GuestOK'
    BY <1>1, <1>2, <1>5, Zenon DEF SInv, HostRuns, GuestOK
  <1>7. Programmed'
    BY <1>2, <1>5 DEF SInv, Programmed
  <1>8. ServiceAgrees'
    BY <1>1, <1>2, <1>5, Zenon DEF SInv, ServiceAgrees
  <1>9. ReadSoFar'
    BY <1>1, <1>2, <1>5, Zenon DEF SInv, ReadSoFar, KeyRead
  <1>. QED
    BY <1>4, <1>6, <1>7, <1>8, <1>9 DEF SInv

\* The handler of the keyboard finds the scancode it was called for: the first
\* one not yet retired.
LEMMA KeyThere ==
  ASSUME IInv, pic.interrupt_delivery_vector = KEYBOARD_PIN
  PROVE  /\ taken < Len(typed)
         /\ keyboard_data_inb = typed[taken + 1]
  <1>1. ~ring_empty(kbd) /\ kbd \in Ring
    BY Zenon DEF IInv, TypeOK, KeyboardHeld, KeyPinBacked
  <1>2. ring_length(kbd) \in Nat /\ ring_length(kbd) # 0
    BY <1>1, LengthIs, EmptyFull
  <1>3. keyboard_data_inb = Contents(kbd)[1]
    BY <1>1, TakeByteDropsFirst, Zenon DEF keyboard_data_inb
  <1>4. /\ Len(typed) = taken + ring_length(kbd) /\ taken \in Nat
        /\ \A i \in 1 .. ring_length(kbd) : Contents(kbd)[i] = typed[taken + i]
    BY Zenon DEF IInv, TypeOK, KeysInOrder
  <1>. QED
    BY <1>2, <1>3, <1>4

\* The registered handlers.
LEMMA GuestHandlerInv ==
  ASSUME SInv, GuestHandler
  PROVE  SInv'
  <1>1. /\ guest.pc = "handler" /\ guest.step = 15
        /\ pic.interrupt_delivery_pending
        /\ pic.master_pic_offset = 32
        /\ guest.vector = 32 + pic.interrupt_delivery_vector
        /\ pic.interrupt_delivery_vector \in {TIMER_PIN, KEYBOARD_PIN, PIC_INVALID_VECTOR}
        /\ guest.vector \in {0, TIMER_VECTOR, KEYBOARD_VECTOR}
    BY DEF GuestHandler, At, SInv, GuestOK, ServiceAgrees, Programmed, IInv, TwoPins
  <1>2. /\ guest.vector < 40
        /\ guest.vector = KEYBOARD_VECTOR <=> pic.interrupt_delivery_vector = KEYBOARD_PIN
    BY <1>1 DEF TIMER_VECTOR, KEYBOARD_VECTOR, TIMER_PIN, KEYBOARD_PIN, PIC_INVALID_VECTOR
  <1>3. guest' = [guest EXCEPT !.pc = "master_eoi"]
    BY <1>1, <1>2 DEF GuestHandler, Goto, TIMER_VECTOR, KEYBOARD_VECTOR
  <1>4. /\ UNCHANGED <<interrupt_request_bitmap, pic, pit, kbd, window, rflags_if, typed, taken,
                       delivered>>
        /\ host' = "running"
        /\ read' = IF guest.vector = KEYBOARD_VECTOR
                   THEN Append(read, keyboard_data_inb) ELSE read
    BY Zenon DEF GuestHandler, PortIn, vars, SInv, HostRuns
  <1>5. IInv'
    <2>1. rflags_if' \in BOOLEAN /\ host' \in {"running", "panic"}
      BY <1>4, Zenon DEF SInv, IInv, TypeOK
    <2>. QED
      BY <1>4, <2>1, IdleInv DEF SInv
  <1>6. /\ guest' \in [pc : {"boot", "idle", "handler", "master_eoi", "iret"},
                       step : 0 .. 15, vector : {0, TIMER_VECTOR, KEYBOARD_VECTOR}]
        /\ guest'.pc = "master_eoi" /\ guest'.step = guest.step
        /\ guest'.vector = guest.vector
    BY <1>3, Zenon DEF SInv, GuestOK
  <1>7. HostRuns' /\ GuestOK'
    BY <1>1, <1>4, <1>6 DEF SInv, HostRuns, GuestOK
  <1>8. Programmed'
    BY <1>4, <1>6 DEF SInv, Programmed
  <1>9. ServiceAgrees'
    <2>1. guest'.pc \in {"handler", "slave_eoi", "master_eoi"}
      BY <1>6, Zenon
    <2>2. pic' = pic
      BY <1>4, Zenon
    <2>3. pic'.interrupt_delivery_pending
      BY <1>1, <2>2, Zenon
    <2>4. guest'.vector = pic'.master_pic_offset + pic'.interrupt_delivery_vector
      BY <1>1, <1>6, <2>2, Zenon
    <2>. QED
      BY <2>1, <2>3, <2>4, Zenon DEF ServiceAgrees
  <1>10. ReadSoFar'
    <2>1. ~KeyRead /\ (KeyRead' <=> pic.interrupt_delivery_vector = KEYBOARD_PIN)
      BY <1>1, <1>4, <1>6, Zenon DEF KeyRead
    <2>2. /\ read \in Seq(Byte) /\ Len(read) = taken /\ Len(read) <= Len(typed)
          /\ \A i \in 1 .. Len(read) : read[i] = typed[i]
          /\ typed \in Seq(Byte) /\ taken \in Nat
      BY <2>1 DEF SInv, ReadSoFar, IInv, TypeOK
    <2>3. CASE pic.interrupt_delivery_vector = KEYBOARD_PIN
      <3>1. taken < Len(typed) /\ keyboard_data_inb = typed[taken + 1]
        BY <2>3, KeyThere, Zenon DEF SInv
      <3>2. Len(typed) \in Nat /\ keyboard_data_inb \in Byte
        BY <2>2, <3>1
      <3>3. read' = Append(read, keyboard_data_inb)
        BY <1>2, <1>4, <2>3, Zenon
      <3>4. /\ read' \in Seq(Byte) /\ Len(read') = taken + 1
            /\ \A i \in 1 .. taken : read'[i] = read[i]
            /\ read'[taken + 1] = typed[taken + 1]
        BY <2>2, <3>1, <3>2, <3>3
      <3>. QED
        BY <1>4, <2>1, <2>2, <2>3, <3>1, <3>2, <3>4 DEF ReadSoFar
    <2>4. CASE pic.interrupt_delivery_vector # KEYBOARD_PIN
      BY <1>2, <1>4, <2>1, <2>2, <2>4 DEF ReadSoFar
    <2>. QED
      BY <2>3, <2>4, Zenon
  <1>. QED
    BY <1>5, <1>7, <1>8, <1>9, <1>10 DEF SInv

\* The EOI ends the service for the monitor and the guest in one step.
LEMMA GuestEoiInv ==
  ASSUME SInv, GuestEoi
  PROVE  SInv'
  <1>1. /\ guest.pc = "master_eoi" /\ guest.step = 15
        /\ PortOut(PIC_MASTER_COMMAND_PORT, PIC_EOI)
        /\ guest' = [guest EXCEPT !.pc = "iret"]
        /\ read' = read
    BY Zenon DEF GuestEoi, At, Goto, SInv, GuestOK
  <1>2. PIC_EOI \in UInt8 /\ ~Bit(PIC_EOI, 4)
    BY Bits DEF PIC_EOI, UInt8
  <1>3. pic \in PicType /\ host = "running"
    BY Zenon DEF SInv, IInv, TypeOK, HostRuns
  <1>4. IInv'
    BY <1>1, <1>2, PortOutInv, Zenon DEF SInv
  <1>5. UNCHANGED <<interrupt_request_bitmap, rflags_if, typed, taken>>
    BY <1>1, PortOutFrame, Zenon
  <1>6. /\ UNCHANGED <<host, pit>>
        /\ pic'.interrupt_delivery_vector = pic.interrupt_delivery_vector
        /\ pic'.master_pic_data = pic.master_pic_data
        /\ pic'.master_pic_offset = pic.master_pic_offset
        /\ pic'.is_master_pic_initializing <=> pic.is_master_pic_initializing
        /\ ~pic'.interrupt_delivery_pending
    BY <1>1, <1>2, <1>3, MasterOut
  <1>7. /\ guest' \in [pc : {"boot", "idle", "handler", "master_eoi", "iret"},
                       step : 0 .. 15, vector : {0, TIMER_VECTOR, KEYBOARD_VECTOR}]
        /\ guest'.pc = "iret" /\ guest'.step = guest.step
    BY <1>1, Zenon DEF SInv, GuestOK
  <1>8. HostRuns' /\ GuestOK'
    BY <1>1, <1>5, <1>6, <1>7, Zenon DEF SInv, HostRuns, GuestOK
  <1>9. Programmed'
    BY <1>5, <1>6, <1>7 DEF SInv, Programmed
  <1>10. ServiceAgrees'
    BY <1>6, <1>7, Zenon DEF ServiceAgrees
  <1>11. ReadSoFar'
    BY <1>1, <1>5, <1>6, <1>7 DEF SInv, ReadSoFar, KeyRead
  <1>. QED
    BY <1>4, <1>8, <1>9, <1>10, <1>11, Zenon DEF SInv

-----------------------------------------------------------------------------
\* The invariant of the monitor with its guest.
THEOREM SystemInvariance == SysSpec => []SInv
  <1>1. SInv /\ [SysNext]_sysvars => SInv'
    <2> SUFFICES ASSUME SInv, [SysNext]_sysvars PROVE SInv'
      BY Zenon
    <2>1. CASE TimerStep
      BY <2>1, TimerStepInv, Zenon
    <2>2. CASE KeyboardStep
      BY <2>2, KeyboardStepInv, Zenon
    <2>3. CASE WindowStep
      BY <2>3, WindowStepInv, Zenon
    <2>4. CASE GuestBoot
      BY <2>4, GuestBootInv, Zenon
    <2>5. CASE GuestSti \/ GuestIret
      BY <2>5, GuestFlagInv, Zenon
    <2>6. CASE GuestHandler
      BY <2>6, GuestHandlerInv, Zenon
    <2>7. CASE GuestEoi
      BY <2>7, GuestEoiInv, Zenon
    <2>8. CASE UNCHANGED sysvars
      <3>1. IInv'
        BY <2>8, IdleInv, Zenon DEF sysvars, vars, SInv, IInv, TypeOK
      <3>2. HostRuns' /\ GuestOK' /\ ServiceAgrees'
        BY <2>8, HostSide DEF sysvars, vars
      <3>3. Programmed' /\ ReadSoFar'
        BY <2>8 DEF sysvars, vars, SInv, Programmed, ReadSoFar, KeyRead
      <3>. QED
        BY <3>1, <3>2, <3>3 DEF SInv
    <2>. QED
      BY <2>1, <2>2, <2>3, <2>4, <2>5, <2>6, <2>7, <2>8 DEF SysNext, GuestStep
  <1>. QED
    BY <1>1, SysInitInv, PTL DEF SysSpec

\* The shipped guest stops the monitor at none of the assertions of the
\* emulated devices.
THEOREM HostAlwaysRuns == SysSpec => []HostRuns
  <1>1. SInv => HostRuns
    BY Zenon DEF SInv
  <1>. QED
    BY <1>1, SystemInvariance, PTL

\* pic_remap has moved the vectors before any pin is requested.
THEOREM RemapFirst == SysSpec => []RemappedBeforeRequest
  <1>1. SInv => RemappedBeforeRequest
    BY DEF SInv, GuestOK, Programmed, RemappedBeforeRequest
  <1>. QED
    BY <1>1, SystemInvariance, PTL

\* The PIC blob and the guest's dispatcher agree on what is in service.
THEOREM ServiceShared == SysSpec => []ServiceAgrees
  <1>1. SInv => ServiceAgrees
    BY Zenon DEF SInv
  <1>. QED
    BY <1>1, SystemInvariance, PTL

\* Every accepted scancode is read by the handler once and in order.
THEOREM ReadInOrder == SysSpec => []ReadsInOrder
  <1>1. SInv => ReadsInOrder
    <2> SUFFICES ASSUME SInv PROVE ReadsInOrder
      OBVIOUS
    <2>1. /\ read \in Seq(Byte) /\ typed \in Seq(Byte)
          /\ Len(read) <= Len(typed)
          /\ \A i \in 1 .. Len(read) : read[i] = typed[i]
      BY Zenon DEF SInv, ReadSoFar, IInv, TypeOK
    <2>2. Len(read) \in Nat /\ Len(typed) \in Nat
      BY <2>1
    <2>3. SubSeq(typed, 1, Len(read)) = read
      BY <2>1, <2>2
    <2>. QED
      BY <2>1, <2>3, Zenon DEF ReadsInOrder
  <1>. QED
    BY <1>1, SystemInvariance, PTL

\* The shipped guest is one of the guests of VirtualInterrupt, if that guest
\* may write the bytes of guest_kernel_main and the EOI: what is proved of the
\* most general guest holds of this one.
THEOREM OneOfTheGuests ==
  ASSUME \A i \in 1 .. Len(guest_kernel_main) :
           <<guest_kernel_main[i][1], guest_kernel_main[i][2]>> \in GuestWrites,
         <<PIC_MASTER_COMMAND_PORT, PIC_EOI>> \in GuestWrites
  PROVE  SysSpec => Spec
  <1>1. SysInit => Init
    BY Zenon DEF SysInit
  <1>2. SInv /\ [SysNext]_sysvars => [Next]_vars
    <2> SUFFICES ASSUME SInv, [SysNext]_sysvars PROVE [Next]_vars
      BY Zenon
    <2>1. CASE TimerStep
      BY <2>1, Zenon DEF TimerStep, Next, HostInterruptExit
    <2>2. CASE KeyboardStep
      BY <2>2, Zenon DEF KeyboardStep, Next, HostInterruptExit
    <2>3. CASE WindowStep
      BY <2>3, Zenon DEF WindowStep, Next
    <2>4. CASE GuestBoot
      <3> DEFINE w == <<guest_kernel_main[guest.step + 1][1],
                        guest_kernel_main[guest.step + 1][2]>>
      <3>0. guest.step + 1 \in 1 .. Len(guest_kernel_main)
        BY <2>4, Script DEF GuestBoot, SInv, GuestOK
      <3>1. w \in GuestWrites /\ ~WindowOpen
        BY <2>4, <3>0, Zenon DEF GuestBoot, At
      <3>2. PortOut(w[1], w[2])
        BY <2>4, Zenon DEF GuestBoot
      <3> HIDE DEF w
      <3>. QED
        BY <3>1, <3>2, Zenon DEF Next, GuestInstruction
    <2>5. CASE GuestSti \/ GuestIret
      BY <2>5, Zenon DEF GuestSti, GuestIret, At, Next, GuestInstruction
    <2>6. CASE GuestHandler
      <3>1. KEYBOARD_DATA_PORT \in Ports
        BY Zenon DEF Ports
      <3>. QED
        BY <2>6, <3>1, Zenon DEF GuestHandler, At, Next, GuestInstruction
    <2>7. CASE GuestEoi
      <3> DEFINE w == <<PIC_MASTER_COMMAND_PORT, PIC_EOI>>
      <3>1. guest.pc # "slave_eoi"
        BY Zenon DEF SInv, GuestOK
      <3>2. w \in GuestWrites /\ ~WindowOpen /\ PortOut(w[1], w[2])
        BY <2>7, <3>1, Zenon DEF GuestEoi, At
      <3> HIDE DEF w
      <3>. QED
        BY <3>2, Zenon DEF Next, GuestInstruction
    <2>8. CASE UNCHANGED sysvars
      BY <2>8, Zenon DEF sysvars
    <2>. QED
      BY <2>1, <2>2, <2>3, <2>4, <2>5, <2>6, <2>7, <2>8 DEF SysNext, GuestStep
  <1>. QED
    BY <1>1, <1>2, SystemInvariance, PTL DEF SysSpec, Spec

(***************************************************************************)
(* Induction over the turns of a loop: a set of numbers that has 0 and,    *)
(* with each number below n, the next, has every number up to n; and a     *)
(* loop of n turns has a run, the values it computes turn by turn.         *)
(***************************************************************************)

\* A set of natural numbers that has an element has a least one.
LEMMA Least ==
  ASSUME NEW T, T \subseteq Nat, T # {}
  PROVE  \E x \in T : \A y \in T : x <= y
  <1> DEFINE R == OpToRel(<, Nat)
  <1>1. IsWellFoundedOn(R, Nat)
    BY NatLessThanWellFounded, Zenon
  <1>2. \A x, y \in Nat : <<x, y>> \in R <=> x < y
    BY Zenon DEF OpToRel
  <1> HIDE DEF R
  <1>3. PICK x \in T : \A y \in T : ~(<<y, x>> \in R)
    BY <1>1, WFMin, Zenon
  <1>4. \A y \in T : ~(y < x)
    BY <1>2, <1>3, Zenon
  <1>. QED
    BY <1>4

\* T has 0, and with each number below n the next.
Climbs(T, n) == 0 \in T /\ \A i \in 0 .. n - 1 : i \in T => i + 1 \in T

\* The set of a climb to n has every number up to n.
LEMMA Climb ==
  ASSUME NEW n \in Nat, NEW T, Climbs(T, n), NEW j \in 0 .. n
  PROVE  j \in T
  <1> DEFINE U == {i \in 0 .. n : i \notin T}
  <1> SUFFICES ASSUME j \notin T PROVE FALSE
    OBVIOUS
  <1>1. U \subseteq Nat /\ U # {}
    OBVIOUS
  <1>2. PICK x \in U : \A y \in U : x <= y
    <2> HIDE DEF U
    <2>. QED
      BY <1>1, Least, Zenon
  <1>3. x # 0
    BY DEF Climbs
  <1>4. x - 1 \in 0 .. n - 1 /\ x - 1 \notin U /\ x - 1 + 1 = x
    BY <1>2, <1>3
  <1>. QED
    BY <1>4 DEF Climbs

\* What the loops compute turn by turn: g[i] is the value after turn i.
Run(g, m, x, step, S) ==
  /\ g \in [0 .. m -> S]
  /\ g[0] = x
  /\ \A i \in 1 .. m : g[i] = step[i][g[i - 1]]

\* A loop of n turns has a run.
LEMMA Runs ==
  ASSUME NEW n \in Nat, NEW S, NEW x \in S, NEW step \in [1 .. n -> [S -> S]]
  PROVE  \E g : Run(g, n, x, step, S)
  <1> DEFINE T == {m \in 0 .. n : \E g : Run(g, m, x, step, S)}
  <1>1. 0 \in T
    <2>1. Run([i \in 0 .. 0 |-> x], 0, x, step, S)
      BY DEF Run
    <2>. QED
      BY <2>1
  <1>2. ASSUME NEW m \in 0 .. n - 1, m \in T
        PROVE  m + 1 \in T
    <2>1. PICK g : Run(g, m, x, step, S)
      BY <1>2, Zenon
    <2> DEFINE h == [i \in 0 .. m + 1 |-> IF i = m + 1 THEN step[m + 1][g[m]] ELSE g[i]]
    <2>2. m \in 0 .. m /\ m + 1 \in 1 .. n /\ m + 1 \in 0 .. m + 1
      OBVIOUS
    <2>3. g[m] \in S /\ step[m + 1][g[m]] \in S
      BY <2>1, <2>2, Zenon DEF Run
    <2>4. h \in [0 .. m + 1 -> S]
      <3>1. \A i \in 0 .. m + 1 : i = m + 1 \/ i \in 0 .. m
        OBVIOUS
      <3>. QED
        BY <2>1, <2>3, <3>1, Zenon DEF Run
    <2>5. h[0] = x /\ h[m + 1] = step[m + 1][g[m]] /\ \A i \in 0 .. m : h[i] = g[i]
      BY <2>1 DEF Run
    <2> HIDE DEF h
    <2>6. ASSUME NEW i \in 1 .. m + 1 PROVE h[i] = step[i][h[i - 1]]
      <3>1. CASE i = m + 1
        BY <2>2, <2>5, <3>1
      <3>2. CASE i # m + 1
        <4>1. i \in 1 .. m /\ i \in 0 .. m /\ i - 1 \in 0 .. m
          BY <3>2
        <4>. QED
          BY <2>1, <2>5, <4>1, Zenon DEF Run
      <3>. QED
        BY <3>1, <3>2, Zenon
    <2>7. Run(h, m + 1, x, step, S)
      BY <2>4, <2>5, <2>6, Zenon DEF Run
    <2>. QED
      BY <2>2, <2>7
  <1>3. Climbs(T, n)
    <2> HIDE DEF T
    <2>. QED
      BY <1>1, <1>2, Zenon DEF Climbs
  <1> HIDE DEF T
  <1>4. n \in T
    BY <1>3, Climb
  <1>. QED
    BY <1>4, Zenon DEF T

(***************************************************************************)
(* The ring as a queue: the loops of write_ring and read_ring, and the     *)
(* refinement of BoundedFifo by ByteStream.                                *)
(***************************************************************************)

\* The smaller of two numbers.
Fewer(n, m) == IF n < m THEN n ELSE m

\* The ring q has the contents of r and, behind them, the first k of the bytes.
Written(q, r, bytes, k) ==
  /\ q \in Ring
  /\ ring_length(q) = ring_length(r) + k
  /\ \A i \in 1 .. ring_length(r) : Contents(q)[i] = Contents(r)[i]
  /\ \A i \in 1 .. k : Contents(q)[ring_length(r) + i] = bytes[i]

\* What n turns of the loop of write_ring make of the ring r.
WriteTurns(w, r, bytes, n) ==
  /\ w.result = Fewer(n, RingSize - 1 - ring_length(r))
  /\ Written(w.ring, r, bytes, w.result)

\* A turn of the loop of write_ring (ring.h 45-52).
LEMMA OneWriteTurn ==
  ASSUME NEW m \in Nat, NEW bytes \in [1 .. m -> Byte], NEW r \in Ring, NEW n \in 1 .. m,
         NEW w \in [ring : Ring, result : Nat], WriteTurns(w, r, bytes, n - 1)
  PROVE  /\ WriteTurn(w, bytes[n]) \in [ring : Ring, result : Nat]
         /\ WriteTurns(WriteTurn(w, bytes[n]), r, bytes, n)
  <1> DEFINE len == ring_length(r)
             room == RingSize - 1 - len
             k == w.result
             q == w.ring
             b == bytes[n]
  <1>1. /\ len \in Nat /\ room \in Nat /\ RingSize - 1 \in Nat
    BY LengthIs, RingSizeAssumption
  <1>2. /\ k = Fewer(n - 1, room) /\ q \in Ring /\ ring_length(q) = len + k
        /\ \A i \in 1 .. len : Contents(q)[i] = Contents(r)[i]
        /\ \A i \in 1 .. k : Contents(q)[len + i] = bytes[i]
    BY Zenon DEF WriteTurns, Written
  <1>3. k \in Nat /\ w = [ring |-> q, result |-> k] /\ b \in Byte
    OBVIOUS
  <1>4. ring_full(q) <=> len + k = RingSize - 1
    BY <1>2, EmptyFull, Zenon
  <1> HIDE DEF len, room, k, q, b
  <1>5. CASE ring_full(q)
    <2>1. WriteTurn(w, b) = w
      BY <1>5, Zenon DEF WriteTurn, q
    <2>2. k = Fewer(n, room)
      BY <1>1, <1>2, <1>3, <1>4, <1>5 DEF Fewer, room
    <2>3. WriteTurns(w, r, bytes, n)
      BY <1>2, <2>2, Zenon DEF WriteTurns, Written, len, room, k, q
    <2>. QED
      BY <2>1, <2>3, Zenon DEF b
  <1>6. CASE ~ring_full(q)
    <2> DEFINE p == PutByte(q, b)
               v == WriteTurn(w, b)
    <2>1. v = [ring |-> p, result |-> k + 1]
      BY <1>6, Zenon DEF WriteTurn, q, k
    <2>2. /\ p \in Ring
          /\ ring_length(p) = ring_length(q) + 1
          /\ \A i \in 1 .. ring_length(q) + 1 :
               Contents(p)[i] = IF i <= ring_length(q) THEN Contents(q)[i] ELSE b
      BY <1>2, <1>3, <1>6, PutByteAppends
    <2> HIDE DEF p, v
    <2>3. k = n - 1 /\ k + 1 = Fewer(n, room)
      BY <1>1, <1>2, <1>3, <1>4, <1>6 DEF Fewer, room
    <2>4. \A i \in 1 .. (len + k) + 1 : Contents(p)[i] = IF i <= len + k THEN Contents(q)[i] ELSE b
      BY <1>2, <2>2, Zenon
    <2>5. ASSUME NEW i \in 1 .. len PROVE Contents(p)[i] = Contents(r)[i]
      <3>0. \A a, c \in Nat : \A j \in 1 .. a : j \in 1 .. (a + c) + 1 /\ j <= a + c
        OBVIOUS
      <3>1. i \in 1 .. (len + k) + 1 /\ i <= len + k
        BY <1>1, <1>3, <3>0, Zenon
      <3>. QED
        BY <1>2, <2>4, <3>1, Zenon
    <2>6. ASSUME NEW i \in 1 .. k + 1 PROVE Contents(p)[len + i] = bytes[i]
      <3>1. len + i \in 1 .. (len + k) + 1
        BY <1>1, <1>3
      <3>2. CASE i = k + 1
        <4>1. ~(len + i <= len + k) /\ i = n
          BY <1>1, <1>3, <2>3, <3>2
        <4>. QED
          BY <2>4, <3>1, <4>1, Zenon DEF b
      <3>3. CASE i # k + 1
        <4>1. len + i <= len + k /\ i \in 1 .. k
          BY <1>1, <1>3, <3>3
        <4>. QED
          BY <1>2, <2>4, <3>1, <4>1, Zenon
      <3>. QED
        BY <3>2, <3>3, Zenon
    <2>7. ring_length(p) = len + (k + 1)
      BY <1>1, <1>2, <1>3, <2>2
    <2>8. v.ring = p /\ v.result = k + 1 /\ k + 1 \in Nat
      BY <1>3, <2>1
    <2>9. WriteTurns(v, r, bytes, n)
      <3>1. Written(p, r, bytes, k + 1)
        BY <2>2, <2>5, <2>6, <2>7, Zenon DEF Written, len
      <3>. QED
        BY <2>3, <2>8, <3>1, Zenon DEF WriteTurns, len, room
    <2>10. v \in [ring : Ring, result : Nat]
      BY <2>1, <2>2, <2>8, Zenon
    <2>. QED
      BY <2>9, <2>10, Zenon DEF v, b
  <1>. QED
    BY <1>5, <1>6, Zenon

\* What the loop of write_ring computes with.
WriteStates == [ring : Ring, result : Nat]

\* A turn of the loop of write_ring keeps the types.
LEMMA WriteTurnType ==
  ASSUME NEW w \in WriteStates, NEW b \in Byte
  PROVE  WriteTurn(w, b) \in WriteStates
  <1>1. w.ring \in Ring /\ w.result \in Nat /\ w.result + 1 \in Nat
    BY DEF WriteStates
  <1>2. ~ring_full(w.ring) => PutByte(w.ring, b) \in Ring
    BY <1>1, PutByteAppends, Zenon
  <1>. QED
    BY <1>1, <1>2, Zenon DEF WriteTurn, WriteStates

\* g is the ring and the count after each turn of the loop.
Writes(g, r, m, bytes) ==
  /\ g \in [0 .. m -> WriteStates]
  /\ g[0] = [ring |-> r, result |-> 0]
  /\ \A n \in 1 .. m : g[n] = WriteTurn(g[n - 1], bytes[n])

WriteRuns(r, m, bytes) == \E g : Writes(g, r, m, bytes) /\ write_ring(r, bytes) = g[m]

\* write_ring is the last value of a run of its loop.
LEMMA WriteRun ==
  ASSUME NEW m \in Nat, NEW bytes \in [1 .. m -> Byte], NEW r \in Ring
  PROVE  WriteRuns(r, m, bytes)
  <1> DEFINE S == WriteStates
             x == [ring |-> r, result |-> 0]
             step == [n \in 1 .. m |-> [w \in S |-> WriteTurn(w, bytes[n])]]
             Eq(f) == f = [n \in 0 .. m |-> IF n = 0 THEN x ELSE WriteTurn(f[n - 1], bytes[n])]
             turn == CHOOSE f : Eq(f)
  <1>0. Len(bytes) = m
    OBVIOUS
  <1>1. x \in S
    BY DEF WriteStates
  <1>2. step \in [1 .. m -> [S -> S]]
    BY WriteTurnType, Zenon
  <1>3. \E f : Eq(f)
    <2>1. PICK g : Run(g, m, x, step, S)
      <3> HIDE DEF S, step, x
      <3>. QED
        BY <1>1, <1>2, Runs, Zenon
    <2>2. \A n \in 1 .. m : n - 1 \in 0 .. m
      OBVIOUS
    <2>3. \A n \in 1 .. m : g[n] = WriteTurn(g[n - 1], bytes[n])
      BY <2>1, <2>2, Zenon DEF Run
    <2>4. \A n \in 0 .. m : n # 0 => n \in 1 .. m
      OBVIOUS
    <2> HIDE DEF x
    <2>5. \A n \in 0 .. m : g[n] = IF n = 0 THEN x ELSE WriteTurn(g[n - 1], bytes[n])
      BY <2>1, <2>3, <2>4, Zenon DEF Run
    <2>. QED
      BY <2>1, <2>5, Zenon DEF Run
  <1>4. Eq(turn)
    BY <1>3, Zenon
  <1>5. write_ring(r, bytes) = turn[m]
    BY <1>0, Zenon DEF write_ring
  <1> HIDE DEF turn, x
  <1>6. /\ turn[0] = x
        /\ \A n \in 1 .. m : turn[n] = WriteTurn(turn[n - 1], bytes[n])
    <2>1. 0 \in 0 .. m /\ \A n \in 1 .. m : n \in 0 .. m /\ n # 0
      OBVIOUS
    <2>. QED
      BY <1>4, <2>1, Zenon
  <1> DEFINE T == {n \in 0 .. m : turn[n] \in S}
  <1>7. Climbs(T, m)
    <2>1. 0 \in T
      BY <1>1, <1>6
    <2>2. ASSUME NEW n \in 0 .. m - 1, n \in T
          PROVE  n + 1 \in T
      <3>1. n + 1 \in 1 .. m /\ n + 1 - 1 = n /\ n + 1 \in 0 .. m
        OBVIOUS
      <3>2. turn[n + 1] = WriteTurn(turn[n], bytes[n + 1]) /\ bytes[n + 1] \in Byte
        BY <1>6, <3>1
      <3>3. turn[n] \in WriteStates
        BY <2>2
      <3>4. WriteTurn(turn[n], bytes[n + 1]) \in WriteStates
        BY <3>2, <3>3, WriteTurnType, Zenon
      <3>. QED
        BY <3>1, <3>2, <3>4, Zenon
    <2> HIDE DEF T
    <2>. QED
      BY <2>1, <2>2, Zenon DEF Climbs
  <1>8. \A n \in 0 .. m : turn[n] \in S
    <2>1. ASSUME NEW n \in 0 .. m PROVE n \in T
      <3> HIDE DEF T
      <3>. QED
        BY <1>7, Climb
    <2>. QED
      BY <2>1
  <1>9. Writes(turn, r, m, bytes)
    <2>1. turn \in [0 .. m -> S]
      BY <1>4, <1>8, Zenon
    <2>. QED
      BY <1>6, <2>1, Zenon DEF Writes, x
  <1>. QED
    BY <1>5, <1>9, Zenon DEF WriteRuns

\* What write_ring does to the ring r (ring.h 39-54).
LEMMA WriteRing ==
  ASSUME NEW m \in Nat, NEW bytes \in [1 .. m -> Byte], NEW r \in Ring
  PROVE  WriteTurns(write_ring(r, bytes), r, bytes, m)
  <1>1. PICK g : Writes(g, r, m, bytes) /\ write_ring(r, bytes) = g[m]
    <2>1. WriteRuns(r, m, bytes)
      BY WriteRun
    <2>. QED
      BY <2>1, Zenon DEF WriteRuns
  <1> DEFINE T == {n \in 0 .. m : WriteTurns(g[n], r, bytes, n)}
  <1>2. 0 \in T
    <2>1. g[0].ring = r /\ g[0].result = 0
      BY <1>1 DEF Writes
    <2>2. ring_length(r) \in Nat /\ 0 = Fewer(0, RingSize - 1 - ring_length(r))
      BY LengthIs, RingSizeAssumption DEF Fewer
    <2>3. ring_length(r) = ring_length(r) + 0 /\ \A i \in 1 .. 0 : FALSE
      BY <2>2
    <2>4. WriteTurns(g[0], r, bytes, 0)
      BY <2>1, <2>2, <2>3, Zenon DEF WriteTurns, Written
    <2>5. 0 \in 0 .. m
      OBVIOUS
    <2>. QED
      BY <2>4, <2>5, Zenon
  <1>3. ASSUME NEW n \in 0 .. m - 1, n \in T
        PROVE  n + 1 \in T
    <2>1. n + 1 \in 1 .. m /\ (n + 1) - 1 = n /\ n \in 0 .. m /\ n + 1 \in 0 .. m
      OBVIOUS
    <2>2. g[n + 1] = WriteTurn(g[n], bytes[n + 1])
      <3>1. g[n + 1] = WriteTurn(g[(n + 1) - 1], bytes[n + 1])
        BY <1>1, <2>1, Zenon DEF Writes
      <3>. QED
        BY <2>1, <3>1
    <2>3. g[n] \in [ring : Ring, result : Nat]
      BY <1>1, <2>1, Zenon DEF Writes, WriteStates
    <2>4. WriteTurns(g[n], r, bytes, (n + 1) - 1)
      BY <1>3, <2>1
    <2>5. WriteTurns(WriteTurn(g[n], bytes[n + 1]), r, bytes, n + 1)
      BY <2>1, <2>3, <2>4, OneWriteTurn, Zenon
    <2>. QED
      BY <2>1, <2>2, <2>5, Zenon
  <1> HIDE DEF T
  <1>4. Climbs(T, m)
    BY <1>2, <1>3, Zenon DEF Climbs
  <1>5. m \in T
    BY <1>4, Climb
  <1>. QED
    BY <1>1, <1>5, Zenon DEF T

\* What the loop of read_ring computes with.
ReadStates == [ring : Ring, result : Nat, data : Seq(Byte)]

\* The ring q is r without its k oldest bytes.
Taken(q, r, k) ==
  /\ q \in Ring
  /\ ring_length(q) = ring_length(r) - k
  /\ \A i \in 1 .. ring_length(r) - k : Contents(q)[i] = Contents(r)[k + i]

\* What n turns of the loop of read_ring make of the ring r.
ReadTurns(t, r, n) ==
  /\ t.result = Fewer(n, ring_length(r))
  /\ Taken(t.ring, r, t.result)
  /\ Len(t.data) = t.result
  /\ \A i \in 1 .. t.result : t.data[i] = Contents(r)[i]

\* The byte ring_peek returns is a byte.
LEMMA PeekType ==
  ASSUME NEW r \in Ring
  PROVE  ring_peek(r) \in Byte
  BY RingFields, Zenon DEF ring_peek

\* A turn of the loop of read_ring keeps the types.
LEMMA ReadTurnType ==
  ASSUME NEW t \in ReadStates
  PROVE  ReadTurn(t) \in ReadStates
  <1>1. t.ring \in Ring /\ t.result \in Nat /\ t.result + 1 \in Nat /\ t.data \in Seq(Byte)
    BY DEF ReadStates
  <1>2. ~ring_empty(t.ring) => TakeByte(t.ring) \in Ring
    BY <1>1, TakeByteDropsFirst, Zenon
  <1>3. ring_peek(t.ring) \in Byte
    BY <1>1, PeekType, Zenon
  <1>4. \A e \in Byte : Append(t.data, e) \in Seq(Byte)
    BY <1>1
  <1>. QED
    BY <1>1, <1>2, <1>3, <1>4, Zenon DEF ReadTurn, ReadStates

\* What a sequence with one more element has at each place.
LEMMA AppendedAt ==
  ASSUME NEW s \in Seq(Byte), NEW e \in Byte
  PROVE  /\ Len(Append(s, e)) = Len(s) + 1
         /\ \A i \in 1 .. Len(s) : Append(s, e)[i] = s[i]
         /\ Append(s, e)[Len(s) + 1] = e
  OBVIOUS

\* A turn of the loop of read_ring (ring.h 63-70).
LEMMA OneReadTurn ==
  ASSUME NEW r \in Ring, NEW n \in Nat, NEW t \in ReadStates, ReadTurns(t, r, n)
  PROVE  ReadTurns(ReadTurn(t), r, n + 1)
  <1> DEFINE len == ring_length(r)
             k == t.result
             q == t.ring
             d == t.data
             e == ring_peek(q)
  <1>1. len \in Nat
    BY LengthIs
  <1>2. /\ k = Fewer(n, len) /\ q \in Ring /\ ring_length(q) = len - k
        /\ \A i \in 1 .. len - k : Contents(q)[i] = Contents(r)[k + i]
        /\ Len(d) = k
        /\ \A i \in 1 .. k : d[i] = Contents(r)[i]
    BY Zenon DEF ReadTurns, Taken
  <1>3. k \in Nat /\ d \in Seq(Byte)
    BY DEF ReadStates
  <1>4. ring_empty(q) <=> len - k = 0
    BY <1>2, EmptyFull, Zenon
  <1> HIDE DEF len, k, q, d, e
  <1>5. CASE ring_empty(q)
    <2>1. ReadTurn(t) = t
      BY <1>5, Zenon DEF ReadTurn, q
    <2>2. k = Fewer(n + 1, len)
      BY <1>1, <1>2, <1>3, <1>4, <1>5 DEF Fewer
    <2>3. ReadTurns(t, r, n + 1)
      BY <1>2, <2>2, Zenon DEF ReadTurns, Taken, len, k, q, d
    <2>. QED
      BY <2>1, <2>3, Zenon
  <1>6. CASE ~ring_empty(q)
    <2> DEFINE p == TakeByte(q)
               f == Append(d, e)
               v == ReadTurn(t)
    <2>1. v = [ring |-> p, result |-> k + 1, data |-> f]
      BY <1>6, Zenon DEF ReadTurn, q, k, d, e
    <2>2. v.ring = p /\ v.result = k + 1 /\ v.data = f /\ k + 1 \in Nat
      BY <1>3, <2>1
    <2>3. /\ p \in Ring
          /\ ring_length(p) = ring_length(q) - 1
          /\ e = Contents(q)[1]
          /\ \A i \in 1 .. ring_length(q) - 1 : Contents(p)[i] = Contents(q)[i + 1]
      BY <1>2, <1>6, TakeByteDropsFirst, Zenon DEF e
    <2>4. k = n /\ k < len /\ k + 1 = Fewer(n + 1, len)
      BY <1>1, <1>2, <1>3, <1>4, <1>6 DEF Fewer
    <2>5. e \in Byte
      BY <1>2, PeekType, Zenon DEF e
    <2>6. /\ Len(f) = k + 1
          /\ \A i \in 1 .. k : f[i] = d[i]
          /\ f[k + 1] = e
      <3>1. /\ Len(f) = Len(d) + 1
            /\ \A i \in 1 .. Len(d) : f[i] = d[i]
            /\ f[Len(d) + 1] = e
        BY <1>3, <2>5, AppendedAt, Zenon
      <3> HIDE DEF f
      <3>. QED
        BY <1>2, <3>1, Zenon
    <2> HIDE DEF p, f, v
    <2>7. ring_length(p) = len - (k + 1)
      BY <1>1, <1>2, <1>3, <2>3
    <2>8. ASSUME NEW i \in 1 .. len - (k + 1) PROVE Contents(p)[i] = Contents(r)[(k + 1) + i]
      <3>1. /\ i \in 1 .. (len - k) - 1 /\ i + 1 \in 1 .. len - k
            /\ k + (i + 1) = (k + 1) + i
        BY <1>1, <1>3
      <3>2. Contents(p)[i] = Contents(q)[i + 1]
        BY <1>2, <2>3, <3>1, Zenon
      <3>3. Contents(q)[i + 1] = Contents(r)[k + (i + 1)]
        BY <1>2, <3>1, Zenon
      <3>. QED
        BY <3>1, <3>2, <3>3, Zenon
    <2>9. ASSUME NEW i \in 1 .. k + 1 PROVE f[i] = Contents(r)[i]
      <3>1. CASE i = k + 1
        <4>1. 1 \in 1 .. len - k
          BY <1>1, <1>3, <2>4
        <4>. QED
          BY <1>2, <2>3, <2>6, <3>1, <4>1, Zenon
      <3>2. CASE i # k + 1
        <4>1. i \in 1 .. k
          BY <1>3, <3>2
        <4>. QED
          BY <1>2, <2>6, <4>1, Zenon
      <3>. QED
        BY <3>1, <3>2, Zenon
    <2>10. Taken(p, r, k + 1)
      BY <2>3, <2>7, <2>8, Zenon DEF Taken, len
    <2>11. ReadTurns(v, r, n + 1)
      BY <2>2, <2>4, <2>6, <2>9, <2>10, Zenon DEF ReadTurns, len
    <2>. QED
      BY <2>11, Zenon DEF v
  <1>. QED
    BY <1>5, <1>6, Zenon

\* g is the ring, the count and the bytes read after each turn of the loop.
Reads(g, r, m) ==
  /\ g \in [0 .. m -> ReadStates]
  /\ g[0] = [ring |-> r, result |-> 0, data |-> <<>>]
  /\ \A n \in 1 .. m : g[n] = ReadTurn(g[n - 1])

ReadRuns(r, m) == \E g : Reads(g, r, m) /\ read_ring(r, m) = g[m]

\* read_ring is the last value of a run of its loop.
LEMMA ReadRun ==
  ASSUME NEW m \in Nat, NEW r \in Ring
  PROVE  ReadRuns(r, m)
  <1> DEFINE S == ReadStates
             x == [ring |-> r, result |-> 0, data |-> <<>>]
             step == [n \in 1 .. m |-> [t \in S |-> ReadTurn(t)]]
             Eq(f) == f = [n \in 0 .. m |-> IF n = 0 THEN x ELSE ReadTurn(f[n - 1])]
             turn == CHOOSE f : Eq(f)
  <1>1. x \in S
    <2>1. <<>> \in Seq(Byte)
      OBVIOUS
    <2>2. 0 \in Nat
      OBVIOUS
    <2>. QED
      BY <2>1, <2>2, Zenon DEF ReadStates
  <1>2. step \in [1 .. m -> [S -> S]]
    BY ReadTurnType, Zenon
  <1>3. \E f : Eq(f)
    <2>1. PICK g : Run(g, m, x, step, S)
      <3> HIDE DEF S, step, x
      <3>. QED
        BY <1>1, <1>2, Runs, Zenon
    <2>2. \A n \in 1 .. m : n - 1 \in 0 .. m
      OBVIOUS
    <2>3. \A n \in 1 .. m : g[n] = ReadTurn(g[n - 1])
      BY <2>1, <2>2, Zenon DEF Run
    <2>4. \A n \in 0 .. m : n # 0 => n \in 1 .. m
      OBVIOUS
    <2> HIDE DEF x
    <2>5. \A n \in 0 .. m : g[n] = IF n = 0 THEN x ELSE ReadTurn(g[n - 1])
      BY <2>1, <2>3, <2>4, Zenon DEF Run
    <2>. QED
      BY <2>1, <2>5, Zenon DEF Run
  <1>4. Eq(turn)
    BY <1>3, Zenon
  <1>5. read_ring(r, m) = turn[m]
    BY Zenon DEF read_ring
  <1> HIDE DEF turn, x
  <1>6. /\ turn[0] = x
        /\ \A n \in 1 .. m : turn[n] = ReadTurn(turn[n - 1])
    <2>1. 0 \in 0 .. m /\ \A n \in 1 .. m : n \in 0 .. m /\ n # 0
      OBVIOUS
    <2>. QED
      BY <1>4, <2>1, Zenon
  <1> DEFINE T == {n \in 0 .. m : turn[n] \in S}
  <1>7. Climbs(T, m)
    <2>1. 0 \in T
      BY <1>1, <1>6
    <2>2. ASSUME NEW n \in 0 .. m - 1, n \in T
          PROVE  n + 1 \in T
      <3>1. n + 1 \in 1 .. m /\ n + 1 - 1 = n /\ n + 1 \in 0 .. m
        OBVIOUS
      <3>2. turn[n + 1] = ReadTurn(turn[n])
        BY <1>6, <3>1
      <3>3. turn[n] \in ReadStates
        BY <2>2
      <3>4. ReadTurn(turn[n]) \in ReadStates
        BY <3>3, ReadTurnType, Zenon
      <3>. QED
        BY <3>1, <3>2, <3>4, Zenon
    <2> HIDE DEF T
    <2>. QED
      BY <2>1, <2>2, Zenon DEF Climbs
  <1>8. \A n \in 0 .. m : turn[n] \in S
    <2>1. ASSUME NEW n \in 0 .. m PROVE n \in T
      <3> HIDE DEF T
      <3>. QED
        BY <1>7, Climb
    <2>. QED
      BY <2>1
  <1>9. Reads(turn, r, m)
    <2>1. turn \in [0 .. m -> S]
      BY <1>4, <1>8, Zenon
    <2>. QED
      BY <1>6, <2>1, Zenon DEF Reads, x
  <1>. QED
    BY <1>5, <1>9, Zenon DEF ReadRuns

\* What read_ring does to the ring r (ring.h 56-72).
LEMMA ReadRing ==
  ASSUME NEW m \in Nat, NEW r \in Ring
  PROVE  /\ read_ring(r, m) \in ReadStates
         /\ ReadTurns(read_ring(r, m), r, m)
  <1>1. PICK g : Reads(g, r, m) /\ read_ring(r, m) = g[m]
    <2>1. ReadRuns(r, m)
      BY ReadRun
    <2>. QED
      BY <2>1, Zenon DEF ReadRuns
  <1> DEFINE T == {n \in 0 .. m : ReadTurns(g[n], r, n)}
  <1>2. 0 \in T
    <2>1. g[0].ring = r /\ g[0].result = 0 /\ g[0].data = <<>>
      BY <1>1 DEF Reads
    <2>2. ring_length(r) \in Nat /\ 0 = Fewer(0, ring_length(r))
      BY LengthIs DEF Fewer
    <2>3. /\ ring_length(r) = ring_length(r) - 0 /\ Len(<<>>) = 0
          /\ \A i \in 1 .. ring_length(r) - 0 : 0 + i = i
          /\ \A i \in 1 .. 0 : FALSE
      BY <2>2
    <2>4. ReadTurns(g[0], r, 0)
      BY <2>1, <2>2, <2>3, Zenon DEF ReadTurns, Taken
    <2>5. 0 \in 0 .. m
      OBVIOUS
    <2>. QED
      BY <2>4, <2>5, Zenon
  <1>3. ASSUME NEW n \in 0 .. m - 1, n \in T
        PROVE  n + 1 \in T
    <2>1. n + 1 \in 1 .. m /\ (n + 1) - 1 = n /\ n \in 0 .. m /\ n + 1 \in 0 .. m /\ n \in Nat
      OBVIOUS
    <2>2. g[n + 1] = ReadTurn(g[n])
      <3>1. g[n + 1] = ReadTurn(g[(n + 1) - 1])
        BY <1>1, <2>1, Zenon DEF Reads
      <3>. QED
        BY <2>1, <3>1
    <2>3. g[n] \in ReadStates
      BY <1>1, <2>1, Zenon DEF Reads
    <2>4. ReadTurns(g[n], r, n)
      BY <1>3
    <2>5. ReadTurns(ReadTurn(g[n]), r, n + 1)
      BY <2>1, <2>3, <2>4, OneReadTurn, Zenon
    <2>. QED
      BY <2>1, <2>2, <2>5, Zenon
  <1> HIDE DEF T
  <1>4. Climbs(T, m)
    BY <1>2, <1>3, Zenon DEF Climbs
  <1>5. m \in T
    BY <1>4, Climb
  <1>6. m \in 0 .. m
    OBVIOUS
  <1>. QED
    BY <1>1, <1>5, <1>6, Zenon DEF T, Reads

\* What a ring holds is a sequence of ring_length bytes.
LEMMA ContentsType ==
  ASSUME NEW r \in Ring
  PROVE  Contents(r) \in Seq(Byte) /\ Len(Contents(r)) = ring_length(r) /\ ring_length(r) \in Nat
  <1>1. ring_length(r) \in 0 .. RingSize - 1
    BY LengthIs, RingSizeAssumption
  <1>2. ASSUME NEW i \in 1 .. ring_length(r)
        PROVE  r.buffer[(r.front + i - 1) % RingSize] \in Byte
    <2>1. (r.front + i - 1) % RingSize \in 0 .. RingSize - 1
      BY <1>1, RingSizeAssumption DEF Ring
    <2>2. r.buffer \in [0 .. RingSize - 1 -> Byte]
      BY DEF Ring
    <2>. QED
      BY <2>1, <2>2, Zenon
  <1>3. Contents(r) \in [1 .. ring_length(r) -> Byte]
    BY <1>2, Zenon DEF Contents
  <1> DEFINE n == ring_length(r)
             c == Contents(r)
  <1>4. n \in Nat /\ c \in [1 .. n -> Byte]
    BY <1>1, <1>3
  <1> HIDE DEF n, c
  <1>5. c \in Seq(Byte) /\ Len(c) = n
    BY <1>4
  <1>. QED
    BY <1>4, <1>5, Zenon DEF n, c

\* Two sequences with the same elements are the same.
LEMMA SameSequence ==
  ASSUME NEW s \in Seq(Byte), NEW t \in Seq(Byte), Len(s) = Len(t),
         \A i \in 1 .. Len(s) : s[i] = t[i]
  PROVE  s = t
  OBVIOUS

\* A sequence with a prefix of another behind it.
LEMMA Prefixed ==
  ASSUME NEW s \in Seq(Byte), NEW b \in Seq(Byte), NEW k \in 0 .. Len(b)
  PROVE  /\ s \o SubSeq(b, 1, k) \in Seq(Byte)
         /\ Len(s \o SubSeq(b, 1, k)) = Len(s) + k
         /\ \A i \in 1 .. Len(s) : (s \o SubSeq(b, 1, k))[i] = s[i]
         /\ \A i \in 1 .. k : (s \o SubSeq(b, 1, k))[Len(s) + i] = b[i]
  <1> DEFINE p == SubSeq(b, 1, k)
  <1>1. p \in Seq(Byte) /\ Len(p) = k /\ \A i \in 1 .. k : p[i] = b[i]
    OBVIOUS
  <1> HIDE DEF p
  <1>2. /\ s \o p \in Seq(Byte)
        /\ Len(s \o p) = Len(s) + Len(p)
        /\ \A i \in 1 .. Len(s) : (s \o p)[i] = s[i]
        /\ \A i \in 1 .. Len(p) : (s \o p)[Len(s) + i] = p[i]
    <2>1. s \o p \in Seq(Byte) /\ Len(s \o p) = Len(s) + Len(p)
      BY <1>1
    <2>2. \A i \in 1 .. Len(s) : (s \o p)[i] = s[i]
      BY <1>1
    <2>3. ASSUME NEW i \in 1 .. Len(p) PROVE (s \o p)[Len(s) + i] = p[i]
      <3>1. /\ Len(s) + i \in 1 .. Len(s) + Len(p) /\ ~(Len(s) + i <= Len(s))
            /\ (Len(s) + i) - Len(s) = i
        BY <1>1
      <3>2. \A j \in 1 .. Len(s) + Len(p) :
              (s \o p)[j] = IF j <= Len(s) THEN s[j] ELSE p[j - Len(s)]
        BY <1>1
      <3>. QED
        BY <3>1, <3>2, Zenon
    <2>. QED
      BY <2>1, <2>2, <2>3, Zenon
  <1>3. /\ Len(s \o p) = Len(s) + k
        /\ \A i \in 1 .. k : (s \o p)[Len(s) + i] = b[i]
    BY <1>1, <1>2, Zenon
  <1>. QED
    BY <1>2, <1>3, Zenon DEF p

\* The two parts of a sequence that is cut behind its k-th element.
LEMMA Suffixed ==
  ASSUME NEW s \in Seq(Byte), NEW k \in 0 .. Len(s)
  PROVE  /\ SubSeq(s, k + 1, Len(s)) \in Seq(Byte)
         /\ Len(SubSeq(s, k + 1, Len(s))) = Len(s) - k
         /\ \A i \in 1 .. Len(s) - k : SubSeq(s, k + 1, Len(s))[i] = s[k + i]
         /\ SubSeq(s, 1, k) \in Seq(Byte)
         /\ Len(SubSeq(s, 1, k)) = k
         /\ \A i \in 1 .. k : SubSeq(s, 1, k)[i] = s[i]
  OBVIOUS

\* write_ring appends the longest prefix that fits and returns its length.
LEMMA WriteAppends ==
  ASSUME NEW m \in Nat, NEW bytes \in [1 .. m -> Byte], NEW r \in Ring, NEW w,
         w = write_ring(r, bytes)
  PROVE  /\ w.ring \in Ring
         /\ w.result = Fewer(m, RingSize - 1 - Len(Contents(r)))
         /\ Contents(w.ring) = Contents(r) \o SubSeq(bytes, 1, w.result)
  <1> DEFINE k == w.result
             q == w.ring
             c == Contents(r)
             d == Contents(q)
             e == c \o SubSeq(bytes, 1, k)
  <1>1. WriteTurns(w, r, bytes, m)
    BY WriteRing
  <1>2. /\ k = Fewer(m, RingSize - 1 - ring_length(r))
        /\ q \in Ring
        /\ ring_length(q) = ring_length(r) + k
        /\ \A i \in 1 .. ring_length(r) : d[i] = c[i]
        /\ \A i \in 1 .. k : d[ring_length(r) + i] = bytes[i]
    BY <1>1, Zenon DEF WriteTurns, Written
  <1>3. c \in Seq(Byte) /\ Len(c) = ring_length(r) /\ ring_length(r) \in Nat
    BY ContentsType, Zenon
  <1>4. d \in Seq(Byte) /\ Len(d) = ring_length(q)
    BY <1>2, ContentsType, Zenon
  <1>5. bytes \in Seq(Byte) /\ Len(bytes) = m
    OBVIOUS
  <1>6. k \in 0 .. Len(bytes)
    <2>1. ring_length(r) <= RingSize - 1 /\ RingSize \in Nat
      BY LengthIs, RingSizeAssumption
    <2> HIDE DEF k
    <2>. QED
      BY <1>2, <1>3, <1>5, <2>1 DEF Fewer
  <1> HIDE DEF k, q, c, d
  <1>7. /\ e \in Seq(Byte) /\ Len(e) = Len(c) + k
        /\ \A i \in 1 .. Len(c) : e[i] = c[i]
        /\ \A i \in 1 .. k : e[Len(c) + i] = bytes[i]
    BY <1>3, <1>5, <1>6, Prefixed, Zenon
  <1> HIDE DEF e
  <1>8. ASSUME NEW i \in 1 .. Len(d) PROVE d[i] = e[i]
    <2>1. CASE i <= Len(c)
      <3>1. i \in 1 .. Len(c)
        BY <1>3, <1>4, <2>1
      <3>. QED
        BY <1>2, <1>3, <1>7, <3>1, Zenon
    <2>2. CASE ~(i <= Len(c))
      <3>1. i - Len(c) \in 1 .. k /\ Len(c) + (i - Len(c)) = i
        BY <1>2, <1>3, <1>4, <1>5, <1>6, <2>2
      <3>2. d[Len(c) + (i - Len(c))] = bytes[i - Len(c)] /\ e[Len(c) + (i - Len(c))] = bytes[i - Len(c)]
        BY <1>2, <1>3, <1>7, <3>1, Zenon
      <3>. QED
        BY <3>1, <3>2, Zenon
    <2>. QED
      BY <2>1, <2>2, Zenon
  <1>9. Len(d) = Len(e)
    BY <1>2, <1>3, <1>4, <1>7, Zenon
  <1>10. d = e
    BY <1>4, <1>7, <1>8, <1>9, SameSequence, Zenon
  <1>. QED
    BY <1>2, <1>3, <1>10, Zenon DEF k, q, c, d, e

\* read_ring hands out the oldest bytes in order and keeps the others.
LEMMA ReadRemoves ==
  ASSUME NEW m \in Nat, NEW r \in Ring, NEW t, t = read_ring(r, m)
  PROVE  /\ t.ring \in Ring
         /\ t.result = Fewer(m, Len(Contents(r)))
         /\ t.data = SubSeq(Contents(r), 1, t.result)
         /\ Contents(t.ring) = SubSeq(Contents(r), t.result + 1, Len(Contents(r)))
  <1> DEFINE k == t.result
             q == t.ring
             c == Contents(r)
             d == Contents(q)
             e == SubSeq(c, k + 1, Len(c))
             f == SubSeq(c, 1, k)
             g == t.data
  <1>1. t \in ReadStates /\ ReadTurns(t, r, m)
    BY ReadRing, Zenon
  <1>2. /\ k = Fewer(m, ring_length(r))
        /\ q \in Ring
        /\ ring_length(q) = ring_length(r) - k
        /\ \A i \in 1 .. ring_length(r) - k : d[i] = c[k + i]
        /\ Len(g) = k
        /\ \A i \in 1 .. k : g[i] = c[i]
    BY <1>1, Zenon DEF ReadTurns, Taken
  <1>3. c \in Seq(Byte) /\ Len(c) = ring_length(r) /\ ring_length(r) \in Nat
    BY ContentsType, Zenon
  <1>4. d \in Seq(Byte) /\ Len(d) = ring_length(q)
    BY <1>2, ContentsType, Zenon
  <1>5. g \in Seq(Byte)
    BY <1>1 DEF ReadStates
  <1> HIDE DEF k, q, c, d, g
  <1>6. k \in 0 .. Len(c)
    BY <1>2, <1>3 DEF Fewer
  <1>7. /\ e \in Seq(Byte) /\ Len(e) = Len(c) - k
        /\ \A i \in 1 .. Len(c) - k : e[i] = c[k + i]
        /\ f \in Seq(Byte) /\ Len(f) = k
        /\ \A i \in 1 .. k : f[i] = c[i]
    BY <1>3, <1>6, Suffixed, Zenon
  <1> HIDE DEF e, f
  <1>8. Len(d) = Len(e) /\ \A i \in 1 .. Len(d) : d[i] = e[i]
    BY <1>2, <1>3, <1>4, <1>7, Zenon
  <1>9. Len(g) = Len(f) /\ \A i \in 1 .. Len(g) : g[i] = f[i]
    BY <1>2, <1>7, Zenon
  <1>10. d = e
    BY <1>4, <1>7, <1>8, SameSequence, Zenon
  <1>11. g = f
    BY <1>5, <1>7, <1>9, SameSequence, Zenon
  <1>. QED
    BY <1>2, <1>3, <1>10, <1>11, Zenon DEF k, q, c, d, e, f, g

\* The invariant of the stream: the structure is a ring.
StreamInv == ring \in Ring

\* A chunk is a sequence of bytes.
LEMMA ChunkIs ==
  ASSUME NEW bytes \in Chunks
  PROVE  \E m \in Nat : bytes \in [1 .. m -> Byte]
  <1>1. \A m \in 0 .. MaxChunk : m \in Nat
    OBVIOUS
  <1>. QED
    BY <1>1, Zenon DEF Chunks

\* A ring whose indices are both 0 holds nothing.
LEMMA EmptyContents ==
  ASSUME NEW r \in Ring, r.front = 0, r.rear = 0
  PROVE  Contents(r) = <<>>
  <1>1. ring_length(r) = 0
    BY RingSizeAssumption DEF ring_length
  <1>2. Contents(r) \in Seq(Byte) /\ Len(Contents(r)) = 0
    BY <1>1, ContentsType, Zenon
  <1>. QED
    BY <1>2

\* A call of write_ring is a write of the queue (ring.h 39-54).
LEMMA WriteStep ==
  ASSUME StreamInv, NEW bytes \in Chunks, Write(bytes)
  PROVE  StreamInv' /\ Fifo!Write(bytes)
  <1> DEFINE w == write_ring(ring, bytes)
  <1>1. PICK m \in Nat : bytes \in [1 .. m -> Byte]
    BY ChunkIs, Zenon
  <1>2. /\ ring' = w.ring /\ call' = <<"write", bytes>>
        /\ returned' = [result |-> w.result, data |-> <<>>]
    BY Zenon DEF Write
  <1>3. ring \in Ring
    BY Zenon DEF StreamInv
  <1>4. /\ w.ring \in Ring
        /\ w.result = Fewer(m, RingSize - 1 - Len(Contents(ring)))
        /\ Contents(w.ring) = Contents(ring) \o SubSeq(bytes, 1, w.result)
    BY <1>1, <1>3, WriteAppends, Zenon
  <1>5. Len(bytes) = m
    BY <1>1
  <1> HIDE DEF w
  <1>6. w.result = Fifo!Min2(Len(bytes), RingSize - 1 - Len(Contents(ring)))
    BY <1>4, <1>5, Zenon DEF Fewer, Fifo!Min2
  <1>7. Contents(ring') = Contents(ring) \o SubSeq(bytes, 1, w.result)
    BY <1>2, <1>4, Zenon
  <1>8. Contents(ring)' = Contents(ring')
    BY DEF Contents, ring_length
  <1>9. Fifo!Write(bytes)
    BY <1>2, <1>6, <1>7, <1>8, Zenon DEF Fifo!Write
  <1>. QED
    BY <1>2, <1>4, <1>9, Zenon DEF StreamInv

\* A call of read_ring is a read of the queue (ring.h 56-72).
LEMMA ReadStep ==
  ASSUME StreamInv, NEW size \in 0 .. MaxChunk, Read(size)
  PROVE  StreamInv' /\ Fifo!Read(size)
  <1> DEFINE t == read_ring(ring, size)
  <1>1. size \in Nat
    OBVIOUS
  <1>2. /\ ring' = t.ring /\ call' = <<"read", size>>
        /\ returned' = [result |-> t.result, data |-> t.data]
    BY Zenon DEF Read
  <1>3. ring \in Ring
    BY Zenon DEF StreamInv
  <1>4. /\ t.ring \in Ring
        /\ t.result = Fewer(size, Len(Contents(ring)))
        /\ t.data = SubSeq(Contents(ring), 1, t.result)
        /\ Contents(t.ring) = SubSeq(Contents(ring), t.result + 1, Len(Contents(ring)))
    BY <1>1, <1>3, ReadRemoves
  <1> HIDE DEF t
  <1>6. t.result = Fifo!Min2(size, Len(Contents(ring)))
    BY <1>4, Zenon DEF Fewer, Fifo!Min2
  <1>7. Contents(ring') = SubSeq(Contents(ring), t.result + 1, Len(Contents(ring)))
    BY <1>2, <1>4, Zenon
  <1>8. Contents(ring)' = Contents(ring')
    BY DEF Contents, ring_length
  <1>9. Fifo!Read(size)
    BY <1>2, <1>4, <1>6, <1>7, <1>8, Zenon DEF Fifo!Read
  <1>. QED
    BY <1>2, <1>4, <1>9, Zenon DEF StreamInv

\* ring_reset leaves a ring, with both indices 0.
LEMMA ResetType ==
  ASSUME NEW r \in Ring
  PROVE  ring_reset(r) \in Ring /\ ring_reset(r).front = 0 /\ ring_reset(r).rear = 0
  <1>1. r.buffer \in [0 .. RingSize - 1 -> Byte] /\ 0 \in 0 .. RingSize - 1
    BY RingSizeAssumption DEF Ring
  <1>2. ring_reset(r) = [front |-> 0, rear |-> 0, buffer |-> r.buffer]
    <2> DEFINE s == [r EXCEPT !.front = 0]
    <2>1. s = [front |-> 0, rear |-> r.rear, buffer |-> r.buffer]
      BY DEF Ring
    <2>2. ring_reset(r) = [s EXCEPT !.rear = 0]
      BY Zenon DEF ring_reset
    <2> HIDE DEF s
    <2>3. [s EXCEPT !.rear = 0] = [front |-> 0, rear |-> 0, buffer |-> r.buffer]
      BY <2>1
    <2>. QED
      BY <2>2, <2>3, Zenon
  <1>. QED
    BY <1>1, <1>2 DEF Ring

\* A call of ring_reset empties the queue (ring.h 20-23).
LEMMA ResetStep ==
  ASSUME StreamInv, Reset
  PROVE  StreamInv' /\ Fifo!Reset
  <1>1. ring \in Ring /\ ring' = ring_reset(ring) /\ call' = <<"reset">> /\ returned' = Nothing
    BY Zenon DEF StreamInv, Reset
  <1>2. ring_reset(ring) \in Ring /\ ring_reset(ring).front = 0 /\ ring_reset(ring).rear = 0
    BY <1>1, ResetType, Zenon
  <1>3. Contents(ring') = <<>>
    BY <1>1, <1>2, EmptyContents, Zenon
  <1>4. Contents(ring)' = Contents(ring')
    BY DEF Contents, ring_length
  <1>. QED
    BY <1>1, <1>2, <1>3, <1>4, Zenon DEF StreamInv, Fifo!Reset, Fifo!Nothing, Nothing

\* The byte ring implements the bounded first-in first-out queue.
THEOREM StreamImplementsFifo == StreamSpec => FifoSpec
  <1>1. StreamInit => StreamInv /\ Fifo!Init
    <2>1. SUFFICES ASSUME StreamInit PROVE StreamInv /\ Fifo!Init
      OBVIOUS
    <2>2. ring \in Ring /\ ring.front = 0 /\ ring.rear = 0
      BY <2>1, Zenon DEF StreamInit
    <2>3. Contents(ring) = <<>>
      BY <2>2, EmptyContents, Zenon
    <2>. QED
      BY <2>1, <2>2, <2>3, Zenon DEF StreamInit, StreamInv, Fifo!Init, Fifo!Nothing, Nothing
  <1>2. StreamInv /\ [StreamNext]_streamvars
        => StreamInv' /\ [Fifo!Next]_<<Contents(ring), call, returned>>
    <2> SUFFICES ASSUME StreamInv, [StreamNext]_streamvars
                 PROVE  StreamInv' /\ [Fifo!Next]_<<Contents(ring), call, returned>>
      OBVIOUS
    <2>1. ASSUME NEW bytes \in Chunks, Write(bytes)
          PROVE  StreamInv' /\ Fifo!Next
      BY <2>1, WriteStep, Zenon DEF Fifo!Next, Fifo!Chunks, Chunks
    <2>2. ASSUME NEW size \in 0 .. MaxChunk, Read(size)
          PROVE  StreamInv' /\ Fifo!Next
      BY <2>2, ReadStep, Zenon DEF Fifo!Next
    <2>3. ASSUME Reset
          PROVE  StreamInv' /\ Fifo!Next
      BY <2>3, ResetStep, Zenon DEF Fifo!Next
    <2>4. ASSUME UNCHANGED streamvars
          PROVE  StreamInv' /\ UNCHANGED <<Contents(ring), call, returned>>
      BY <2>4 DEF streamvars, StreamInv, Contents, ring_length
    <2>. QED
      BY <2>1, <2>2, <2>3, <2>4, Zenon DEF StreamNext
  <1>. QED
    BY <1>1, <1>2, PTL DEF StreamSpec, FifoSpec, Fifo!Spec
=============================================================================
