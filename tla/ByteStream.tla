----------------------------- MODULE ByteStream -----------------------------
(***************************************************************************)
(* A user of one byte ring: every operation of ring.h that changes the     *)
(* ring, in any order, with chunks of up to MaxChunk bytes.  The ring      *)
(* wraps around, fills and empties; the specification is shown to          *)
(* implement the bounded queue of BoundedFifo.                             *)
(***************************************************************************)
EXTENDS ByteRing

CONSTANT MaxChunk   \* the largest number of bytes one call transfers

ASSUME MaxChunkAssumption == MaxChunk \in Nat

Chunks == UNION {[1 .. n -> Byte] : n \in 0 .. MaxChunk}

VARIABLES
  ring,             \* the struct ring
  call,             \* the last call and its argument
  returned          \* the count the last call returned and the bytes it read

streamvars == <<ring, call, returned>>

Nothing == [result |-> 0, data |-> <<>>]

\* The owner clears the structure and the array is whatever it was: nothing
\* in ring.h initialises it.
StreamInit ==
  /\ ring \in {r \in Ring : r.front = 0 /\ r.rear = 0}
  /\ call = <<"none">>
  /\ returned = Nothing

\* A turn of the loop of write_ring.  A turn that finds the ring full leaves
\* it full, so every later turn is idle as well.
WriteTurn(w, b) ==
  IF ring_full(w.ring)
  THEN w
  ELSE [ring |-> PutByte(w.ring, b), result |-> w.result + 1]

\* write_ring: as many of the bytes as fit, from the first.
write_ring(r, bytes) ==
  LET turn[n \in 0 .. Len(bytes)] ==
        IF n = 0 THEN [ring |-> r, result |-> 0] ELSE WriteTurn(turn[n - 1], bytes[n])
  IN  turn[Len(bytes)]

\* A turn of the loop of read_ring; data is what is stored in the caller's
\* buffer.
ReadTurn(t) ==
  IF ring_empty(t.ring)
  THEN t
  ELSE [ring |-> TakeByte(t.ring),
        result |-> t.result + 1,
        data |-> Append(t.data, ring_peek(t.ring))]

\* read_ring: at most size bytes, the oldest first.
read_ring(r, size) ==
  LET turn[n \in 0 .. size] ==
        IF n = 0 THEN [ring |-> r, result |-> 0, data |-> <<>>] ELSE ReadTurn(turn[n - 1])
  IN  turn[size]

Write(bytes) ==
  LET w == write_ring(ring, bytes) IN
  /\ ring' = w.ring
  /\ call' = <<"write", bytes>>
  /\ returned' = [result |-> w.result, data |-> <<>>]

Read(size) ==
  LET t == read_ring(ring, size) IN
  /\ ring' = t.ring
  /\ call' = <<"read", size>>
  /\ returned' = [result |-> t.result, data |-> t.data]

Reset ==
  ring' = ring_reset(ring) /\ call' = <<"reset">> /\ returned' = Nothing

StreamNext ==
  \/ \E bytes \in Chunks : Write(bytes)
  \/ \E size \in 0 .. MaxChunk : Read(size)
  \/ Reset

StreamSpec == StreamInit /\ [][StreamNext]_streamvars

Fifo == INSTANCE BoundedFifo
          WITH queue <- Contents(ring), Capacity <- RingSize - 1

\* The ring implements the bounded first-in first-out queue: whatever the
\* chunks, the wrap-around and the fullness, write_ring appends the longest
\* prefix that fits and read_ring hands out the oldest bytes (ring.h 33-84).
FifoSpec == Fifo!Spec
=============================================================================
