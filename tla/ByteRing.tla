------------------------------ MODULE ByteRing ------------------------------
(***************************************************************************)
(* The byte ring of lib64/include/ring.h: a queue of bytes in a static     *)
(* array, used by the VM monitor to hold the scancodes a guest has not yet *)
(* taken.  A ring is a record of the C structure's fields; ring_size is    *)
(* the constant RingSize.  This module has no state: the modules that own  *)
(* a ring apply these operators to their variable.                         *)
(***************************************************************************)
EXTENDS Integers, Sequences

CONSTANTS
  Byte,      \* the bytes a ring may hold
  RingSize   \* ring_size, "the capacity of the ring plus 1"

ASSUME RingSizeAssumption == RingSize \in Nat \ {0}

Ring == [front  : 0 .. RingSize - 1,
         rear   : 0 .. RingSize - 1,
         buffer : [0 .. RingSize - 1 -> Byte]]

ring_reset(r) == [r EXCEPT !.front = 0, !.rear = 0]

ring_empty(r) == r.front = r.rear

ring_full(r) == (r.rear + 1) % RingSize = r.front

ring_length(r) == (r.rear + RingSize - r.front) % RingSize

ring_peek(r) == r.buffer[r.front]

\* Mutant: rear is advanced before the byte is stored.
PutByte_swapped(r, b) ==
  IF ring_full(r)
  THEN r
  ELSE [r EXCEPT !.rear = (r.rear + 1) % RingSize, !.buffer[(r.rear + 1) % RingSize] = b]

\* One turn of the loop of write_ring: store at rear, advance rear.
PutByte(r, b) ==
  IF ring_full(r)
  THEN r
  ELSE [r EXCEPT !.buffer[r.rear] = b, !.rear = (r.rear + 1) % RingSize]

\* One turn of the loop of read_ring: advance front.
TakeByte(r) ==
  IF ring_empty(r)
  THEN r
  ELSE [r EXCEPT !.front = (r.front + 1) % RingSize]

\* ring_enqueue and ring_dequeue are write_ring and read_ring of one byte:
\* exactly one turn of the loop.  ByteStream has the loops themselves.
ring_enqueue(r, b) == PutByte(r, b)

ring_dequeue(r) == TakeByte(r)

\* What a ring holds, oldest byte first: the abstract value of a ring.
Contents(r) ==
  [i \in 1 .. ring_length(r) |-> r.buffer[(r.front + i - 1) % RingSize]]
=============================================================================
