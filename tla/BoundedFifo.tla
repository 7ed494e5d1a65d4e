---------------------------- MODULE BoundedFifo ----------------------------
(***************************************************************************)
(* What a byte ring promises its user: a first-in first-out queue of at    *)
(* most Capacity bytes.  A write that does not fit is cut short and says   *)
(* how much it took; a read that asks for too much returns what there is.  *)
(***************************************************************************)
EXTENDS Integers, Sequences

CONSTANTS
  Byte,       \* the bytes of the stream
  Capacity,   \* how many bytes the queue holds
  MaxChunk    \* the largest number of bytes one call transfers

VARIABLES
  queue,      \* the bytes written and not yet read
  call,       \* the last call and its argument
  returned    \* the count the last call returned and the bytes it read

Chunks == UNION {[1 .. n -> Byte] : n \in 0 .. MaxChunk}

Min2(a, b) == IF a < b THEN a ELSE b

Nothing == [result |-> 0, data |-> <<>>]

Init == queue = <<>> /\ call = <<"none">> /\ returned = Nothing

Write(bytes) ==
  LET n == Min2(Len(bytes), Capacity - Len(queue)) IN
  /\ call' = <<"write", bytes>>
  /\ queue' = queue \o SubSeq(bytes, 1, n)
  /\ returned' = [result |-> n, data |-> <<>>]

Read(size) ==
  LET n == Min2(size, Len(queue)) IN
  /\ call' = <<"read", size>>
  /\ queue' = SubSeq(queue, n + 1, Len(queue))
  /\ returned' = [result |-> n, data |-> SubSeq(queue, 1, n)]

Reset == queue' = <<>> /\ call' = <<"reset">> /\ returned' = Nothing

Next ==
  \/ \E bytes \in Chunks : Write(bytes)
  \/ \E size \in 0 .. MaxChunk : Read(size)
  \/ Reset

Spec == Init /\ [][Next]_<<queue, call, returned>>
=============================================================================
